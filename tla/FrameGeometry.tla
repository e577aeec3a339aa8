---------------------------- MODULE FrameGeometry ----------------------------
(***************************************************************************)
(* Which frames an output frame needs.  An anchor frame a searches similar *)
(* patches in a temporal window around a and adds its results to the       *)
(* output frames it touches; an output frame is the quotient of what its   *)
(* contributing anchors added.  The CUDA plugin computes these ranges in   *)
(* derive_geometry, contributing_anchors, anchor_source_range and          *)
(* required_source_range; the CPU filters in compute_temporal_range,       *)
(* input_frame_range_for_anchor, ContributionLayout and the aggregate_     *)
(* anchor functions.                                                       *)
(*                                                                         *)
(* p is a filter's parameters: [frames, pt, bwd, fwd], the clip length,    *)
(* patch_time, search_bwd and search_fwd.                                  *)
(***************************************************************************)
EXTENDS Integers

Least(a, b)    == IF a <= b THEN a ELSE b
Greatest(a, b) == IF a >= b THEN a ELSE b

\* The parameters validate_parameters lets through.
ValidParameters(p) ==
    /\ p.frames \in Nat /\ p.pt \in Nat /\ p.bwd \in Nat /\ p.fwd \in Nat
    /\ 1 <= p.pt /\ p.pt <= p.frames

-----------------------------------------------------------------------------
(* derive_geometry *)

ValidAnchorFrames(p) == p.frames - p.pt + 1
TemporalCount(p)     == Least(p.bwd + p.fwd + 1, ValidAnchorFrames(p))
CachedFrames(p)      == TemporalCount(p) + p.pt - 1
ContributionSlots(p) == p.bwd + p.fwd + p.pt
MaxContributors(p)   == Least(ValidAnchorFrames(p), ContributionSlots(p))
MaxSourceWindow(p)   == Least(p.frames, 2 * (p.bwd + p.fwd + p.pt - 1) + 1)

-----------------------------------------------------------------------------
(* Ranges of frames, both ends included. *)

\* Mutant: the forward reach forgets the frames inside a patch.
ContributingAnchors_NoPatchTime(p, f) ==
    [first |-> Greatest(0, f - p.fwd),
     last  |-> Least(ValidAnchorFrames(p) - 1, Greatest(0, f + p.bwd))]
\* The anchors that may contribute to output frame f.
ContributingAnchors(p, f) ==
    [first |-> Greatest(0, f - p.fwd - (p.pt - 1)),
     last  |-> Least(ValidAnchorFrames(p) - 1, Greatest(0, f + p.bwd))]

\* How far the search window is moved to stay inside the clip.
Shift(p, a) ==
    Least(0, a - p.bwd) + Greatest(0, a + p.fwd - (ValidAnchorFrames(p) - 1))

\* Mutant: a window at the border is cut instead of moved.
SearchWindow_Cut(p, a) ==
    [low  |-> Greatest(0, a - p.bwd),
     high |-> Least(ValidAnchorFrames(p) - 1, a + p.fwd)]
\* The candidate patch origins of anchor a (compute_temporal_range).
SearchWindow(p, a) ==
    [low  |-> Greatest(0, a - p.bwd - Shift(p, a)),
     high |-> Least(ValidAnchorFrames(p) - 1, a + p.fwd - Shift(p, a))]

\* The source frames anchor a reads.
AnchorSourceRange(p, a) ==
    [first |-> SearchWindow(p, a).low, last |-> SearchWindow(p, a).high + p.pt - 1]

Anchors(p, f) == ContributingAnchors(p, f).first .. ContributingAnchors(p, f).last

Lowest(S)  == CHOOSE m \in S : \A x \in S : m <= x
Highest(S) == CHOOSE m \in S : \A x \in S : m >= x

\* The contiguous source window the renderer leases for output frame f.
RequiredSourceRange(p, f) ==
    [first |-> Lowest({f} \cup {AnchorSourceRange(p, a).first : a \in Anchors(p, f)}),
     last  |-> Highest({f} \cup {AnchorSourceRange(p, a).last : a \in Anchors(p, f)})]

-----------------------------------------------------------------------------
(* ContributionLayout: where anchor a keeps its part of output frame f. *)

\* Mutant: an offset of one.
SlotForOutput_OffByOne(p, a, f) == f - a + p.bwd + 1
SlotForOutput(p, a, f) == f - a + p.bwd
ContainsOutput(p, a, f) == f - a + p.bwd >= 0 /\ f - a + p.bwd < ContributionSlots(p)

(* The CPU aggregate filter. *)
\* Mutant: backward and forward reach exchanged.
AggregateLastAnchor_Swapped(p, f) == Least(p.frames - 1, f + p.fwd)
AggregateFirstAnchor(p, f) == Greatest(0, f - (p.fwd + p.pt - 1))
AggregateLastAnchor(p, f)  == Least(p.frames - 1, f + p.bwd)
=============================================================================
