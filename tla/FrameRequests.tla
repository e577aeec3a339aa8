---------------------------- MODULE FrameRequests ----------------------------
(***************************************************************************)
(* A filter instance is created for a clip and asked for its frames in any *)
(* order: what FrameGeometry computes for each request fits the buffers    *)
(* and caches sized once by derive_geometry.                               *)
(***************************************************************************)
EXTENDS FrameGeometry, FiniteSets

CONSTANT Filters        \* bound: the filters tried, records of parameters

VARIABLES filter,       \* the parameters of the instance, from its creation
          frame         \* the frame being rendered

requestVars == <<filter, frame>>

RequestInit ==
    /\ filter \in {p \in Filters : ValidParameters(p)}
    /\ frame = 0

GetFrame(n) == frame' = n /\ UNCHANGED filter

RequestNext == \E n \in 0..(filter.frames - 1) : GetFrame(n)

RequestSpec == RequestInit /\ [][RequestNext]_requestVars

-----------------------------------------------------------------------------
Window == RequiredSourceRange(filter, frame)

\* A request needs at least one anchor, no more contributions than the cache
\* and the worker's tables hold, and no more source frames than fit a window.
RequestFitsReservations ==
    /\ Cardinality(Anchors(filter, frame)) \in 1..MaxContributors(filter)
    /\ Window.last - Window.first + 1 <= MaxSourceWindow(filter)
    /\ Window.first >= 0 /\ Window.last < filter.frames

\* Every anchor searches as many frames as the kernels were sized for: at the
\* clip's borders the window moves, it never shrinks (cached_frames).
AnchorWindowHasFixedSize(a) ==
    LET range == AnchorSourceRange(filter, a)
    IN  /\ range.first >= 0 /\ range.last < filter.frames
        /\ range.last - range.first + 1 = CachedFrames(filter)
        /\ a \in SearchWindow(filter, a).low .. SearchWindow(filter, a).high

\* The leased window holds the frame itself and every frame an anchor reads,
\* wherever its window of fixed size was moved.
WindowCoversSources ==
    /\ frame \in Window.first .. Window.last
    /\ \A a \in Anchors(filter, frame) :
          /\ AnchorWindowHasFixedSize(a)
          /\ Window.first <= AnchorSourceRange(filter, a).first
          /\ AnchorSourceRange(filter, a).last <= Window.last

\* Writer and reader agree: an anchor keeps a part for an output frame exactly
\* when that output frame asks for the anchor, at a slot inside the layout.
ContributionsFindTheirReader ==
    \A a \in 0..(ValidAnchorFrames(filter) - 1) :
        /\ ContainsOutput(filter, a, frame) <=> a \in Anchors(filter, frame)
        /\ a \in Anchors(filter, frame) =>
              SlotForOutput(filter, a, frame) \in 0..(ContributionSlots(filter) - 1)

\* The CPU aggregate filter sums the same contributions: it asks for the same
\* anchors, and besides only for anchor frames too late to start a patch.
FiltersAgreeOnAnchors ==
    {a \in AggregateFirstAnchor(filter, frame) .. AggregateLastAnchor(filter, frame) :
        a < ValidAnchorFrames(filter)} = Anchors(filter, frame)
=============================================================================
