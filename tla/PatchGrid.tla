------------------------------ MODULE PatchGrid ------------------------------
(***************************************************************************)
(* Which patches of an anchor frame are processed.  Both implementations   *)
(* take the first and the last row and column and every step-th between    *)
(* them, staggered by a phase that moves with the frame and the row.  The  *)
(* CUDA plugin lists the origins (build_anchor_grid) into tables sized     *)
(* once for the worst phase (derive_geometry); the CPU marks them in a     *)
(* mask (initialize_frame_processing_mask).                                *)
(*                                                                         *)
(* g is the geometry [width, height, patch, step, anchors]: patch_size,    *)
(* the normalised proc_step and valid_anchor_frames.                       *)
(***************************************************************************)
EXTENDS Integers, Sequences, FiniteSets, FiniteSetsExt

MaxX(g) == g.width - g.patch
MaxY(g) == g.height - g.patch
ValidGeometry(g) ==
    /\ {g.width, g.height, g.patch, g.step, g.anchors} \subseteq Nat \ {0}
    /\ g.patch <= g.width /\ g.patch <= g.height

-----------------------------------------------------------------------------
(* cuda_plugin.cpp: the positions on an axis, in the order of the calls. *)

\* Mutant: the last position before the end is lost.
Between_Short(maximum, step, phase) ==
    LET start == IF phase % step = 0 THEN step ELSE phase % step
        count == IF start < maximum THEN (maximum - 1 - start) \div step ELSE 0
    IN [k \in 1..count |-> start + (k - 1) * step]
\* The positions strictly between the ends: from the phase's residue, or from
\* step when that is zero, every step-th below maximum.
Between(maximum, step, phase) ==
    LET start == IF phase % step = 0 THEN step ELSE phase % step
        count == IF start < maximum THEN (maximum - 1 - start) \div step + 1 ELSE 0
    IN [k \in 1..count |-> start + (k - 1) * step]

AxisPositions(maximum, step, phase) ==
    IF maximum = 0 THEN <<0>>
    ELSE <<0>> \o Between(maximum, step, phase) \o <<maximum>>

\* Mutant: the last row is staggered like the others.
RowPhase_LastStaggered(g, phaseY, y) == phaseY + y \div g.step
\* The last row is not staggered.
RowPhase(g, phaseY, y) == IF y = MaxY(g) THEN 0 ELSE phaseY + y \div g.step

RowOrigins(g, phaseY, y) ==
    LET xs == AxisPositions(MaxX(g), g.step, RowPhase(g, phaseY, y))
    IN [i \in DOMAIN xs |-> <<xs[i], y>>]

\* The origins of a grid, row after row.
Grid(g, phaseY) ==
    LET ys == AxisPositions(MaxY(g), g.step, phaseY)
        rows[i \in 0..Len(ys)] ==
            IF i = 0 THEN <<>> ELSE rows[i - 1] \o RowOrigins(g, phaseY, ys[i])
    IN rows[Len(ys)]

AnchorCountForPhase(g, phaseY) == Len(Grid(g, phaseY))

\* Mutant: only the phase of the first frame is counted.
TotalGroups_FirstPhase(g) == AnchorCountForPhase(g, 0)
\* Capacity of the anchor tables: the worst phase a frame can have.
TotalGroups(g) ==
    LET last == Min({g.step - 1, Max({0, g.anchors - 2})})
    IN Max({AnchorCountForPhase(g, phase) : phase \in 0..last})

\* The phase of an anchor frame: the last frame is not staggered.
FramePhase(g, a) == IF a = g.anchors - 1 THEN 0 ELSE a % g.step

AnchorGrid(g, a) == Grid(g, FramePhase(g, a))

-----------------------------------------------------------------------------
(* core.cpp: the processing mask. *)

MaskSelected(g, a, x, y) ==
    LET phaseY == IF a = g.anchors - 1 THEN 0 ELSE a
        phaseX == IF y = MaxY(g) THEN 0 ELSE phaseY + y \div g.step
    IN /\ y = 0 \/ y = MaxY(g) \/ y % g.step = phaseY % g.step
       /\ x = 0 \/ x = MaxX(g) \/ x % g.step = phaseX % g.step

ProcessingMask(g, a) ==
    {o \in (0..MaxX(g)) \X (0..MaxY(g)) : MaskSelected(g, a, o[1], o[2])}

=============================================================================
