----------------------------- MODULE AnchorGrid ------------------------------
(***************************************************************************)
(* A filter instance of the CUDA plugin asks for the grid of its anchor    *)
(* frames in any order.                                                    *)
(***************************************************************************)
EXTENDS PatchGrid

CONSTANT Geometries     \* bound: the geometries tried

VARIABLES geometry,     \* of the instance, from its creation
          capacity,     \* total_groups, computed at creation
          anchor,       \* the anchor frame being prepared
          anchors       \* host_anchors_, what build_anchor_grid wrote

gridVars == <<geometry, capacity, anchor, anchors>>

GridInit ==
    /\ geometry \in {g \in Geometries : ValidGeometry(g)}
    /\ capacity = TotalGroups(geometry)
    /\ anchor = 0 /\ anchors = AnchorGrid(geometry, 0)

BuildAnchorGrid(a) ==
    /\ anchor' = a /\ anchors' = AnchorGrid(geometry, a)
    /\ UNCHANGED <<geometry, capacity>>

GridNext == \E a \in 0..(geometry.anchors - 1) : BuildAnchorGrid(a)
GridSpec == GridInit /\ [][GridNext]_gridVars

-----------------------------------------------------------------------------
Origins == {anchors[i] : i \in DOMAIN anchors}

\* build_anchor_grid never throws "exceeds its reservation".
GridFitsReservation == Len(anchors) <= capacity

Before(o, p) ==
    \/ o[2] < p[2]
    \/ o[2] = p[2] /\ o[1] < p[1]

\* Both implementations process the same patches of every anchor frame, none of
\* them twice and in the same order: the raster order in which the CPU scans its
\* mask and on which the paste mask depends.
GridIsProcessingMask ==
    /\ Origins = ProcessingMask(geometry, anchor)
    /\ \A i, j \in DOMAIN anchors : i < j => Before(anchors[i], anchors[j])

\* While patches are at least as large as the step, they cover every pixel: no
\* pixel is left undenoised for want of a patch.
PatchesCoverFrame ==
    geometry.step <= geometry.patch =>
        \A px \in 0..(geometry.width - 1), py \in 0..(geometry.height - 1) :
            \E o \in Origins : /\ px \in o[1] .. o[1] + geometry.patch - 1
                               /\ py \in o[2] .. o[2] + geometry.patch - 1
=============================================================================
