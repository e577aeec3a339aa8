----------------------------- MODULE MCPatchMatch ------------------------------
(***************************************************************************)
(* Squares of up to four by two origins in one to three frames, cut at     *)
(* borders, wider than the frame or moved by motion, with two to eight     *)
(* candidates of two or three distances; blocks that sort three.           *)
(***************************************************************************)
EXTENDS PatchMatch

Shape(frames, pt, bwd, fwd, xs, ys, window) ==
    [frames |-> frames, pt |-> pt, bwd |-> bwd, fwd |-> fwd,
     xs |-> xs, ys |-> ys, window |-> window]

\* Rows of one frame; a block wider than the frame; rows over time.
SmallShapes == {Shape(1, 1, 0, 0, 4, 1, 5), Shape(1, 1, 1, 2, 2, 2, 3),
                Shape(4, 2, 1, 1, 2, 1, 1), Shape(3, 2, 2, 0, 2, 1, 3),
                Shape(4, 1, 2, 0, 1, 2, 1)}
\* Tiles that split the rows and the columns of a square.
WideShapes == {Shape(1, 1, 0, 0, 4, 2, 5), Shape(2, 1, 0, 1, 3, 1, 3)}

Search(shapes, similars, factors, taus, strategies, distances) ==
    [shape : shapes, similar : similars, factor : factors, tau : taus,
     strategy : strategies, distances : {distances}]

SmallSearches ==
    Search(SmallShapes, 1..3, 0..2, 0..1, {"auto"}, 0..2)
    \cup Search(SmallShapes, {2}, {2}, {0}, {"fused", "chunked", "fullsort"}, 0..2)
    \cup Search(WideShapes, 1..2, {0, 2}, 0..1, {"auto"}, 0..1)

SmallAnchors == [x : 0..1, y : 0..1, frame : 0..2]
=============================================================================
