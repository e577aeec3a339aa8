---------------------------- MODULE MotionVectors ----------------------------
(***************************************************************************)
(* The motion vectors of MVTools as the search for similar patches uses    *)
(* them.  A vector clip carries, per frame, blocks of vectors for several  *)
(* levels; the finest level is the last one.  The search centre in a       *)
(* candidate frame is reached from the anchor one frame at a time, each    *)
(* step by the vector of the block nearest to the patch's middle.          *)
(*                                                                         *)
(* A point, a vector and a pair of sizes are <<x, y>>.  An analysis is     *)
(* [pel, size, overlap, count, frame, delta, backwards]: subpixels per     *)
(* pixel, block size, overlap, number of blocks, the size of the frame it  *)
(* was made for, distance and direction of its vectors.                    *)
(***************************************************************************)
EXTENDS FrameGeometry, Sequences

Axes == 1..2
Clamped(value, low, high) == Greatest(low, Least(value, high))
\* C++ division with halves rounded away from zero.
RoundedQuotient(value, divisor) ==
    IF value >= 0 THEN (value + divisor \div 2) \div divisor
                  ELSE -((-value + divisor \div 2) \div divisor)

-----------------------------------------------------------------------------
(* What a frame of a vector clip carries: [sized, flag, levels], whether   *)
(* the sizes it declares are those of its data, its validity flag and the  *)
(* vectors of each level, block by block.                                  *)

AcceptedAnalysis(a) ==
    /\ a.pel > 0
    /\ \A i \in Axes : /\ a.size[i] > 0 /\ a.count[i] > 0 /\ a.frame[i] > 0
                       /\ a.overlap[i] >= 0 /\ a.overlap[i] < a.size[i]

\* The clip checks of a vector clip given as motion of the given direction.
FitsClip(a, size, backwards) ==
    a.frame = size /\ a.delta = 1 /\ a.backwards = backwards

Malformed(raw, a) ==
    \/ ~raw.sized
    \/ /\ raw.flag = 1
       /\ \/ raw.levels = <<>>
          \/ Len(raw.levels[Len(raw.levels)]) # a.count[1] * a.count[2]

ParsedVectors(raw, a) ==
    [analysis |-> a, valid |-> raw.flag = 1,
     vectors |-> IF raw.flag = 1 THEN raw.levels[Len(raw.levels)] ELSE <<>>]

-----------------------------------------------------------------------------
Usable(grid) == grid.valid /\ grid.vectors # <<>>

BlockStep(a, i) == Greatest(1, a.size[i] - Greatest(0, a.overlap[i]))

\* Which block's middle is nearest to a coordinate, on one axis.
NearestBlock(a, i, coordinate) ==
    Clamped(RoundedQuotient(coordinate - a.size[i] \div 2, BlockStep(a, i)),
            0, a.count[i] - 1)

NearestVector(grid, point) ==
    LET a == grid.analysis
    IN  grid.vectors[NearestBlock(a, 2, point[2]) * a.count[1]
                     + NearestBlock(a, 1, point[1]) + 1]

RoundedToPixel(value, pel) == IF pel <= 1 THEN value ELSE RoundedQuotient(value, pel)

-----------------------------------------------------------------------------
(* A request is [anchor, frame, candidate, patch, size]: the anchor's      *)
(* point and frame, the candidate frame, the patch size, the frame size.   *)
(* Grid(f) is the vector grid kept for frame f, usable or not.             *)

Follow(request, grid, centre) ==
    LET vector == NearestVector(grid, [i \in Axes |-> centre[i] + request.patch \div 2])
    IN  [i \in Axes |-> Clamped(centre[i] + RoundedToPixel(vector[i], grid.analysis.pel),
                                0, request.size[i] - 1)]

\* The frame whose vectors the k-th step of the chain follows: always the
\* frame the step leaves, towards the previous or the next one.
ChainFrame(request, k) ==
    IF request.candidate < request.frame THEN request.frame - k + 1 ELSE request.frame + k - 1

ChainLength(request) ==
    Greatest(request.frame - request.candidate, request.candidate - request.frame)

\* Frames without usable vectors leave the centre where it is.
CenterFor(request, Grid(_)) ==
    LET centre[k \in 0..ChainLength(request)] ==
          IF k = 0 THEN request.anchor
          ELSE IF Usable(Grid(ChainFrame(request, k)))
               THEN Follow(request, Grid(ChainFrame(request, k)), centre[k - 1])
               ELSE centre[k - 1]
    IN  centre[ChainLength(request)]

-----------------------------------------------------------------------------
(* The same described without its arithmetic: a step goes where the        *)
(* nearest block points, rounded to the nearest pixel, and stays inside    *)
(* the frame.  A set because two blocks or pixels may be equally near.     *)

Distance(a, b) == Greatest(a - b, b - a)

BlockMiddle(a, i, block) == block * (a.size[i] - a.overlap[i]) + a.size[i] \div 2
NearestBlocks(a, i, coordinate) ==
    {b \in 0..(a.count[i] - 1) : \A c \in 0..(a.count[i] - 1) :
        Distance(coordinate, BlockMiddle(a, i, b)) <= Distance(coordinate, BlockMiddle(a, i, c))}

ClosestPixels(value, pel) ==
    {p \in -Distance(value, 0)..Distance(value, 0) : 2 * Distance(p * pel, value) <= pel}
ClosestInside(value, size) ==
    CHOOSE p \in 0..(size - 1) : \A q \in 0..(size - 1) : Distance(value, p) <= Distance(value, q)

\* Where one step over the given vectors may lead from a point.
StepsFrom(a, vectors, point, patch, size) ==
    {<<ClosestInside(point[1] + move[1], size[1]), ClosestInside(point[2] + move[2], size[2])>> :
        move \in UNION {ClosestPixels(vectors[by * a.count[1] + bx + 1][1], a.pel)
                        \X ClosestPixels(vectors[by * a.count[1] + bx + 1][2], a.pel) :
                        bx \in NearestBlocks(a, 1, point[1] + patch \div 2),
                        by \in NearestBlocks(a, 2, point[2] + patch \div 2)}}
=============================================================================
