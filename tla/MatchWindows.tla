---------------------------- MODULE MatchWindows -----------------------------
(***************************************************************************)
(* The candidates of an anchor patch.  The CPU walks them: the frames of   *)
(* the search window in a fixed order and in each of them a square of      *)
(* origins, row by row (find_similar_patches in src/src/core/core.cpp).    *)
(* The CUDA matcher numbers them, so that any thread can turn a number     *)
(* into an origin, and cuts the squares into tiles (block_match.cu).       *)
(*                                                                         *)
(* s is a shape: [frames, pt, bwd, fwd] as in FrameGeometry, [xs, ys], the *)
(* patch origins on each axis, and [window], the side of the square.  An   *)
(* anchor is [x, y, frame]; centers[f] is [x, y], the point around which   *)
(* frame f is searched.                                                    *)
(***************************************************************************)
EXTENDS FrameGeometry, SequencesExt

-----------------------------------------------------------------------------
(* The CPU's walk. *)

Half(s) == (s.window - 1) \div 2

\* compute_spatial_range, on an axis of n origins.
SpatialShift(s, c, n) == Least(0, c - Half(s)) + Greatest(0, c + Half(s) - (n - 1))
SpatialRange(s, c, n) ==
    [low  |-> Greatest(0, c - Half(s) - SpatialShift(s, c, n)),
     high |-> Least(n - 1, c + Half(s) - SpatialShift(s, c, n))]

\* schedule_temporal_range: the anchor, then later frames, then earlier ones.
Schedule(s, a) ==
    LET w == SearchWindow(s, a)
    IN  <<a>> \o [i \in 1..(w.high - a) |-> a + i] \o [i \in 1..(a - w.low) |-> a - i]

\* Both spatial scans: the rows of one frame.
ScanFrame(s, centers, f) ==
    LET x == SpatialRange(s, centers[f].x, s.xs)
        y == SpatialRange(s, centers[f].y, s.ys)
        width == x.high - x.low + 1
    IN  [i \in 1..(width * (y.high - y.low + 1)) |->
            [x |-> x.low + ((i - 1) % width), y |-> y.low + ((i - 1) \div width), frame |-> f]]

CpuScan(s, anchor, centers) ==
    LET frames == Schedule(s, anchor.frame)
    IN  FlattenSeq([i \in DOMAIN frames |-> ScanFrame(s, centers, frames[i])])

-----------------------------------------------------------------------------
(* The numbers of the CUDA matcher, from 0. *)

WindowWidth(s)       == Least(s.window, s.xs)
WindowHeight(s)      == Least(s.window, s.ys)
SpatialCandidates(s) == WindowWidth(s) * WindowHeight(s)
CandidateCount(s)    == SpatialCandidates(s) * TemporalCount(s)

Clamp(v, low, high) == Least(Greatest(v, low), high)

\* shifted_range_low
ShiftedRangeLow(c, half, max) ==
    LET shift == Least(0, c - half) + Greatest(0, c + half - max)
    IN  Clamp(c - half - shift, 0, max)

\* Mutant: the window is cut at the clip's borders, not moved.
ScheduledFrame_Unshifted(s, a, slot) ==
    LET max == ValidAnchorFrames(s) - 1
        low == Greatest(0, a - s.bwd)
        high == Least(max, a + s.fwd)
    IN  IF slot = 0 THEN a
        ELSE Clamp(IF slot <= high - a THEN a + slot ELSE a - (slot - (high - a)), low, high)
\* scheduled_frame: the frame of a temporal slot.
ScheduledFrame(s, a, slot) ==
    LET max   == ValidAnchorFrames(s) - 1
        shift == Least(0, a - s.bwd) + Greatest(0, a + s.fwd - max)
        low   == Greatest(0, a - s.bwd - shift)
        high  == Least(max, a + s.fwd - shift)
        ahead == high - a
    IN  IF slot = 0 THEN a
        ELSE Clamp(IF slot <= ahead THEN a + slot ELSE a - (slot - ahead), low, high)

\* make_window: the first origin of a slot's square.
MakeWindow(s, anchor, centers, slot) ==
    LET f == ScheduledFrame(s, anchor.frame, slot)
    IN  [x |-> ShiftedRangeLow(centers[f].x, Half(s), s.xs - 1),
         y |-> ShiftedRangeLow(centers[f].y, Half(s), s.ys - 1), frame |-> f]

\* What the gathers decode from a candidate id.
OriginOf(s, anchor, centers, id) ==
    LET slot  == id \div SpatialCandidates(s)
        local == id % SpatialCandidates(s)
        w     == MakeWindow(s, anchor, centers, slot)
    IN  [x |-> w.x + (local % WindowWidth(s)), y |-> w.y + (local \div WindowWidth(s)),
         frame |-> w.frame]

-----------------------------------------------------------------------------
(* Tiles of at most `capacity` candidates of one square. *)

DivideRoundUp(v, d) == 1 + ((v - 1) \div d)

TileLayout(s, capacity) ==
    LET cw == Least(WindowWidth(s), capacity)
        ch == Greatest(1, Least(WindowHeight(s), capacity \div cw))
        tx == DivideRoundUp(WindowWidth(s), cw)
        ty == DivideRoundUp(WindowHeight(s), ch)
    IN  [width |-> cw, height |-> ch, x |-> tx, perSlot |-> tx * ty,
         total |-> tx * ty * TemporalCount(s)]

\* make_tile: the part of its square a task covers.
MakeTile(s, layout, task) ==
    LET spatial == task % layout.perSlot
        xBegin  == (spatial % layout.x) * layout.width
        yBegin  == (spatial \div layout.x) * layout.height
    IN  [slot |-> task \div layout.perSlot, x |-> xBegin, y |-> yBegin,
         width  |-> Least(layout.width, WindowWidth(s) - xBegin),
         height |-> Least(layout.height, WindowHeight(s) - yBegin)]
=============================================================================
