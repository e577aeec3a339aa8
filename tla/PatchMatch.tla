------------------------------ MODULE PatchMatch ------------------------------
(***************************************************************************)
(* Finding the patches similar to an anchor.  The CPU walks the candidates *)
(* and keeps a bounded list, skipping a candidate as soon as its distance  *)
(* passes the limit of what can still be chosen (find_similar_patches and  *)
(* select_similar_patches in src/src/core/core.cpp).  The CUDA matcher     *)
(* (src/src/cuda/block_match.cu) chooses one of three strategies when it   *)
(* is reserved: one block sorts all candidates, blocks sort tiles and the  *)
(* best of each tile are merged, or all distances are sorted in memory.    *)
(*                                                                         *)
(* Both must group the K nearest candidates, then further ones no farther  *)
(* than tau or the K-th, up to a cap.  The two programs never run          *)
(* together; here the CPU searches first.  Distances are arbitrary but     *)
(* finite: pixels that are NaN or infinite are not modelled.               *)
(***************************************************************************)
EXTENDS MatchWindows

CONSTANTS
    Searches,       \* bound: [shape, similar, factor, tau, strategy, distances]
    AnchorChoices, Shifts, \* bound: anchors, and displacements of the search centers
    Unlimited,      \* stands for INT_MAX and for an infinite distance
    TileCapacity,   \* candidates one block can sort
    BallotStride,   \* caps up to which the fused kernel counts with one ballot
    SmallTasks, MinAverage, ManyMinAverage  \* thresholds of the automatic choice

ASSUME SearchesAssumption ==
    /\ Unlimited \in Nat /\ TileCapacity \in Nat \ {0}
    /\ AnchorChoices \subseteq [x : Nat, y : Nat, frame : Nat] /\ Shifts \subseteq Int
    /\ \A q \in Searches :
          /\ ValidParameters(q.shape) /\ q.shape.xs \in Nat \ {0} /\ q.shape.ys \in Nat \ {0}
          /\ q.shape.window \in Nat /\ q.shape.window % 2 = 1
          /\ q.similar \in Nat \ {0} /\ q.factor \in Nat /\ q.tau \in Nat
          /\ q.strategy \in {"auto", "fused", "chunked", "fullsort"}
          \* Counts are ints and distances finite.
          /\ CandidateCount(q.shape) <= Unlimited /\ q.distances \subseteq 0..(Unlimited - 1)

Junk == -1          \* what a device buffer holds before it is written

VARIABLES
    search, anchor, centers, dist,  \* the request; dist by patch origin
    scanned, matches, top, cpuGroup,    \* the CPU: matches_, top_distances_
    strategy, fits,                 \* of the matcher, from its reservation
    tasks, keys, selected, cudaGroup,   \* blocks that ran; device arrays
    phase

inputs    == <<search, anchor, centers, dist>>
cpuVars   == <<scanned, matches, top, cpuGroup>>
cudaVars  == <<strategy, fits, tasks, keys, selected, cudaGroup>>
matchVars == <<inputs, cpuVars, cudaVars, phase>>

s    == search.shape
n    == CandidateCount(s)
K    == search.similar
tau  == search.tau
scan == CpuScan(s, anchor, centers)

-----------------------------------------------------------------------------
(* The caps. *)

\* soft_similar_cap of the CPU; derive_geometry's retained_stride.
SoftCap        == IF search.factor = 0 THEN Unlimited ELSE Greatest(K, K * search.factor)
BasisSimilar   == Least(K, n)
RetainedStride == Greatest(IF search.factor = 0 THEN n ELSE Least(n, K * search.factor),
                           BasisSimilar)

\* find_similar_patches' bound on the matches kept.
OutputCap == Least(SoftCap, s.window * s.window * Len(Schedule(s, anchor.frame)))

-----------------------------------------------------------------------------
(* The CPU. *)

\* std::max_element: the first of the farthest matches.
Farthest == CHOOSE i \in DOMAIN matches :
    /\ \A j \in DOMAIN matches : matches[j].d <= matches[i].d
    /\ \A j \in 1..(i - 1) : matches[j].d < matches[i].d
Full == Len(matches) >= OutputCap

\* Mutant: the limit forgets tau.
DistanceLimit_NoTau ==
    Least(IF Len(top) >= K THEN top[Len(top)] ELSE Unlimited,
          IF Full THEN matches[Farthest].d ELSE Unlimited)
\* The distance beyond which the next candidate cannot be chosen.
DistanceLimit ==
    Least(IF Len(top) >= K THEN Greatest(tau, top[Len(top)]) ELSE Unlimited,
          IF Full THEN matches[Farthest].d ELSE Unlimited)

\* record_candidate_match: a full list gives up its first farthest match.
RecordMatch(m) ==
    IF ~Full THEN Append(matches, m)
    ELSE IF m.d < matches[Farthest].d THEN [matches EXCEPT ![Farthest] = m] ELSE matches

\* Entries, given with how many come before each, in their order.
InOrder(entries) ==
    [place \in 1..Cardinality(entries) |-> (CHOOSE e \in entries : e[1] = place - 1)[2]]
Ascending(list) ==
    LET Before(i) == {j \in DOMAIN list : list[j] < list[i] \/ (list[j] = list[i] /\ j < i)}
    IN  InOrder({<<Cardinality(Before(i)), list[i]>> : i \in DOMAIN list})

\* record_candidate_distance: the heap of the K smallest, here in order.
RecordDistance(d) == LET all == Ascending(Append(top, d)) IN SubSeq(all, 1, Least(K, Len(all)))

\* A group of one is the anchor itself: nothing is searched.
CpuTakesAnchor ==
    /\ phase = "scan" /\ K <= 1
    /\ cpuGroup' = {anchor} /\ phase' = "reserve"
    /\ UNCHANGED <<inputs, scanned, matches, top, cudaVars>>

\* One candidate of the spatial scans.  The sum of squares is given up as soon as
\* it passes the limit, which is the same as comparing the whole sum.
ScanCandidate ==
    /\ phase = "scan" /\ K > 1 /\ scanned < Len(scan)
    /\ scanned' = scanned + 1
    /\ LET m == [d |-> dist[scan[scanned + 1]], o |-> scan[scanned + 1]]
       IN  IF m.d <= DistanceLimit
           THEN matches' = RecordMatch(m) /\ top' = RecordDistance(m.d)
           ELSE UNCHANGED <<matches, top>>
    /\ UNCHANGED <<inputs, cpuGroup, cudaVars, phase>>

\* std::partial_sort leaves open which of equal matches come first.
NearestSubsets(S, size) ==
    {T \in SUBSET S : Cardinality(T) = size /\ \A a \in T, b \in S \ T : a.d <= b.d}

\* select_similar_patches
Selections ==
    LET found == Least(K, Len(matches))
        kth   == Ascending([i \in DOMAIN matches |-> matches[i].d])[found]
        near  == {m \in ToSet(matches) : m.d <= Greatest(tau, kth)}
    IN  NearestSubsets(near, Least(Least(SoftCap, Len(matches)), Cardinality(near)))

\* The gathers copy the patches at the matches' origins.
CpuSelect ==
    /\ phase = "scan" /\ K > 1 /\ scanned = Len(scan)
    /\ \E T \in Selections : cpuGroup' = {m.o : m \in T}
    /\ phase' = "reserve"
    /\ UNCHANGED <<inputs, scanned, matches, top, cudaVars>>

-----------------------------------------------------------------------------
(* The reservation of the CUDA matcher. *)

Layout == TileLayout(s, TileCapacity)
Tasks  == 0..(Layout.total - 1)
TileCandidates(task) == LET tile == MakeTile(s, Layout, task) IN tile.width * tile.height

\* Mutant: a tile hands on only K candidates, not all that tau may admit.
PartialCount_OnlyK(task) == Least(K, TileCandidates(task))
\* What a tile hands on to the merge, and where (build_partial_offsets).
PartialCount(task)  == Least(RetainedStride, TileCandidates(task))
PartialOffset ==
    LET offset[task \in 0..Layout.total] ==
            IF task = 0 THEN 0 ELSE offset[task - 1] + PartialCount(task - 1)
    IN  offset
PartialPerGroup     == PartialOffset[Layout.total]
ChunkFeasible       == PartialPerGroup <= TileCapacity

\* auto_chunk_geometry
AutoChunkGeometry ==
    /\ PartialPerGroup <= TileCapacity
    /\ n \div Layout.total >= (IF Layout.total <= SmallTasks THEN MinAverage
                               ELSE ManyMinAverage)

Preferred ==
    CASE search.strategy # "auto" -> search.strategy
      [] search.strategy = "auto" /\ n <= TileCapacity -> "fused"
      [] OTHER -> IF ChunkFeasible /\ AutoChunkGeometry THEN "chunked" ELSE "fullsort"

\* validate_shape
ValidShape == /\ s.window % 2 = 1 /\ s.pt <= s.frames /\ K > 0
              /\ RetainedStride >= BasisSimilar /\ RetainedStride <= n

\* Forced strategies that the shape does not allow are refused, and tiles that
\* hand on less than the cap.
Refused == \/ ~ValidShape
           \/ PartialPerGroup < RetainedStride
           \/ Preferred = "fused" /\ n > TileCapacity
           \/ Preferred = "chunked" /\ ~ChunkFeasible

\* configure_fused and configure_tiled fail when shared memory is too small;
\* the full sort can always do without.
Fits(name) == name \in fits' \cup {"fullsort"}
Configured ==
    CASE Fits(Preferred) -> Preferred
      [] ~Fits(Preferred) /\ search.strategy # "auto" -> "none"
      [] OTHER -> IF Preferred = "fused" /\ ChunkFeasible /\ Fits("chunked")
                  THEN "chunked" ELSE "fullsort"

\* One patch with a cap of one needs no selection at all.
ReservesSingle == K = 1 /\ RetainedStride = 1 /\ search.strategy \in {"auto", "fused"}

\* reserve_chunked and reserve_full_sort
Workspace(name) == [i \in 1..(IF name = "chunked" THEN PartialPerGroup ELSE n) |-> Junk]

Reserve ==
    /\ phase = "reserve"
    /\ fits' \in SUBSET {"fused", "chunked"}
    /\ strategy' = IF ReservesSingle THEN "fused"
                   ELSE IF Refused THEN "none" ELSE Configured
    /\ keys' = IF strategy' \in {"chunked", "fullsort"} THEN Workspace(strategy') ELSE <<>>
    /\ phase' = IF strategy' = "none" THEN "done" ELSE "match"
    /\ UNCHANGED <<inputs, cpuVars, tasks, selected, cudaGroup>>

-----------------------------------------------------------------------------
(* The kernels.  A key is a distance and a candidate id, compared in this  *)
(* order; the fused kernel sorts by distance, stably, from the order of    *)
(* the ids, which is the same.                                             *)

Less(a, b)     == a.d < b.d \/ (a.d = b.d /\ a.id < b.id)
\* No two keys of a list have the same id.
SortKeys(list) ==
    LET all == ToSet(list)
    IN  InOrder({<<Cardinality({k \in all : Less(k, key)}), key>> : key \in all})

\* The distance of the candidate at column x and row y of a slot's square.
CandidateDistance(slot, x, y) ==
    LET w == MakeWindow(s, anchor, centers, slot)
    IN  dist[[x |-> w.x + x, y |-> w.y + y, frame |-> w.frame]]

\* What the block of the fused kernel computes before it sorts.
FusedKeys ==
    [i \in 1..n |->
        LET slot  == (i - 1) \div SpatialCandidates(s)
            local == (i - 1) % SpatialCandidates(s)
        IN  [d  |-> CandidateDistance(slot, local % WindowWidth(s), local \div WindowWidth(s)),
             id |-> i - 1]]

\* What a block computes for its tile.
TileKeys(task) ==
    LET tile == MakeTile(s, Layout, task)
    IN  [i \in 1..(tile.width * tile.height) |->
            LET x == tile.x + ((i - 1) % tile.width)
                y == tile.y + ((i - 1) \div tile.width)
            IN  [d  |-> CandidateDistance(tile.slot, x, y),
                 id |-> tile.slot * SpatialCandidates(s) + y * WindowWidth(s) + x]]

\* The gathers decode the ids and copy the patches there.
Gathered(list) == [i \in DOMAIN list |-> OriginOf(s, anchor, centers, list[i].id)]

\* Both counts of what tau retains, over keys in order.
Threshold(list) == Greatest(tau, list[BasisSimilar].d)
BallotCount(list) == Cardinality({i \in 1..RetainedStride : list[i].d <= Threshold(list)})
LoopCount(list) ==
    LET stops == {i \in BasisSimilar..(RetainedStride - 1) : list[i + 1].d > Threshold(list)}
    IN  IF stops = {} THEN RetainedStride ELSE Lowest(stops)

SinglePath == strategy = "fused" /\ K = 1 /\ (RetainedStride = 1 \/ tau = 0)

\* single_match_gather_kernel
SingleMatchGather ==
    /\ phase = "match" /\ SinglePath
    /\ cudaGroup' = <<anchor>> /\ phase' = "done"
    /\ UNCHANGED <<inputs, cpuVars, strategy, fits, tasks, keys, selected>>

\* match_select_gather_kernel: a block computes, sorts, counts and gathers.
MatchSelectGather ==
    /\ phase = "match" /\ strategy = "fused" /\ ~SinglePath
    /\ LET list == SubSeq(SortKeys(FusedKeys), 1, RetainedStride)
           count == IF RetainedStride <= BallotStride THEN BallotCount(list) ELSE LoopCount(list)
       IN  cudaGroup' = Gathered(SubSeq(list, 1, count))
    /\ phase' = "done"
    /\ UNCHANGED <<inputs, cpuVars, strategy, fits, tasks, keys, selected>>

\* A block of chunk_match_select_kernel: the best of one tile.
ChunkMatchSelect(task) ==
    /\ phase = "match" /\ strategy = "chunked" /\ task \notin tasks
    /\ tasks' = tasks \cup {task}
    /\ LET best  == SortKeys(TileKeys(task))
           first == PartialOffset[task]
           last  == PartialOffset[task + 1]
       IN  keys' = [i \in DOMAIN keys |-> IF first < i /\ i <= last THEN best[i - first] ELSE keys[i]]
    /\ UNCHANGED <<inputs, cpuVars, strategy, fits, selected, cudaGroup, phase>>

\* A block of match_distance_kernel: every key of one tile at its own place.
MatchDistance(task) ==
    /\ phase = "match" /\ strategy = "fullsort" /\ task \notin tasks
    /\ tasks' = tasks \cup {task}
    /\ LET computed == ToSet(TileKeys(task))
       IN  keys' = [i \in DOMAIN keys |-> IF \E k \in computed : k.id + 1 = i
                                          THEN CHOOSE k \in computed : k.id + 1 = i ELSE keys[i]]
    /\ UNCHANGED <<inputs, cpuVars, strategy, fits, selected, cudaGroup, phase>>

\* merge_partial_kernel and the segmented sort, after all tiles in the stream.
SortAll ==
    /\ phase = "match" /\ strategy \in {"chunked", "fullsort"} /\ tasks = Tasks
    /\ LET list == SortKeys(keys)
       IN  selected' = IF strategy = "chunked" THEN SubSeq(list, 1, RetainedStride) ELSE list
    /\ phase' = "gather"
    /\ UNCHANGED <<inputs, cpuVars, strategy, fits, tasks, keys, cudaGroup>>

\* selected_gather_kernel
SelectedGather ==
    /\ phase = "gather"
    /\ cudaGroup' = Gathered(SubSeq(selected, 1, LoopCount(selected)))
    /\ phase' = "done"
    /\ UNCHANGED <<inputs, cpuVars, strategy, fits, tasks, keys, selected>>

-----------------------------------------------------------------------------
MatchInit ==
    /\ search \in Searches
    /\ anchor \in {a \in AnchorChoices : /\ a.x < s.xs /\ a.y < s.ys
                                         /\ a.frame < ValidAnchorFrames(s)}
    /\ \E d \in Shifts :
          centers = [f \in 0..(s.frames - 1) |->
              IF f = anchor.frame THEN [x |-> anchor.x, y |-> anchor.y]
              ELSE [x |-> Clamp(anchor.x + d, 0, s.xs - 1),
                    y |-> Clamp(anchor.y + d, 0, s.ys - 1)]]
    /\ dist \in {d \in [ToSet(scan) -> search.distances] : d[anchor] = 0}
    /\ scanned = 0 /\ matches = <<>> /\ top = <<>> /\ cpuGroup = {}
    /\ strategy = "none" /\ fits = {} /\ tasks = {} /\ keys = <<>> /\ selected = <<>>
    /\ cudaGroup = <<>> /\ phase = "scan"

SearchOver == phase = "done" /\ UNCHANGED matchVars

MatchNext == \/ CpuTakesAnchor \/ ScanCandidate \/ CpuSelect \/ Reserve
             \/ SingleMatchGather \/ MatchSelectGather
             \/ (\E task \in Tasks : ChunkMatchSelect(task) \/ MatchDistance(task))
             \/ SortAll \/ SelectedGather \/ SearchOver

MatchSpec == MatchInit /\ [][MatchNext]_matchVars

-----------------------------------------------------------------------------
(* What the searches promise. *)

Matched == phase = "done" /\ strategy # "none"

\* The numbers the kernels decode are the CPU's walk, in the same order: the
\* first frame is the anchor's own, and no candidate is listed twice or missed.
CandidatesFollowTheScan ==
    phase = "scan" /\ scanned = 0 =>
        /\ scan = [i \in 1..n |-> OriginOf(s, anchor, centers, i - 1)]
        /\ Cardinality(ToSet(scan)) = n

\* The group a matcher should find: candidates by distance, then in the order of
\* the scan, K of them and those tau admits, at most the cap.
Best ==
    LET walk == scan
        keysInScan == [i \in 1..n |-> [d |-> dist[walk[i]], id |-> i]]
        list == SubSeq(SortKeys(keysInScan), 1, RetainedStride)
        size == Cardinality({i \in 1..RetainedStride :
                                i <= BasisSimilar \/ list[i].d <= Threshold(list)})
    IN  [i \in 1..size |-> walk[list[i].id]]

\* Whichever strategy the shape and the device lead to, and in whatever order
\* the blocks run, the matcher finds the same group; only a group of one without
\* expansion is the anchor itself, whatever ties with it.  The automatic choice
\* is never refused.
CudaFindsBestGroup ==
    /\ Matched => cudaGroup = (IF SinglePath THEN <<anchor>> ELSE Best)
    /\ phase = "done" /\ strategy = "none" => search.strategy # "auto"

\* The CPU's bounded list loses nothing: its group has as many patches as the
\* CUDA matcher's, and differs at most in which of the farthest, equally distant
\* patches it took.  (Groups of one are the anchor alone only on the CPU.)
MatchersAgree ==
    Matched /\ K > 1 =>
        LET cuda == ToSet(cudaGroup)
        IN  /\ Cardinality(cpuGroup) = Len(cudaGroup)
            /\ \A o \in (cpuGroup \ cuda) \cup (cuda \ cpuGroup) :
                  dist[o] = dist[cudaGroup[Len(cudaGroup)]]

\* The manual on tau (README.md:99): "Set tau=0.0 to keep only the nearest
\* group_size patches."
TauZeroKeepsOnlyNearest ==
    phase = "reserve" /\ tau = 0 => Cardinality(cpuGroup) <= K
=============================================================================
