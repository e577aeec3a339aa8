--------------------------- MODULE MCOutputFrames ----------------------------
(***************************************************************************)
(* A CUDA filter is created (CudaSetup), and once it is ready asked for    *)
(* its frames in any order (FrameRequests).  Beside it, each exhausted     *)
(* while the others rest: which patches its anchors start from             *)
(* (AnchorGrid), and how their results are combined (Aggregation).         *)
(***************************************************************************)
EXTENDS CudaSetup, AnchorGrid, Aggregation

-----------------------------------------------------------------------------
(* Short clips with patches of one or two frames, up to four workers, both *)
(* stages, on devices from far too small to ample.                         *)

ContendedFilters == [frames : {3, 5}, pt : 1..2, bwd : 0..1, fwd : {0},
                     streams : {1, 2, 4}, final : BOOLEAN]
ContendedTotals  == {4, 7, 10, 13, 16, 19, 22, 25, 28, 31, 34, 40}

(* All parameters up to clips of seven frames, patches of three frames and *)
(* three frames of search on either side, on a device of their own:        *)
(* windows wider than the clip, touching one border, both or none.         *)

LoneFilters == [frames : 1..7, pt : 1..3, bwd : 0..3, fwd : 0..3,
                streams : {1}, final : {FALSE}]
LoneTotal   == 100

SmallFilters == ContendedFilters \cup LoneFilters
SmallTotals  == ContendedTotals \cup {LoneTotal}
OneFrame     == [frames |-> 1, pt |-> 1, bwd |-> 0, fwd |-> 0, streams |-> 1, final |-> FALSE]

-----------------------------------------------------------------------------
(* Frames up to seven by six pixels, every patch size up to three and      *)
(* every step up to four, beyond the patch size and beyond the frame, in   *)
(* clips of up to five anchor frames.                                      *)

SmallGeometries ==
    [width : 1..7, height : 1..6, patch : 1..3, step : 1..4, anchors : 1..5]
OnePatch == [width |-> 1, height |-> 1, patch |-> 1, step |-> 1, anchors |-> 1]

-----------------------------------------------------------------------------
(* Frames of three by three pixels and patches of two, which leave pixels  *)
(* uncovered; search windows moved at both ends of the clip, so that       *)
(* samples fall on frames without a slot; groups the mask excludes, tables *)
(* longer than the groups, and chunks of two or three groups.              *)

\* Values, position, frame and weight differ from sample to sample.
SampleAt(frames, channels, pt, seed) ==
    [x |-> seed % 2, y |-> (seed \div 2) % 2, frame |-> seed % (frames - pt + 1),
     weight |-> 1 + (seed % 3),
     values |-> [i \in 1..(channels * pt * 4) |-> ((13 * seed + 5 * i) % 17) - 8]]

\* Three groups per anchor, the second excluded by the mask except in the last job.
JobOf(storage, frames, pt, bwd, fwd, channels, weighted, windowed, chunk) ==
    [storage |-> storage, p |-> [frames |-> frames, pt |-> pt, bwd |-> bwd, fwd |-> fwd],
     width |-> 3, height |-> 3, channels |-> channels, patch |-> 2, stride |-> 4, chunk |-> chunk,
     weighted |-> weighted, windowed |-> windowed, gaussian |-> <<1, 2, 2, 1>>,
     view |-> [row |-> 4, slot |-> 13, channel |-> 13 * (bwd + fwd + pt), weightRow |-> 5, weightSlot |-> 15,
               weights |-> 13 * (bwd + fwd + pt) * channels],
     source |-> [e \in (0..(frames - 1)) \X (0..(channels - 1)) \X (0..2) \X (0..2) |->
                    100 + e[1] + 3 * e[2] + 5 * e[3] + 7 * e[4]],
     groups |-> [a \in 0..(frames - pt) |-> [g \in 1..3 |->
         LET seed == <<a + 1, a, 2 * a + 2>>[g]
         IN [active |-> g # 2 \/ chunk = 3, sampleMajor |-> seed % 2 = 0, retained |-> <<2, 1, 2>>[g],
             samples |-> [i \in 1..3 |-> SampleAt(frames, channels, pt, seed + i)]]]]]

JobParameters ==
    <<<<"contiguous", 1, 1, 0, 0, 1, FALSE, FALSE, 2>>,
      <<"planes", 3, 2, 1, 0, 2, TRUE, TRUE, 2>>, <<"planes", 3, 1, 0, 1, 1, FALSE, FALSE, 2>>,
      <<"contiguous", 3, 1, 1, 1, 2, TRUE, FALSE, 2>>, <<"contiguous", 3, 2, 0, 1, 2, FALSE, TRUE, 2>>,
      <<"device", 3, 2, 1, 0, 2, TRUE, TRUE, 2>>, <<"device", 3, 1, 0, 1, 1, FALSE, FALSE, 2>>,
      <<"strided", 3, 1, 1, 1, 2, TRUE, TRUE, 2>>, <<"device", 4, 2, 1, 1, 1, TRUE, FALSE, 2>>,
      <<"device", 3, 2, 0, 1, 1, TRUE, FALSE, 3>>>>

SmallJobs == [i \in DOMAIN JobParameters |->
    LET q == JobParameters[i] IN JobOf(q[1], q[2], q[3], q[4], q[5], q[6], q[7], q[8], q[9])]

-----------------------------------------------------------------------------
(* The parts. *)

\* Mere requests: nobody else uses the device, and the filter is not freed.
Lone == total = LoneTotal

FilterInit ==
    /\ SetupInit /\ frame = 0
    /\ IF Lone THEN filter \in LoneFilters ELSE filter \in ContendedFilters
NoFilter == filter = OneFrame /\ total = LoneTotal /\ SetupInit /\ frame = 0
OneGrid  == geometry = OnePatch /\ GridInit
OneJob   == job = 1 /\ AggregationInit

PartInit ==
    \/ FilterInit /\ OneGrid /\ OneJob
    \/ NoFilter /\ GridInit /\ OneJob
    \/ NoFilter /\ OneGrid /\ AggregationInit

FilterNext ==
    \/ SetupNext /\ (Lone => others' = others /\ pc' # "freed") /\ UNCHANGED frame
    \/ pc = "ready" /\ RequestNext /\ UNCHANGED setupVars

PartNext ==
    \/ geometry = OnePatch /\ job = 1 /\ current = 0 /\ step = -1
       /\ FilterNext /\ UNCHANGED <<gridVars, aggregationVars>>
    \/ pc = "measure" /\ GridNext /\ UNCHANGED <<setupVars, frame, aggregationVars>>
    \/ pc = "measure" /\ filter = OneFrame /\ geometry = OnePatch
       /\ AggregationNext /\ UNCHANGED <<setupVars, frame, gridVars>>

PartSpec == PartInit /\ [][PartNext]_<<setupVars, frame, gridVars, aggregationVars>>
=============================================================================
