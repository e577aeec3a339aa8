---------------------------- MODULE MCStageFilter ----------------------------
(***************************************************************************)
(* Two threads and short clips: motion in one or both directions, chains   *)
(* of two steps, invalid and malformed vectors, scene changes of either    *)
(* direction, frames no anchor starts at, and an aggregation.  The vectors *)
(* differ from frame to frame, direction to direction and level to level.  *)
(***************************************************************************)
EXTENDS StageFilter

\* Blocks of three by two pixels in an 8 by 4 frame, overlapping vertically.
Blocks(backwards) ==
    [pel |-> 2, size |-> <<3, 2>>, overlap |-> <<0, 1>>, count |-> <<2, 3>>,
     frame |-> <<8, 4>>, delta |-> 1, backwards |-> backwards]

Vectors(seed, n) ==
    [b \in 1..n |-> <<((5 * b + 3 * seed) % 11) - 5, ((4 * b + 2 * seed) % 7) - 3>>]
Carried(seed, flag) ==
    [sized |-> TRUE, flag |-> flag, levels |-> <<Vectors(seed + 1, 1), Vectors(seed, 6)>>]

\* Frame 0 is malformed in bad clips; frames in invalid carry no vectors.
Clip(seed, frames, bad, invalid) ==
    [f \in 0..(frames - 1) |->
        IF f = 0 /\ bad THEN [Carried(f, 1) EXCEPT !.levels = <<Vectors(f, 1)>>]
        ELSE Carried(seed + f, IF f \in invalid THEN 0 ELSE 1)]

Scenario(threads, kind, frames, pt, bwd, fwd, motion, bad, invalid, cuts) ==
    [threads |-> threads, kind |-> kind, p |-> [frames |-> frames, pt |-> pt, bwd |-> bwd, fwd |-> fwd],
     motion |-> motion, size |-> <<8, 4>>, patch |-> 2,
     anchors |-> {<<0, 0>>, <<2, 1>>, <<6, 2>>},
     analysis |-> [d \in {"mvfw", "mvbw"} |-> Blocks(d = "mvbw")],
     vectors |-> [d \in {"mvfw", "mvbw"} |->
                    Clip(IF d = "mvfw" THEN 0 ELSE 5, frames, bad, invalid)],
     cutPrevious |-> cuts.previous, cutNext |-> cuts.next]

NoCuts == [previous |-> {}, next |-> {}]

SmallScenarios ==
    <<Scenario(1, "Basic", 5, 1, 2, 0, {"mvfw"}, TRUE, {2}, [previous |-> {3}, next |-> {2}]),
      Scenario(1, "Basic", 4, 2, 0, 2, {"mvbw"}, FALSE, {}, [previous |-> {2}, next |-> {0}]),
      Scenario(2, "Final", 3, 1, 1, 0, {"mvfw", "mvbw"}, TRUE, {}, [previous |-> {1}, next |-> {}]),
      Scenario(2, "Final", 3, 2, 1, 0, {}, FALSE, {}, NoCuts),
      Scenario(2, "Aggregate", 3, 1, 1, 1, {}, FALSE, {}, NoCuts)>>
=============================================================================
