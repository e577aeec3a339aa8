--------------------------- MODULE MCRenderFrames ----------------------------
(***************************************************************************)
(* Small instances of RenderFrames.  A clip of four frames and patches of  *)
(* two: output frame 1 needs sources 0..2 and anchors 0 and 1, output      *)
(* frame 2 sources 1..3 and anchors 1 and 2.  They share two sources and   *)
(* one contribution.                                                       *)
(***************************************************************************)
EXTENDS RenderFrames, TLC

CONSTANTS t1, t2, t3, w1, w2, n1, n2, n3, b1, b2, b3, c1, c2

Pairs == [frames |-> 4, pt |-> 2, bwd |-> 0, fwd |-> 0]

\* Two frames, patches of one, one frame searched backwards: output frame 0
\* needs both anchors, output frame 1 the second, and both need both sources.
Backwards == [frames |-> 2, pt |-> 1, bwd |-> 1, fwd |-> 0]

BasicStage == <<"noisy">>
FinalStage == <<"noisy", "basic">>

\* The least caches initialize_cuda accepts: a window fills each of them.
MinimumBuffers == "noisy" :> {n1, n2, n3} @@ "contribution" :> {c1, c2}
LiveBuffers    == "noisy" :> {n1, n2} @@ "contribution" :> {c1, c2}
FinalBuffers   == "noisy" :> {n1, n2, n3} @@ "basic" :> {b1, b2, b3}
                  @@ "contribution" :> {c1, c2}

SlotSymmetry(buffers) == UNION {Permutations(buffers[c]) : c \in DOMAIN buffers}
MinimumSymmetry == SlotSymmetry(MinimumBuffers) \cup Permutations(Threads) \cup Permutations(Workers)
FinalSymmetry   == SlotSymmetry(FinalBuffers) \cup Permutations(Threads) \cup Permutations(Workers)
=============================================================================
