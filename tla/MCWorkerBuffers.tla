--------------------------- MODULE MCWorkerBuffers ----------------------------
(***************************************************************************)
(* A clip of three frames and patches of two frames: output frame 1 needs  *)
(* anchors 0 and 1, which read frames 0..1 and 1..2 and have grids of      *)
(* three and two patches.  Up to three source frames pass through a ring   *)
(* of two staging buffers, and grids are filtered in chunks of two.        *)
(***************************************************************************)
EXTENDS WorkerBuffers

Pairs      == [frames |-> 3, pt |-> 2, bwd |-> 0, fwd |-> 0]
GridSizes  == [a \in 0..1 |-> IF a = 0 THEN 3 ELSE 2]
BasicStage == <<"noisy">>
=============================================================================
