---------------------------- MODULE MCWorkerPool -----------------------------
(***************************************************************************)
(* More threads than workers, threads interchangeable.                     *)
(***************************************************************************)
EXTENDS WorkerPool, TLC

CONSTANTS t1, t2, t3, t4

ThreadSymmetry == Permutations(Threads)
=============================================================================
