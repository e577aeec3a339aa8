---------------------------- MODULE MCFrameCache ----------------------------
(***************************************************************************)
(* Small instances of FrameCache for TLC.                                  *)
(***************************************************************************)
EXTENDS FrameCacheImplements, TLC

CONSTANTS t1, t2, t3, k1, k2, k3, s1, s2

\* Two slots and three keys: every request of two keys fills the cache, so
\* claims evict, wait for victims and wait for loading keys.  One request is
\* ill-formed.
PairRequests == {<<k1>>, <<k1, k2>>, <<k3, k2>>, <<k2, k2>>}

\* Two windows that overlap and each fill the cache.
ContendedRequests == {<<k1, k2>>, <<k2, k3>>}

\* Threads and slots are interchangeable; the keys are told apart by the
\* requests.
SlotSymmetry   == Permutations(Slots)
ThreadSymmetry == Permutations(Threads)
AllSymmetry    == SlotSymmetry \cup ThreadSymmetry
=============================================================================
