----------------------------- MODULE KeyedLease -----------------------------
(***************************************************************************)
(* What the frame cache promises its callers, with no slots, stamps, locks *)
(* or condition variables: src/src/cuda/frame_cache.hpp, lines 73-81 and   *)
(* 158-168.                                                                *)
(*                                                                         *)
(* A key is absent, loading or ready.  A thread takes all the keys of a    *)
(* window in one step: it loads the absent ones and reads the others.      *)
(* Taking may evict ready keys nobody holds.  A loading window commits as  *)
(* a whole or is dropped as a whole; dropping it makes its keys absent and *)
(* loses them for everyone who was going to read them.                     *)
(***************************************************************************)
EXTENDS FiniteSets, Integers

CONSTANTS Threads, Keys, Capacity

VARIABLES phase,    \* of each key
          role      \* of each thread towards each key

leaseVars == <<phase, role>>

Phases == {"absent", "loading", "ready"}
Roles  == {"none", "loads", "reads", "lost"}

Held(k)    == \E t \in Threads : role[t][k] \in {"loads", "reads"}
Loads(t)   == {k \in Keys : role[t][k] = "loads"}
Present(p) == {k \in Keys : p[k] # "absent"}

LeaseInit ==
    /\ phase = [k \in Keys |-> "absent"]
    /\ role = [t \in Threads |-> [k \in Keys |-> "none"]]

Take(t, K) ==
    /\ \A k \in Keys : role[t][k] = "none"
    /\ role' = [role EXCEPT ![t] =
                  [k \in Keys |-> IF k \notin K THEN "none"
                                  ELSE IF phase[k] = "absent" THEN "loads"
                                  ELSE "reads"]]
    /\ \E evicted \in SUBSET {k \in Keys \ K : phase[k] = "ready" /\ ~Held(k)} :
          phase' = [k \in Keys |-> CASE k \in K /\ phase[k] = "absent" -> "loading"
                                     [] k \in evicted -> "absent"
                                     [] OTHER -> phase[k]]
    /\ Cardinality(Present(phase')) <= Capacity

Commit(t) ==
    /\ Loads(t) # {}
    /\ LET done == Loads(t)
       IN /\ phase' = [k \in Keys |-> IF k \in done THEN "ready" ELSE phase[k]]
          /\ role' = [role EXCEPT ![t] =
                        [k \in Keys |-> IF k \in done THEN "reads" ELSE role[t][k]]]

\* The roles left when the loads of t vanish.
Without(t) ==
    LET gone == Loads(t)
    IN [u \in Threads |-> [k \in Keys |->
           IF k \in gone /\ role[u][k] \in {"loads", "reads"} THEN "lost"
           ELSE role[u][k]]]
Vanish(t) ==
    LET gone == Loads(t) IN [k \in Keys |-> IF k \in gone THEN "absent" ELSE phase[k]]

Drop(t) ==
    /\ Loads(t) # {}
    /\ phase' = Vanish(t)
    /\ role' = Without(t)

Return(t) ==
    /\ \E k \in Keys : role[t][k] # "none"
    /\ phase' = Vanish(t)
    /\ role' = [Without(t) EXCEPT ![t] = [k \in Keys |-> "none"]]

LeaseNext ==
    \E t \in Threads :
        \/ \E K \in (SUBSET Keys) \ {{}} : Take(t, K)
        \/ Commit(t) \/ Drop(t) \/ Return(t)

LeaseSpec == LeaseInit /\ [][LeaseNext]_leaseVars

=============================================================================
