------------------------ MODULE FrameCacheImplements ------------------------
(***************************************************************************)
(* The frame cache implements the keyed lease: slots become phases of      *)
(* keys, bindings become roles, and every step outside the lock is a       *)
(* stutter.                                                                *)
(***************************************************************************)
EXTENDS FrameCache

phaseOf == [k \in Keys |->
    IF \E s \in Slots : state[s] = "Ready" /\ key[s] = k THEN "ready"
    ELSE IF \E s \in Slots : state[s] = "Loading" /\ key[s] = k THEN "loading"
    ELSE "absent"]

\* A window's claim on a key is lost when its slot no longer holds the key.
roleOf == [t \in Threads |-> [k \in Keys |->
    IF bind[t][k] = NoSlot THEN "none"
    ELSE IF key[bind[t][k]] # k THEN "lost"
    ELSE IF k \in loads[t] /\ ~published[t] THEN "loads"
    ELSE "reads"]]

Lease == INSTANCE KeyedLease
            WITH phase <- phaseOf, role <- roleOf, Capacity <- Cardinality(Slots)

\* Every behaviour of the cache, seen through phases and roles, is one of the
\* keyed lease: claims are all-or-nothing, windows are published and abandoned
\* as a whole, and only unused ready frames are evicted.
ImplementsKeyedLease == Lease!LeaseSpec
=============================================================================
