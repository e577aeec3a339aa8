----------------------------- MODULE WorkerPool ------------------------------
(***************************************************************************)
(* The pool of CUDA workers: WorkerPool in src/src/vs/cuda_plugin.cpp.     *)
(* Any number of VapourSynth threads share num_streams workers.  acquire   *)
(* waits on a condition variable for an available worker and takes the     *)
(* first; release makes it available under the lock and wakes one waiter   *)
(* after the unlock, by when another thread may have taken the worker.     *)
(***************************************************************************)
EXTENDS Integers, FiniteSets

CONSTANTS
    Threads,        \* threads that render frames
    NumStreams,     \* number of workers
    NoWorker,       \* a Lease without a pool
    Budget          \* bound: how many leases each thread asks for

ASSUME PoolAssumption ==
    /\ IsFiniteSet(Threads) /\ NumStreams \in Nat \ {0} /\ Budget \in Nat
    /\ NoWorker \notin Nat

VARIABLES
    available,      \* available_, as the set of its true indices
    asleep,         \* threads inside ready_.wait
    pc,
    lease,          \* index_ of each thread's Lease
    budget

poolVars == <<available, asleep, pc, lease, budget>>

Workers == 0..(NumStreams - 1)

PoolInit ==
    /\ available = Workers
    /\ asleep = {}
    /\ pc = [t \in Threads |-> "idle"]
    /\ lease = [t \in Threads |-> NoWorker]
    /\ budget = [t \in Threads |-> Budget]

Request(t) ==
    /\ pc[t] = "idle" /\ budget[t] > 0
    /\ pc' = [pc EXCEPT ![t] = "acquire"]
    /\ budget' = [budget EXCEPT ![t] = @ - 1]
    /\ UNCHANGED <<available, asleep, lease>>

\* The predicate of ready_.wait is false: the thread sleeps.
Wait(t) ==
    /\ pc[t] = "acquire" /\ t \notin asleep
    /\ available = {}
    /\ asleep' = asleep \cup {t}
    /\ UNCHANGED <<available, pc, lease, budget>>

\* Mutant: the worker stays available.
Remaining_All(w) == available
Remaining(w) == available \ {w}

\* The first available worker, for a thread that arrives or was woken.
Take(t) ==
    /\ pc[t] = "acquire" /\ t \notin asleep
    /\ \E w \in available : /\ \A v \in available : w <= v
                            /\ lease' = [lease EXCEPT ![t] = w]
                            /\ available' = Remaining(w)
    /\ pc' = [pc EXCEPT ![t] = "leased"]
    /\ UNCHANGED <<asleep, budget>>

Returned(t) == lease[t]

\* The critical section of release.
Release(t) ==
    /\ pc[t] = "leased"
    /\ available' = available \cup {Returned(t)}
    /\ lease' = [lease EXCEPT ![t] = NoWorker]
    /\ pc' = [pc EXCEPT ![t] = "notify"]
    /\ UNCHANGED <<asleep, budget>>

\* Mutant: nobody is woken when another worker was available already.
StillAsleep_OnlyFirst == IF Cardinality(available) > 1 THEN {asleep}
                         ELSE IF asleep = {} THEN {{}} ELSE {asleep \ {u} : u \in asleep}
\* Mutant: nobody is woken.
StillAsleep_Silent == {asleep}
\* notify_one wakes some sleeper if there is one.
StillAsleep == IF asleep = {} THEN {{}} ELSE {asleep \ {u} : u \in asleep}

NotifyOne(t) ==
    /\ pc[t] = "notify"
    /\ asleep' \in StillAsleep
    /\ pc' = [pc EXCEPT ![t] = "idle"]
    /\ UNCHANGED <<available, lease, budget>>

SpuriousWake(t) ==
    /\ t \in asleep
    /\ asleep' = asleep \ {t}
    /\ UNCHANGED <<available, pc, lease, budget>>

Finished ==
    /\ \A t \in Threads : pc[t] = "idle" /\ budget[t] = 0
    /\ UNCHANGED poolVars

Step(t) == Request(t) \/ Wait(t) \/ Take(t) \/ Release(t) \/ NotifyOne(t)

PoolNext == (\E t \in Threads : Step(t) \/ SpuriousWake(t)) \/ Finished

PoolSpec == PoolInit /\ [][PoolNext]_poolVars

\* Every thread that is awake keeps running: render_frame ends and its Lease is
\* destroyed.  Nothing is assumed about spurious wake-ups or which sleeper
\* notify_one picks.
FairPoolSpec == PoolSpec /\ \A t \in Threads : WF_poolVars(Step(t))

-----------------------------------------------------------------------------
PoolTypeOK ==
    /\ available \in SUBSET Workers
    /\ asleep \in SUBSET {t \in Threads : pc[t] = "acquire"}
    /\ pc \in [Threads -> {"idle", "acquire", "leased", "notify"}]
    /\ lease \in [Threads -> Workers \cup {NoWorker}]
    /\ budget \in [Threads -> 0..Budget]

\* A worker, with its stream and its pinned buffers, is leased to one thread at
\* a time.
LeasesAreExclusive ==
    /\ \A t \in Threads : lease[t] # NoWorker <=> pc[t] = "leased"
    /\ \A t \in Threads : lease[t] \notin available
    /\ \A t, u \in Threads : t # u /\ lease[t] = lease[u] => lease[t] = NoWorker

Awake     == {t \in Threads : pc[t] = "acquire"} \ asleep
Notifying == {t \in Threads : pc[t] = "notify"}

\* notify_one after the unlock is enough: while threads sleep, every available
\* worker has a thread on its way to it, awake or about to wake one.
NoLostWakeup ==
    asleep # {} => Cardinality(available) <= Cardinality(Awake) + Cardinality(Notifying)

\* Every thread gets its worker as often as it asks.
AllLeasesServed == <>[](\A t \in Threads : pc[t] = "idle" /\ budget[t] = 0)
=============================================================================
