----------------------------- MODULE FrameCache -----------------------------
(***************************************************************************)
(* The fixed-capacity, reference-counted device frame cache of             *)
(* src/src/cuda/frame_cache.cpp.                                           *)
(*                                                                         *)
(* A thread asks for a window of keys and receives, in one critical        *)
(* section, a slot for every key: the slot that already holds the key (a   *)
(* hit) or the least recently claimed slot nobody uses (a load).  It then  *)
(* produces its loads on a stream, records their events, publishes them,   *)
(* waits for the events of the frames others loaded, and releases the      *)
(* window.  The module has one action per critical section of mutex_ and   *)
(* per step a thread takes outside it; notify_all comes after the unlock   *)
(* and is a step of its own.                                               *)
(*                                                                         *)
(* A "thread" is a lease holder: a program thread that held two windows    *)
(* would be two members of Threads scheduled one at a time.                *)
(***************************************************************************)
EXTENDS Integers, Sequences, FiniteSets

CONSTANTS
    Threads,        \* lease holders
    Keys,           \* frame keys (frame number and generation)
    Slots,          \* the slots allocated by the constructor
    NoKey, NoSlot,  \* std::nullopt of Slot::key, the constant no_slot
    Requests,       \* the key sequences a caller may ask for
    MaxStamp,       \* largest LRU stamp (2^64 - 1 in the code)
    MaxRefs,        \* largest reference count (2^32 - 1 in the code)
    Budget          \* bound: how many windows each thread asks for

ASSUME SlotsAssumption   == IsFiniteSet(Slots) /\ NoSlot \notin Slots
ASSUME ThreadsAssumption == IsFiniteSet(Threads)
ASSUME KeysAssumption    == NoKey \notin Keys
ASSUME RequestAssumption == Requests \subseteq Seq(Keys)
\* After a renumbering the clock is the slot count, and a window adds at most
\* the slot count once more.
ASSUME StampAssumption   == MaxStamp \in Nat /\ MaxStamp >= 2 * Cardinality(Slots)
ASSUME RefsAssumption    == MaxRefs \in Nat \ {0}
ASSUME BudgetAssumption  == Budget \in Nat

VARIABLES
    key, state, references, stamp,  \* struct Slot
    clock,                          \* clock_
    asleep,                         \* threads inside condition_.wait
    pc,                             \* where each thread is
    request, deferred,              \* arguments of claim
    bind, loads,                    \* slots_ and loads_ of a thread's Window
    published, abandoned,           \* published_ and abandoned_ of the Window
    awaited,                        \* keys a wait_selected call waits for
    budget,                         \* windows the thread may still ask for
    recorded,   \* history: the key whose production the slot's event marks
    waited,     \* history: keys whose events the thread's stream waits on
    claims,     \* history: how many slots have been claimed so far
    claimedAt   \* history: each slot's last claim on that unbounded count

history    == <<claims, claimedAt>>
slotVars   == <<key, state, references, stamp, clock>>
windowVars == <<bind, loads, published, abandoned>>
vars == <<key, state, references, stamp, clock, asleep, pc, request, deferred,
          bind, loads, published, abandoned, awaited, budget, recorded, waited,
          claims, claimedAt>>

SlotStates == {"Empty", "Loading", "Ready"}
Points == {"idle", "claim", "leased", "recorded", "resolve", "enqueue",
           "failed", "notify"}
NoWindow == [k \in Keys |-> NoSlot]

-----------------------------------------------------------------------------
KeysOf(q) == {q[i] : i \in DOMAIN q}

\* A window is non-empty, fits the cache and names no key twice.
ValidRequest(q) ==
    /\ Len(q) \in 1..Cardinality(Slots)
    /\ \A i, j \in DOMAIN q : q[i] = q[j] => i = j

\* The slot holding a key: find_key_locked.
Holding(k) == {s \in Slots : state[s] # "Empty" /\ key[s] = k}

Missing(K) == {k \in K : Holding(k) = {}}

\* Mutant: victims chosen without looking at their references.
Victims_IgnoresReferences(K) ==
    {s \in Slots : /\ state[s] # "Loading"
                   /\ \A k \in K : s \notin Holding(k)}
Victims(K) ==
    {s \in Slots : /\ references[s] = 0
                   /\ state[s] # "Loading"
                   /\ \A k \in K : s \notin Holding(k)}

\* Mutant: the newest frame first.
Before_Newest(r, s) ==
    \/ state[r] = "Empty" /\ state[s] # "Empty"
    \/ state[r] = state[s] /\ stamp[r] > stamp[s]
\* The order victims are taken in: empty slots, then the oldest stamp.
Before(r, s) ==
    \/ state[r] = "Empty" /\ state[s] # "Empty"
    \/ state[r] = state[s] /\ stamp[r] < stamp[s]

\* An ordinary acquire waits for a key that is loading.
AwaitsLoading(t) ==
    /\ ~deferred[t]
    /\ \E k \in KeysOf(request[t]) : \E s \in Holding(k) : state[s] = "Loading"

CanClaim(t) ==
    /\ ~AwaitsLoading(t)
    /\ Cardinality(Missing(KeysOf(request[t])))
          <= Cardinality(Victims(KeysOf(request[t])))

\* The slots a claim may give to the keys of q.  std::sort leaves the order
\* of victims with equal stamps open.
Bindings(q) ==
    {b \in [Keys -> Slots \cup {NoSlot}] :
        /\ \A k \in Keys \ KeysOf(q) : b[k] = NoSlot
        /\ \A k \in KeysOf(q) \ Missing(KeysOf(q)) : b[k] \in Holding(k)
        /\ \A k \in Missing(KeysOf(q)) : b[k] \in Victims(KeysOf(q))
        /\ \A i, j \in DOMAIN q :
              i < j /\ {q[i], q[j]} \subseteq Missing(KeysOf(q))
                 => b[q[i]] # b[q[j]] /\ ~Before(b[q[j]], b[q[i]])
        /\ \A v \in Victims(KeysOf(q)), k \in Missing(KeysOf(q)) :
              (\A m \in Missing(KeysOf(q)) : b[m] # v) => ~Before(v, b[k])}

Bound(b) == {s \in Slots : \E k \in Keys : b[k] = s}
Position(q, b, s) == CHOOSE i \in DOMAIN q : b[q[i]] = s

\* The stamps prepare_stamps_locked leaves: unchanged, or 1, 2, ... in the old
\* order when the clock could not count the window without overflowing.
Wraps(n) == clock > MaxStamp - n
Renumberings ==
    {r \in [Slots -> 1..Cardinality(Slots)] :
        /\ \A s, u \in Slots : r[s] = r[u] => s = u
        /\ \A s, u \in Slots : stamp[s] < stamp[u] => r[s] < r[u]}
\* Mutant: the clock restarts, the slots keep their old stamps.
PreparedStamps_Kept(n) == {stamp}
PreparedStamps(n) == IF Wraps(n) THEN Renumberings ELSE {stamp}
PreparedClock(n)  == IF Wraps(n) THEN Cardinality(Slots) ELSE clock

Overflows(b) == \E s \in Bound(b) : references[s] = MaxRefs

\* The keys a loading claim still owns: what publish checks before it changes
\* anything.
ClaimIntact(t) ==
    \A k \in loads[t] : /\ state[bind[t][k]] = "Loading"
                        /\ key[bind[t][k]] = k
                        /\ references[bind[t][k]] # 0

StillLoading(t) ==
    \E k \in awaited[t] : state[bind[t][k]] = "Loading" /\ key[bind[t][k]] = k

\* Mutant: whatever ended the wait is taken for a publication.
AllReady_Unchecked(t) == TRUE
AllReady(t) ==
    \A k \in awaited[t] : state[bind[t][k]] = "Ready" /\ key[bind[t][k]] = k

\* The slots abandon_locked empties for a window.
Dropped(t) ==
    {s \in Slots : \E k \in loads[t] : /\ bind[t][k] = s
                                      /\ state[s] = "Loading"
                                      /\ key[s] = k}

StateWithout(gone) == [s \in Slots |-> IF s \in gone THEN "Empty" ELSE state[s]]
KeyWithout(gone)   == [s \in Slots |-> IF s \in gone THEN NoKey ELSE key[s]]

Window(t) == {k \in Keys : bind[t][k] # NoSlot}

-----------------------------------------------------------------------------
Init ==
    /\ key = [s \in Slots |-> NoKey]
    /\ state = [s \in Slots |-> "Empty"]
    /\ references = [s \in Slots |-> 0]
    /\ stamp = [s \in Slots |-> 0]
    /\ clock = 0
    /\ asleep = {}
    /\ pc = [t \in Threads |-> "idle"]
    /\ request = [t \in Threads |-> <<>>]
    /\ deferred = [t \in Threads |-> FALSE]
    /\ bind = [t \in Threads |-> NoWindow]
    /\ loads = [t \in Threads |-> {}]
    /\ published = [t \in Threads |-> FALSE]
    /\ abandoned = [t \in Threads |-> FALSE]
    /\ awaited = [t \in Threads |-> {}]
    /\ budget = [t \in Threads |-> Budget]
    /\ recorded = [s \in Slots |-> NoKey]
    /\ waited = [t \in Threads |-> {}]
    /\ claims = 0
    /\ claimedAt = [s \in Slots |-> 0]

Goto(t, point) == pc' = [pc EXCEPT ![t] = point]

\* acquire and acquire_deferred.  validate_keys refuses an ill-formed window
\* before the lock is taken.
Acquire(t, q, d) ==
    /\ pc[t] = "idle" /\ budget[t] > 0
    /\ budget' = [budget EXCEPT ![t] = @ - 1]
    /\ IF ValidRequest(q)
       THEN /\ Goto(t, "claim")
            /\ request' = [request EXCEPT ![t] = q]
            /\ deferred' = [deferred EXCEPT ![t] = d]
       ELSE UNCHANGED <<pc, request, deferred>>
    /\ UNCHANGED <<slotVars, windowVars, asleep, awaited, recorded, waited, history>>

\* Every wait of claim is taken with nothing claimed.
ClaimWait(t) ==
    /\ pc[t] = "claim" /\ t \notin asleep
    /\ ~CanClaim(t)
    /\ asleep' = asleep \cup {t}
    /\ UNCHANGED <<slotVars, windowVars, pc, request, deferred, awaited, budget,
                   recorded, waited, history>>

\* The reference counter of a hit is full: the exception leaves claim before
\* any slot has changed.
ClaimOverflow(t) ==
    /\ pc[t] = "claim" /\ t \notin asleep
    /\ CanClaim(t)
    /\ \E b \in Bindings(request[t]) : Overflows(b)
    /\ Goto(t, "idle")
    /\ request' = [request EXCEPT ![t] = <<>>]
    /\ UNCHANGED <<slotVars, windowVars, asleep, deferred, awaited, budget,
                   recorded, waited, history>>

\* What a successful claim writes: every missing key takes its victim, every
\* slot of the window gains a reference and a new stamp, in window order.
TakeWindow(t, b, stamps) ==
    LET q == request[t]
        missing == Missing(KeysOf(q))
        victim(s) == {k \in missing : b[k] = s}
    IN  /\ key' = [s \in Slots |-> IF victim(s) # {}
                                   THEN CHOOSE k \in victim(s) : TRUE
                                   ELSE key[s]]
        /\ state' = [s \in Slots |-> IF victim(s) # {} THEN "Loading" ELSE state[s]]
        /\ references' = [s \in Slots |-> IF s \in Bound(b)
                                          THEN references[s] + 1
                                          ELSE references[s]]
        /\ stamp' = [s \in Slots |-> IF s \in Bound(b)
                                     THEN PreparedClock(Len(q)) + Position(q, b, s)
                                     ELSE stamps[s]]
        /\ clock' = PreparedClock(Len(q)) + Len(q)
        /\ bind' = [bind EXCEPT ![t] = b]
        /\ loads' = [loads EXCEPT ![t] = missing]
        /\ published' = [published EXCEPT ![t] = (missing = {})]
        /\ abandoned' = [abandoned EXCEPT ![t] = FALSE]
        /\ claims' = claims + Len(q)
        /\ claimedAt' = [s \in Slots |-> IF s \in Bound(b)
                                         THEN claims + Position(q, b, s)
                                         ELSE claimedAt[s]]

Claim(t) ==
    /\ pc[t] = "claim" /\ t \notin asleep
    /\ CanClaim(t)
    /\ \E b \in Bindings(request[t]) :
          /\ ~Overflows(b)
          /\ \E stamps \in PreparedStamps(Len(request[t])) : TakeWindow(t, b, stamps)
    /\ waited' = [waited EXCEPT ![t] = {}]
    /\ Goto(t, "leased")
    /\ UNCHANGED <<asleep, request, deferred, awaited, budget, recorded>>

\* Recording the events of the loads in K marks their slots.
Marked(t, K) ==
    [s \in Slots |-> IF \E k \in K : bind[t][k] = s
                    THEN CHOOSE k \in K : bind[t][k] = s
                    ELSE recorded[s]]

\* Window::publish records the events of all its loads before it takes the
\* lock ...
RecordLoadEvents(t) ==
    /\ pc[t] = "leased" /\ ~published[t] /\ ~abandoned[t]
    /\ recorded' = Marked(t, loads[t])
    /\ Goto(t, "recorded")
    /\ UNCHANGED <<slotVars, windowVars, asleep, request, deferred, awaited,
                   budget, waited, history>>

\* ... and a recording that fails part way leaves every key Loading.
RecordFails(t) ==
    /\ pc[t] = "leased" /\ ~published[t] /\ ~abandoned[t]
    /\ \E done \in SUBSET loads[t] :
          /\ done # loads[t]
          /\ recorded' = Marked(t, done)
    /\ Goto(t, "failed")
    /\ UNCHANGED <<slotVars, windowVars, asleep, request, deferred, awaited,
                   budget, waited, history>>

\* All loads become Ready in one critical section.  The code throws when the
\* claim is not intact: ClaimsSurviveUntilPublish says it always is.
Publish(t) ==
    /\ pc[t] = "recorded"
    /\ ClaimIntact(t)
    /\ state' = [s \in Slots |-> IF \E k \in loads[t] : bind[t][k] = s
                                 THEN "Ready" ELSE state[s]]
    /\ published' = [published EXCEPT ![t] = TRUE]
    /\ Goto(t, "notify")
    /\ UNCHANGED <<key, references, stamp, clock, bind, loads, abandoned, asleep,
                   request, deferred, awaited, budget, recorded, waited, history>>

\* wait_hits waits for the frames others load, wait_ready for the whole
\* window; a thread of the model makes each call once per window.
WaitFor(t, K) ==
    /\ pc[t] = "leased"
    /\ ~(K \subseteq waited[t])
    /\ awaited' = [awaited EXCEPT ![t] = K]
    /\ Goto(t, "resolve")
    /\ UNCHANGED <<slotVars, windowVars, asleep, request, deferred, budget,
                   recorded, waited, history>>

\* Mutant: the thread's own loads are waited for as well.
WaitHits_OwnLoads(t) == WaitFor(t, Window(t))
WaitHits(t)  == WaitFor(t, Window(t) \ loads[t])
WaitReady(t) == published[t] /\ WaitFor(t, Window(t))

ResolveWait(t) ==
    /\ pc[t] = "resolve" /\ t \notin asleep
    /\ StillLoading(t)
    /\ asleep' = asleep \cup {t}
    /\ UNCHANGED <<slotVars, windowVars, pc, request, deferred, awaited, budget,
                   recorded, waited, history>>

\* The events are collected under the lock; a frame whose producer gave up is
\* an error.
Resolve(t) ==
    /\ pc[t] = "resolve" /\ t \notin asleep
    /\ ~StillLoading(t)
    /\ Goto(t, IF AllReady(t) THEN "enqueue" ELSE "failed")
    /\ UNCHANGED <<slotVars, windowVars, asleep, request, deferred, awaited,
                   budget, recorded, waited, history>>

\* The waits on the events are enqueued after the lock is released.
EnqueueWaits(t) ==
    /\ pc[t] = "enqueue"
    /\ waited' = [waited EXCEPT ![t] = @ \cup awaited[t]]
    /\ Goto(t, "leased")
    /\ UNCHANGED <<slotVars, windowVars, asleep, request, deferred, awaited,
                   budget, recorded, history>>

EnqueueFails(t) ==
    /\ pc[t] = "enqueue"
    /\ Goto(t, "failed")
    /\ UNCHANGED <<slotVars, windowVars, asleep, request, deferred, awaited,
                   budget, recorded, waited, history>>

\* abandon: the loading keys of the window disappear, its references stay.
Abandon(t) ==
    /\ pc[t] \in {"leased", "failed"} /\ ~published[t] /\ ~abandoned[t]
    /\ state' = StateWithout(Dropped(t))
    /\ key' = KeyWithout(Dropped(t))
    /\ abandoned' = [abandoned EXCEPT ![t] = TRUE]
    /\ Goto(t, "notify")
    /\ UNCHANGED <<references, stamp, clock, bind, loads, published, asleep,
                   request, deferred, awaited, budget, recorded, waited, history>>

AbandonsOnRelease(t) == ~published[t] /\ ~abandoned[t]
Returned(t) == Bound(bind[t])
\* release, and the destructor: abandon what was not published, then drop one
\* reference per slot.  A count of zero would end the program;
\* ReferencesCountLeases says there is none.
Release(t) ==
    /\ pc[t] \in {"leased", "failed"}
    /\ \A s \in Bound(bind[t]) : references[s] # 0
    /\ LET gone == IF AbandonsOnRelease(t) THEN Dropped(t) ELSE {}
       IN  state' = StateWithout(gone) /\ key' = KeyWithout(gone)
    /\ references' = [s \in Slots |-> IF s \in Returned(t)
                                      THEN references[s] - 1
                                      ELSE references[s]]
    /\ bind' = [bind EXCEPT ![t] = NoWindow]
    /\ loads' = [loads EXCEPT ![t] = {}]
    /\ published' = [published EXCEPT ![t] = FALSE]
    /\ abandoned' = [abandoned EXCEPT ![t] = FALSE]
    /\ request' = [request EXCEPT ![t] = <<>>]
    /\ waited' = [waited EXCEPT ![t] = {}]
    /\ Goto(t, "notify")
    /\ UNCHANGED <<stamp, clock, asleep, deferred, awaited, budget, recorded, history>>

\* Mutants: notify_one, and no notification at all.
StillAsleep_NotifyOne(t) ==
    IF asleep = {} THEN {} ELSE asleep \ {CHOOSE u \in asleep : TRUE}
StillAsleep_Silent(t) == asleep
\* The threads condition_.notify_all leaves asleep; it comes after the unlock.
StillAsleep(t) == {}
NotifyAll(t) ==
    /\ pc[t] = "notify"
    /\ asleep' = StillAsleep(t)
    /\ Goto(t, IF request[t] = <<>> THEN "idle" ELSE "leased")
    /\ UNCHANGED <<slotVars, windowVars, request, deferred, awaited, budget,
                   recorded, waited, history>>

\* condition_.wait may return without a notification.
SpuriousWake(t) ==
    /\ t \in asleep
    /\ asleep' = asleep \ {t}
    /\ UNCHANGED <<slotVars, windowVars, pc, request, deferred, awaited, budget,
                   recorded, waited, history>>

\* Every thread has used its bound: the only way the model may stop.
Finished == \A t \in Threads : pc[t] = "idle" /\ budget[t] = 0
Done == Finished /\ UNCHANGED vars

Step(t) ==
    \/ \E q \in Requests, d \in BOOLEAN : Acquire(t, q, d)
    \/ ClaimWait(t) \/ ClaimOverflow(t) \/ Claim(t)
    \/ RecordLoadEvents(t) \/ RecordFails(t) \/ Publish(t)
    \/ WaitHits(t) \/ WaitReady(t) \/ ResolveWait(t) \/ Resolve(t)
    \/ EnqueueWaits(t) \/ EnqueueFails(t)
    \/ Abandon(t) \/ Release(t) \/ NotifyAll(t)

Next == (\E t \in Threads : Step(t) \/ SpuriousWake(t)) \/ Done

Spec == Init /\ [][Next]_vars

\* A thread that is not asleep keeps running: the operating system schedules
\* it, the mutex is held for bounded critical sections only, and render_frame
\* releases every window it acquires on every path.
FairSpec == Spec /\ \A t \in Threads : WF_vars(Step(t))
-----------------------------------------------------------------------------
(* Properties *)

\* Every variable stays in its range; in particular no stamp, clock or
\* reference count leaves the width of its C++ type.
TypeOK ==
    /\ key \in [Slots -> Keys \cup {NoKey}]
    /\ state \in [Slots -> SlotStates]
    /\ references \in [Slots -> 0..MaxRefs]
    /\ stamp \in [Slots -> 0..MaxStamp]
    /\ clock \in 0..MaxStamp
    /\ asleep \subseteq Threads
    /\ pc \in [Threads -> Points]
    /\ request \in [Threads -> Requests \cup {<<>>}]
    /\ deferred \in [Threads -> BOOLEAN]
    /\ bind \in [Threads -> [Keys -> Slots \cup {NoSlot}]]
    /\ loads \in [Threads -> SUBSET Keys]
    /\ published \in [Threads -> BOOLEAN]
    /\ abandoned \in [Threads -> BOOLEAN]
    /\ awaited \in [Threads -> SUBSET Keys]
    /\ budget \in [Threads -> 0..Budget]
    /\ recorded \in [Slots -> Keys \cup {NoKey}]
    /\ waited \in [Threads -> SUBSET Keys]
    /\ claims \in Nat
    /\ claimedAt \in [Slots -> Nat]

\* A key is never resident in two slots, however claims, abandoned loads and
\* evictions interleave (claim, find_key_locked).
KeyResidesOnce ==
    \A r, s \in Slots :
        state[r] # "Empty" /\ state[s] # "Empty" /\ key[r] = key[s] => r = s

\* A slot's reference count is the number of windows bound to it, so release
\* never finds a zero count (its std::terminate) and a slot in use is never a
\* victim.
Holders(s) == {t \in Threads : s \in Bound(bind[t])}
ReferencesCountLeases == \A s \in Slots : references[s] = Cardinality(Holders(s))

\* A loading slot belongs to exactly one window that loads its key and has
\* neither published nor abandoned it: nobody waits for a producer that is gone.
LoadingHasOneProducer ==
    \A s \in Slots : state[s] = "Loading" =>
        \E t \in Threads :
            /\ key[s] \in loads[t] /\ bind[t][key[s]] = s
            /\ ~published[t] /\ ~abandoned[t]
            /\ \A u \in Threads \ {t} : ~(key[s] \in loads[u] /\ bind[u][key[s]] = s)

\* Between claim and publish nothing takes a loading slot away from its
\* window: publish never throws "loading claim changed before publish".
ClaimsSurviveUntilPublish ==
    \A t \in Threads : ~published[t] /\ ~abandoned[t] => ClaimIntact(t)

\* The events a thread collects under the lock and waits on after it still
\* mark the frames of its own keys, and stay theirs until the release: no
\* eviction re-records an event or changes a frame somebody waits for.
WaitsSeeTheirFrames ==
    \A t \in Threads :
        \A k \in waited[t] \cup (IF pc[t] = "enqueue" THEN awaited[t] ELSE {}) :
            /\ state[bind[t][k]] = "Ready"
            /\ key[bind[t][k]] = k
            /\ recorded[bind[t][k]] = k

\* A thread asleep whose condition has come true is about to be notified:
\* moving notify_all after the unlock loses no wake-up.
CanProceed(t) == IF pc[t] = "claim" THEN CanClaim(t) ELSE ~StillLoading(t)
NoLostWakeup ==
    \A t \in asleep : CanProceed(t) => \E u \in Threads : pc[u] = "notify"

\* Deferred waits cannot close a cycle: two windows never each wait for a key
\* the other loads, although neither publishes before its wait_hits returns.
WaitsOn(t) ==
    {u \in Threads : pc[t] = "resolve" /\ \E k \in awaited[t] \cap loads[u] :
                        /\ bind[u][k] = bind[t][k] /\ ~published[u] /\ ~abandoned[u]}
NoWaitCycle ==
    ~\E T \in (SUBSET Threads) \ {{}} : \A t \in T : WaitsOn(t) \cap T # {}

\* Stamps order the slots by their last claim, across every renumbering of
\* the clock, and slots never claimed are older than all others.
StampsOrderByRecency ==
    \A r, s \in Slots : claimedAt[r] < claimedAt[s] => stamp[r] < stamp[s]

\* A step that evicts a frame had no empty slot free and no unused frame it
\* did not ask for that was claimed longer ago.
EvictsOldest ==
    \A s \in Slots : state[s] = "Ready" /\ state'[s] = "Loading" =>
        \A r \in Slots : references[r] = 0 /\ references'[r] = 0 =>
            state[r] = "Ready" /\ claimedAt[s] < claimedAt[r]
EvictionIsLeastRecent == [][EvictsOldest]_vars

\* A referenced slot is never given another key: it keeps its key, or loses it
\* when the producer abandons the load.
PinnedSlotsKeepTheirKey ==
    [][\A s \in Slots : references[s] > 0 /\ references'[s] > 0
          => \/ key'[s] = key[s]
             \/ key'[s] = NoKey /\ state[s] = "Loading"]_vars

\* Every thread finishes all its windows: no schedule of acquires, waits,
\* failures and releases leaves the cache stuck.
AllServed == <>Finished

-----------------------------------------------------------------------------
(* The inductive invariant behind the safety properties. *)

HasLease(t) ==
    \/ pc[t] \in {"leased", "recorded", "resolve", "enqueue", "failed"}
    \/ pc[t] = "notify" /\ request[t] # <<>>

\* A window exists exactly while its thread has a lease, names each slot once,
\* and what it loads or waits for is part of it.
WindowsAreWellFormed ==
    \A t \in Threads :
        /\ HasLease(t) => request[t] # <<>>
        /\ ~HasLease(t) => /\ bind[t] = NoWindow /\ loads[t] = {} /\ waited[t] = {}
                           /\ ~published[t] /\ ~abandoned[t]
        /\ pc[t] = "idle" => request[t] = <<>>
        /\ pc[t] = "claim" => ValidRequest(request[t])
        /\ pc[t] = "recorded" => ~published[t] /\ ~abandoned[t]
        /\ loads[t] \cup waited[t] \subseteq Window(t)
        /\ pc[t] \in {"resolve", "enqueue"} => awaited[t] \subseteq Window(t)
        /\ \A k, m \in Window(t) : bind[t][k] = bind[t][m] => k = m

\* A slot without a key is empty, and the other way round.
EmptySlotsHaveNoKey == \A s \in Slots : state[s] = "Empty" <=> key[s] = NoKey

\* The slot of a key in a window holds that key or was emptied by the producer
\* that abandoned it.
BoundSlotsHoldTheirKey ==
    \A t \in Threads : \A k \in Window(t) : key[bind[t][k]] \in {k, NoKey}

\* What a window loaded is ready from its publication on.
PublishedLoadsAreReady ==
    \A t \in Threads : published[t] =>
        \A k \in loads[t] : state[bind[t][k]] = "Ready" /\ key[bind[t][k]] = k

\* Two windows never load the same slot at the same time.
OneLoaderPerSlot ==
    \A t, u \in Threads : \A k \in loads[t], m \in loads[u] :
        bind[t][k] = bind[u][m] => t = u

LoadingSlotsAreLoaded ==
    \A s \in Slots : state[s] = "Loading" =>
        \E t \in Threads : \E k \in loads[t] :
            bind[t][k] = s /\ ~published[t] /\ ~abandoned[t]

\* The event of a ready slot marks the frame it holds, and the events of a
\* window about to be published mark its loads.
EventsMarkTheFrames ==
    /\ \A s \in Slots : state[s] = "Ready" => recorded[s] = key[s]
    /\ \A t \in Threads : pc[t] = "recorded" =>
          \A k \in loads[t] : recorded[bind[t][k]] = k

CacheInv ==
    /\ TypeOK
    /\ WindowsAreWellFormed
    /\ EmptySlotsHaveNoKey
    /\ KeyResidesOnce
    /\ ReferencesCountLeases
    /\ BoundSlotsHoldTheirKey
    /\ ClaimsSurviveUntilPublish
    /\ PublishedLoadsAreReady
    /\ OneLoaderPerSlot
    /\ LoadingSlotsAreLoaded
    /\ EventsMarkTheFrames
    /\ WaitsSeeTheirFrames

\* The stamps' part of the argument needs nothing but types and the clocks.
ClockInv ==
    /\ TypeOK
    /\ \A t \in Threads : pc[t] = "claim" => ValidRequest(request[t])
    /\ \A s \in Slots : stamp[s] <= clock /\ claimedAt[s] <= claims
    /\ StampsOrderByRecency
=============================================================================
