-------------------------- MODULE FrameCache_proofs --------------------------
(***************************************************************************)
(* Theorems about FrameCache, for every finite set of threads and slots,   *)
(* every set of keys and requests and every width of the counters: types,  *)
(* stamps and the invariant CacheInv of the protocol first, then what the  *)
(* cache promises its callers.  It evicts the least recently claimed       *)
(* frame, loses no wake-up, closes no cycle of waits, and implements the   *)
(* keyed lease.                                                            *)
(***************************************************************************)
EXTENDS FrameCacheImplements, FiniteSetTheorems, WellFoundedInduction, TLAPS

Valid == \A t \in Threads : pc[t] = "claim" => ValidRequest(request[t])

LEMMA SlotCount == Cardinality(Slots) \in Nat
  BY SlotsAssumption, FS_CardinalityType

\* The stamps prepare_stamps_locked leaves are stamps, and the window can be
\* counted on top of the clock it leaves.
LEMMA PreparedTypes ==
  ASSUME TypeOK, NEW n \in 1..Cardinality(Slots), NEW stamps \in PreparedStamps(n)
  PROVE  /\ stamps \in [Slots -> 0..MaxStamp]
         /\ PreparedClock(n) \in 0..MaxStamp
         /\ PreparedClock(n) + n <= MaxStamp
<1>1. Cardinality(Slots) \in Nat /\ MaxStamp \in Nat /\ MaxStamp >= 2 * Cardinality(Slots)
  BY SlotCount, StampAssumption
<1>2. clock \in 0..MaxStamp /\ stamp \in [Slots -> 0..MaxStamp]
  BY DEF TypeOK
<1>3. CASE Wraps(n)
  <2>1. stamps \in [Slots -> 1..Cardinality(Slots)]
    BY <1>3 DEF PreparedStamps, Renumberings
  <2> QED BY <1>1, <1>3, <2>1 DEF PreparedClock
<1>4. CASE ~Wraps(n)
  BY <1>1, <1>2, <1>4 DEF PreparedStamps, PreparedClock, Wraps
<1> QED BY <1>3, <1>4

\* A slot a binding uses has a position in the window.
LEMMA PositionInWindow ==
  ASSUME NEW q \in Seq(Keys), NEW b \in Bindings(q), NEW s \in Bound(b)
  PROVE  /\ Position(q, b, s) \in 1..Len(q)
         /\ b[q[Position(q, b, s)]] = s
<1>1. PICK k \in Keys : b[k] = s
  BY DEF Bound
<1>2. s # NoSlot
  BY SlotsAssumption DEF Bound
<1>3. k \in KeysOf(q)
  BY <1>1, <1>2 DEF Bindings
<1>4. \E i \in DOMAIN q : b[q[i]] = s
  BY <1>1, <1>3 DEF KeysOf
<1> QED BY <1>4 DEF Position

LEMMA InitTypes == Init => TypeOK /\ Valid
<1>1. MaxStamp \in Nat /\ MaxRefs \in Nat /\ Budget \in Nat
  BY StampAssumption, RefsAssumption, BudgetAssumption
<1> QED BY <1>1 DEF Init, TypeOK, Valid, NoWindow, SlotStates, Points

LEMMA ClaimTypes ==
  ASSUME TypeOK, Valid, NEW t \in Threads, Claim(t)
  PROVE  TypeOK'
<1> DEFINE q == request[t]
<1>1. PICK b \in Bindings(q) : /\ ~Overflows(b)
                              /\ \E stamps \in PreparedStamps(Len(q)) :
                                    TakeWindow(t, b, stamps)
  BY DEF Claim
<1>2. PICK stamps \in PreparedStamps(Len(q)) : TakeWindow(t, b, stamps)
  BY <1>1
<1>3. q \in Seq(Keys) /\ Len(q) \in 1..Cardinality(Slots)
  BY RequestAssumption DEF Claim, Valid, ValidRequest, TypeOK
<1>4. /\ stamps \in [Slots -> 0..MaxStamp]
      /\ PreparedClock(Len(q)) \in 0..MaxStamp
      /\ PreparedClock(Len(q)) + Len(q) <= MaxStamp
  BY <1>3, PreparedTypes
<1>5. \A s \in Bound(b) : Position(q, b, s) \in 1..Len(q)
  BY <1>3, PositionInWindow
<1>6. Len(q) \in Nat /\ MaxStamp \in Nat /\ MaxRefs \in Nat
  BY <1>3, SlotCount, StampAssumption, RefsAssumption
<1>7. key' \in [Slots -> Keys \cup {NoKey}]
  <2> DEFINE victim(s) == {k \in Missing(KeysOf(q)) : b[k] = s}
  <2>1. key' = [s \in Slots |-> IF victim(s) # {} THEN CHOOSE k \in victim(s) : TRUE
                                                 ELSE key[s]]
    BY <1>2 DEF TakeWindow
  <2>2. \A s \in Slots : victim(s) # {} => (CHOOSE k \in victim(s) : TRUE) \in victim(s)
    OBVIOUS
  <2>3. \A s \in Slots : victim(s) \subseteq Keys
    BY <1>3 DEF Missing, KeysOf
  <2>4. key \in [Slots -> Keys \cup {NoKey}]
    BY DEF TypeOK
  <2> HIDE DEF victim
  <2> QED BY <2>1, <2>2, <2>3, <2>4
<1>8. state' \in [Slots -> SlotStates] 
  BY <1>2 DEF TakeWindow, TypeOK, SlotStates
<1>9. references' \in [Slots -> 0..MaxRefs]
  <2>1. \A s \in Bound(b) : references[s] # MaxRefs
    BY <1>1 DEF Overflows
  <2>2. \A s \in Slots : references[s] \in 0..MaxRefs
    BY DEF TypeOK
  <2>3. references' = [s \in Slots |-> IF s \in Bound(b)
                                      THEN references[s] + 1 ELSE references[s]]
    BY <1>2 DEF TakeWindow
  <2> QED BY <2>1, <2>2, <2>3, <1>6
<1>10. stamp' \in [Slots -> 0..MaxStamp] /\ clock' \in 0..MaxStamp
  <2>1. stamp' = [s \in Slots |-> IF s \in Bound(b)
                                 THEN PreparedClock(Len(q)) + Position(q, b, s)
                                 ELSE stamps[s]]
    BY <1>2 DEF TakeWindow
  <2>2. clock' = PreparedClock(Len(q)) + Len(q)
    BY <1>2 DEF TakeWindow
  <2> QED BY <2>1, <2>2, <1>4, <1>5, <1>6
<1>11. claims' \in Nat /\ claimedAt' \in [Slots -> Nat]
  <2>1. claims \in Nat /\ claimedAt \in [Slots -> Nat]
    BY DEF TypeOK
  <2>2. /\ claims' = claims + Len(q)
        /\ claimedAt' = [s \in Slots |-> IF s \in Bound(b)
                                         THEN claims + Position(q, b, s)
                                         ELSE claimedAt[s]]
    BY <1>2 DEF TakeWindow
  <2> QED BY <2>1, <2>2, <1>5, <1>6
<1>12. /\ bind' \in [Threads -> [Keys -> Slots \cup {NoSlot}]]
       /\ loads' \in [Threads -> SUBSET Keys]
       /\ published' \in [Threads -> BOOLEAN]
       /\ abandoned' \in [Threads -> BOOLEAN]
  <2>1. b \in [Keys -> Slots \cup {NoSlot}]
    BY DEF Bindings
  <2>2. Missing(KeysOf(q)) \in SUBSET Keys
    BY <1>3 DEF Missing, KeysOf
  <2>3. /\ bind' = [bind EXCEPT ![t] = b]
        /\ loads' = [loads EXCEPT ![t] = Missing(KeysOf(q))]
        /\ published' = [published EXCEPT ![t] = (Missing(KeysOf(q)) = {})]
        /\ abandoned' = [abandoned EXCEPT ![t] = FALSE]
    BY <1>2 DEF TakeWindow
  <2> QED BY <2>1, <2>2, <2>3 DEF TypeOK
<1>13. /\ pc' \in [Threads -> Points]
       /\ waited' \in [Threads -> SUBSET Keys]
       /\ UNCHANGED <<asleep, request, deferred, awaited, budget, recorded>>
  BY DEF Claim, TypeOK, Goto, Points
<1> QED
  BY <1>7, <1>8, <1>9, <1>10, <1>11, <1>12, <1>13 DEF TypeOK

LEMMA NextTypes ==
  ASSUME TypeOK, Valid, [Next]_vars
  PROVE  TypeOK'
<1> USE DEF TypeOK, Goto, slotVars, windowVars, history
<1>1. ASSUME NEW t \in Threads, NEW q \in Requests, NEW d \in BOOLEAN, Acquire(t, q, d)
      PROVE  TypeOK'
  <2>1. budget' \in [Threads -> 0..Budget]
    BY <1>1, BudgetAssumption DEF Acquire
  <2>2. /\ pc' \in [Threads -> Points] /\ deferred' \in [Threads -> BOOLEAN]
        /\ request' \in [Threads -> Requests \cup {<<>>}]
    <3>1. CASE ValidRequest(q)
      BY <1>1, <3>1 DEF Acquire, Points
    <3>2. CASE ~ValidRequest(q)
      BY <1>1, <3>2 DEF Acquire
    <3> QED BY <3>1, <3>2
  <2> QED BY <1>1, <2>1, <2>2 DEF Acquire
<1>2. ASSUME NEW t \in Threads, ClaimWait(t) PROVE TypeOK'
  BY <1>2 DEF ClaimWait
<1>3. ASSUME NEW t \in Threads, ClaimOverflow(t) PROVE TypeOK'
  BY <1>3 DEF ClaimOverflow, Points
<1>4. ASSUME NEW t \in Threads, Claim(t) PROVE TypeOK'
  BY <1>4, ClaimTypes
<1>5. ASSUME NEW t \in Threads, RecordLoadEvents(t) PROVE TypeOK'
  BY <1>5 DEF RecordLoadEvents, Marked, Points
<1>6. ASSUME NEW t \in Threads, RecordFails(t) PROVE TypeOK'
  BY <1>6 DEF RecordFails, Marked, Points
<1>7. ASSUME NEW t \in Threads, Publish(t) PROVE TypeOK'
  BY <1>7 DEF Publish, Points, SlotStates
<1>8. ASSUME NEW t \in Threads, WaitHits(t) \/ WaitReady(t) PROVE TypeOK'
  <2>1. PICK K \in SUBSET Keys : WaitFor(t, K)
    BY <1>8 DEF WaitHits, WaitReady, Window
  <2> QED BY <2>1 DEF WaitFor, Points
<1>9. ASSUME NEW t \in Threads, ResolveWait(t) PROVE TypeOK'
  BY <1>9 DEF ResolveWait
<1>10. ASSUME NEW t \in Threads, Resolve(t) PROVE TypeOK'
  BY <1>10 DEF Resolve, Points
<1>11. ASSUME NEW t \in Threads, EnqueueWaits(t) PROVE TypeOK'
  BY <1>11 DEF EnqueueWaits, Points
<1>12. ASSUME NEW t \in Threads, EnqueueFails(t) PROVE TypeOK'
  BY <1>12 DEF EnqueueFails, Points
<1>13. ASSUME NEW t \in Threads, Abandon(t) PROVE TypeOK'
  BY <1>13 DEF Abandon, StateWithout, KeyWithout, Points, SlotStates
<1>14. ASSUME NEW t \in Threads, Release(t) PROVE TypeOK'
  BY <1>14, RefsAssumption DEF Release, Returned, StateWithout, KeyWithout, Points, SlotStates, NoWindow
<1>15. ASSUME NEW t \in Threads, NotifyAll(t) PROVE TypeOK'
  BY <1>15 DEF NotifyAll, StillAsleep, Points
<1>16. ASSUME NEW t \in Threads, SpuriousWake(t) PROVE TypeOK'
  BY <1>16 DEF SpuriousWake
<1>17. CASE UNCHANGED vars
  BY <1>17 DEF vars
<1> QED
  BY <1>1, <1>2, <1>3, <1>4, <1>5, <1>6, <1>7, <1>8, <1>9, <1>10, <1>11, <1>12,
     <1>13, <1>14, <1>15, <1>16, <1>17 DEF Next, Step, Done

-----------------------------------------------------------------------------
(* The clock: no counter overflows and stamps stay ordered by last claim. *)

LEMMA NextValid ==
  ASSUME TypeOK, Valid, [Next]_vars
  PROVE  Valid'
<1> USE DEF TypeOK, Valid, Goto, slotVars, windowVars, history, ValidRequest
<1>1. ASSUME NEW t \in Threads, NEW q \in Requests, NEW d \in BOOLEAN, Acquire(t, q, d)
      PROVE  Valid'
  <2>1. CASE ValidRequest(q)
    BY <1>1, <2>1 DEF Acquire
  <2>2. CASE ~ValidRequest(q)
    BY <1>1, <2>2 DEF Acquire
  <2> QED BY <2>1, <2>2
<1>2. ASSUME NEW t \in Threads, Step(t), ~\E q \in Requests, d \in BOOLEAN : Acquire(t, q, d)
      PROVE  \A u \in Threads : pc'[u] = "claim" => pc[u] = "claim" /\ request'[u] = request[u]
  <2>1. CASE Claim(t) \/ ClaimWait(t) \/ ClaimOverflow(t)
    BY <2>1 DEF Claim, ClaimWait, ClaimOverflow
  <2>2. CASE RecordLoadEvents(t) \/ RecordFails(t) \/ Publish(t)
    BY <2>2 DEF RecordLoadEvents, RecordFails, Publish
  <2>3. CASE WaitHits(t) \/ WaitReady(t) \/ ResolveWait(t) \/ Resolve(t)
    BY <2>3 DEF WaitHits, WaitReady, WaitFor, ResolveWait, Resolve
  <2>4. CASE EnqueueWaits(t) \/ EnqueueFails(t) \/ NotifyAll(t)
    BY <2>4 DEF EnqueueWaits, EnqueueFails, NotifyAll
  <2>5. CASE Abandon(t) \/ Release(t)
    BY <2>5 DEF Abandon, Release
  <2> QED BY <1>2, <2>1, <2>2, <2>3, <2>4, <2>5 DEF Step
<1>3. ASSUME NEW t \in Threads, SpuriousWake(t) PROVE Valid'
  BY <1>3 DEF SpuriousWake
<1>4. CASE UNCHANGED vars
  BY <1>4 DEF vars
<1>5. ASSUME NEW t \in Threads, Step(t) PROVE Valid'
  <2>1. CASE \E q \in Requests, d \in BOOLEAN : Acquire(t, q, d)
    BY <1>1, <2>1
  <2>2. CASE ~\E q \in Requests, d \in BOOLEAN : Acquire(t, q, d)
    BY <1>2, <1>5, <2>2
  <2> QED BY <2>1, <2>2
<1> QED BY <1>3, <1>4, <1>5 DEF Next, Done

LEMMA OnlyClaimMovesTheClock ==
  ASSUME [Next]_vars, ~\E t \in Threads : Claim(t)
  PROVE  UNCHANGED <<stamp, clock, claims, claimedAt>>
<1> USE DEF slotVars, history
<1>1. ASSUME NEW t \in Threads, Step(t)
      PROVE  UNCHANGED <<stamp, clock, claims, claimedAt>>
  <2>1. CASE \E q \in Requests, d \in BOOLEAN : Acquire(t, q, d)
    BY <2>1 DEF Acquire
  <2>2. CASE ClaimWait(t) \/ ClaimOverflow(t)
    BY <2>2 DEF ClaimWait, ClaimOverflow
  <2>3. CASE RecordLoadEvents(t) \/ RecordFails(t) \/ Publish(t)
    BY <2>3 DEF RecordLoadEvents, RecordFails, Publish
  <2>4. CASE WaitHits(t) \/ WaitReady(t) \/ ResolveWait(t) \/ Resolve(t)
    BY <2>4 DEF WaitHits, WaitReady, WaitFor, ResolveWait, Resolve
  <2>5. CASE EnqueueWaits(t) \/ EnqueueFails(t) \/ NotifyAll(t)
    BY <2>5 DEF EnqueueWaits, EnqueueFails, NotifyAll
  <2>6. CASE Abandon(t) \/ Release(t)
    BY <2>6 DEF Abandon, Release
  <2> QED BY <1>1, <2>1, <2>2, <2>3, <2>4, <2>5, <2>6 DEF Step
<1>2. ASSUME NEW t \in Threads, SpuriousWake(t)
      PROVE  UNCHANGED <<stamp, clock, claims, claimedAt>>
  BY <1>2 DEF SpuriousWake
<1> QED BY <1>1, <1>2 DEF Next, Done, vars

\* Renumbering keeps the order the stamps had and stays below the clock.
LEMMA PreparedOrder ==
  ASSUME ClockInv, NEW n \in 1..Cardinality(Slots), NEW stamps \in PreparedStamps(n)
  PROVE  /\ \A s \in Slots : stamps[s] <= PreparedClock(n)
         /\ \A r, s \in Slots : claimedAt[r] < claimedAt[s] => stamps[r] < stamps[s]
<1>1. CASE Wraps(n)
  BY <1>1, SlotCount DEF PreparedStamps, PreparedClock, Renumberings, ClockInv, StampsOrderByRecency
<1>2. CASE ~Wraps(n)
  BY <1>2 DEF PreparedStamps, PreparedClock, ClockInv, StampsOrderByRecency
<1> QED BY <1>1, <1>2

LEMMA ClaimClock ==
  ASSUME ClockInv, NEW t \in Threads, Claim(t)
  PROVE  /\ \A s \in Slots : stamp'[s] <= clock' /\ claimedAt'[s] <= claims'
         /\ StampsOrderByRecency'
<1> DEFINE q == request[t]
<1>1. PICK b \in Bindings(q), stamps \in PreparedStamps(Len(q)) : TakeWindow(t, b, stamps)
  BY DEF Claim
<1>2. q \in Seq(Keys) /\ Len(q) \in 1..Cardinality(Slots) /\ Len(q) \in Nat
  BY RequestAssumption, SlotCount DEF Claim, ClockInv, ValidRequest, TypeOK
<1>3. \A s \in Bound(b) : Position(q, b, s) \in 1..Len(q)
  BY <1>2, PositionInWindow
<1>4. /\ \A s \in Slots : stamps[s] \in Nat /\ stamps[s] <= PreparedClock(Len(q))
      /\ PreparedClock(Len(q)) \in Nat
      /\ \A r, s \in Slots : claimedAt[r] < claimedAt[s] => stamps[r] < stamps[s]
  BY <1>2, PreparedOrder, PreparedTypes DEF ClockInv
<1>5. /\ claims \in Nat
      /\ \A s \in Slots : claimedAt[s] \in Nat /\ claimedAt[s] <= claims
  BY DEF ClockInv, TypeOK
<1>6. /\ clock' = PreparedClock(Len(q)) + Len(q)
      /\ claims' = claims + Len(q)
      /\ \A s \in Slots : stamp'[s] = IF s \in Bound(b)
                                     THEN PreparedClock(Len(q)) + Position(q, b, s)
                                     ELSE stamps[s]
      /\ \A s \in Slots : claimedAt'[s] = IF s \in Bound(b)
                                         THEN claims + Position(q, b, s)
                                         ELSE claimedAt[s]
  BY <1>1 DEF TakeWindow
<1> HIDE DEF q
<1>7. \A s \in Slots : stamp'[s] <= clock' /\ claimedAt'[s] <= claims'
  BY <1>2, <1>3, <1>4, <1>5, <1>6
<1>8. StampsOrderByRecency'
  BY <1>2, <1>3, <1>4, <1>5, <1>6 DEF StampsOrderByRecency
<1> QED BY <1>7, <1>8

LEMMA ClockInvariant == Spec => []ClockInv
<1>1. Init => ClockInv
  BY InitTypes DEF Init, ClockInv, Valid, StampsOrderByRecency
<1>2. ClockInv /\ [Next]_vars => ClockInv'
  <2> SUFFICES ASSUME ClockInv, [Next]_vars PROVE ClockInv'
    OBVIOUS
  <2>1. TypeOK' /\ Valid'
    BY NextTypes, NextValid DEF ClockInv, Valid
  <2>2. /\ \A s \in Slots : stamp'[s] <= clock' /\ claimedAt'[s] <= claims'
        /\ StampsOrderByRecency'
    <3>1. CASE \E t \in Threads : Claim(t)
      BY <3>1, ClaimClock
    <3>2. CASE ~\E t \in Threads : Claim(t)
      BY <3>2, OnlyClaimMovesTheClock DEF ClockInv, StampsOrderByRecency
    <3> QED BY <3>1, <3>2
  <2> QED BY <2>1, <2>2 DEF ClockInv, Valid
<1> QED BY <1>1, <1>2, PTL DEF Spec

\* The clock, the stamps and the reference counts never leave the width of
\* their C++ types, and no variable leaves its range.
THEOREM TypeCorrect == Spec => []TypeOK
<1>1. ClockInv => TypeOK
  BY DEF ClockInv
<1> QED BY <1>1, ClockInvariant, PTL

\* Least-recently-claimed order survives every renumbering of the clock
\* (prepare_stamps_locked), whatever MaxStamp is.
THEOREM StampsCorrect == Spec => []StampsOrderByRecency
<1>1. ClockInv => StampsOrderByRecency
  BY DEF ClockInv
<1> QED BY <1>1, ClockInvariant, PTL

-----------------------------------------------------------------------------
(* The cache invariant. *)

\* The conjuncts of CacheInv that only speak of slots and windows.
SlotInv ==
    /\ EmptySlotsHaveNoKey
    /\ KeyResidesOnce
    /\ ReferencesCountLeases
    /\ BoundSlotsHoldTheirKey
    /\ ClaimsSurviveUntilPublish
    /\ PublishedLoadsAreReady
    /\ OneLoaderPerSlot
    /\ LoadingSlotsAreLoaded

LEMMA CacheInvParts ==
  CacheInv <=> /\ TypeOK /\ SlotInv /\ WindowsAreWellFormed
               /\ EventsMarkTheFrames /\ WaitsSeeTheirFrames
BY DEF CacheInv, SlotInv

LEMMA InitCache == Init => CacheInv
<1> SUFFICES ASSUME Init PROVE CacheInv
  OBVIOUS
<1>1. TypeOK
  BY InitTypes
<1>2. \A t \in Threads : Window(t) = {} /\ Bound(bind[t]) = {}
  BY SlotsAssumption DEF Init, Window, NoWindow, Bound
<1>3. ReferencesCountLeases
  <2>1. \A s \in Slots : Holders(s) = {}
    BY <1>2 DEF Holders
  <2> QED BY <2>1, FS_EmptySet DEF Init, ReferencesCountLeases
<1>4. WindowsAreWellFormed
  BY <1>2 DEF Init, WindowsAreWellFormed, HasLease
<1>5. EmptySlotsHaveNoKey /\ KeyResidesOnce /\ LoadingSlotsAreLoaded /\ EventsMarkTheFrames
  BY DEF Init, EmptySlotsHaveNoKey, KeyResidesOnce, LoadingSlotsAreLoaded, EventsMarkTheFrames
<1>6. /\ BoundSlotsHoldTheirKey /\ ClaimsSurviveUntilPublish /\ PublishedLoadsAreReady
      /\ OneLoaderPerSlot /\ WaitsSeeTheirFrames
  BY <1>2 DEF Init, BoundSlotsHoldTheirKey, ClaimsSurviveUntilPublish, ClaimIntact,
              PublishedLoadsAreReady, OneLoaderPerSlot, WaitsSeeTheirFrames
<1> QED BY <1>1, <1>3, <1>4, <1>5, <1>6 DEF CacheInv

\* A step that leaves slots and windows alone.
LEMMA SlotsUntouched ==
  ASSUME SlotInv, UNCHANGED <<key, state, references, windowVars>>
  PROVE  SlotInv'
<1> USE DEF windowVars
<1>1. \A t \in Threads : Window(t)' = Window(t)
  BY DEF Window
<1>2. ReferencesCountLeases'
  <2>1. \A s \in Slots : Holders(s)' = Holders(s)
    BY DEF Holders, Bound
  <2> QED BY <2>1 DEF SlotInv, ReferencesCountLeases
<1>3. EmptySlotsHaveNoKey' /\ KeyResidesOnce' /\ BoundSlotsHoldTheirKey'
  BY <1>1 DEF SlotInv, EmptySlotsHaveNoKey, KeyResidesOnce, BoundSlotsHoldTheirKey
<1>4. ClaimsSurviveUntilPublish' /\ PublishedLoadsAreReady'
  BY DEF SlotInv, ClaimsSurviveUntilPublish, ClaimIntact, PublishedLoadsAreReady
<1>5. OneLoaderPerSlot' /\ LoadingSlotsAreLoaded'
  BY DEF SlotInv, OneLoaderPerSlot, LoadingSlotsAreLoaded
<1> QED BY <1>2, <1>3, <1>4, <1>5 DEF SlotInv

LEMMA CacheAcquire ==
  ASSUME CacheInv, TypeOK', NEW t \in Threads, NEW q \in Requests, NEW d \in BOOLEAN, Acquire(t, q, d)
  PROVE  CacheInv'
<1> USE DEF Acquire, Goto, slotVars, windowVars, history
<1>1. SlotInv'
  BY SlotsUntouched, CacheInvParts
<1>2. \A u \in Threads : Window(u)' = Window(u)
  BY DEF Window
<1>3. WindowsAreWellFormed'
  BY <1>2 DEF CacheInv, TypeOK, WindowsAreWellFormed, HasLease
<1>4. \A u \in Threads : pc'[u] = pc[u] \/ pc'[u] = "claim"
  BY DEF CacheInv, TypeOK
<1>5. EventsMarkTheFrames' /\ WaitsSeeTheirFrames'
  BY <1>4 DEF CacheInv, EventsMarkTheFrames, WaitsSeeTheirFrames
<1> QED BY <1>1, <1>3, <1>5, CacheInvParts DEF CacheInv, SlotInv

LEMMA CacheClaimWait ==
  ASSUME CacheInv, TypeOK', NEW t \in Threads, ClaimWait(t)
  PROVE  CacheInv'
<1> USE DEF ClaimWait, Goto, slotVars, windowVars, history
<1>1. SlotInv'
  BY SlotsUntouched, CacheInvParts
<1>2. \A u \in Threads : Window(u)' = Window(u)
  BY DEF Window
<1>3. WindowsAreWellFormed'
  BY <1>2 DEF CacheInv, TypeOK, WindowsAreWellFormed, HasLease
<1>4. EventsMarkTheFrames' /\ WaitsSeeTheirFrames'
  BY DEF CacheInv, TypeOK, EventsMarkTheFrames, WaitsSeeTheirFrames
<1> QED BY <1>1, <1>3, <1>4, CacheInvParts DEF CacheInv, SlotInv

LEMMA CacheClaimOverflow ==
  ASSUME CacheInv, TypeOK', NEW t \in Threads, ClaimOverflow(t)
  PROVE  CacheInv'
<1> USE DEF ClaimOverflow, Goto, slotVars, windowVars, history
<1>1. SlotInv'
  BY SlotsUntouched, CacheInvParts
<1>2. \A u \in Threads : Window(u)' = Window(u)
  BY DEF Window
<1>3. WindowsAreWellFormed'
  BY <1>2 DEF CacheInv, TypeOK, WindowsAreWellFormed, HasLease
<1>4. EventsMarkTheFrames' /\ WaitsSeeTheirFrames'
  BY DEF CacheInv, TypeOK, EventsMarkTheFrames, WaitsSeeTheirFrames
<1> QED BY <1>1, <1>3, <1>4, CacheInvParts DEF CacheInv, SlotInv

LEMMA CacheWaitFor ==
  ASSUME CacheInv, TypeOK', NEW t \in Threads, NEW K \in SUBSET Window(t), WaitFor(t, K)
  PROVE  CacheInv'
<1> USE DEF WaitFor, Goto, slotVars, windowVars, history
<1>1. SlotInv'
  BY SlotsUntouched, CacheInvParts
<1>2. \A u \in Threads : Window(u)' = Window(u)
  BY DEF Window
<1>3. WindowsAreWellFormed'
  BY <1>2 DEF CacheInv, TypeOK, WindowsAreWellFormed, HasLease
<1>4. EventsMarkTheFrames' /\ WaitsSeeTheirFrames'
  BY DEF CacheInv, TypeOK, EventsMarkTheFrames, WaitsSeeTheirFrames
<1> QED BY <1>1, <1>3, <1>4, CacheInvParts DEF CacheInv, SlotInv

LEMMA CacheResolveWait ==
  ASSUME CacheInv, TypeOK', NEW t \in Threads, ResolveWait(t)
  PROVE  CacheInv'
<1> USE DEF ResolveWait, Goto, slotVars, windowVars, history
<1>1. SlotInv'
  BY SlotsUntouched, CacheInvParts
<1>2. \A u \in Threads : Window(u)' = Window(u)
  BY DEF Window
<1>3. WindowsAreWellFormed'
  BY <1>2 DEF CacheInv, TypeOK, WindowsAreWellFormed, HasLease
<1>4. EventsMarkTheFrames' /\ WaitsSeeTheirFrames'
  BY DEF CacheInv, TypeOK, EventsMarkTheFrames, WaitsSeeTheirFrames
<1> QED BY <1>1, <1>3, <1>4, CacheInvParts DEF CacheInv, SlotInv

LEMMA CacheResolve ==
  ASSUME CacheInv, TypeOK', NEW t \in Threads, Resolve(t)
  PROVE  CacheInv'
<1> USE DEF Resolve, Goto, slotVars, windowVars, history
<1>1. SlotInv'
  BY SlotsUntouched, CacheInvParts
<1>2. \A u \in Threads : Window(u)' = Window(u)
  BY DEF Window
<1>3. WindowsAreWellFormed'
  BY <1>2 DEF CacheInv, TypeOK, WindowsAreWellFormed, HasLease
<1>4. EventsMarkTheFrames'
  BY DEF CacheInv, TypeOK, EventsMarkTheFrames
<1>5. ASSUME AllReady(t)
      PROVE  \A k \in awaited[t] : /\ state[bind[t][k]] = "Ready"
                                   /\ key[bind[t][k]] = k
                                   /\ recorded[bind[t][k]] = k
  <2>1. \A k \in awaited[t] : bind[t][k] \in Slots
    BY DEF CacheInv, TypeOK, WindowsAreWellFormed, Window
  <2> QED BY <1>5, <2>1 DEF AllReady, CacheInv, EventsMarkTheFrames
<1>6. WaitsSeeTheirFrames'
  BY <1>5 DEF CacheInv, TypeOK, WaitsSeeTheirFrames
<1> QED BY <1>1, <1>3, <1>4, <1>6, CacheInvParts DEF CacheInv, SlotInv

LEMMA CacheEnqueueWaits ==
  ASSUME CacheInv, TypeOK', NEW t \in Threads, EnqueueWaits(t)
  PROVE  CacheInv'
<1> USE DEF EnqueueWaits, Goto, slotVars, windowVars, history
<1>1. SlotInv'
  BY SlotsUntouched, CacheInvParts
<1>2. \A u \in Threads : Window(u)' = Window(u)
  BY DEF Window
<1>3. WindowsAreWellFormed'
  BY <1>2 DEF CacheInv, TypeOK, WindowsAreWellFormed, HasLease
<1>4. EventsMarkTheFrames' /\ WaitsSeeTheirFrames'
  BY DEF CacheInv, TypeOK, EventsMarkTheFrames, WaitsSeeTheirFrames
<1> QED BY <1>1, <1>3, <1>4, CacheInvParts DEF CacheInv, SlotInv

LEMMA CacheEnqueueFails ==
  ASSUME CacheInv, TypeOK', NEW t \in Threads, EnqueueFails(t)
  PROVE  CacheInv'
<1> USE DEF EnqueueFails, Goto, slotVars, windowVars, history
<1>1. SlotInv'
  BY SlotsUntouched, CacheInvParts
<1>2. \A u \in Threads : Window(u)' = Window(u)
  BY DEF Window
<1>3. WindowsAreWellFormed'
  BY <1>2 DEF CacheInv, TypeOK, WindowsAreWellFormed, HasLease
<1>4. EventsMarkTheFrames' /\ WaitsSeeTheirFrames'
  BY DEF CacheInv, TypeOK, EventsMarkTheFrames, WaitsSeeTheirFrames
<1> QED BY <1>1, <1>3, <1>4, CacheInvParts DEF CacheInv, SlotInv

LEMMA CacheNotifyAll ==
  ASSUME CacheInv, TypeOK', NEW t \in Threads, NotifyAll(t)
  PROVE  CacheInv'
<1> USE DEF NotifyAll, StillAsleep, Goto, slotVars, windowVars, history
<1>1. SlotInv'
  BY SlotsUntouched, CacheInvParts
<1>2. \A u \in Threads : Window(u)' = Window(u)
  BY DEF Window
<1>3. WindowsAreWellFormed'
  BY <1>2 DEF CacheInv, TypeOK, WindowsAreWellFormed, HasLease
<1>4. EventsMarkTheFrames' /\ WaitsSeeTheirFrames'
  BY DEF CacheInv, TypeOK, EventsMarkTheFrames, WaitsSeeTheirFrames
<1> QED BY <1>1, <1>3, <1>4, CacheInvParts DEF CacheInv, SlotInv

LEMMA CacheSpuriousWake ==
  ASSUME CacheInv, TypeOK', NEW t \in Threads, SpuriousWake(t)
  PROVE  CacheInv'
<1> USE DEF SpuriousWake, Goto, slotVars, windowVars, history
<1>1. SlotInv'
  BY SlotsUntouched, CacheInvParts
<1>2. \A u \in Threads : Window(u)' = Window(u)
  BY DEF Window
<1>3. WindowsAreWellFormed'
  BY <1>2 DEF CacheInv, TypeOK, WindowsAreWellFormed, HasLease
<1>4. EventsMarkTheFrames' /\ WaitsSeeTheirFrames'
  BY DEF CacheInv, TypeOK, EventsMarkTheFrames, WaitsSeeTheirFrames
<1> QED BY <1>1, <1>3, <1>4, CacheInvParts DEF CacheInv, SlotInv

\* Recording the events of a window's loads touches no ready slot and no slot
\* another window loads.
LEMMA RecordingIsLocal ==
  ASSUME CacheInv, NEW t \in Threads, ~published[t], ~abandoned[t],
         NEW done \in SUBSET loads[t],
         recorded' = Marked(t, done)
  PROVE  /\ \A k \in done : recorded'[bind[t][k]] = k
         /\ \A s \in Slots : state[s] = "Ready" => recorded'[s] = recorded[s]
         /\ \A u \in Threads \ {t} : \A k \in loads[u] :
               recorded'[bind[u][k]] = recorded[bind[u][k]]
<1>1. \A u \in Threads : \A k \in loads[u] : k \in Window(u) /\ bind[u][k] \in Slots
  BY DEF CacheInv, TypeOK, WindowsAreWellFormed, Window
<1>2. \A k \in done : recorded'[bind[t][k]] = k
  <2>1. SUFFICES ASSUME NEW k \in done PROVE recorded'[bind[t][k]] = k
    OBVIOUS
  <2>2. \A m \in done : bind[t][m] = bind[t][k] => m = k
    BY <1>1 DEF CacheInv, WindowsAreWellFormed
  <2>3. (CHOOSE m \in done : bind[t][m] = bind[t][k]) = k
    BY <2>2
  <2> QED BY <1>1, <2>3 DEF Marked
<1>3. ASSUME NEW s \in Slots, state[s] = "Ready" PROVE recorded'[s] = recorded[s]
  <2>1. \A k \in loads[t] : state[bind[t][k]] = "Loading"
    BY DEF CacheInv, ClaimsSurviveUntilPublish, ClaimIntact
  <2> QED BY <1>3, <2>1 DEF Marked
<1>4. ASSUME NEW u \in Threads \ {t}, NEW k \in loads[u]
      PROVE  recorded'[bind[u][k]] = recorded[bind[u][k]]
  <2>1. \A m \in done : bind[t][m] # bind[u][k]
    BY DEF CacheInv, OneLoaderPerSlot
  <2> QED BY <1>1, <2>1 DEF Marked
<1> QED BY <1>2, <1>3, <1>4

LEMMA CacheRecordLoadEvents ==
  ASSUME CacheInv, TypeOK', NEW t \in Threads, RecordLoadEvents(t)
  PROVE  CacheInv'
<1> USE DEF RecordLoadEvents, Goto, slotVars, windowVars, history
<1>1. SlotInv'
  BY SlotsUntouched, CacheInvParts
<1>2. \A u \in Threads : Window(u)' = Window(u)
  BY DEF Window
<1>3. PICK done \in SUBSET loads[t] : done = loads[t] /\ recorded' = Marked(t, done)
  OBVIOUS
<1>4. /\ pc'[t] = "recorded"
      /\ \A k \in loads[t] : recorded'[bind[t][k]] = k
      /\ \A s \in Slots : state[s] = "Ready" => recorded'[s] = recorded[s]
      /\ \A u \in Threads \ {t} : \A k \in loads[u] :
            recorded'[bind[u][k]] = recorded[bind[u][k]]
  <2>1. ~published[t] /\ ~abandoned[t]
    OBVIOUS
  <2>2. pc \in [Threads -> Points]
    BY DEF CacheInv, TypeOK
  <2>3. pc' = [pc EXCEPT ![t] = "recorded"]
    OBVIOUS
  <2>4. pc'[t] = "recorded"
    BY <2>2, <2>3
  <2> QED BY <1>3, <2>1, <2>4, RecordingIsLocal
<1>5. WindowsAreWellFormed'
  BY <1>2 DEF CacheInv, TypeOK, WindowsAreWellFormed, HasLease
<1>6. \A u \in Threads \ {t} : pc'[u] = pc[u]
  BY DEF CacheInv, TypeOK
<1>7. EventsMarkTheFrames'
  <2>1. \A s \in Slots : state[s] = "Ready" => recorded'[s] = key[s]
    BY <1>4 DEF CacheInv, EventsMarkTheFrames
  <2>2. \A u \in Threads : pc'[u] = "recorded" =>
           \A k \in loads[u] : recorded'[bind[u][k]] = k
    BY <1>4, <1>6 DEF CacheInv, EventsMarkTheFrames
  <2> QED BY <2>1, <2>2 DEF EventsMarkTheFrames
<1>8. WaitsSeeTheirFrames'
  <2>1. SUFFICES ASSUME NEW u \in Threads,
                        NEW k \in waited[u] \cup (IF pc'[u] = "enqueue" THEN awaited[u] ELSE {})
                 PROVE  /\ state[bind[u][k]] = "Ready" /\ key[bind[u][k]] = k
                        /\ recorded'[bind[u][k]] = k
    BY DEF WaitsSeeTheirFrames
  <2>2. k \in waited[u] \cup (IF pc[u] = "enqueue" THEN awaited[u] ELSE {})
    BY <2>1, <1>6 DEF CacheInv, TypeOK
  <2>3. bind[u][k] \in Slots
    BY <2>2 DEF CacheInv, TypeOK, WindowsAreWellFormed, Window
  <2> QED BY <1>4, <2>2, <2>3 DEF CacheInv, WaitsSeeTheirFrames
<1> QED BY <1>1, <1>5, <1>7, <1>8, CacheInvParts DEF CacheInv, SlotInv

LEMMA CacheRecordFails ==
  ASSUME CacheInv, TypeOK', NEW t \in Threads, RecordFails(t)
  PROVE  CacheInv'
<1> USE DEF RecordFails, Goto, slotVars, windowVars, history
<1>1. SlotInv'
  BY SlotsUntouched, CacheInvParts
<1>2. \A u \in Threads : Window(u)' = Window(u)
  BY DEF Window
<1>3. PICK done \in SUBSET loads[t] : recorded' = Marked(t, done)
  OBVIOUS
<1>4. /\ pc'[t] # "recorded" /\ pc'[t] # "enqueue"
      /\ \A s \in Slots : state[s] = "Ready" => recorded'[s] = recorded[s]
      /\ \A u \in Threads \ {t} : \A k \in loads[u] :
            recorded'[bind[u][k]] = recorded[bind[u][k]]
  <2>1. ~published[t] /\ ~abandoned[t]
    OBVIOUS
  <2>2. pc \in [Threads -> Points]
    BY DEF CacheInv, TypeOK
  <2>3. pc' = [pc EXCEPT ![t] = "failed"]
    OBVIOUS
  <2>4. pc'[t] = "failed"
    BY <2>2, <2>3
  <2> QED BY <1>3, <2>1, <2>4, RecordingIsLocal
<1>5. WindowsAreWellFormed'
  BY <1>2 DEF CacheInv, TypeOK, WindowsAreWellFormed, HasLease
<1>6. \A u \in Threads \ {t} : pc'[u] = pc[u]
  BY DEF CacheInv, TypeOK
<1>7. EventsMarkTheFrames'
  <2>1. \A s \in Slots : state[s] = "Ready" => recorded'[s] = key[s]
    BY <1>4 DEF CacheInv, EventsMarkTheFrames
  <2>2. \A u \in Threads : pc'[u] = "recorded" =>
           \A k \in loads[u] : recorded'[bind[u][k]] = k
    BY <1>4, <1>6 DEF CacheInv, EventsMarkTheFrames
  <2> QED BY <2>1, <2>2 DEF EventsMarkTheFrames
<1>8. WaitsSeeTheirFrames'
  <2>1. SUFFICES ASSUME NEW u \in Threads,
                        NEW k \in waited[u] \cup (IF pc'[u] = "enqueue" THEN awaited[u] ELSE {})
                 PROVE  /\ state[bind[u][k]] = "Ready" /\ key[bind[u][k]] = k
                        /\ recorded'[bind[u][k]] = k
    BY DEF WaitsSeeTheirFrames
  <2>2. k \in waited[u] \cup (IF pc[u] = "enqueue" THEN awaited[u] ELSE {})
    BY <2>1, <1>6 DEF CacheInv, TypeOK
  <2>3. bind[u][k] \in Slots
    BY <2>2 DEF CacheInv, TypeOK, WindowsAreWellFormed, Window
  <2> QED BY <1>4, <2>2, <2>3 DEF CacheInv, WaitsSeeTheirFrames
<1> QED BY <1>1, <1>5, <1>7, <1>8, CacheInvParts DEF CacheInv, SlotInv

LEMMA WindowSlots ==
  ASSUME CacheInv, NEW u \in Threads
  PROVE  /\ loads[u] \subseteq Window(u) /\ waited[u] \subseteq Window(u)
         /\ pc[u] \in {"resolve", "enqueue"} => awaited[u] \subseteq Window(u)
         /\ \A k \in Window(u) : bind[u][k] \in Slots
  BY DEF CacheInv, TypeOK, WindowsAreWellFormed, Window

\* A slot that some window is bound to has a reference.
LEMMA BoundSlotsAreReferenced ==
  ASSUME CacheInv, NEW u \in Threads, NEW k \in Window(u)
  PROVE  references[bind[u][k]] # 0
<1> DEFINE s == bind[u][k]
<1>1. s \in Slots /\ u \in Holders(s)
  BY WindowSlots DEF Holders, Bound, Window
<1>2. IsFiniteSet(Holders(s))
  BY ThreadsAssumption, FS_Subset DEF Holders
<1>3. Cardinality(Holders(s)) # 0
  BY <1>1, <1>2, FS_EmptySet
<1> QED BY <1>1, <1>3 DEF CacheInv, ReferencesCountLeases

LEMMA CachePublish ==
  ASSUME CacheInv, TypeOK', NEW t \in Threads, Publish(t)
  PROVE  CacheInv'
<1> DEFINE L == {s \in Slots : \E k \in loads[t] : bind[t][k] = s}
<1>1. /\ pc[t] = "recorded"
      /\ state' = [s \in Slots |-> IF s \in L THEN "Ready" ELSE state[s]]
      /\ published' = [published EXCEPT ![t] = TRUE]
      /\ pc' = [pc EXCEPT ![t] = "notify"]
      /\ UNCHANGED <<key, references, bind, loads, abandoned, request, awaited, recorded, waited>>
  BY DEF Publish, Goto
<1>2. /\ ~published[t] /\ ~abandoned[t] /\ HasLease(t)
      /\ \A k \in loads[t] : /\ bind[t][k] \in L /\ state[bind[t][k]] = "Loading"
                             /\ key[bind[t][k]] = k /\ recorded[bind[t][k]] = k
  BY <1>1, WindowSlots DEF CacheInv, WindowsAreWellFormed, ClaimsSurviveUntilPublish,
                          ClaimIntact, EventsMarkTheFrames, HasLease
<1>3. /\ \A s \in L : state'[s] = "Ready" /\ state[s] = "Loading" /\ recorded[s] = key[s]
      /\ \A s \in Slots \ L : state'[s] = state[s]
  BY <1>1, <1>2
<1>4. /\ published'[t] /\ pc'[t] = "notify"
      /\ \A u \in Threads \ {t} : published'[u] = published[u] /\ pc'[u] = pc[u]
  BY <1>1 DEF CacheInv, TypeOK
<1>5. \A u \in Threads \ {t} : \A k \in loads[u] : bind[u][k] \in Slots \ L
  BY <1>2, WindowSlots DEF CacheInv, OneLoaderPerSlot
<1>6. \A u \in Threads : Window(u)' = Window(u)
  BY <1>1 DEF Window
<1> HIDE DEF L
<1>7. WindowsAreWellFormed'
  BY <1>1, <1>2, <1>4, <1>6 DEF CacheInv, WindowsAreWellFormed, HasLease
<1>8. EmptySlotsHaveNoKey' /\ KeyResidesOnce'
  BY <1>1, <1>3 DEF CacheInv, EmptySlotsHaveNoKey, KeyResidesOnce
<1>9. ReferencesCountLeases'
  <2>1. \A s \in Slots : Holders(s)' = Holders(s)
    BY <1>1 DEF Holders, Bound
  <2> QED BY <1>1, <2>1 DEF CacheInv, ReferencesCountLeases
<1>10. BoundSlotsHoldTheirKey' /\ OneLoaderPerSlot'
  BY <1>1, <1>6 DEF CacheInv, BoundSlotsHoldTheirKey, OneLoaderPerSlot
<1>11. ClaimsSurviveUntilPublish'
  BY <1>1, <1>3, <1>4, <1>5 DEF CacheInv, ClaimsSurviveUntilPublish, ClaimIntact
<1>12. PublishedLoadsAreReady'
  BY <1>1, <1>2, <1>3, <1>4, <1>5 DEF CacheInv, PublishedLoadsAreReady
<1>13. LoadingSlotsAreLoaded'
  <2>1. SUFFICES ASSUME NEW s \in Slots, state'[s] = "Loading"
                 PROVE  \E u \in Threads : \E k \in loads[u] :
                            bind[u][k] = s /\ ~published'[u] /\ ~abandoned[u]
    BY <1>1 DEF LoadingSlotsAreLoaded
  <2>2. s \notin L /\ state[s] = "Loading"
    BY <1>3, <2>1
  <2>3. PICK u \in Threads : \E k \in loads[u] :
           bind[u][k] = s /\ ~published[u] /\ ~abandoned[u]
    BY <2>2 DEF CacheInv, LoadingSlotsAreLoaded
  <2>4. u # t
    BY <1>2, <2>2, <2>3
  <2> QED BY <1>4, <2>3, <2>4
<1>14. EventsMarkTheFrames'
  <2>1. \A s \in Slots : state'[s] = "Ready" => recorded[s] = key[s]
    BY <1>3 DEF CacheInv, EventsMarkTheFrames
  <2>2. \A u \in Threads : pc'[u] = "recorded" => pc[u] = "recorded"
    BY <1>4
  <2> QED BY <1>1, <2>1, <2>2 DEF CacheInv, EventsMarkTheFrames
<1>15. WaitsSeeTheirFrames'
  <2>1. \A u \in Threads : pc'[u] = "enqueue" => pc[u] = "enqueue"
    BY <1>4
  <2>2. \A u \in Threads : \A k \in waited[u] \cup (IF pc[u] = "enqueue" THEN awaited[u] ELSE {}) :
           bind[u][k] \in Slots
    BY WindowSlots
  <2>3. \A s \in Slots : state[s] = "Ready" => state'[s] = "Ready"
    BY <1>3
  <2> QED BY <1>1, <2>1, <2>2, <2>3 DEF CacheInv, WaitsSeeTheirFrames
<1> QED BY <1>7, <1>8, <1>9, <1>10, <1>11, <1>12, <1>13, <1>14, <1>15 DEF CacheInv

\* What abandon_locked does to the slots: it empties loading slots of its own
\* window and no others, and leaves no load of the window behind.
LEMMA DroppingLoads ==
  ASSUME CacheInv, NEW t \in Threads, NEW gone \in SUBSET Dropped(t),
         gone = Dropped(t) \/ published[t] \/ abandoned[t],
         state' = StateWithout(gone), key' = KeyWithout(gone)
  PROVE  /\ \A s \in Slots \ gone : state'[s] = state[s] /\ key'[s] = key[s]
         /\ \A s \in Slots : state[s] = "Ready" => s \notin gone
         /\ \A u \in Threads \ {t} : \A k \in loads[u] : bind[u][k] \in Slots \ gone
         /\ EmptySlotsHaveNoKey' /\ KeyResidesOnce'
         /\ \A u \in Threads : \A k \in Window(u) : key'[bind[u][k]] \in {k, NoKey}
         /\ \A s \in Slots : state'[s] = "Ready" => recorded[s] = key'[s]
         /\ \A s \in Slots : state'[s] = "Loading" =>
               \E u \in Threads \ {t} : \E k \in loads[u] :
                  bind[u][k] = s /\ ~published[u] /\ ~abandoned[u]
<1>1. /\ \A s \in gone : s \in Slots /\ state[s] = "Loading"
                      /\ state'[s] = "Empty" /\ key'[s] = NoKey
      /\ \A s \in Slots \ gone : state'[s] = state[s] /\ key'[s] = key[s]
  BY DEF Dropped, StateWithout, KeyWithout
<1>2. \A u \in Threads \ {t} : \A k \in loads[u] : bind[u][k] \in Slots \ gone
  BY WindowSlots DEF Dropped, CacheInv, OneLoaderPerSlot
<1>3. EmptySlotsHaveNoKey' /\ KeyResidesOnce'
  BY <1>1 DEF CacheInv, EmptySlotsHaveNoKey, KeyResidesOnce
<1>4. \A u \in Threads : \A k \in Window(u) : key'[bind[u][k]] \in {k, NoKey}
  BY <1>1, WindowSlots DEF CacheInv, BoundSlotsHoldTheirKey
<1>5. \A s \in Slots : state'[s] = "Ready" => recorded[s] = key'[s]
  BY <1>1 DEF CacheInv, EventsMarkTheFrames
<1>6. ASSUME NEW s \in Slots, state'[s] = "Loading"
      PROVE  \E u \in Threads \ {t} : \E k \in loads[u] :
                bind[u][k] = s /\ ~published[u] /\ ~abandoned[u]
  <2>1. s \notin gone /\ state[s] = "Loading"
    BY <1>1, <1>6
  <2>2. PICK u \in Threads : \E k \in loads[u] :
           bind[u][k] = s /\ ~published[u] /\ ~abandoned[u]
    BY <2>1 DEF CacheInv, LoadingSlotsAreLoaded
  <2>3. PICK k \in loads[u] : bind[u][k] = s
    BY <2>2
  <2>4. key[s] = k
    BY <2>2, <2>3 DEF CacheInv, ClaimsSurviveUntilPublish, ClaimIntact
  <2>5. ASSUME u = t PROVE FALSE
    BY <1>6, <2>1, <2>2, <2>3, <2>4, <2>5 DEF Dropped
  <2> QED BY <2>2, <2>5
<1> QED BY <1>1, <1>2, <1>3, <1>4, <1>5, <1>6

LEMMA CacheAbandon ==
  ASSUME CacheInv, TypeOK', NEW t \in Threads, Abandon(t)
  PROVE  CacheInv'
<1>1. /\ pc[t] \in {"leased", "failed"} /\ ~published[t]
      /\ state' = StateWithout(Dropped(t)) /\ key' = KeyWithout(Dropped(t))
      /\ abandoned' = [abandoned EXCEPT ![t] = TRUE]
      /\ pc' = [pc EXCEPT ![t] = "notify"]
      /\ UNCHANGED <<references, bind, loads, published, request, awaited, recorded, waited>>
  BY DEF Abandon, Goto
<1>2. /\ \A s \in Slots \ Dropped(t) : state'[s] = state[s] /\ key'[s] = key[s]
      /\ \A s \in Slots : state[s] = "Ready" => s \notin Dropped(t)
      /\ \A u \in Threads \ {t} : \A k \in loads[u] : bind[u][k] \in Slots \ Dropped(t)
      /\ EmptySlotsHaveNoKey' /\ KeyResidesOnce'
      /\ \A u \in Threads : \A k \in Window(u) : key'[bind[u][k]] \in {k, NoKey}
      /\ \A s \in Slots : state'[s] = "Ready" => recorded[s] = key'[s]
      /\ \A s \in Slots : state'[s] = "Loading" =>
            \E u \in Threads \ {t} : \E k \in loads[u] :
               bind[u][k] = s /\ ~published[u] /\ ~abandoned[u]
  BY <1>1, DroppingLoads
<1>3. /\ abandoned'[t] /\ pc'[t] = "notify"
      /\ \A u \in Threads \ {t} : abandoned'[u] = abandoned[u] /\ pc'[u] = pc[u]
  BY <1>1 DEF CacheInv, TypeOK
<1>4. \A u \in Threads : Window(u)' = Window(u)
  BY <1>1 DEF Window
<1>5. HasLease(t)
  BY <1>1 DEF HasLease
<1>6. WindowsAreWellFormed'
  BY <1>1, <1>3, <1>4, <1>5 DEF CacheInv, WindowsAreWellFormed, HasLease
<1>7. ReferencesCountLeases'
  <2>1. \A s \in Slots : Holders(s)' = Holders(s)
    BY <1>1 DEF Holders, Bound
  <2> QED BY <1>1, <2>1 DEF CacheInv, ReferencesCountLeases
<1>8. BoundSlotsHoldTheirKey' /\ OneLoaderPerSlot'
  BY <1>1, <1>2, <1>4 DEF CacheInv, BoundSlotsHoldTheirKey, OneLoaderPerSlot
<1>9. ClaimsSurviveUntilPublish'
  BY <1>1, <1>2, <1>3 DEF CacheInv, ClaimsSurviveUntilPublish, ClaimIntact
<1>10. PublishedLoadsAreReady'
  BY <1>1, <1>2 DEF CacheInv, PublishedLoadsAreReady
<1>11. LoadingSlotsAreLoaded'
  BY <1>1, <1>2, <1>3 DEF LoadingSlotsAreLoaded
<1>12. EventsMarkTheFrames'
  <2>1. \A u \in Threads : pc'[u] = "recorded" => pc[u] = "recorded"
    BY <1>3
  <2> QED BY <1>1, <1>2, <2>1 DEF CacheInv, EventsMarkTheFrames
<1>13. WaitsSeeTheirFrames'
  <2>1. \A u \in Threads : pc'[u] = "enqueue" => pc[u] = "enqueue"
    BY <1>3
  <2>2. \A u \in Threads : \A k \in waited[u] \cup (IF pc[u] = "enqueue" THEN awaited[u] ELSE {}) :
           bind[u][k] \in Slots
    BY WindowSlots
  <2>3. \A s \in Slots : state[s] = "Ready" => state'[s] = "Ready" /\ key'[s] = key[s]
    BY <1>2
  <2> QED BY <1>1, <2>1, <2>2, <2>3 DEF CacheInv, WaitsSeeTheirFrames
<1> QED BY <1>2, <1>6, <1>7, <1>8, <1>9, <1>10, <1>11, <1>12, <1>13 DEF CacheInv

LEMMA CacheRelease ==
  ASSUME CacheInv, TypeOK', NEW t \in Threads, Release(t)
  PROVE  CacheInv'
<1> DEFINE gone == IF AbandonsOnRelease(t) THEN Dropped(t) ELSE {}
<1>1. /\ pc[t] \in {"leased", "failed"}
      /\ state' = StateWithout(gone) /\ key' = KeyWithout(gone)
      /\ references' = [s \in Slots |-> IF s \in Bound(bind[t])
                                        THEN references[s] - 1 ELSE references[s]]
      /\ bind' = [bind EXCEPT ![t] = NoWindow]
      /\ loads' = [loads EXCEPT ![t] = {}]
      /\ published' = [published EXCEPT ![t] = FALSE]
      /\ abandoned' = [abandoned EXCEPT ![t] = FALSE]
      /\ request' = [request EXCEPT ![t] = <<>>]
      /\ waited' = [waited EXCEPT ![t] = {}]
      /\ pc' = [pc EXCEPT ![t] = "notify"]
      /\ UNCHANGED <<awaited, recorded>>
  BY DEF Release, Returned, Goto
<1>2. gone \in SUBSET Dropped(t) /\ (gone = Dropped(t) \/ published[t] \/ abandoned[t])
  BY DEF AbandonsOnRelease
<1> HIDE DEF gone
<1>3. /\ \A s \in Slots \ gone : state'[s] = state[s] /\ key'[s] = key[s]
      /\ \A s \in Slots : state[s] = "Ready" => s \notin gone
      /\ \A u \in Threads \ {t} : \A k \in loads[u] : bind[u][k] \in Slots \ gone
      /\ EmptySlotsHaveNoKey' /\ KeyResidesOnce'
      /\ \A u \in Threads : \A k \in Window(u) : key'[bind[u][k]] \in {k, NoKey}
      /\ \A s \in Slots : state'[s] = "Ready" => recorded[s] = key'[s]
      /\ \A s \in Slots : state'[s] = "Loading" =>
            \E u \in Threads \ {t} : \E k \in loads[u] :
               bind[u][k] = s /\ ~published[u] /\ ~abandoned[u]
  BY <1>1, <1>2, DroppingLoads
<1>4. /\ bind'[t] = NoWindow /\ loads'[t] = {} /\ waited'[t] = {}
      /\ ~published'[t] /\ ~abandoned'[t] /\ request'[t] = <<>> /\ pc'[t] = "notify"
      /\ \A u \in Threads \ {t} :
            /\ bind'[u] = bind[u] /\ loads'[u] = loads[u] /\ waited'[u] = waited[u]
            /\ published'[u] = published[u] /\ abandoned'[u] = abandoned[u]
            /\ request'[u] = request[u] /\ pc'[u] = pc[u]
  BY <1>1 DEF CacheInv, TypeOK
<1>5. /\ Window(t)' = {} /\ Bound(bind'[t]) = {}
      /\ \A u \in Threads \ {t} : Window(u)' = Window(u)
  BY <1>4, SlotsAssumption DEF Window, Bound, NoWindow
<1>6. WindowsAreWellFormed'
  BY <1>1, <1>4, <1>5 DEF CacheInv, WindowsAreWellFormed, HasLease
<1>7. ReferencesCountLeases'
  <2>1. SUFFICES ASSUME NEW s \in Slots PROVE references'[s] = Cardinality(Holders(s)')
    BY DEF ReferencesCountLeases
  <2>2. Holders(s)' = Holders(s) \ {t}
    BY <1>4, <1>5 DEF Holders
  <2>3. IsFiniteSet(Holders(s)) /\ references[s] = Cardinality(Holders(s))
    BY ThreadsAssumption, FS_Subset DEF Holders, CacheInv, ReferencesCountLeases
  <2>4. CASE s \in Bound(bind[t])
    <3>1. t \in Holders(s)
      BY <2>4 DEF Holders
    <3>2. Cardinality(Holders(s) \ {t}) = Cardinality(Holders(s)) - 1
      BY <2>3, <3>1, FS_RemoveElement
    <3> QED BY <1>1, <2>2, <2>3, <2>4, <3>2
  <2>5. CASE s \notin Bound(bind[t])
    <3>1. Holders(s) \ {t} = Holders(s)
      BY <2>5 DEF Holders
    <3> QED BY <1>1, <2>2, <2>3, <2>5, <3>1
  <2> QED BY <2>4, <2>5
<1>8. BoundSlotsHoldTheirKey' /\ OneLoaderPerSlot'
  BY <1>3, <1>4, <1>5 DEF CacheInv, BoundSlotsHoldTheirKey, OneLoaderPerSlot
<1>9. ClaimsSurviveUntilPublish'
  <2>1. SUFFICES ASSUME NEW u \in Threads \ {t}, ~published[u], ~abandoned[u], NEW k \in loads[u]
                 PROVE  /\ state'[bind[u][k]] = "Loading" /\ key'[bind[u][k]] = k
                        /\ references'[bind[u][k]] # 0
    BY <1>4 DEF ClaimsSurviveUntilPublish, ClaimIntact
  <2>2. state[bind[u][k]] = "Loading" /\ key[bind[u][k]] = k
    BY <2>1 DEF CacheInv, ClaimsSurviveUntilPublish, ClaimIntact
  <2>3. bind[u][k] \in Slots \ gone
    BY <1>3
  <2>4. ASSUME NEW s \in Slots, u \in Holders(s)' PROVE references'[s] # 0
    <3>1. ASSUME NEW H \in SUBSET Threads, H # {} PROVE Cardinality(H) # 0
      BY <3>1, ThreadsAssumption, FS_Subset, FS_EmptySet
    <3>2. Holders(s)' \in SUBSET Threads
      BY DEF Holders
    <3> QED BY <1>7, <2>4, <3>1, <3>2 DEF ReferencesCountLeases
  <2>5. references'[bind[u][k]] # 0
    BY <1>4, <2>3, <2>4, WindowSlots DEF Holders, Bound, Window
  <2> QED BY <1>3, <2>2, <2>3, <2>5
<1>10. PublishedLoadsAreReady'
  BY <1>3, <1>4 DEF CacheInv, PublishedLoadsAreReady
<1>11. LoadingSlotsAreLoaded'
  BY <1>3, <1>4 DEF LoadingSlotsAreLoaded
<1>12. EventsMarkTheFrames'
  BY <1>1, <1>3, <1>4 DEF CacheInv, EventsMarkTheFrames
<1>13. WaitsSeeTheirFrames'
  <2>1. \A u \in Threads : \A k \in waited[u] \cup (IF pc[u] = "enqueue" THEN awaited[u] ELSE {}) :
           bind[u][k] \in Slots
    BY WindowSlots
  <2>2. \A s \in Slots : state[s] = "Ready" => state'[s] = "Ready" /\ key'[s] = key[s]
    BY <1>3
  <2> QED BY <1>1, <1>4, <2>1, <2>2 DEF CacheInv, WaitsSeeTheirFrames
<1> QED BY <1>3, <1>6, <1>7, <1>8, <1>9, <1>10, <1>11, <1>12, <1>13 DEF CacheInv

\* What a claim gives the keys of its window: hits keep their slot, misses take
\* distinct unused slots that hold no key of the window.
LEMMA BindingFacts ==
  ASSUME CacheInv, NEW q \in Seq(Keys), NEW b \in Bindings(q)
  PROVE  /\ \A k \in Keys : b[k] # NoSlot <=> k \in KeysOf(q)
         /\ \A k \in KeysOf(q) : b[k] \in Slots
         /\ \A k \in KeysOf(q) \ Missing(KeysOf(q)) : state[b[k]] # "Empty" /\ key[b[k]] = k
         /\ \A k \in Missing(KeysOf(q)) : references[b[k]] = 0 /\ state[b[k]] # "Loading"
         /\ \A k, m \in KeysOf(q) : b[k] = b[m] => k = m
         /\ KeysOf(q) \subseteq Keys /\ Missing(KeysOf(q)) \subseteq KeysOf(q)
<1> DEFINE K == KeysOf(q)  M == Missing(KeysOf(q))
<1>1. K \subseteq Keys /\ M \subseteq K
  BY DEF KeysOf, Missing
<1>2. /\ b \in [Keys -> Slots \cup {NoSlot}]
      /\ \A k \in Keys \ K : b[k] = NoSlot
      /\ \A k \in K \ M : b[k] \in Holding(k)
      /\ \A k \in M : b[k] \in Victims(K)
  BY DEF Bindings
<1>3. \A k \in K : b[k] \in Slots
  BY <1>1, <1>2 DEF Holding, Victims
<1>4. \A k \in K \ M : state[b[k]] # "Empty" /\ key[b[k]] = k
  BY <1>2 DEF Holding
<1>5. \A k \in M : references[b[k]] = 0 /\ state[b[k]] # "Loading"
  BY <1>2 DEF Victims
<1>6. ASSUME NEW k \in M, NEW m \in M, b[k] = b[m] PROVE k = m
  <2>1. PICK i \in DOMAIN q : q[i] = k
    BY <1>1 DEF KeysOf
  <2>2. PICK j \in DOMAIN q : q[j] = m
    BY <1>1 DEF KeysOf
  <2>3. i < j => b[q[i]] # b[q[j]]
    BY <2>1, <2>2 DEF Bindings
  <2>4. j < i => b[q[j]] # b[q[i]]
    BY <2>1, <2>2 DEF Bindings
  <2>5. i \in Nat /\ j \in Nat
    OBVIOUS
  <2> QED BY <1>6, <2>1, <2>2, <2>3, <2>4, <2>5
<1>7. ASSUME NEW k \in K \ M, NEW m \in M PROVE b[k] # b[m]
  BY <1>2, <1>7 DEF Victims
<1>8. \A k, m \in K : b[k] = b[m] => k = m
  BY <1>4, <1>6, <1>7
<1> HIDE DEF K, M
<1>9. \A k \in Keys : b[k] # NoSlot <=> k \in K
  BY <1>2, <1>3, SlotsAssumption
<1> QED BY <1>1, <1>3, <1>4, <1>5, <1>8, <1>9 DEF K, M

LEMMA CacheClaim ==
  ASSUME CacheInv, TypeOK', NEW t \in Threads, Claim(t)
  PROVE  CacheInv'
<1> DEFINE q == request[t]  K == KeysOf(q)  M == Missing(K)
<1>1. PICK b \in Bindings(q), stamps \in PreparedStamps(Len(q)) : TakeWindow(t, b, stamps)
  BY DEF Claim
<1> DEFINE taken == {s \in Slots : \E k \in M : b[k] = s}
<1>2. q \in Seq(Keys) /\ q # <<>> /\ pc[t] = "claim"
  BY RequestAssumption DEF Claim, CacheInv, WindowsAreWellFormed, ValidRequest, TypeOK
<1>3. /\ \A k \in Keys : b[k] # NoSlot <=> k \in K
      /\ \A k \in K : b[k] \in Slots
      /\ \A k \in K \ M : state[b[k]] # "Empty" /\ key[b[k]] = k
      /\ \A k \in M : references[b[k]] = 0 /\ state[b[k]] # "Loading"
      /\ \A k, m \in K : b[k] = b[m] => k = m
      /\ K \subseteq Keys /\ M \subseteq K
  BY <1>2, BindingFacts
<1>4. ~HasLease(t) /\ bind[t] = NoWindow /\ Bound(bind[t]) = {} /\ Window(t) = {}
  BY <1>2, SlotsAssumption DEF CacheInv, WindowsAreWellFormed, HasLease, Bound, NoWindow, Window
<1>5. /\ \A k \in M : key'[b[k]] = k /\ state'[b[k]] = "Loading"
      /\ \A s \in Slots \ taken : key'[s] = key[s] /\ state'[s] = state[s]
  <2> DEFINE victim(s) == {k \in M : b[k] = s}
  <2>1. /\ key' = [s \in Slots |-> IF victim(s) # {} THEN CHOOSE k \in victim(s) : TRUE
                                                    ELSE key[s]]
        /\ state' = [s \in Slots |-> IF victim(s) # {} THEN "Loading" ELSE state[s]]
    BY <1>1 DEF TakeWindow
  <2>2. \A k \in M : victim(b[k]) = {k}
    BY <1>3
  <2>3. \A k \in M : (CHOOSE m \in victim(b[k]) : TRUE) = k
    BY <2>2
  <2>4. \A s \in Slots \ taken : victim(s) = {}
    OBVIOUS
  <2>5. \A k \in M : b[k] \in Slots /\ victim(b[k]) # {}
    BY <1>3, <2>2
  <2> HIDE DEF victim, M
  <2> QED BY <2>1, <2>3, <2>4, <2>5
<1>6. /\ bind'[t] = b /\ loads'[t] = M /\ (published'[t] <=> M = {}) /\ ~abandoned'[t]
      /\ waited'[t] = {} /\ pc'[t] = "leased"
      /\ \A u \in Threads \ {t} :
            /\ bind'[u] = bind[u] /\ loads'[u] = loads[u] /\ waited'[u] = waited[u]
            /\ published'[u] = published[u] /\ abandoned'[u] = abandoned[u] /\ pc'[u] = pc[u]
      /\ UNCHANGED <<request, awaited, recorded>>
  <2>1. /\ bind' = [bind EXCEPT ![t] = b] /\ loads' = [loads EXCEPT ![t] = M]
        /\ published' = [published EXCEPT ![t] = (M = {})]
        /\ abandoned' = [abandoned EXCEPT ![t] = FALSE]
    BY <1>1 DEF TakeWindow
  <2>2. /\ waited' = [waited EXCEPT ![t] = {}] /\ pc' = [pc EXCEPT ![t] = "leased"]
        /\ UNCHANGED <<request, awaited, recorded>>
    BY DEF Claim, Goto
  <2> HIDE DEF q, K, M
  <2>3. /\ bind \in [Threads -> [Keys -> Slots \cup {NoSlot}]]
        /\ loads \in [Threads -> SUBSET Keys]
        /\ published \in [Threads -> BOOLEAN] /\ abandoned \in [Threads -> BOOLEAN]
        /\ waited \in [Threads -> SUBSET Keys] /\ pc \in [Threads -> Points]
    BY DEF CacheInv, TypeOK
  <2> QED BY <2>1, <2>2, <2>3
<1>7. \A s \in Slots : references'[s] = IF s \in Bound(b) THEN references[s] + 1 ELSE references[s]
  BY <1>1 DEF TakeWindow
<1> HIDE DEF q, K, M
<1>8. \A s \in taken : references[s] = 0 /\ state[s] # "Loading" /\ state'[s] = "Loading"
  BY <1>3, <1>5
<1>9. \A u \in Threads : \A k \in Window(u) : bind[u][k] \in Slots \ taken
  BY <1>8, WindowSlots, BoundSlotsAreReferenced
<1>10. /\ Window(t)' = K
       /\ \A u \in Threads \ {t} : Window(u)' = Window(u)
  BY <1>3, <1>6 DEF Window
<1>11. \A s \in Slots : references[s] \in Nat
  BY RefsAssumption DEF CacheInv, TypeOK
<1>12. WindowsAreWellFormed'
  <2>1. ASSUME NEW u \in Threads \ {t}
        PROVE  HasLease(u)' = HasLease(u)
    BY <1>6 DEF HasLease
  <2>2. HasLease(t)'
    BY <1>6 DEF HasLease
  <2> QED BY <1>2, <1>3, <1>6, <1>10, <2>1, <2>2 DEF CacheInv, WindowsAreWellFormed, q
<1>13. EmptySlotsHaveNoKey'
  <2>1. \A s \in taken : key'[s] # NoKey /\ state'[s] # "Empty"
    BY <1>3, <1>5, KeysAssumption
  <2> QED BY <1>5, <2>1 DEF CacheInv, EmptySlotsHaveNoKey
<1>14. KeyResidesOnce'
  <2>1. ASSUME NEW r \in taken, NEW s \in Slots \ taken, state[s] # "Empty"
        PROVE  key'[r] # key'[s]
    <3>1. PICK k \in M : b[k] = r
      OBVIOUS
    <3>2. Holding(k) = {}
      BY DEF M, Missing
    <3>3. key[s] # k
      BY <2>1, <3>2 DEF Holding
    <3> QED BY <1>5, <3>1, <3>3
  <2>2. ASSUME NEW r \in taken, NEW s \in taken, key'[r] = key'[s] PROVE r = s
    BY <1>5, <2>2
  <2>3. ASSUME NEW r \in Slots \ taken, NEW s \in Slots \ taken,
               state[r] # "Empty", state[s] # "Empty", key[r] = key[s]
        PROVE  r = s
    BY <2>3 DEF CacheInv, KeyResidesOnce
  <2> HIDE DEF taken
  <2> QED BY <1>5, <2>1, <2>2, <2>3 DEF KeyResidesOnce
<1>15. ReferencesCountLeases'
  <2>1. SUFFICES ASSUME NEW s \in Slots PROVE references'[s] = Cardinality(Holders(s)')
    BY DEF ReferencesCountLeases
  <2>2. Holders(s)' = IF s \in Bound(b) THEN Holders(s) \cup {t} ELSE Holders(s)
    BY <1>4, <1>6 DEF Holders
  <2>3. /\ IsFiniteSet(Holders(s)) /\ t \notin Holders(s)
        /\ references[s] = Cardinality(Holders(s))
    BY <1>4, ThreadsAssumption, FS_Subset DEF Holders, CacheInv, ReferencesCountLeases
  <2>4. Cardinality(Holders(s) \cup {t}) = Cardinality(Holders(s)) + 1
    BY <2>3, FS_AddElement
  <2> QED BY <1>7, <2>2, <2>3, <2>4
<1>16. BoundSlotsHoldTheirKey'
  <2>1. \A k \in K : key'[b[k]] = k
    <3>1. \A k \in K \ M : b[k] \in Slots \ taken
      BY <1>3
    <3> QED BY <1>3, <1>5, <3>1
  <2>2. \A u \in Threads \ {t} : \A k \in Window(u) : key'[bind[u][k]] \in {k, NoKey}
    BY <1>5, <1>9 DEF CacheInv, BoundSlotsHoldTheirKey
  <2> QED BY <1>6, <1>10, <2>1, <2>2 DEF BoundSlotsHoldTheirKey
<1>17. \A u \in Threads \ {t} : \A k \in loads[u] : bind[u][k] \in Slots \ taken
  BY <1>9, WindowSlots
<1>18. ClaimsSurviveUntilPublish'
  <2>1. ASSUME NEW k \in M
        PROVE  state'[b[k]] = "Loading" /\ key'[b[k]] = k /\ references'[b[k]] # 0
    <3>1. b[k] \in Bound(b)
      BY <1>3 DEF Bound
    <3> QED BY <1>3, <1>5, <1>7, <1>11, <3>1
  <2>2. ASSUME NEW u \in Threads \ {t}, ~published[u], ~abandoned[u], NEW k \in loads[u]
        PROVE  /\ state'[bind[u][k]] = "Loading" /\ key'[bind[u][k]] = k
               /\ references'[bind[u][k]] # 0
    <3>1. /\ state[bind[u][k]] = "Loading" /\ key[bind[u][k]] = k
          /\ references[bind[u][k]] # 0
      BY <2>2 DEF CacheInv, ClaimsSurviveUntilPublish, ClaimIntact
    <3> QED BY <1>5, <1>7, <1>11, <1>17, <3>1
  <2> QED BY <1>6, <2>1, <2>2 DEF ClaimsSurviveUntilPublish, ClaimIntact
<1>19. PublishedLoadsAreReady'
  BY <1>5, <1>6, <1>17 DEF CacheInv, PublishedLoadsAreReady
<1>20. OneLoaderPerSlot'
  <2>1. \A u \in Threads \ {t} : \A k \in M, m \in loads[u] : b[k] # bind[u][m]
    BY <1>3, <1>17
  <2> QED BY <1>6, <2>1 DEF CacheInv, OneLoaderPerSlot
<1>21. LoadingSlotsAreLoaded'
  <2>1. SUFFICES ASSUME NEW s \in Slots, state'[s] = "Loading"
                 PROVE  \E u \in Threads : \E k \in loads'[u] :
                            bind'[u][k] = s /\ ~published'[u] /\ ~abandoned'[u]
    BY DEF LoadingSlotsAreLoaded
  <2>2. CASE s \in taken
    BY <1>6, <2>2
  <2>3. CASE s \notin taken
    <3>1. PICK u \in Threads : \E k \in loads[u] :
             bind[u][k] = s /\ ~published[u] /\ ~abandoned[u]
      BY <1>5, <2>1, <2>3 DEF CacheInv, LoadingSlotsAreLoaded
    <3>2. u # t
      BY <1>4, <3>1, WindowSlots
    <3> QED BY <1>6, <3>1, <3>2
  <2> QED BY <2>2, <2>3
<1>22. EventsMarkTheFrames'
  <2>1. \A s \in Slots : state'[s] = "Ready" => recorded[s] = key'[s]
    BY <1>5, <1>8 DEF CacheInv, EventsMarkTheFrames
  <2> QED BY <1>6, <2>1 DEF CacheInv, EventsMarkTheFrames
<1>23. WaitsSeeTheirFrames'
  <2>1. \A u \in Threads \ {t} :
          \A k \in waited[u] \cup (IF pc[u] = "enqueue" THEN awaited[u] ELSE {}) :
             bind[u][k] \in Slots \ taken
    BY <1>9, WindowSlots
  <2> QED BY <1>5, <1>6, <2>1 DEF CacheInv, WaitsSeeTheirFrames
<1> QED BY <1>12, <1>13, <1>14, <1>15, <1>16, <1>18, <1>19, <1>20, <1>21, <1>22, <1>23
        DEF CacheInv

\* Every step keeps the inductive invariant of the protocol, for any threads,
\* slots and keys (claim, publish, wait_selected, abandon, release).
THEOREM CacheInvariant == Spec => []CacheInv
<1>1. ASSUME CacheInv, ClockInv, [Next]_vars PROVE CacheInv'
  <2>1. TypeOK'
    BY <1>1, NextTypes DEF ClockInv, Valid
  <2>2. ASSUME NEW t \in Threads, Step(t) PROVE CacheInv'
    <3>1. ASSUME WaitHits(t) \/ WaitReady(t) PROVE CacheInv'
      <4>1. PICK K \in SUBSET Window(t) : WaitFor(t, K)
        BY <3>1 DEF WaitHits, WaitReady
      <4> QED BY <1>1, <2>1, <4>1, CacheWaitFor
    <3> QED BY <1>1, <2>1, <2>2, <3>1, CacheAcquire, CacheClaimWait, CacheClaimOverflow,
               CacheClaim, CacheRecordLoadEvents, CacheRecordFails, CachePublish,
               CacheResolveWait, CacheResolve, CacheEnqueueWaits, CacheEnqueueFails,
               CacheAbandon, CacheRelease, CacheNotifyAll DEF Step
  <2>3. CASE UNCHANGED vars
    <3>1. SlotInv'
      BY <1>1, <2>3, SlotsUntouched, CacheInvParts DEF vars, windowVars
    <3>2. WindowsAreWellFormed' /\ EventsMarkTheFrames' /\ WaitsSeeTheirFrames'
      BY <1>1, <2>3 DEF vars, CacheInv, WindowsAreWellFormed, HasLease, Window,
                        EventsMarkTheFrames, WaitsSeeTheirFrames
    <3> QED BY <2>1, <3>1, <3>2 DEF CacheInv, SlotInv
  <2> QED BY <1>1, <2>1, <2>2, <2>3, CacheSpuriousWake DEF Next, Done
<1> QED BY <1>1, InitCache, ClockInvariant, PTL DEF Spec

\* However claims, failures, abandons and evictions interleave: a key is never
\* in two slots, reference counts are exact (release never terminates the
\* program), publish always finds its claim intact, a loading slot has exactly
\* one producer, and every event a thread waits on marks the frame it leased.
THEOREM CacheCorrect ==
  Spec => [](/\ KeyResidesOnce /\ ReferencesCountLeases /\ ClaimsSurviveUntilPublish
             /\ WaitsSeeTheirFrames)
<1>1. CacheInv => /\ KeyResidesOnce /\ ReferencesCountLeases /\ ClaimsSurviveUntilPublish
                  /\ WaitsSeeTheirFrames
  BY DEF CacheInv
<1> QED BY <1>1, CacheInvariant, PTL

\* The producer of a loading slot is there, holds its claim, and is the only
\* one: nobody waits for a load that no thread is going to publish or abandon.
THEOREM ProducersExist == Spec => []LoadingHasOneProducer
<1>1. ASSUME CacheInv PROVE LoadingHasOneProducer
  <2> SUFFICES ASSUME NEW s \in Slots, state[s] = "Loading"
               PROVE  \E t \in Threads :
                         /\ key[s] \in loads[t] /\ bind[t][key[s]] = s
                         /\ ~published[t] /\ ~abandoned[t]
                         /\ \A u \in Threads \ {t} :
                               ~(key[s] \in loads[u] /\ bind[u][key[s]] = s)
    BY DEF LoadingHasOneProducer
  <2>1. PICK t \in Threads : \E k \in loads[t] :
           bind[t][k] = s /\ ~published[t] /\ ~abandoned[t]
    BY <1>1 DEF CacheInv, LoadingSlotsAreLoaded
  <2>2. key[s] \in loads[t] /\ bind[t][key[s]] = s
    BY <1>1, <2>1 DEF CacheInv, ClaimsSurviveUntilPublish, ClaimIntact
  <2>3. \A u \in Threads \ {t} : ~(key[s] \in loads[u] /\ bind[u][key[s]] = s)
    BY <1>1, <2>2 DEF CacheInv, OneLoaderPerSlot
  <2> QED BY <2>1, <2>2, <2>3
<1> QED BY <1>1, CacheInvariant, PTL

-----------------------------------------------------------------------------
(* What a step may do to the key of a slot. *)

\* A claim gives new keys to unused slots only.
LEMMA ClaimRebindsUnused ==
  ASSUME CacheInv, NEW t \in Threads, Claim(t), NEW s \in Slots, key'[s] # key[s]
  PROVE  references[s] = 0
<1> DEFINE q == request[t]  M == Missing(KeysOf(q))
<1>1. PICK b \in Bindings(q), stamps \in PreparedStamps(Len(q)) : TakeWindow(t, b, stamps)
  BY DEF Claim
<1>2. q \in Seq(Keys)
  BY RequestAssumption DEF Claim, CacheInv, WindowsAreWellFormed, ValidRequest, TypeOK
<1>3. \A k \in M : references[b[k]] = 0
  BY <1>2, BindingFacts
<1>4. \E k \in M : b[k] = s
  BY <1>1 DEF TakeWindow
<1> QED BY <1>3, <1>4

\* No other step changes a key but to none, and only that of a loading slot.
LEMMA OtherStepsDropLoads ==
  ASSUME NEW t \in Threads, Step(t) \/ SpuriousWake(t), ~Claim(t)
  PROVE  \E gone \in SUBSET Dropped(t) : key' = key \/ key' = KeyWithout(gone)
<1>1. {} \in SUBSET Dropped(t) /\ Dropped(t) \in SUBSET Dropped(t)
  OBVIOUS
<1>2. CASE Abandon(t)
  BY <1>1, <1>2 DEF Abandon
<1>3. CASE Release(t)
  <2> DEFINE gone == IF AbandonsOnRelease(t) THEN Dropped(t) ELSE {}
  <2>1. key' = KeyWithout(gone)
    BY <1>3 DEF Release
  <2>2. gone \in SUBSET Dropped(t)
    OBVIOUS
  <2> QED BY <2>1, <2>2
<1>4. CASE ~Abandon(t) /\ ~Release(t)
  <2>1. key' = key
    BY <1>4 DEF Step, SpuriousWake, Acquire, ClaimWait, ClaimOverflow, RecordLoadEvents,
                RecordFails, Publish, WaitHits, WaitReady, WaitFor, ResolveWait, Resolve,
                EnqueueWaits, EnqueueFails, NotifyAll, slotVars
  <2> QED BY <1>1, <2>1
<1> QED BY <1>2, <1>3, <1>4

\* Whatever happens while a slot is referenced, it is not given another key: a
\* leased device pointer keeps its frame until the release.
THEOREM PinnedSlots == Spec => PinnedSlotsKeepTheirKey
<1> DEFINE Kept == \A s \in Slots : references[s] > 0 /\ references'[s] > 0
                      => \/ key'[s] = key[s]
                         \/ key'[s] = NoKey /\ state[s] = "Loading"
<1>1. ASSUME CacheInv, [Next]_vars PROVE Kept
  <2> SUFFICES ASSUME NEW s \in Slots, references[s] > 0, key'[s] # key[s]
               PROVE  key'[s] = NoKey /\ state[s] = "Loading"
    OBVIOUS
  <2>1. references[s] # 0
    OBVIOUS
  <2>2. PICK t \in Threads : Step(t) \/ SpuriousWake(t)
    BY <1>1 DEF Next, Done, vars
  <2>3. ~Claim(t)
    BY <1>1, <2>1, ClaimRebindsUnused
  <2>4. PICK gone \in SUBSET Dropped(t) : key' = key \/ key' = KeyWithout(gone)
    BY <2>2, <2>3, OtherStepsDropLoads
  <2>5. s \in Dropped(t) /\ key'[s] = NoKey
    BY <2>4 DEF KeyWithout
  <2> QED BY <2>5 DEF Dropped
<1>2. CacheInv /\ [Next]_vars => [Kept]_vars
  BY <1>1
<1> QED BY <1>2, CacheInvariant, PTL DEF Spec, PinnedSlotsKeepTheirKey

-----------------------------------------------------------------------------
(* What the cache promises its callers: everything below rests on CacheInv *)
(* alone or nearly so.                                                     *)

\* The slots a claim of t with binding b gives another key.
Taken(t, b) == {s \in Slots : \E k \in Missing(KeysOf(request[t])) : b[k] = s}

\* A claim seen from outside: the slots it takes had no reference, everything
\* else keeps its key and state, and no window of another thread is touched.
ClaimOutcome(t, b) ==
    /\ request[t] \in Seq(Keys) /\ request[t] # <<>>
    /\ \A k \in Missing(KeysOf(request[t])) :
          b[k] \in Taken(t, b) /\ key'[b[k]] = k /\ state'[b[k]] = "Loading"
    /\ \A s \in Slots \ Taken(t, b) : key'[s] = key[s] /\ state'[s] = state[s]
    /\ \A s \in Taken(t, b) : references[s] = 0 /\ state[s] # "Loading"
    /\ bind'[t] = b /\ loads'[t] = Missing(KeysOf(request[t]))
    /\ (published'[t] <=> loads'[t] = {}) /\ ~abandoned'[t]
    /\ \A u \in Threads \ {t} :
          /\ bind'[u] = bind[u] /\ loads'[u] = loads[u]
          /\ published'[u] = published[u] /\ abandoned'[u] = abandoned[u]
    /\ \A u \in Threads : \A k \in Window(u) : bind[u][k] \in Slots \ Taken(t, b)
    /\ Window(t) = {} /\ bind[t] = NoWindow

LEMMA ClaimEffect ==
  ASSUME CacheInv, NEW t \in Threads, Claim(t)
  PROVE  \E b \in Bindings(request[t]), stamps \in PreparedStamps(Len(request[t])) :
            TakeWindow(t, b, stamps) /\ ClaimOutcome(t, b)
<1> DEFINE q == request[t]  K == KeysOf(q)  M == Missing(K)
<1>1. PICK b \in Bindings(q), stamps \in PreparedStamps(Len(q)) : TakeWindow(t, b, stamps)
  BY DEF Claim
<1> DEFINE taken == Taken(t, b)
<1>2. q \in Seq(Keys) /\ q # <<>> /\ pc[t] = "claim"
  BY RequestAssumption DEF Claim, CacheInv, WindowsAreWellFormed, ValidRequest, TypeOK
<1>3. /\ \A k \in K : b[k] \in Slots
      /\ \A k \in M : references[b[k]] = 0 /\ state[b[k]] # "Loading"
      /\ \A k, m \in K : b[k] = b[m] => k = m
      /\ K \subseteq Keys /\ M \subseteq K
  BY <1>2, BindingFacts
<1>4. bind[t] = NoWindow /\ Window(t) = {}
  BY <1>2, SlotsAssumption DEF CacheInv, WindowsAreWellFormed, HasLease, NoWindow, Window
<1>5. /\ \A k \in M : b[k] \in taken /\ key'[b[k]] = k /\ state'[b[k]] = "Loading"
      /\ \A s \in Slots \ taken : key'[s] = key[s] /\ state'[s] = state[s]
  <2> DEFINE victim(s) == {k \in M : b[k] = s}
  <2>1. /\ key' = [s \in Slots |-> IF victim(s) # {} THEN CHOOSE k \in victim(s) : TRUE
                                                    ELSE key[s]]
        /\ state' = [s \in Slots |-> IF victim(s) # {} THEN "Loading" ELSE state[s]]
    BY <1>1 DEF TakeWindow
  <2>2. \A k \in M : victim(b[k]) = {k}
    BY <1>3
  <2>3. \A k \in M : (CHOOSE m \in victim(b[k]) : TRUE) = k
    BY <2>2
  <2>4. \A s \in Slots \ taken : victim(s) = {}
    BY DEF Taken
  <2>5. \A k \in M : b[k] \in Slots /\ victim(b[k]) # {} /\ b[k] \in taken
    BY <1>3, <2>2 DEF Taken
  <2> HIDE DEF victim, M, taken
  <2> QED BY <2>1, <2>3, <2>4, <2>5
<1>6. /\ bind'[t] = b /\ loads'[t] = M /\ (published'[t] <=> M = {}) /\ ~abandoned'[t]
      /\ \A u \in Threads \ {t} :
            /\ bind'[u] = bind[u] /\ loads'[u] = loads[u]
            /\ published'[u] = published[u] /\ abandoned'[u] = abandoned[u]
  <2>1. /\ bind' = [bind EXCEPT ![t] = b] /\ loads' = [loads EXCEPT ![t] = M]
        /\ published' = [published EXCEPT ![t] = (M = {})]
        /\ abandoned' = [abandoned EXCEPT ![t] = FALSE]
    BY <1>1 DEF TakeWindow
  <2> HIDE DEF q, K, M
  <2>2. /\ bind \in [Threads -> [Keys -> Slots \cup {NoSlot}]]
        /\ loads \in [Threads -> SUBSET Keys]
        /\ published \in [Threads -> BOOLEAN] /\ abandoned \in [Threads -> BOOLEAN]
    BY DEF CacheInv, TypeOK
  <2> QED BY <2>1, <2>2
<1>7. \A s \in taken : references[s] = 0 /\ state[s] # "Loading"
  BY <1>3 DEF Taken
<1>8. \A u \in Threads : \A k \in Window(u) : bind[u][k] \in Slots \ taken
  BY <1>7, WindowSlots, BoundSlotsAreReferenced
<1> QED BY <1>1, <1>2, <1>4, <1>5, <1>6, <1>7, <1>8 DEF ClaimOutcome

\* The actions that leave the slots and the windows alone.
LEMMA OtherSteps ==
  ASSUME NEW t \in Threads, Step(t) \/ SpuriousWake(t),
         ~Claim(t), ~Publish(t), ~Abandon(t), ~Release(t)
  PROVE  UNCHANGED <<slotVars, windowVars, history>>
  BY DEF Step, SpuriousWake, Acquire, ClaimWait, ClaimOverflow, RecordLoadEvents,
         RecordFails, WaitHits, WaitReady, WaitFor, ResolveWait, Resolve, EnqueueWaits,
         EnqueueFails, NotifyAll

-----------------------------------------------------------------------------
(* The order of eviction. *)

\* What tells claims apart on the unbounded clock: no two slots share a claim,
\* and a slot with a frame has been claimed.
ClaimsAreDistinct ==
    /\ \A r, s \in Slots : claimedAt[r] = claimedAt[s] /\ claimedAt[s] > 0 => r = s
    /\ \A s \in Slots : state[s] # "Empty" => claimedAt[s] > 0

LEMMA ClaimsStayDistinct ==
  ASSUME CacheInv, ClockInv, ClaimsAreDistinct, [Next]_vars
  PROVE  ClaimsAreDistinct'
<1>1. ASSUME NEW t \in Threads, Claim(t) PROVE ClaimsAreDistinct'
  <2>1. PICK b \in Bindings(request[t]), stamps \in PreparedStamps(Len(request[t])) :
           TakeWindow(t, b, stamps) /\ ClaimOutcome(t, b)
    BY <1>1, ClaimEffect
  <2> DEFINE q == request[t]  at(s) == Position(q, b, s)
  <2>2. /\ \A s \in Slots : claimedAt[s] \in Nat /\ claimedAt[s] <= claims
        /\ claims \in Nat /\ Len(q) \in Nat
    BY <2>1 DEF ClaimOutcome, ClockInv, TypeOK
  <2>3. \A s \in Slots : claimedAt'[s] = IF s \in Bound(b) THEN claims + at(s) ELSE claimedAt[s]
    BY <2>1 DEF TakeWindow
  <2>4. \A s \in Bound(b) : at(s) \in 1..Len(q) /\ b[q[at(s)]] = s
    BY <2>1, PositionInWindow DEF ClaimOutcome
  <2>5. \A r, s \in Bound(b) : at(r) = at(s) => r = s
    BY <2>4
  <2>6. \A s \in Taken(t, b) : s \in Bound(b)
    BY <2>1, BindingFacts DEF ClaimOutcome, Taken, Bound
  <2> HIDE DEF q, at
  <2> QED BY <2>1, <2>2, <2>3, <2>4, <2>5, <2>6 DEF ClaimOutcome, ClaimsAreDistinct
<1>2. ASSUME NEW t \in Threads, Step(t) \/ SpuriousWake(t), ~Claim(t)
      PROVE  ClaimsAreDistinct'
  <2>1. /\ UNCHANGED claimedAt
        /\ \A s \in Slots : state'[s] # "Empty" => state[s] # "Empty"
    <3>1. CASE Publish(t)
      <4>1. \A k \in loads[t] : state[bind[t][k]] = "Loading"
        BY <3>1 DEF Publish, ClaimIntact
      <4> QED BY <3>1, <4>1 DEF Publish, history
    <3>2. CASE Abandon(t)
      BY <3>2 DEF Abandon, StateWithout, history
    <3>3. CASE Release(t)
      BY <3>3 DEF Release, StateWithout, history
    <3> QED BY <1>2, <3>1, <3>2, <3>3, OtherSteps DEF history, slotVars
  <2> QED BY <2>1 DEF ClaimsAreDistinct
<1> QED BY <1>1, <1>2 DEF Next, Done, vars, ClaimsAreDistinct

\* A slot that a claim leaves unused, with no reference before or after, could
\* have been its victim.
LEMMA UnusedAreVictims ==
  ASSUME CacheInv, NEW t \in Threads, NEW b \in Bindings(request[t]),
         request[t] \in Seq(Keys),
         NEW r \in Slots, references[r] = 0, r \notin Bound(b)
  PROVE  r \in Victims(KeysOf(request[t]))
<1> DEFINE K == KeysOf(request[t])
<1>1. state[r] # "Loading"
  BY WindowSlots DEF CacheInv, LoadingSlotsAreLoaded, ClaimsSurviveUntilPublish, ClaimIntact
<1>2. ASSUME NEW k \in K, r \in Holding(k) PROVE FALSE
  <2>1. k \notin Missing(K) /\ k \in Keys
    BY <1>2 DEF Missing, KeysOf
  <2>2. b[k] \in Slots /\ state[b[k]] # "Empty" /\ key[b[k]] = k
    BY <2>1, BindingFacts
  <2>3. b[k] = r
    BY <1>2, <2>2 DEF Holding, CacheInv, KeyResidesOnce
  <2> QED BY <2>1, <2>3 DEF Bound
<1> QED BY <1>1, <1>2 DEF Victims

\* A claim that evicts a frame takes the one whose last claim is longest ago,
\* and only when no slot is empty (claim's sort of the victims), whatever the
\* renumbering of the stamps did before.
THEOREM EvictsLeastRecent == Spec => EvictionIsLeastRecent
<1>1. Init => ClaimsAreDistinct
  BY DEF Init, ClaimsAreDistinct
<1>2. ASSUME CacheInv, ClockInv, ClaimsAreDistinct, [Next]_vars PROVE EvictsOldest
  <2> SUFFICES ASSUME NEW s \in Slots, state[s] = "Ready", state'[s] = "Loading",
                      NEW r \in Slots, references[r] = 0, references'[r] = 0
               PROVE  state[r] = "Ready" /\ claimedAt[s] < claimedAt[r]
    BY DEF EvictsOldest
  <2>1. PICK t \in Threads : Claim(t)
    <3>1. PICK t \in Threads : Step(t) \/ SpuriousWake(t)
      BY <1>2 DEF Next, Done, vars
    <3>2. ~Publish(t) /\ ~Abandon(t) /\ ~Release(t)
      BY DEF Publish, Abandon, Release, StateWithout
    <3> QED BY <3>1, <3>2, OtherSteps DEF slotVars
  <2>2. PICK b \in Bindings(request[t]), stamps \in PreparedStamps(Len(request[t])) :
           TakeWindow(t, b, stamps) /\ ClaimOutcome(t, b)
    BY <1>2, <2>1, ClaimEffect
  <2> DEFINE M == Missing(KeysOf(request[t]))
  <2>3. PICK k \in M : b[k] = s
    BY <2>2 DEF ClaimOutcome, Taken
  <2>4. r \notin Bound(b)
    BY <2>2, RefsAssumption, <1>2 DEF TakeWindow, CacheInv, TypeOK
  <2>5. r \in Victims(KeysOf(request[t]))
    BY <1>2, <2>2, <2>4, UnusedAreVictims DEF ClaimOutcome
  <2>6. \A m \in M : b[m] # r
    BY <2>2, <2>4 DEF ClaimOutcome, Bound, Missing, KeysOf
  <2>7. ~Before(r, s)
    BY <2>3, <2>5, <2>6 DEF Bindings
  <2>8. state[r] = "Ready" /\ ~(stamp[r] < stamp[s])
    BY <1>2, <2>5, <2>7 DEF Before, Victims, CacheInv, TypeOK, SlotStates
  <2>9. r # s
    BY <2>3, <2>6
  <2>10. claimedAt[r] \in Nat /\ claimedAt[s] \in Nat
    BY <1>2 DEF CacheInv, TypeOK
  <2> QED BY <1>2, <2>8, <2>9, <2>10 DEF ClockInv, StampsOrderByRecency, ClaimsAreDistinct
<1>3. CacheInv /\ ClockInv /\ ClaimsAreDistinct /\ [Next]_vars => ClaimsAreDistinct'
  BY ClaimsStayDistinct
<1>4. CacheInv /\ ClockInv /\ ClaimsAreDistinct /\ [Next]_vars => [EvictsOldest]_vars
  BY <1>2
<1> QED BY <1>1, <1>3, <1>4, CacheInvariant, ClockInvariant, PTL DEF Spec, EvictionIsLeastRecent

-----------------------------------------------------------------------------
(* Waits close no cycle. *)

\* A window that holds a frame another window loads.
Depends(t, u) ==
    t # u /\ \E k \in loads[u] \cap Window(t) : bind[t][k] = bind[u][k]

\* Windows can be ranked by when they were claimed: whoever depends on a load
\* was claimed after it.
ClaimOrder(r) ==
    /\ \A t \in Threads : r[t] <= claims
    /\ \A t, u \in Threads : Depends(t, u) => r[u] < r[t]
WindowsAreOrdered == \E r \in [Threads -> Nat] : ClaimOrder(r)

\* Nobody waits for an own load that is not published: wait_hits leaves out
\* the loads and wait_ready insists on the publication.
OwnLoadsAreNotAwaited ==
    \A t \in Threads : pc[t] = "resolve" => published[t] \/ awaited[t] \cap loads[t] = {}

LEMMA ClaimKeepsOrder ==
  ASSUME CacheInv, WindowsAreOrdered, NEW t \in Threads, Claim(t)
  PROVE  WindowsAreOrdered'
<1>1. PICK r \in [Threads -> Nat] : ClaimOrder(r)
  BY DEF WindowsAreOrdered
<1>2. PICK b \in Bindings(request[t]), stamps \in PreparedStamps(Len(request[t])) :
         TakeWindow(t, b, stamps) /\ ClaimOutcome(t, b)
  BY ClaimEffect
<1>3. claims \in Nat /\ claims' = claims + Len(request[t]) /\ Len(request[t]) \in Nat \ {0}
  BY <1>2 DEF ClaimOutcome, TakeWindow, CacheInv, TypeOK
<1>4. PICK n \in [Threads -> Nat] :
         n[t] = claims' /\ \A u \in Threads \ {t} : n[u] = r[u]
  <2> DEFINE f == [r EXCEPT ![t] = claims']
  <2>1. f \in [Threads -> Nat] /\ f[t] = claims' /\ \A u \in Threads \ {t} : f[u] = r[u]
    BY <1>3
  <2> HIDE DEF f
  <2> QED BY <2>1
<1>5. ASSUME NEW u \in Threads, NEW v \in Threads, Depends(u, v)' PROVE n[v] < n[u]
  <2>1. PICK k \in loads'[v] \cap Window(u)' : u # v /\ bind'[u][k] = bind'[v][k]
    BY <1>5 DEF Depends
  <2>2. v # t
    BY <1>2, <2>1 DEF Window, ClaimOutcome
  <2>3. CASE u = t
    BY <1>1, <1>3, <1>4, <2>2, <2>3 DEF ClaimOrder
  <2>4. CASE u # t
    <3>1. Depends(u, v)
      BY <1>2, <2>1, <2>2, <2>4 DEF Depends, Window, ClaimOutcome
    <3> QED BY <1>1, <1>4, <2>2, <2>4, <3>1 DEF ClaimOrder
  <2> QED BY <2>3, <2>4
<1>6. ClaimOrder(n)'
  BY <1>1, <1>3, <1>4, <1>5 DEF ClaimOrder
<1> QED BY <1>6 DEF WindowsAreOrdered

LEMMA OrderStays ==
  ASSUME CacheInv, WindowsAreOrdered, [Next]_vars
  PROVE  WindowsAreOrdered'
<1>1. ASSUME NEW t \in Threads, Step(t) \/ SpuriousWake(t), ~Claim(t)
      PROVE  WindowsAreOrdered'
  <2>1. PICK r \in [Threads -> Nat] : ClaimOrder(r)
    BY DEF WindowsAreOrdered
  <2>2. /\ UNCHANGED claims
        /\ \A u, v \in Threads : Depends(u, v)' => Depends(u, v)
    <3>1. CASE Release(t)
      <4>1. /\ loads' = [loads EXCEPT ![t] = {}] /\ bind' = [bind EXCEPT ![t] = NoWindow]
            /\ UNCHANGED claims
        BY <3>1 DEF Release, history
      <4>2. /\ loads'[t] = {} /\ bind'[t] = NoWindow
            /\ \A u \in Threads \ {t} : loads'[u] = loads[u] /\ bind'[u] = bind[u]
        BY <4>1 DEF CacheInv, TypeOK
      <4> QED BY <4>1, <4>2 DEF Depends, Window, NoWindow
    <3>2. CASE ~Release(t)
      BY <1>1, <3>2, OtherSteps
         DEF Depends, Window, Publish, Abandon, windowVars, history
    <3> QED BY <3>1, <3>2
  <2>3. ClaimOrder(r)'
    BY <2>1, <2>2 DEF ClaimOrder
  <2> QED BY <2>3 DEF WindowsAreOrdered
<1>2. CASE UNCHANGED vars
  BY <1>2 DEF vars, WindowsAreOrdered, ClaimOrder, Depends, Window
<1> QED BY <1>1, <1>2, ClaimKeepsOrder DEF Next, Done

LEMMA OwnLoadsStayUnawaited ==
  ASSUME CacheInv, OwnLoadsAreNotAwaited, [Next]_vars
  PROVE  OwnLoadsAreNotAwaited'
<1> USE DEF OwnLoadsAreNotAwaited, Goto, CacheInv, TypeOK
<1>1. ASSUME NEW t \in Threads, Claim(t) \/ Publish(t) \/ Abandon(t) \/ Release(t)
      PROVE  OwnLoadsAreNotAwaited'
  <2>1. /\ pc'[t] # "resolve" /\ UNCHANGED awaited
        /\ \A u \in Threads \ {t} : pc'[u] = pc[u]
    BY <1>1 DEF Claim, Publish, Abandon, Release
  <2>2. \A u \in Threads \ {t} : published'[u] = published[u] /\ loads'[u] = loads[u]
    <3>1. CASE Claim(t)
      BY <3>1, ClaimEffect DEF ClaimOutcome
    <3>2. CASE ~Claim(t)
      BY <1>1, <3>2 DEF Publish, Abandon, Release
    <3> QED BY <3>1, <3>2
  <2> QED BY <2>1, <2>2
<1>2. ASSUME NEW t \in Threads, WaitHits(t) \/ WaitReady(t) PROVE OwnLoadsAreNotAwaited'
  <2>1. /\ UNCHANGED <<loads, published>> /\ \A u \in Threads \ {t} : pc'[u] = pc[u]
        /\ \A u \in Threads \ {t} : awaited'[u] = awaited[u]
    BY <1>2 DEF WaitHits, WaitReady, WaitFor, windowVars
  <2>2. published[t] \/ awaited'[t] = Window(t) \ loads[t]
    BY <1>2 DEF WaitHits, WaitReady, WaitFor
  <2> QED BY <2>1, <2>2
<1>3. ASSUME NEW t \in Threads, Step(t) \/ SpuriousWake(t),
             ~(WaitHits(t) \/ WaitReady(t)),
             ~(Claim(t) \/ Publish(t) \/ Abandon(t) \/ Release(t))
      PROVE  OwnLoadsAreNotAwaited'
  <2>1. UNCHANGED <<loads, published>>
    BY <1>3, OtherSteps DEF windowVars
  <2>2. UNCHANGED awaited /\ \A u \in Threads : pc'[u] = "resolve" => pc[u] = "resolve"
    BY <1>3 DEF Step, SpuriousWake, Acquire, ClaimWait, ClaimOverflow, RecordLoadEvents,
                RecordFails, ResolveWait, Resolve, EnqueueWaits, EnqueueFails, NotifyAll
  <2> QED BY <2>1, <2>2
<1>4. CASE UNCHANGED vars
  BY <1>4 DEF vars
<1> QED BY <1>1, <1>2, <1>3, <1>4 DEF Next, Done

\* A thread waits for windows claimed before its own.
LEMMA WaitsGoBack ==
  ASSUME CacheInv, OwnLoadsAreNotAwaited, NEW t \in Threads, NEW u \in WaitsOn(t)
  PROVE  u \in Threads /\ Depends(t, u)
<1>1. /\ u \in Threads /\ pc[t] = "resolve" /\ ~published[u]
      /\ \E k \in awaited[t] \cap loads[u] : bind[u][k] = bind[t][k]
  BY DEF WaitsOn
<1>2. awaited[t] \subseteq Window(t)
  BY <1>1 DEF CacheInv, WindowsAreWellFormed
<1> QED BY <1>1, <1>2 DEF Depends, OwnLoadsAreNotAwaited

\* No set of threads waits in a circle: the one whose window was claimed first
\* waits for none of the others (the two-phase use of the cache, wait_hits
\* before publish).
THEOREM WaitsHaveNoCycle == Spec => []NoWaitCycle
<1> DEFINE Inv == WindowsAreOrdered /\ OwnLoadsAreNotAwaited
<1>1. Init => Inv
  <2> SUFFICES ASSUME Init PROVE Inv
    OBVIOUS
  <2> DEFINE r == [t \in Threads |-> 0]
  <2>1. r \in [Threads -> Nat] /\ ClaimOrder(r)
    BY DEF ClaimOrder, Init, Depends
  <2> HIDE DEF r
  <2> QED BY <2>1 DEF WindowsAreOrdered, OwnLoadsAreNotAwaited, Init
<1>2. CacheInv /\ Inv /\ [Next]_vars => Inv'
  BY OrderStays, OwnLoadsStayUnawaited
<1>3. CacheInv /\ Inv => NoWaitCycle
  <2> SUFFICES ASSUME CacheInv, Inv,
                      NEW T \in (SUBSET Threads) \ {{}}, \A t \in T : WaitsOn(t) \cap T # {}
               PROVE  FALSE
    BY DEF NoWaitCycle
  <2>1. PICK r \in [Threads -> Nat] : ClaimOrder(r)
    BY DEF WindowsAreOrdered
  <2> DEFINE R == {r[t] : t \in T}
  <2>2. PICK n \in R : \A m \in R : ~(<<m, n>> \in OpToRel(<, Nat))
    <3>1. T # {} /\ T \subseteq Threads
      OBVIOUS
    <3>2. R \subseteq Nat /\ R # {}
      BY <3>1
    <3> HIDE DEF R
    <3> QED BY <3>2, WFMin, NatLessThanWellFounded
  <2>3. PICK t \in T : r[t] = n
    OBVIOUS
  <2>4. PICK u \in T : u \in WaitsOn(t)
    OBVIOUS
  <2>5. r[u] < r[t]
    BY <2>1, <2>4, WaitsGoBack DEF ClaimOrder
  <2> QED BY <2>2, <2>3, <2>5 DEF OpToRel
<1> QED BY <1>1, <1>2, <1>3, CacheInvariant, PTL DEF Spec

-----------------------------------------------------------------------------
(* No wake-up is lost. *)

LEMMA InjectionBound ==
  ASSUME NEW S, NEW T, IsFiniteSet(S), IsFiniteSet(T), NEW f \in [S -> T],
         \A x, y \in S : f[x] = f[y] => x = y
  PROVE  Cardinality(S) <= Cardinality(T)
<1>1. Cardinality(S) \in Nat /\ Cardinality(T) \in Nat
  BY FS_CardinalityType
<1> QED BY <1>1, FS_PigeonHole

\* Replacing M by N and V by its subset W: when each element that leaves M
\* either takes an element out of V (A) or puts another into N (B), M fits into
\* V whenever N fits into W.
LEMMA Exchange ==
  ASSUME NEW M, NEW N, NEW V, NEW W, IsFiniteSet(M), IsFiniteSet(N), IsFiniteSet(V),
         W \subseteq V, NEW A, NEW B, M \ N = A \cup B,
         Cardinality(A) <= Cardinality(V \ W), Cardinality(B) <= Cardinality(N \ M),
         Cardinality(N) <= Cardinality(W)
  PROVE  Cardinality(M) <= Cardinality(V)
<1>1. IsFiniteSet(M \ N) /\ IsFiniteSet(N \ M) /\ IsFiniteSet(V \ W) /\ IsFiniteSet(W)
      /\ IsFiniteSet(M \cap N) /\ IsFiniteSet(A) /\ IsFiniteSet(B) /\ IsFiniteSet(A \cap B)
  <2>1. IsFiniteSet(M \ N) /\ A \in SUBSET (M \ N) /\ B \in SUBSET (M \ N)
    BY FS_Difference
  <2>2. IsFiniteSet(A) /\ IsFiniteSet(B) /\ IsFiniteSet(A \cap B)
    BY <2>1, FS_Subset, FS_Intersection
  <2> QED BY <2>1, <2>2, FS_Difference, FS_Subset, FS_Intersection
<1>2. /\ Cardinality(M) \in Nat /\ Cardinality(N) \in Nat /\ Cardinality(V) \in Nat
      /\ Cardinality(W) \in Nat /\ Cardinality(M \cap N) \in Nat
      /\ Cardinality(M \ N) \in Nat /\ Cardinality(N \ M) \in Nat /\ Cardinality(V \ W) \in Nat
      /\ Cardinality(A) \in Nat /\ Cardinality(B) \in Nat /\ Cardinality(A \cap B) \in Nat
  BY <1>1, FS_CardinalityType
<1>3. Cardinality(M \ N) = Cardinality(M) - Cardinality(M \cap N)
  BY FS_Difference
<1>4. Cardinality(N \ M) = Cardinality(N) - Cardinality(M \cap N)
  <2>1. Cardinality(N \ M) = Cardinality(N) - Cardinality(N \cap M)
    BY FS_Difference
  <2>2. N \cap M = M \cap N
    OBVIOUS
  <2> QED BY <2>1, <2>2, Zenon
<1>5. Cardinality(V \ W) = Cardinality(V) - Cardinality(W)
  <2>1. Cardinality(V \ W) = Cardinality(V) - Cardinality(V \cap W)
    BY FS_Difference
  <2>2. V \cap W = W
    OBVIOUS
  <2> QED BY <2>1, <2>2, Zenon
<1>6. Cardinality(M \ N) <= Cardinality(A) + Cardinality(B)
  <2>1. Cardinality(A \cup B) = Cardinality(A) + Cardinality(B) - Cardinality(A \cap B)
    BY <1>1, FS_Union
  <2>2. Cardinality(A \cup B) <= Cardinality(A) + Cardinality(B)
    BY <1>2, <2>1
  <2> QED BY <2>2, Zenon
<1> QED BY <1>2, <1>3, <1>4, <1>5, <1>6

LEMMA WindowKeys ==
  ASSUME NEW q \in Seq(Keys)
  PROVE  IsFiniteSet(KeysOf(q)) /\ IsFiniteSet(Missing(KeysOf(q)))
         /\ IsFiniteSet(Missing(KeysOf(q)))' /\ KeysOf(q) \subseteq Keys
<1> DEFINE f == [i \in 1..Len(q) |-> q[i]]
<1>1. f \in Surjection(1..Len(q), KeysOf(q))
  BY DEF Surjection, KeysOf
<1>2. IsFiniteSet(1..Len(q))
  BY FS_Interval
<1>3. IsFiniteSet(KeysOf(q))
  BY <1>1, <1>2, FS_Surjection
<1>4. Missing(KeysOf(q)) \in SUBSET KeysOf(q) /\ Missing(KeysOf(q))' \in SUBSET KeysOf(q)
  BY DEF Missing
<1> QED BY <1>3, <1>4, FS_Subset DEF KeysOf

\* A claim never lets another claim go ahead that could not before.
LEMMA ClaimsCompete ==
  ASSUME CacheInv, CacheInv', NEW t \in Threads, NEW b \in Bindings(request[t]),
         NEW stamps, TakeWindow(t, b, stamps), ClaimOutcome(t, b),
         NEW q \in Seq(Keys),
         Cardinality(Missing(KeysOf(q)))' <= Cardinality(Victims(KeysOf(q)))'
  PROVE  Cardinality(Missing(KeysOf(q))) <= Cardinality(Victims(KeysOf(q)))
<1> DEFINE K == KeysOf(q)
           M == Missing(K)  N == Missing(K)'
           V == Victims(K)  W == Victims(K)'
           taken == Taken(t, b)
<1>1. /\ \A s \in Slots \ taken : key'[s] = key[s] /\ state'[s] = state[s]
      /\ \A s \in taken : references[s] = 0 /\ state[s] # "Loading" /\ references'[s] # 0
      /\ \A s \in Slots : references'[s] = 0 => references[s] = 0 /\ s \notin taken
  <2>1. taken \subseteq Bound(b)
    BY BindingFacts DEF ClaimOutcome, Taken, Bound
  <2>2. \A s \in Slots : /\ references[s] \in Nat
                        /\ references'[s] = IF s \in Bound(b) THEN references[s] + 1
                                                              ELSE references[s]
    BY RefsAssumption DEF TakeWindow, CacheInv, TypeOK
  <2> QED BY <2>1, <2>2 DEF ClaimOutcome, Taken
<1>2. W \subseteq V /\ V \subseteq Slots
  BY <1>1 DEF Victims, Holding
<1>3. IsFiniteSet(M) /\ IsFiniteSet(N) /\ IsFiniteSet(V)
  BY <1>2, WindowKeys, SlotsAssumption, FS_Subset
<1>4. PICK f \in [M \ N -> Slots] :
         \A k \in M \ N : f[k] \in Holding(k)'
  <2> DEFINE c == [k \in M \ N |-> CHOOSE s \in Holding(k)' : TRUE]
  <2>1. \A k \in M \ N : c[k] \in Holding(k)'
    BY DEF Missing
  <2>2. c \in [M \ N -> Slots]
    BY <2>1 DEF Holding
  <2> HIDE DEF c
  <2> QED BY <2>1, <2>2
<1>5. \A k \in M \ N : /\ f[k] \in taken /\ key'[f[k]] = k
                       /\ references[f[k]] = 0 /\ state[f[k]] # "Loading" /\ f[k] \notin W
  BY <1>1, <1>4 DEF Holding, Missing, Victims
<1> DEFINE A == {k \in M \ N : f[k] \in V}  B == {k \in M \ N : f[k] \notin V}
<1>6. \A k \in B : /\ state[f[k]] # "Empty" /\ key[f[k]] \in K
                   /\ key[f[k]] \in N \ M
  <2> TAKE k \in B
  <2>1. PICK m \in K : f[k] \in Holding(m)
    BY <1>5 DEF Victims
  <2>2. f[k] \in Slots /\ state[f[k]] # "Empty" /\ key[f[k]] = m /\ m \notin M /\ m # k
    BY <2>1 DEF Holding, Missing
  <2>3. ASSUME NEW s \in Slots, s \in Holding(m)' PROVE FALSE
    <3>1. state'[s] # "Empty" /\ key'[s] = m
      BY <2>3 DEF Holding
    <3>2. CASE s \in taken
      <4>1. m \in Missing(KeysOf(request[t]))
        BY <3>1, <3>2 DEF ClaimOutcome, Taken
      <4> QED BY <2>2, <4>1 DEF Missing, Holding
    <3>3. CASE s \notin taken
      <4>1. s = f[k]
        BY <1>1, <2>2, <3>1, <3>3 DEF CacheInv, KeyResidesOnce
      <4> QED BY <1>5, <3>3, <4>1
    <3> QED BY <3>2, <3>3
  <2>4. m \in N
    BY <2>3 DEF Missing, Holding
  <2> QED BY <2>2, <2>4
<1> DEFINE F == [k \in A |-> f[k]]  G == [k \in B |-> key[f[k]]]
<1>7. F \in [A -> V \ W] /\ \A x, y \in A : F[x] = F[y] => x = y
  BY <1>5
<1>8. G \in [B -> N \ M] /\ \A x, y \in B : G[x] = G[y] => x = y
  <2>1. \A x, y \in B : key[f[x]] = key[f[y]] => f[x] = f[y]
    BY <1>4, <1>6 DEF CacheInv, KeyResidesOnce
  <2> QED BY <1>5, <1>6, <2>1
<1>9. M \ N = A \cup B
  OBVIOUS
<1> HIDE DEF K, M, N, V, W, taken, A, B, F, G
<1>10. Cardinality(N) <= Cardinality(W)
  BY DEF N, W, K
<1>11. IsFiniteSet(A) /\ IsFiniteSet(B) /\ IsFiniteSet(V \ W) /\ IsFiniteSet(N \ M)
  <2>1. A \in SUBSET M /\ B \in SUBSET M
    BY DEF A, B
  <2> QED BY <1>3, <2>1, FS_Subset, FS_Difference
<1>12. Cardinality(A) <= Cardinality(V \ W) /\ Cardinality(B) <= Cardinality(N \ M)
  BY <1>7, <1>8, <1>11, InjectionBound
<1>13. Cardinality(M) <= Cardinality(V)
  BY <1>2, <1>3, <1>9, <1>10, <1>12, Exchange
<1> QED BY <1>13 DEF M, V, K

SleepersWait == \A t \in asleep : pc[t] \in {"claim", "resolve"}
Wakeable == SleepersWait /\ NoLostWakeup

\* What a thread waits for depends on its own arguments and on the slots.
LEMMA ProceedDepends ==
  ASSUME NEW u \in Threads,
         pc'[u] = pc[u], request'[u] = request[u], deferred'[u] = deferred[u],
         awaited'[u] = awaited[u], UNCHANGED <<slotVars, windowVars>>
  PROVE  CanProceed(u)' <=> CanProceed(u)
<1> USE DEF slotVars, windowVars
<1>1. \A k \in Keys \cup KeysOf(request[u]) : Holding(k)' = Holding(k)
  BY DEF Holding
<1>2. /\ Missing(KeysOf(request[u]))' = Missing(KeysOf(request[u]))
      /\ Victims(KeysOf(request[u]))' = Victims(KeysOf(request[u]))
  BY <1>1 DEF Missing, Victims, KeysOf
<1>3. AwaitsLoading(u)' <=> AwaitsLoading(u)
  BY <1>1 DEF AwaitsLoading, KeysOf
<1>4. StillLoading(u)' <=> StillLoading(u)
  BY DEF StillLoading
<1>5. CanClaim(u)' <=> CanClaim(u)
  BY <1>2, <1>3 DEF CanClaim, KeysOf
<1> QED BY <1>4, <1>5 DEF CanProceed

\* After a claim, whoever can go ahead could before.
LEMMA ClaimWakesNobody ==
  ASSUME CacheInv, CacheInv', NEW t \in Threads, Claim(t), NEW u \in Threads, u # t,
         pc[u] \in {"claim", "resolve"}, CanProceed(u)'
  PROVE  CanProceed(u)
<1>1. PICK b \in Bindings(request[t]), stamps \in PreparedStamps(Len(request[t])) :
         TakeWindow(t, b, stamps) /\ ClaimOutcome(t, b)
  BY ClaimEffect
<1>2. /\ pc'[u] = pc[u] /\ request'[u] = request[u] /\ deferred'[u] = deferred[u]
      /\ awaited'[u] = awaited[u] /\ bind'[u] = bind[u]
  BY <1>1 DEF Claim, Goto, ClaimOutcome, CacheInv, TypeOK
<1>3. /\ \A s \in Slots \ Taken(t, b) : key'[s] = key[s] /\ state'[s] = state[s]
      /\ \A s \in Slots : state[s] = "Loading" => s \notin Taken(t, b)
  BY <1>1 DEF ClaimOutcome
<1>4. CASE pc[u] = "claim"
  <2>1. PICK q \in Seq(Keys) : q = request[u]
    <3>1. request[u] \in Requests \cup {<<>>} /\ <<>> \in Seq(Keys)
      BY DEF CacheInv, TypeOK
    <3> QED BY <3>1, RequestAssumption
  <2>2. CanClaim(u)'
    BY <1>2, <1>4 DEF CanProceed
  <2>3. ~AwaitsLoading(u)
    <3> SUFFICES ASSUME ~deferred[u], NEW k \in KeysOf(request[u]), NEW s \in Holding(k),
                        state[s] = "Loading"
                 PROVE  AwaitsLoading(u)'
      BY <2>2 DEF CanClaim, AwaitsLoading
    <3>1. s \in Slots /\ key[s] = k /\ key'[s] = key[s] /\ state'[s] = state[s]
      BY <1>3 DEF Holding
    <3>2. s \in Holding(k)'
      BY <3>1 DEF Holding
    <3>3. k \in KeysOf(request[u])'
      BY <1>2 DEF KeysOf
    <3> QED BY <1>2, <3>1, <3>2, <3>3 DEF AwaitsLoading
  <2>4. Cardinality(Missing(KeysOf(q)))' <= Cardinality(Victims(KeysOf(q)))'
    BY <1>2, <2>1, <2>2 DEF CanClaim, Missing, Victims, Holding, KeysOf
  <2>5. Cardinality(Missing(KeysOf(q))) <= Cardinality(Victims(KeysOf(q)))
    BY <1>1, <2>1, <2>4, ClaimsCompete
  <2> QED BY <1>4, <2>1, <2>3, <2>5 DEF CanProceed, CanClaim
<1>5. CASE pc[u] = "resolve"
  <2>1. \A k \in awaited[u] : bind[u][k] \in Slots \ Taken(t, b)
    BY <1>1, <1>5, WindowSlots DEF ClaimOutcome
  <2> QED BY <1>2, <1>3, <1>5, <2>1 DEF CanProceed, StillLoading
<1> QED BY <1>4, <1>5

LEMMA WakeableStays ==
  ASSUME CacheInv, CacheInv', Wakeable, [Next]_vars
  PROVE  Wakeable'
<1> USE DEF Goto, slotVars, windowVars
<1>0. asleep \subseteq Threads /\ pc \in [Threads -> Points]
  BY DEF CacheInv, TypeOK
<1>1. ASSUME NEW t \in Threads, NotifyAll(t) PROVE Wakeable'
  BY <1>1 DEF NotifyAll, StillAsleep, Wakeable, SleepersWait, NoLostWakeup
<1>2. ASSUME NEW t \in Threads, Publish(t) \/ Abandon(t) \/ Release(t) PROVE Wakeable'
  <2>1. /\ pc'[t] = "notify" /\ UNCHANGED asleep /\ t \notin asleep
        /\ \A u \in Threads \ {t} : pc'[u] = pc[u]
    BY <1>0, <1>2 DEF Publish, Abandon, Release, Wakeable, SleepersWait
  <2> QED BY <1>0, <2>1 DEF Wakeable, SleepersWait, NoLostWakeup
<1>3. ASSUME NEW t \in Threads, Claim(t) PROVE Wakeable'
  <2>1. /\ pc[t] # "notify" /\ UNCHANGED asleep /\ t \notin asleep
        /\ \A u \in Threads \ {t} : pc'[u] = pc[u]
    BY <1>0, <1>3 DEF Claim
  <2>2. \A u \in asleep : CanProceed(u)' => CanProceed(u)
    BY <1>0, <1>3, <2>1, ClaimWakesNobody DEF Wakeable, SleepersWait
  <2> QED BY <1>0, <2>1, <2>2 DEF Wakeable, SleepersWait, NoLostWakeup
<1>4. ASSUME NEW t \in Threads, ClaimWait(t) \/ ResolveWait(t) PROVE Wakeable'
  <2>1. /\ asleep' = asleep \cup {t} /\ ~CanProceed(t) /\ pc[t] \in {"claim", "resolve"}
        /\ UNCHANGED <<pc, request, deferred, awaited, slotVars, windowVars>>
    BY <1>4 DEF ClaimWait, ResolveWait, CanProceed
  <2>2. \A u \in Threads : CanProceed(u)' <=> CanProceed(u)
    BY <2>1, ProceedDepends
  <2> QED BY <1>0, <2>1, <2>2 DEF Wakeable, SleepersWait, NoLostWakeup
<1>5. ASSUME NEW t \in Threads, SpuriousWake(t) PROVE Wakeable'
  <2>1. /\ asleep' \subseteq asleep
        /\ UNCHANGED <<pc, request, deferred, awaited, slotVars, windowVars>>
    BY <1>5 DEF SpuriousWake
  <2>2. \A u \in Threads : CanProceed(u)' <=> CanProceed(u)
    BY <2>1, ProceedDepends
  <2> QED BY <1>0, <2>1, <2>2 DEF Wakeable, SleepersWait, NoLostWakeup
<1>6. ASSUME NEW t \in Threads,
             \/ \E q \in Requests, d \in BOOLEAN : Acquire(t, q, d)
             \/ ClaimOverflow(t) \/ RecordLoadEvents(t) \/ RecordFails(t)
             \/ WaitHits(t) \/ WaitReady(t) \/ Resolve(t)
             \/ EnqueueWaits(t) \/ EnqueueFails(t)
      PROVE  Wakeable'
  <2>1. /\ pc[t] # "notify" /\ UNCHANGED <<asleep, slotVars, windowVars>>
        /\ t \notin asleep
    BY <1>6 DEF Wakeable, SleepersWait, Acquire, ClaimOverflow, RecordLoadEvents, RecordFails,
                WaitHits, WaitReady, WaitFor, Resolve, EnqueueWaits, EnqueueFails
  <2>2. \A u \in Threads \ {t} : /\ pc'[u] = pc[u] /\ request'[u] = request[u]
                                 /\ deferred'[u] = deferred[u] /\ awaited'[u] = awaited[u]
    BY <1>6 DEF CacheInv, TypeOK, Acquire, ClaimOverflow, RecordLoadEvents, RecordFails,
                WaitHits, WaitReady, WaitFor, Resolve, EnqueueWaits, EnqueueFails
  <2>3. \A u \in Threads \ {t} : CanProceed(u)' <=> CanProceed(u)
    BY <2>1, <2>2, ProceedDepends
  <2> QED BY <1>0, <2>1, <2>2, <2>3 DEF Wakeable, SleepersWait, NoLostWakeup
<1>7. CASE UNCHANGED vars
  <2>1. UNCHANGED <<asleep, pc, request, deferred, awaited, slotVars, windowVars>>
    BY <1>7 DEF vars
  <2>2. \A u \in Threads : CanProceed(u)' <=> CanProceed(u)
    BY <2>1, ProceedDepends
  <2> QED BY <1>0, <2>1, <2>2 DEF Wakeable, SleepersWait, NoLostWakeup
<1> QED BY <1>1, <1>2, <1>3, <1>4, <1>5, <1>6, <1>7 DEF Next, Step, Done

\* No thread sleeps on while its condition is true and nobody is about to call
\* notify_all: publish, abandon and release make conditions true and notify,
\* and a claim, which does not notify, makes none true.
THEOREM WakeupsAreNotLost == Spec => []NoLostWakeup
<1>1. Init => Wakeable
  BY DEF Init, Wakeable, SleepersWait, NoLostWakeup
<1>2. CacheInv /\ CacheInv' /\ Wakeable /\ [Next]_vars => Wakeable'
  BY WakeableStays
<1>3. Wakeable => NoLostWakeup
  BY DEF Wakeable
<1> QED BY <1>1, <1>2, <1>3, CacheInvariant, PTL DEF Spec

-----------------------------------------------------------------------------
(* The keyed lease. *)

\* The loads of an abandoned window are gone, and nothing takes their slots
\* before the window returns them.
AbandonedLoadsAreGone ==
    \A t \in Threads : abandoned[t] => \A k \in loads[t] : key[bind[t][k]] = NoKey

LEMMA AbandonedStayGone ==
  ASSUME CacheInv, AbandonedLoadsAreGone, [Next]_vars
  PROVE  AbandonedLoadsAreGone'
<1>1. ASSUME NEW t \in Threads, Claim(t) PROVE AbandonedLoadsAreGone'
  <2>1. PICK b \in Bindings(request[t]), stamps \in PreparedStamps(Len(request[t])) :
           TakeWindow(t, b, stamps) /\ ClaimOutcome(t, b)
    BY <1>1, ClaimEffect
  <2> SUFFICES ASSUME NEW u \in Threads, abandoned'[u], NEW k \in loads'[u]
               PROVE  key'[bind'[u][k]] = NoKey
    BY DEF AbandonedLoadsAreGone
  <2>2. u # t
    BY <2>1 DEF ClaimOutcome
  <2>3. /\ bind'[u][k] = bind[u][k] /\ k \in loads[u] /\ abandoned[u] /\ k \in Window(u)
        /\ bind[u][k] \in Slots \ Taken(t, b)
    BY <2>1, <2>2, WindowSlots DEF ClaimOutcome
  <2> QED BY <2>1, <2>3 DEF ClaimOutcome, AbandonedLoadsAreGone
<1>2. ASSUME NEW t \in Threads, Abandon(t) \/ Release(t) PROVE AbandonedLoadsAreGone'
  <2>1. PICK gone \in SUBSET Slots : key' = KeyWithout(gone)
    BY <1>2 DEF Abandon, Release, Dropped
  <2>2. ASSUME NEW u \in Threads, NEW k \in loads[u], key[bind[u][k]] = NoKey
        PROVE  key'[bind[u][k]] = NoKey
    BY <2>1, <2>2, WindowSlots DEF KeyWithout
  <2>3. CASE Abandon(t)
    <3>1. \A k \in loads[t] : key'[bind[t][k]] = NoKey
      BY <2>3, WindowSlots
         DEF Abandon, KeyWithout, Dropped, CacheInv, ClaimsSurviveUntilPublish, ClaimIntact
    <3>2. \A u \in Threads \ {t} : abandoned'[u] = abandoned[u]
      BY <2>3 DEF Abandon
    <3> QED BY <2>2, <2>3, <3>1, <3>2 DEF Abandon, AbandonedLoadsAreGone
  <2>4. CASE Release(t)
    <3>1. /\ loads'[t] = {}
          /\ \A u \in Threads \ {t} : /\ abandoned'[u] = abandoned[u]
                                      /\ loads'[u] = loads[u] /\ bind'[u] = bind[u]
      BY <2>4 DEF Release, CacheInv, TypeOK
    <3> QED BY <2>2, <3>1 DEF AbandonedLoadsAreGone
  <2> QED BY <1>2, <2>3, <2>4
<1>3. ASSUME NEW t \in Threads, Step(t) \/ SpuriousWake(t),
             ~Claim(t), ~Abandon(t), ~Release(t)
      PROVE  AbandonedLoadsAreGone'
  BY <1>3, OtherSteps DEF Publish, slotVars, windowVars, AbandonedLoadsAreGone
<1> QED BY <1>1, <1>2, <1>3 DEF Next, Done, vars, AbandonedLoadsAreGone

LeaseInv == CacheInv /\ AbandonedLoadsAreGone

\* The phase of a key is the state of the one slot that holds it.
PhaseFacts ==
    \A k \in Keys :
        /\ phaseOf[k] = "absent" <=> Holding(k) = {}
        /\ \A s \in Holding(k) : phaseOf[k] = IF state[s] = "Ready" THEN "ready" ELSE "loading"

LEMMA PhaseRule == CacheInv => PhaseFacts
<1> SUFFICES ASSUME CacheInv, NEW k \in Keys
             PROVE  /\ phaseOf[k] = "absent" <=> Holding(k) = {}
                    /\ \A s \in Holding(k) :
                          phaseOf[k] = IF state[s] = "Ready" THEN "ready" ELSE "loading"
  BY DEF PhaseFacts
<1>1. \A s \in Slots : state[s] \in {"Empty", "Loading", "Ready"}
  BY DEF CacheInv, TypeOK, SlotStates
<1>2. \A r, s \in Holding(k) : r = s
  BY DEF Holding, CacheInv, KeyResidesOnce
<1> QED BY <1>1, <1>2 DEF phaseOf, Holding

\* What a window still loads, in the lease's terms.
RoleFacts ==
    \A t \in Threads :
        Lease!Loads(t) = IF published[t] \/ abandoned[t] THEN {} ELSE loads[t]

LEMMA RoleRule == LeaseInv => RoleFacts
<1> SUFFICES ASSUME LeaseInv, NEW t \in Threads
             PROVE  Lease!Loads(t) = IF published[t] \/ abandoned[t] THEN {} ELSE loads[t]
  BY DEF RoleFacts
<1>1. /\ loads[t] \subseteq Keys
      /\ \A k \in loads[t] : bind[t][k] # NoSlot
      /\ \A k \in loads[t] : abandoned[t] => key[bind[t][k]] = NoKey
      /\ \A k \in loads[t] : ~published[t] /\ ~abandoned[t] => key[bind[t][k]] = k
  BY WindowSlots DEF LeaseInv, CacheInv, TypeOK, Window, AbandonedLoadsAreGone,
                     ClaimsSurviveUntilPublish, ClaimIntact
<1>2. \A k \in Keys : roleOf[t][k] = "loads" <=>
         bind[t][k] # NoSlot /\ key[bind[t][k]] = k /\ k \in loads[t] /\ ~published[t]
  BY DEF roleOf
<1>3. Lease!Loads(t) = {k \in Keys : roleOf[t][k] = "loads"}
  BY DEF Lease!Loads
<1> QED BY <1>1, <1>2, <1>3, KeysAssumption

LEMMA LeaseFacts == LeaseInv => CacheInv /\ PhaseFacts /\ RoleFacts
  BY PhaseRule, RoleRule DEF LeaseInv
LEMMA LeaseFactsNext == LeaseInv' => CacheInv' /\ PhaseFacts' /\ RoleFacts'
  BY LeaseFacts, PTL

LEMMA Shapes ==
  /\ phaseOf' = [k \in Keys |-> phaseOf'[k]]
  /\ roleOf = [t \in Threads |-> [k \in Keys |-> roleOf[t][k]]]
  /\ roleOf' = [t \in Threads |-> [k \in Keys |-> roleOf'[t][k]]]
  BY DEF phaseOf, roleOf

\* Publishing commits the loads of the window.
LEMMA PublishCommits ==
  ASSUME LeaseInv, LeaseInv', NEW t \in Threads, Publish(t)
  PROVE  Lease!Commit(t) \/ UNCHANGED <<phaseOf, roleOf>>
<1> DEFINE L == {s \in Slots : \E k \in loads[t] : bind[t][k] = s}
<1>1. /\ state' = [s \in Slots |-> IF s \in L THEN "Ready" ELSE state[s]]
      /\ UNCHANGED <<key, bind, loads>> /\ pc[t] = "recorded"
      /\ published'[t] /\ \A u \in Threads \ {t} : published'[u] = published[u]
  BY DEF Publish, LeaseInv, CacheInv, TypeOK
<1>2. /\ ~published[t] /\ ~abandoned[t] /\ loads[t] \subseteq Keys
      /\ \A k \in loads[t] : /\ bind[t][k] \in L /\ state[bind[t][k]] = "Loading"
                             /\ key[bind[t][k]] = k
  BY <1>1, WindowSlots DEF LeaseInv, CacheInv, TypeOK, WindowsAreWellFormed,
                           ClaimsSurviveUntilPublish, ClaimIntact
<1>3. PhaseFacts /\ PhaseFacts' /\ Lease!Loads(t) = loads[t]
  BY <1>2, LeaseFacts, LeaseFactsNext DEF RoleFacts
<1>4. \A k \in Keys : phaseOf'[k] = IF k \in loads[t] THEN "ready" ELSE phaseOf[k]
  <2> TAKE k \in Keys
  <2>1. Holding(k)' = Holding(k)
    BY <1>1, <1>2 DEF Holding
  <2>2. CASE k \in loads[t]
    <3>1. bind[t][k] \in Holding(k) /\ state'[bind[t][k]] = "Ready"
      BY <1>1, <1>2, <2>2 DEF Holding
    <3> QED BY <1>3, <2>1, <2>2, <3>1 DEF PhaseFacts
  <2>3. CASE k \notin loads[t]
    <3>1. \A s \in Holding(k) : state'[s] = state[s]
      BY <1>1, <1>2, <2>3 DEF Holding
    <3>2. CASE Holding(k) = {}
      BY <1>3, <2>1, <2>3, <3>2 DEF PhaseFacts
    <3>3. CASE Holding(k) # {}
      BY <1>3, <2>1, <2>3, <3>1, <3>3 DEF PhaseFacts
    <3> QED BY <3>2, <3>3
  <2> QED BY <2>2, <2>3
<1>5. \A u \in Threads, k \in Keys :
         roleOf'[u][k] = IF u = t /\ k \in loads[t] THEN "reads" ELSE roleOf[u][k]
  BY <1>1, <1>2, SlotsAssumption DEF roleOf, L
<1>6. CASE loads[t] = {}
  <2>1. L = {} /\ state' = state
    BY <1>1, <1>6 DEF LeaseInv, CacheInv, TypeOK
  <2>2. UNCHANGED phaseOf
    BY <1>1, <2>1 DEF phaseOf
  <2>3. UNCHANGED roleOf
    BY <1>5, <1>6, Shapes
  <2> QED BY <2>2, <2>3
<1>7. CASE loads[t] # {}
  BY <1>3, <1>4, <1>5, <1>7, Shapes DEF Lease!Commit
<1> QED BY <1>6, <1>7

\* What vanishes when a window drops its loads.
LEMMA DroppingVanishes ==
  ASSUME LeaseInv, LeaseInv', NEW t \in Threads, NEW gone,
         gone = IF published[t] \/ abandoned[t] THEN {} ELSE Dropped(t),
         state' = StateWithout(gone), key' = KeyWithout(gone)
  PROVE  /\ phaseOf' = Lease!Vanish(t)
         /\ \A u \in Threads, k \in Keys : bind[u][k] # NoSlot =>
               (key'[bind[u][k]] = k <=> key[bind[u][k]] = k /\ k \notin Lease!Loads(t))
<1> DEFINE L == Lease!Loads(t)
<1>1. PhaseFacts /\ PhaseFacts' /\ L = IF published[t] \/ abandoned[t] THEN {} ELSE loads[t]
  BY LeaseFacts, LeaseFactsNext DEF RoleFacts
<1>2. /\ L \subseteq Keys
      /\ \A k \in L : bind[t][k] \in gone /\ key[bind[t][k]] = k /\ state[bind[t][k]] = "Loading"
      /\ \A s \in gone : s \in Slots /\ key[s] \in L /\ state'[s] = "Empty" /\ key'[s] = NoKey
      /\ \A s \in Slots \ gone : state'[s] = state[s] /\ key'[s] = key[s]
  <2>1. \A s \in Slots : /\ state'[s] = IF s \in gone THEN "Empty" ELSE state[s]
                        /\ key'[s] = IF s \in gone THEN NoKey ELSE key[s]
    BY DEF StateWithout, KeyWithout
  <2>2. CASE published[t] \/ abandoned[t]
    BY <1>1, <2>1, <2>2
  <2>3. CASE ~published[t] /\ ~abandoned[t]
    <3>1. \A k \in loads[t] : /\ bind[t][k] \in Slots /\ key[bind[t][k]] = k
                              /\ state[bind[t][k]] = "Loading"
      BY <2>3, WindowSlots DEF LeaseInv, CacheInv, ClaimsSurviveUntilPublish, ClaimIntact
    <3>2. L = loads[t] /\ gone = Dropped(t) /\ loads[t] \subseteq Keys
      BY <1>1, <2>3 DEF LeaseInv, CacheInv, TypeOK
    <3>3. \A s \in gone : s \in Slots /\ key[s] \in L
      BY <3>2 DEF Dropped
    <3>4. \A k \in L : bind[t][k] \in gone
      BY <3>1, <3>2 DEF Dropped
    <3> HIDE DEF L
    <3> QED BY <2>1, <3>1, <3>2, <3>3, <3>4
  <2> QED BY <2>2, <2>3
<1>3. \A s \in Slots, k \in Keys : s \in Holding(k)' <=> s \in Holding(k) /\ k \notin L
  <2> TAKE s \in Slots, k \in Keys
  <2>1. CASE k \in L
    <3>1. s \in Holding(k) => s = bind[t][k]
      BY <1>2, <2>1, WindowSlots DEF Holding, LeaseInv, CacheInv, KeyResidesOnce
    <3> QED BY <1>2, <2>1, <3>1, KeysAssumption DEF Holding
  <2>2. CASE k \notin L
    BY <1>2, <2>2 DEF Holding
  <2> QED BY <2>1, <2>2
<1>4. \A k \in Keys : phaseOf'[k] = IF k \in L THEN "absent" ELSE phaseOf[k]
  <2> TAKE k \in Keys
  <2>1. Holding(k)' = IF k \in L THEN {} ELSE Holding(k)
    BY <1>3 DEF Holding
  <2>2. k \notin L => \A s \in Holding(k) : state'[s] = state[s]
    BY <1>2 DEF Holding
  <2>3. CASE k \in L \/ Holding(k) = {}
    BY <1>1, <2>1, <2>3 DEF PhaseFacts
  <2>4. CASE k \notin L /\ Holding(k) # {}
    BY <1>1, <2>1, <2>2, <2>4 DEF PhaseFacts
  <2> QED BY <2>3, <2>4
<1>5. ASSUME NEW u \in Threads, NEW k \in Keys, bind[u][k] # NoSlot
      PROVE  key'[bind[u][k]] = k <=> key[bind[u][k]] = k /\ k \notin L
  <2> DEFINE s == bind[u][k]
  <2>1. s \in Slots
    BY <1>5 DEF LeaseInv, CacheInv, TypeOK
  <2>2. \A r \in Slots : key[r] = k => r \in Holding(k)
    BY KeysAssumption DEF Holding, LeaseInv, CacheInv, EmptySlotsHaveNoKey
  <2>3. (key'[s] = k <=> s \in Holding(k)')
    BY <1>2, <2>1, <2>2, KeysAssumption DEF Holding
  <2>4. s \in Holding(k) => key[s] = k
    BY DEF Holding
  <2> QED BY <1>3, <2>1, <2>2, <2>3, <2>4
<1> HIDE DEF L
<1>6. phaseOf' = [k \in Keys |-> IF k \in L THEN "absent" ELSE phaseOf[k]]
  BY <1>4, Shapes
<1> QED BY <1>5, <1>6 DEF Lease!Vanish, L

\* Abandoning drops the loads of the window.
LEMMA AbandonDrops ==
  ASSUME LeaseInv, LeaseInv', NEW t \in Threads, Abandon(t)
  PROVE  Lease!Drop(t) \/ UNCHANGED <<phaseOf, roleOf>>
<1>1. /\ ~published[t] /\ ~abandoned[t] /\ UNCHANGED <<bind, loads, published>>
      /\ state' = StateWithout(Dropped(t)) /\ key' = KeyWithout(Dropped(t))
  BY DEF Abandon
<1>2. /\ phaseOf' = Lease!Vanish(t)
      /\ \A u \in Threads, k \in Keys : bind[u][k] # NoSlot =>
            (key'[bind[u][k]] = k <=> key[bind[u][k]] = k /\ k \notin Lease!Loads(t))
  BY <1>1, DroppingVanishes
<1>3. \A u \in Threads, k \in Keys :
         roleOf'[u][k] = IF k \in Lease!Loads(t) /\ roleOf[u][k] \in {"loads", "reads"}
                         THEN "lost" ELSE roleOf[u][k]
  BY <1>1, <1>2 DEF roleOf
<1>4. roleOf' = Lease!Without(t)
  BY <1>3, Shapes DEF Lease!Without
<1>5. CASE Lease!Loads(t) # {}
  BY <1>2, <1>4, <1>5 DEF Lease!Drop
<1>6. CASE Lease!Loads(t) = {}
  <2>1. Dropped(t) = {}
    BY <1>1, <1>6, LeaseFacts DEF RoleFacts, Dropped
  <2>2. UNCHANGED <<state, key>>
    BY <1>1, <2>1 DEF StateWithout, KeyWithout, LeaseInv, CacheInv, TypeOK
  <2> QED BY <1>1, <2>2 DEF phaseOf, roleOf
<1> QED BY <1>5, <1>6

\* Releasing returns the window, after dropping the loads it still owns.
LEMMA ReleaseReturns ==
  ASSUME LeaseInv, LeaseInv', NEW t \in Threads, Release(t)
  PROVE  Lease!Return(t) \/ UNCHANGED <<phaseOf, roleOf>>
<1> DEFINE gone == IF AbandonsOnRelease(t) THEN Dropped(t) ELSE {}
<1>1. /\ gone = IF published[t] \/ abandoned[t] THEN {} ELSE Dropped(t)
      /\ state' = StateWithout(gone) /\ key' = KeyWithout(gone)
      /\ bind'[t] = NoWindow /\ loads'[t] = {}
      /\ \A u \in Threads \ {t} : /\ bind'[u] = bind[u] /\ loads'[u] = loads[u]
                                  /\ published'[u] = published[u]
  BY DEF Release, AbandonsOnRelease, LeaseInv, CacheInv, TypeOK
<1>2. /\ phaseOf' = Lease!Vanish(t)
      /\ \A u \in Threads, k \in Keys : bind[u][k] # NoSlot =>
            (key'[bind[u][k]] = k <=> key[bind[u][k]] = k /\ k \notin Lease!Loads(t))
  BY <1>1, DroppingVanishes
<1>3. \A u \in Threads, k \in Keys :
         roleOf'[u][k] = IF u = t THEN "none"
                         ELSE IF k \in Lease!Loads(t) /\ roleOf[u][k] \in {"loads", "reads"}
                         THEN "lost" ELSE roleOf[u][k]
  BY <1>1, <1>2 DEF roleOf, NoWindow
<1>4. roleOf' = [Lease!Without(t) EXCEPT ![t] = [k \in Keys |-> "none"]]
  BY <1>3, Shapes DEF Lease!Without
<1>5. CASE \E k \in Keys : roleOf[t][k] # "none"
  BY <1>2, <1>4, <1>5 DEF Lease!Return
<1>6. CASE \A k \in Keys : roleOf[t][k] = "none"
  <2>1. bind[t] = NoWindow
    BY <1>6 DEF roleOf, NoWindow, LeaseInv, CacheInv, TypeOK
  <2>2. Lease!Loads(t) = {} /\ loads[t] = {}
    BY <1>6, <2>1, WindowSlots DEF Lease!Loads, NoWindow, Window, LeaseInv
  <2>3. gone = {}
    BY <1>1, <2>2 DEF Dropped
  <2>4. UNCHANGED <<state, key>>
    BY <1>1, <2>3 DEF StateWithout, KeyWithout, LeaseInv, CacheInv, TypeOK
  <2>5. UNCHANGED phaseOf
    BY <2>4 DEF phaseOf
  <2>6. UNCHANGED roleOf
    BY <1>3, <1>6, <2>2, Shapes
  <2> QED BY <2>5, <2>6
<1> QED BY <1>5, <1>6

\* No more keys are resident than there are slots.
Residents == {k \in Keys : Holding(k) # {}}
ResidentsFit == Cardinality(Residents) <= Cardinality(Slots)

LEMMA ResidentBound == ResidentsFit
<1> DEFINE S == {s \in Slots : \E k \in Keys : s \in Holding(k)}
           f == [s \in S |-> key[s]]
<1>1. f \in Surjection(S, Residents)
  BY DEF Surjection, Residents, Holding
<1>2. IsFiniteSet(S) /\ Cardinality(S) <= Cardinality(Slots)
  <2>1. S \in SUBSET Slots
    OBVIOUS
  <2> HIDE DEF S
  <2> QED BY <2>1, SlotsAssumption, FS_Subset
<1> HIDE DEF S, f
<1>3. Cardinality(Residents) <= Cardinality(S) /\ IsFiniteSet(Residents)
  BY <1>1, <1>2, FS_Surjection
<1>4. Cardinality(Residents) \in Nat /\ Cardinality(S) \in Nat /\ Cardinality(Slots) \in Nat
  BY <1>2, <1>3, SlotsAssumption, FS_CardinalityType
<1> QED BY <1>2, <1>3, <1>4 DEF ResidentsFit

LEMMA ResidentBoundNext == ResidentsFit'
  BY ResidentBound, PTL

\* A claim takes the window in one step: it loads the absent keys, reads the
\* others and evicts only ready keys nobody holds.
LEMMA ClaimTakes ==
  ASSUME LeaseInv, LeaseInv', NEW t \in Threads, Claim(t)
  PROVE  \E K \in (SUBSET Keys) \ {{}} : Lease!Take(t, K)
<1>1. PICK b \in Bindings(request[t]), stamps \in PreparedStamps(Len(request[t])) :
         TakeWindow(t, b, stamps) /\ ClaimOutcome(t, b)
  BY ClaimEffect DEF LeaseInv
<1>2. PICK q \in Seq(Keys) : q = request[t]
  BY <1>1 DEF ClaimOutcome
<1>3. PICK K \in (SUBSET Keys) \ {{}} : K = KeysOf(q)
  <2>1. KeysOf(q) \subseteq Keys /\ KeysOf(q) # {}
    BY <1>1, <1>2 DEF ClaimOutcome, KeysOf
  <2> QED BY <2>1
<1>4. PICK M \in SUBSET K : M = Missing(K)
  BY DEF Missing
<1>5. PICK T \in SUBSET Slots : T = Taken(t, b)
  BY DEF Taken
<1>6. /\ \A k \in M : b[k] \in T /\ key'[b[k]] = k /\ state'[b[k]] = "Loading"
      /\ \A s \in T : \E k \in M : b[k] = s
      /\ \A s \in Slots \ T : key'[s] = key[s] /\ state'[s] = state[s]
      /\ \A s \in T : references[s] = 0 /\ state[s] # "Loading"
      /\ \A u \in Threads : \A k \in Window(u) : bind[u][k] \in Slots \ T
  BY <1>1, <1>2, <1>3, <1>4, <1>5 DEF ClaimOutcome, Taken
<1>7. /\ bind'[t] = b /\ loads'[t] = M /\ (published'[t] <=> M = {}) /\ bind[t] = NoWindow
      /\ \A u \in Threads \ {t} : /\ bind'[u] = bind[u] /\ loads'[u] = loads[u]
                                  /\ published'[u] = published[u]
  BY <1>1, <1>2, <1>3, <1>4 DEF ClaimOutcome
<1>8. /\ \A k \in Keys \ K : b[k] = NoSlot
      /\ \A k \in K \ M : b[k] \in Holding(k)
      /\ \A k \in M : b[k] \in Slots /\ \A m \in K : b[k] \notin Holding(m)
  BY <1>1, <1>2, <1>3, <1>4 DEF Bindings, Victims
<1>9. /\ PhaseFacts /\ PhaseFacts' /\ CacheInv /\ CacheInv'
      /\ \A k \in M : Holding(k) = {}
  BY <1>4, LeaseFacts, LeaseFactsNext DEF Missing
\* The keys the claim evicts.
<1> DEFINE evicted == {k \in Keys : \E s \in T : s \in Holding(k)}
<1>10. \A k \in evicted : phaseOf[k] = "ready" /\ k \notin K /\ ~Lease!Held(k)
  <2> TAKE k \in evicted
  <2>1. PICK s \in T : s \in Holding(k)
    OBVIOUS
  <2>2. state[s] = "Ready"
    BY <1>6, <1>9, <2>1 DEF Holding, CacheInv, TypeOK, SlotStates
  <2>3. k \notin K
    BY <1>6, <1>8, <2>1
  <2>4. ASSUME NEW u \in Threads, roleOf[u][k] \in {"loads", "reads"} PROVE FALSE
    <3>1. bind[u][k] # NoSlot /\ key[bind[u][k]] = k
      BY <2>4 DEF roleOf
    <3>2. k \in Window(u) /\ bind[u][k] \in Slots \ T
      BY <1>6, <3>1 DEF Window
    <3>3. bind[u][k] \in Holding(k)
      BY <1>9, <3>1, <3>2, KeysAssumption DEF Holding, CacheInv, EmptySlotsHaveNoKey
    <3>4. bind[u][k] = s
      BY <1>9, <2>1, <3>3 DEF Holding, CacheInv, KeyResidesOnce
    <3> QED BY <3>2, <3>4
  <2>5. ~Lease!Held(k)
    BY <2>4 DEF Lease!Held
  <2> QED BY <1>9, <2>1, <2>2, <2>3, <2>5 DEF PhaseFacts
<1>11. \A k \in Keys, s \in Slots :
          s \in Holding(k)' <=> \/ k \in M /\ s = b[k]
                                \/ s \in Holding(k) /\ s \notin T
  <2> TAKE k \in Keys, s \in Slots
  <2>1. CASE s \in T
    <3>1. PICK m \in M : b[m] = s
      BY <1>6, <2>1
    <3>2. key'[s] = m /\ state'[s] = "Loading"
      BY <1>6, <3>1
    <3> QED BY <1>6, <2>1, <3>1, <3>2 DEF Holding
  <2>2. CASE s \notin T
    BY <1>6, <2>2 DEF Holding
  <2> QED BY <2>1, <2>2
<1>12. \A k \in Keys : phaseOf'[k] = CASE k \in K /\ phaseOf[k] = "absent" -> "loading"
                                       [] k \in evicted -> "absent"
                                       [] OTHER -> phaseOf[k]
  <2> TAKE k \in Keys
  <2>1. k \in M <=> k \in K /\ phaseOf[k] = "absent"
    BY <1>4, <1>9 DEF PhaseFacts, Missing
  <2>2. \A r, s \in Holding(k) : r = s
    BY <1>9 DEF Holding, CacheInv, KeyResidesOnce
  <2>3. CASE k \in M
    <3>1. b[k] \in Holding(k)' /\ state'[b[k]] = "Loading"
      BY <1>6, <1>8, <1>11, <2>3
    <3>2. phaseOf'[k] = "loading"
      BY <1>9, <3>1 DEF PhaseFacts
    <3>3. k \in K /\ phaseOf[k] = "absent" /\ k \notin evicted
      BY <1>9, <2>1, <2>3
    <3> HIDE DEF evicted
    <3> QED BY <3>2, <3>3
  <2>4. CASE k \notin M /\ k \in evicted
    <3>1. Holding(k)' = {}
      BY <1>11, <2>2, <2>4 DEF Holding
    <3>2. phaseOf'[k] = "absent"
      BY <1>9, <3>1 DEF PhaseFacts
    <3> QED BY <2>1, <2>4, <3>2
  <2>5. CASE k \notin M /\ k \notin evicted
    <3>1. Holding(k)' = Holding(k) /\ \A s \in Holding(k) : state'[s] = state[s]
      BY <1>6, <1>11, <2>5 DEF Holding
    <3>2. CASE Holding(k) = {}
      BY <1>9, <2>1, <2>5, <3>1, <3>2 DEF PhaseFacts
    <3>3. CASE Holding(k) # {}
      BY <1>9, <2>1, <2>5, <3>1, <3>3 DEF PhaseFacts
    <3> QED BY <3>2, <3>3
  <2> QED BY <2>3, <2>4, <2>5
<1>13. \A k \in Keys : roleOf'[t][k] = IF k \notin K THEN "none"
                                       ELSE IF phaseOf[k] = "absent" THEN "loads"
                                       ELSE "reads"
  <2> TAKE k \in Keys
  <2>1. k \in K => (k \in M <=> phaseOf[k] = "absent")
    BY <1>4, <1>9 DEF PhaseFacts, Missing
  <2>2. CASE k \notin K
    BY <1>7, <1>8, <2>2 DEF roleOf
  <2>3. CASE k \in M
    <3>1. key'[b[k]] = k /\ b[k] # NoSlot /\ ~published'[t]
      BY <1>6, <1>7, <1>8, <2>3, SlotsAssumption
    <3>2. roleOf'[t][k] = "loads"
      BY <1>7, <2>3, <3>1 DEF roleOf
    <3>3. k \in K /\ phaseOf[k] = "absent"
      BY <2>1, <2>3
    <3> QED BY <3>2, <3>3
  <2>4. CASE k \in K \ M
    <3>1. b[k] \in Slots \ T /\ key[b[k]] = k
      BY <1>6, <1>8, <2>4 DEF Holding
    <3>2. key'[b[k]] = k /\ b[k] # NoSlot
      BY <1>6, <3>1, SlotsAssumption
    <3>3. roleOf'[t][k] = "reads"
      BY <1>7, <2>4, <3>2 DEF roleOf
    <3>4. k \in K /\ phaseOf[k] # "absent"
      BY <2>1, <2>4
    <3> QED BY <3>3, <3>4
  <2> QED BY <2>2, <2>3, <2>4
<1>14. \A u \in Threads \ {t}, k \in Keys : roleOf'[u][k] = roleOf[u][k]
  BY <1>6, <1>7 DEF roleOf, Window
<1>15. \A k \in Keys : roleOf[t][k] = "none"
  BY <1>7 DEF roleOf, NoWindow
<1>16. roleOf' = [roleOf EXCEPT ![t] =
                    [k \in Keys |-> IF k \notin K THEN "none"
                                    ELSE IF phaseOf[k] = "absent" THEN "loads"
                                    ELSE "reads"]]
  BY <1>13, <1>14, Shapes
<1> HIDE DEF evicted
<1>17. phaseOf' = [k \in Keys |-> CASE k \in K /\ phaseOf[k] = "absent" -> "loading"
                                    [] k \in evicted -> "absent"
                                    [] OTHER -> phaseOf[k]]
  BY <1>12, Shapes
<1>18. evicted \in SUBSET {k \in Keys \ K : phaseOf[k] = "ready" /\ ~Lease!Held(k)}
  BY <1>10 DEF evicted
<1>19. Cardinality(Lease!Present(phaseOf')) <= Cardinality(Slots)
  <2>1. Lease!Present(phaseOf') = Residents'
    BY <1>9 DEF Lease!Present, PhaseFacts, Residents
  <2> QED BY <2>1, ResidentBoundNext DEF ResidentsFit
<1>20. Lease!Take(t, K)
  <2>1. \E E \in SUBSET {k \in Keys \ K : phaseOf[k] = "ready" /\ ~Lease!Held(k)} :
           phaseOf' = [k \in Keys |-> CASE k \in K /\ phaseOf[k] = "absent" -> "loading"
                                        [] k \in E -> "absent"
                                        [] OTHER -> phaseOf[k]]
    BY <1>17, <1>18
  <2> QED BY <1>15, <1>16, <1>19, <2>1 DEF Lease!Take, Lease!Cardinality, Cardinality
<1> QED BY <1>20

\* Every behaviour of the cache is one of the keyed lease (frame_cache.hpp):
\* claims are all-or-nothing, loads are published or dropped as a whole, only
\* unused ready frames are evicted, and never more keys than slots.
THEOREM CacheImplementsLease == Spec => ImplementsKeyedLease
<1>1. Init => LeaseInv /\ Lease!LeaseInit
  <2> SUFFICES ASSUME Init PROVE LeaseInv /\ Lease!LeaseInit
    OBVIOUS
  <2>1. phaseOf = [k \in Keys |-> "absent"] /\ roleOf = [t \in Threads |-> [k \in Keys |-> "none"]]
    BY DEF Init, phaseOf, roleOf, NoWindow
  <2> QED BY <2>1, InitCache DEF LeaseInv, AbandonedLoadsAreGone, Init, Lease!LeaseInit
<1>2. CacheInv /\ CacheInv' /\ LeaseInv /\ [Next]_vars => LeaseInv'
  BY AbandonedStayGone DEF LeaseInv
<1>3. LeaseInv /\ LeaseInv' /\ [Next]_vars => [Lease!LeaseNext]_Lease!leaseVars
  <2> SUFFICES ASSUME LeaseInv, LeaseInv', [Next]_vars
               PROVE  Lease!LeaseNext \/ UNCHANGED <<phaseOf, roleOf>>
    BY DEF Lease!leaseVars
  <2>1. ASSUME NEW t \in Threads, Claim(t) PROVE Lease!LeaseNext
    BY <2>1, ClaimTakes DEF Lease!LeaseNext
  <2>2. ASSUME NEW t \in Threads, Publish(t) \/ Abandon(t) \/ Release(t)
        PROVE  Lease!LeaseNext \/ UNCHANGED <<phaseOf, roleOf>>
    BY <2>2, PublishCommits, AbandonDrops, ReleaseReturns DEF Lease!LeaseNext
  <2>3. ASSUME NEW t \in Threads, Step(t) \/ SpuriousWake(t),
               ~Claim(t), ~(Publish(t) \/ Abandon(t) \/ Release(t))
        PROVE  UNCHANGED <<phaseOf, roleOf>>
    BY <2>3, OtherSteps DEF slotVars, windowVars, phaseOf, roleOf
  <2>4. CASE UNCHANGED vars
    BY <2>4 DEF vars, phaseOf, roleOf
  <2> QED BY <2>1, <2>2, <2>3, <2>4 DEF Next, Done
<1> QED BY <1>1, <1>2, <1>3, CacheInvariant, PTL
        DEF Spec, ImplementsKeyedLease, Lease!LeaseSpec
================================================================================
