------------------------ MODULE WorkerMatcher_proofs -------------------------
(***************************************************************************)
(* The workers of the CUDA filters, for any number of threads, workers and *)
(* searches: the pool is safe and wakes its waiters; the matcher of a      *)
(* worker finds the group it should, and the CPU's search the same one.    *)
(***************************************************************************)
EXTENDS WorkerPool, PatchMatch, FiniteSetTheorems, WellFoundedInduction, TLAPS

-----------------------------------------------------------------------------
(* The pool. *)

\* The inductive invariant: the three invariants of the runs and, for counting,
\* what a thread outside the pool cannot be.
PoolInv == PoolTypeOK /\ LeasesAreExclusive

\* It holds from the start and every step keeps it.
LEMMA PoolInvariant == PoolSpec => []PoolInv
<1>1. PoolInit => PoolInv
  BY PoolAssumption DEF PoolInit, PoolInv, PoolTypeOK, LeasesAreExclusive, Workers
<1>2. PoolInv /\ [PoolNext]_poolVars => PoolInv'
  <2> SUFFICES ASSUME PoolInv, [PoolNext]_poolVars PROVE PoolInv'
    OBVIOUS
  <2> USE PoolAssumption DEF PoolInv, PoolTypeOK, LeasesAreExclusive
  <2>1. ASSUME NEW t \in Threads, Request(t) PROVE PoolInv'
    BY <2>1 DEF Request
  <2>2. ASSUME NEW t \in Threads, Wait(t) PROVE PoolInv'
    BY <2>2 DEF Wait
  <2>3. ASSUME NEW t \in Threads, Take(t) PROVE PoolInv'
    <3>1. PICK w \in available : /\ lease' = [lease EXCEPT ![t] = w]
                                 /\ available' = available \ {w}
      BY <2>3 DEF Take, Remaining
    <3>2. w \in Workers /\ w # NoWorker
      BY <3>1 DEF Workers
    <3>3. \A u \in Threads : lease[u] # w
      BY <3>1
    <3> QED BY <2>3, <3>1, <3>2, <3>3 DEF Take
  <2>4. ASSUME NEW t \in Threads, Release(t) PROVE PoolInv'
    <3>1. lease[t] \in Workers /\ NoWorker \notin Workers
      BY <2>4 DEF Release, Workers
    <3> QED BY <2>4, <3>1 DEF Release, Returned
  <2>5. ASSUME NEW t \in Threads, NotifyOne(t) PROVE PoolInv'
    BY <2>5 DEF NotifyOne, StillAsleep
  <2>6. ASSUME NEW t \in Threads, SpuriousWake(t) PROVE PoolInv'
    BY <2>6 DEF SpuriousWake
  <2>7. CASE UNCHANGED poolVars
    BY <2>7 DEF poolVars
  <2> QED
    BY <2>1, <2>2, <2>3, <2>4, <2>5, <2>6, <2>7 DEF PoolNext, Step, Finished
<1> QED BY <1>1, <1>2, PTL DEF PoolSpec

\* Each worker is leased to at most one thread, and a leased worker is never
\* available, whatever the interleaving of acquire and release.
THEOREM PoolIsExclusive == PoolSpec => []LeasesAreExclusive
<1>1. PoolInv => LeasesAreExclusive
  BY DEF PoolInv
<1> QED BY <1>1, PoolInvariant, PTL

-----------------------------------------------------------------------------
\* The sets the wake-up count is about are finite.
LEMMA PoolSetsFinite ==
  ASSUME PoolInv
  PROVE  /\ IsFiniteSet(available) /\ Cardinality(available) \in Nat
         /\ IsFiniteSet(Awake) /\ Cardinality(Awake) \in Nat
         /\ IsFiniteSet(Notifying) /\ Cardinality(Notifying) \in Nat
<1>1. IsFiniteSet(Workers)
  BY PoolAssumption, FS_Interval DEF Workers
<1>2. IsFiniteSet(available)
  BY <1>1, FS_Subset DEF PoolInv, PoolTypeOK
<1>3. IsFiniteSet(Awake) /\ IsFiniteSet(Notifying)
  BY PoolAssumption, FS_Subset DEF Awake, Notifying
<1> QED BY <1>2, <1>3, FS_CardinalityType

\* NoLostWakeup is inductive relative to PoolInv: a step that makes a worker
\* available adds a notifier, one that uses up a notifier or a woken thread
\* while others sleep either wakes another thread or takes a worker.
LEMMA WakeupStep ==
  ASSUME PoolInv, PoolInv', NoLostWakeup, [PoolNext]_poolVars
  PROVE  NoLostWakeup'
<1> USE PoolAssumption
<1>1. /\ IsFiniteSet(available) /\ Cardinality(available) \in Nat
      /\ IsFiniteSet(Awake) /\ Cardinality(Awake) \in Nat
      /\ IsFiniteSet(Notifying) /\ Cardinality(Notifying) \in Nat
  BY PoolSetsFinite
<1>2. Cardinality(Awake') \in Nat /\ Cardinality(Notifying') \in Nat
  <2>1. Awake' \subseteq Threads /\ Notifying' \subseteq Threads
    BY DEF Awake, Notifying
  <2> QED BY <2>1, FS_Subset, FS_CardinalityType
<1>3. ASSUME NEW t \in Threads, Request(t) PROVE NoLostWakeup'
  <2>1. t \notin Awake /\ Awake' = Awake \cup {t} /\ Notifying' = Notifying
    BY <1>3 DEF Request, Awake, Notifying, PoolInv, PoolTypeOK
  <2>2. Cardinality(Awake') = Cardinality(Awake) + 1
    BY <1>1, <2>1, FS_AddElement
  <2>3. UNCHANGED <<available, asleep>>
    BY <1>3 DEF Request
  <2> QED BY <1>1, <2>1, <2>2, <2>3 DEF NoLostWakeup
<1>4. ASSUME NEW t \in Threads, Wait(t) PROVE NoLostWakeup'
  <2>1. available' = {}
    BY <1>4 DEF Wait
  <2>2. Cardinality(available') = 0
    BY <2>1, FS_EmptySet
  <2> QED BY <1>2, <2>2 DEF NoLostWakeup
<1>5. ASSUME NEW t \in Threads, Take(t) PROVE NoLostWakeup'
  <2>1. PICK w \in available : available' = available \ {w}
    BY <1>5 DEF Take, Remaining
  <2>2. t \in Awake /\ Awake' = Awake \ {t} /\ Notifying' = Notifying /\ asleep' = asleep
    BY <1>5 DEF Take, Awake, Notifying, PoolInv, PoolTypeOK
  <2>3. Cardinality(available') = Cardinality(available) - 1
    BY <1>1, <2>1, FS_RemoveElement
  <2>4. Cardinality(Awake') = Cardinality(Awake) - 1
    BY <1>1, <2>2, FS_RemoveElement
  <2> QED BY <1>1, <2>2, <2>3, <2>4 DEF NoLostWakeup
<1>6. ASSUME NEW t \in Threads, Release(t) PROVE NoLostWakeup'
  <2>1. lease[t] \notin available /\ available' = available \cup {lease[t]}
    BY <1>6 DEF Release, Returned, PoolInv, LeasesAreExclusive
  <2>2. /\ t \notin Notifying /\ Notifying' = Notifying \cup {t}
        /\ Awake' = Awake /\ asleep' = asleep
    BY <1>6 DEF Release, Awake, Notifying, PoolInv, PoolTypeOK
  <2>3. Cardinality(available') = Cardinality(available) + 1
    BY <1>1, <2>1, FS_AddElement
  <2>4. Cardinality(Notifying') = Cardinality(Notifying) + 1
    BY <1>1, <2>2, FS_AddElement
  <2> QED BY <1>1, <2>2, <2>3, <2>4 DEF NoLostWakeup
<1>7. ASSUME NEW t \in Threads, NotifyOne(t) PROVE NoLostWakeup'
  <2>1. CASE asleep = {}
    <3>1. asleep' = {}
      BY <1>7, <2>1 DEF NotifyOne, StillAsleep
    <3> QED BY <3>1 DEF NoLostWakeup
  <2>2. CASE asleep # {}
    <3>1. PICK u \in asleep : asleep' = asleep \ {u}
      BY <1>7, <2>2 DEF NotifyOne, StillAsleep
    <3>2. /\ t \in Notifying /\ Notifying' = Notifying \ {t}
          /\ u \notin Awake /\ Awake' = Awake \cup {u} /\ available' = available
      BY <1>7, <3>1 DEF NotifyOne, Awake, Notifying, PoolInv, PoolTypeOK
    <3>3. Cardinality(Notifying') = Cardinality(Notifying) - 1
      BY <1>1, <3>2, FS_RemoveElement
    <3>4. Cardinality(Awake') = Cardinality(Awake) + 1
      BY <1>1, <3>2, FS_AddElement
    <3> QED BY <1>1, <2>2, <3>2, <3>3, <3>4 DEF NoLostWakeup
  <2> QED BY <2>1, <2>2
<1>8. ASSUME NEW t \in Threads, SpuriousWake(t) PROVE NoLostWakeup'
  <2>1. /\ t \in asleep /\ t \notin Awake /\ Awake' = Awake \cup {t}
        /\ Notifying' = Notifying /\ available' = available
    BY <1>8 DEF SpuriousWake, Awake, Notifying, PoolInv, PoolTypeOK
  <2>2. Cardinality(Awake') = Cardinality(Awake) + 1
    BY <1>1, <2>1, FS_AddElement
  <2> QED BY <1>1, <2>1, <2>2 DEF NoLostWakeup
<1>9. CASE UNCHANGED poolVars
  BY <1>9 DEF poolVars, NoLostWakeup, Awake, Notifying
<1> QED
  BY <1>3, <1>4, <1>5, <1>6, <1>7, <1>8, <1>9 DEF PoolNext, Step, Finished

\* Waking one thread after the unlock loses no wake-up, for any number of
\* threads and workers and although others may take the worker first.
THEOREM PoolWakesWaiters == PoolSpec => []NoLostWakeup
<1>1. PoolInit => NoLostWakeup
  BY DEF PoolInit, NoLostWakeup
<1>2. PoolInv /\ PoolInv' /\ NoLostWakeup /\ [PoolNext]_poolVars => NoLostWakeup'
  BY WakeupStep
<1> QED BY <1>1, <1>2, PoolInvariant, PTL DEF PoolSpec

-----------------------------------------------------------------------------
(* Numbers, finite sets and ranks. *)

\* A non-empty set of naturals has a least member.
LEMMA LeastOf ==
  ASSUME NEW T, T \subseteq Nat, T # {}
  PROVE  \E m \in T : \A x \in T : m <= x
<1>1. PICK m \in T : \A x \in T : <<x, m>> \notin OpToRel(<, Nat)
  BY WFMin, NatLessThanWellFounded, Zenon
<1>2. \A x \in T : ~(x < m)
  BY <1>1 DEF OpToRel
<1> QED BY <1>2

\* A property of 0..m that holds of 0 fails first at a successor.
LEMMA FirstFailure ==
  ASSUME NEW m \in Nat, NEW T, T \subseteq 0..m, T # {}, 0 \notin T
  PROVE  \E i \in 1..m : i \in T /\ i - 1 \in 0..m /\ i - 1 \notin T
<1>1. T \subseteq Nat
  OBVIOUS
<1>2. PICK i \in T : \A j \in T : i <= j
  BY <1>1, LeastOf
<1>3. i \in 1..m /\ i - 1 \in 0..m
  OBVIOUS
<1>4. ~(i <= i - 1)
  BY <1>3
<1> QED BY <1>2, <1>3, <1>4

\* A bounded set of naturals has a greatest member.
LEMMA GreatestOf ==
  ASSUME NEW m \in Nat, NEW T, T \subseteq 0..m, T # {}
  PROVE  \E g \in T : \A x \in T : x <= g
<1> DEFINE U == {u \in 0..m : m - u \in T}
<1>1. U \subseteq Nat
  OBVIOUS
<1>2. U # {}
  <2>1. PICK x \in T : TRUE
    OBVIOUS
  <2>2. m - x \in U
    OBVIOUS
  <2> QED BY <2>2
<1>3. PICK u \in U : \A w \in U : u <= w
  BY <1>1, <1>2, LeastOf
<1>4. m - u \in T
  BY <1>3
<1>5. ASSUME NEW x \in T PROVE x <= m - u
  <2>1. m - x \in U
    OBVIOUS
  <2>2. u <= m - x /\ u \in 0..m /\ x \in 0..m
    BY <1>3, <2>1
  <2> QED BY <2>2
<1> QED BY <1>4, <1>5

\* Equally many things in the range of a one-to-one function are all of them.
LEMMA OneToOneIsOnto ==
  ASSUME NEW I, IsFiniteSet(I), NEW r \in [I -> 0..(Cardinality(I) - 1)],
         \A i, j \in I : r[i] = r[j] => i = j
  PROVE  \A p \in 0..(Cardinality(I) - 1) : \E i \in I : r[i] = p
<1> DEFINE N == Cardinality(I)
           P == 0..(N - 1)
<1>1. N \in Nat
  BY FS_CardinalityType
<1>2. IsFiniteSet(P) /\ Cardinality(P) = N
  BY <1>1, FS_Interval
<1>3. r \in Injection(I, P)
  BY DEF Injection, IsInjective
<1>4. r \in Surjection(I, P)
  BY <1>2, <1>3, FS_Injection
<1> QED BY <1>4 DEF Surjection

\* A strict total order of a finite set, and how many come before each in it.
TotalOrder(I, B) ==
    /\ IsFiniteSet(I) /\ \A i \in I : <<i, i>> \notin B
    /\ \A i, j \in I : i # j => <<i, j>> \in B \/ <<j, i>> \in B
    /\ \A i, j, k \in I : <<i, j>> \in B /\ <<j, k>> \in B => <<i, k>> \in B
Counted(I, B, r) == r = [i \in I |-> Cardinality({j \in I : <<j, i>> \in B})]

\* In a strict total order as many come before as the place says.
LEMMA RanksAreDistinct ==
  ASSUME NEW I, NEW B, TotalOrder(I, B), NEW r, Counted(I, B, r)
  PROVE  /\ r \in [I -> 0..(Cardinality(I) - 1)]
         /\ \A i, j \in I : <<i, j>> \in B <=> r[i] < r[j]
         /\ \A i, j \in I : r[i] = r[j] => i = j
<1> USE DEF TotalOrder
<1> DEFINE Before(i) == {j \in I : <<j, i>> \in B}
<1>1. ASSUME NEW i \in I PROVE IsFiniteSet(Before(i)) /\ Cardinality(Before(i)) \in Nat
  <2>1. Before(i) \in SUBSET I
    OBVIOUS
  <2>2. IsFiniteSet(Before(i))
    BY <2>1, FS_Subset
  <2> QED BY <2>2, FS_CardinalityType
<1>2. ASSUME NEW i \in I PROVE Cardinality(Before(i)) < Cardinality(I)
  <2>1. Before(i) \in SUBSET I /\ i \notin Before(i)
    OBVIOUS
  <2>2. Cardinality(Before(i)) <= Cardinality(I) /\ (Cardinality(I) = Cardinality(Before(i)) => I = Before(i))
    BY <2>1, FS_Subset
  <2>3. Cardinality(I) \in Nat
    BY FS_CardinalityType
  <2> QED BY <1>1, <2>1, <2>2, <2>3
<1>3. ASSUME NEW i \in I, NEW j \in I, <<i, j>> \in B PROVE Cardinality(Before(i)) < Cardinality(Before(j))
  <2>1. Before(i) \in SUBSET Before(j) /\ i \in Before(j) /\ i \notin Before(i)
    BY <1>3
  <2>2. Cardinality(Before(i)) <= Cardinality(Before(j))
        /\ (Cardinality(Before(j)) = Cardinality(Before(i)) => Before(j) = Before(i))
    BY <1>1, <2>1, FS_Subset
  <2>3. Before(j) # Before(i)
    BY <2>1
  <2>4. Cardinality(Before(i)) \in Nat /\ Cardinality(Before(j)) \in Nat
    BY <1>1
  <2> HIDE DEF Before
  <2> QED BY <2>2, <2>3, <2>4
<1>4. r = [i \in I |-> Cardinality(Before(i))]
  BY DEF Counted
<1>5. Cardinality(I) \in Nat
  BY FS_CardinalityType
<1> HIDE DEF Before
<1>6. \A i \in I : r[i] \in 0..(Cardinality(I) - 1)
  BY <1>1, <1>2, <1>4, <1>5
<1>7. r \in [I -> 0..(Cardinality(I) - 1)]
  BY <1>4, <1>6
<1>8. ASSUME NEW i \in I, NEW j \in I, <<i, j>> \in B PROVE r[i] < r[j]
  BY <1>3, <1>4, <1>8
<1>9. ASSUME NEW i \in I, NEW j \in I, r[i] < r[j] PROVE <<i, j>> \in B
  <2>1. r[i] \in Int /\ r[j] \in Int
    BY <1>6
  <2>2. i # j /\ ~(r[j] < r[i])
    BY <1>9, <2>1
  <2> QED BY <1>8, <2>2
<1>10. ASSUME NEW i \in I, NEW j \in I, r[i] = r[j] PROVE i = j
  <2>1. ~(r[i] < r[j]) /\ ~(r[j] < r[i])
    BY <1>6, <1>10
  <2> QED BY <1>8, <2>1
<1> QED BY <1>7, <1>8, <1>9, <1>10

Placed(I, r, v, L) == L = InOrder({<<r[i], v[i]>> : i \in I})
DistinctPlaces(I, r) ==
    /\ IsFiniteSet(I) /\ r \in [I -> 0..(Cardinality(I) - 1)]
    /\ \A i, j \in I : r[i] = r[j] => i = j

\* InOrder puts each entry at the place its number says.
LEMMA InOrderIs ==
  ASSUME NEW I, NEW r, DistinctPlaces(I, r), NEW v, NEW L, Placed(I, r, v, L)
  PROVE  /\ DOMAIN L = 1..Cardinality(I)
         /\ L = [place \in 1..Cardinality(I) |-> L[place]]
         /\ \A i \in I : r[i] + 1 \in 1..Cardinality(I) /\ L[r[i] + 1] = v[i]
         /\ \A p \in 1..Cardinality(I) : \E i \in I : r[i] = p - 1 /\ L[p] = v[i]
<1> USE DEF DistinctPlaces
<1> DEFINE E == {<<r[i], v[i]>> : i \in I}
           f == [i \in I |-> <<r[i], v[i]>>]
<1>1. Cardinality(I) \in Nat
  BY FS_CardinalityType
<1>2. Cardinality(E) = Cardinality(I)
  <2>1. f \in [I -> E] /\ \A i, j \in I : f[i] = f[j] => i = j
    OBVIOUS
  <2>2. \A e \in E : \E i \in I : f[i] = e
    OBVIOUS
  <2>3. f \in Bijection(I, E)
    BY <2>1, <2>2 DEF Bijection, Injection, Surjection, IsInjective
  <2>4. ExistsBijection(I, E)
    BY <2>3 DEF ExistsBijection
  <2> QED BY <2>4, FS_Bijection
<1>3. L = [place \in 1..Cardinality(I) |-> (CHOOSE e \in E : e[1] = place - 1)[2]]
  BY <1>2 DEF Placed, InOrder
<1>4. ASSUME NEW i \in I PROVE r[i] + 1 \in 1..Cardinality(I) /\ L[r[i] + 1] = v[i]
  <2>1. r[i] \in 0..(Cardinality(I) - 1)
    OBVIOUS
  <2>2. r[i] + 1 \in 1..Cardinality(I) /\ (r[i] + 1) - 1 = r[i]
    BY <1>1, <2>1
  <2> DEFINE c == CHOOSE e \in E : e[1] = r[i]
  <2>3. <<r[i], v[i]>> \in E /\ <<r[i], v[i]>>[1] = r[i]
    OBVIOUS
  <2>4. c \in E /\ c[1] = r[i]
    BY <2>3
  <2> HIDE DEF c
  <2>5. PICK j \in I : c = <<r[j], v[j]>>
    BY <2>4
  <2>6. j = i
    BY <2>4, <2>5
  <2>7. L[r[i] + 1] = c[2]
    BY <1>3, <2>2 DEF c
  <2> QED BY <2>2, <2>5, <2>6, <2>7
<1>5. ASSUME NEW p \in 1..Cardinality(I) PROVE \E i \in I : r[i] = p - 1 /\ L[p] = v[i]
  <2>1. p - 1 \in 0..(Cardinality(I) - 1)
    BY <1>1
  <2>2. PICK i \in I : r[i] = p - 1
    BY <2>1, OneToOneIsOnto
  <2>3. r[i] + 1 = p
    BY <2>1, <2>2
  <2> QED BY <1>4, <2>2, <2>3
<1>6. L = [place \in 1..Cardinality(I) |-> L[place]] /\ DOMAIN L = 1..Cardinality(I)
  BY <1>3
<1> QED BY <1>4, <1>5, <1>6

-----------------------------------------------------------------------------
(* Sorting. *)

\* How many keys of a set come before a key.
Rank(S, x) == Cardinality({k \in S : Less(k, x)})
KeyType == [d : Int, id : Nat]
KeySet(S) == IsFiniteSet(S) /\ S \subseteq KeyType /\ (\A a, b \in S : a.id = b.id => a = b)

\* Distances first, then ids: a strict total order on keys of different ids.
LEMMA LessIsTotal ==
  ASSUME NEW S, KeySet(S)
  PROVE  /\ \A a \in S : ~Less(a, a)
         /\ \A a, b \in S : a # b => Less(a, b) \/ Less(b, a)
         /\ \A a, b, c \in S : Less(a, b) /\ Less(b, c) => Less(a, c)
         /\ \A a, b \in S : Less(a, b) => a.d <= b.d
<1>1. \A a \in S : a.d \in Int /\ a.id \in Int
  BY DEF KeySet, KeyType
<1>2. \A a, b \in S : a.id = b.id => a = b
  BY DEF KeySet
<1>3. \A a \in S : ~Less(a, a)
  BY <1>1 DEF Less
<1>4. \A a, b \in S : a # b => Less(a, b) \/ Less(b, a)
  BY <1>1, <1>2 DEF Less
<1>5. \A a, b, c \in S : Less(a, b) /\ Less(b, c) => Less(a, c)
  BY <1>1 DEF Less
<1>6. \A a, b \in S : Less(a, b) => a.d <= b.d
  BY <1>1 DEF Less
<1> QED BY <1>3, <1>4, <1>5, <1>6

\* Ranks of keys are different places, in the order of the keys.
LEMMA RankIs ==
  ASSUME NEW S, KeySet(S)
  PROVE  /\ \A a \in S : Rank(S, a) \in 0..(Cardinality(S) - 1)
         /\ \A a, b \in S : Less(a, b) <=> Rank(S, a) < Rank(S, b)
         /\ \A a, b \in S : Rank(S, a) = Rank(S, b) => a = b
<1> DEFINE B == {p \in S \X S : Less(p[1], p[2])}
           r == [a \in S |-> Cardinality({k \in S : <<k, a>> \in B})]
<1>1. \A a, b \in S : <<a, b>> \in B <=> Less(a, b)
  OBVIOUS
<1> HIDE DEF B
<1>2. \A a \in S : r[a] = Rank(S, a)
  <2> TAKE a \in S
  <2>1. {k \in S : <<k, a>> \in B} = {k \in S : Less(k, a)}
    BY <1>1
  <2> QED BY <2>1 DEF Rank
<1>3. IsFiniteSet(S)
  BY DEF KeySet
<1>4. TotalOrder(S, B)
  BY <1>1, <1>3, LessIsTotal DEF TotalOrder
<1>5. Counted(S, B, r)
  BY DEF Counted
<1> HIDE DEF r
<1>6. /\ r \in [S -> 0..(Cardinality(S) - 1)]
      /\ \A i, j \in S : <<i, j>> \in B <=> r[i] < r[j]
      /\ \A i, j \in S : r[i] = r[j] => i = j
  BY <1>4, <1>5, RanksAreDistinct
<1> QED BY <1>1, <1>2, <1>6

\* What sorting makes of a list of keys depends on which keys these are: each
\* is at the place its rank says.
LEMMA SortKeysIs ==
  ASSUME NEW S, KeySet(S), NEW list, ToSet(list) = S
  PROVE  /\ DOMAIN SortKeys(list) = 1..Cardinality(S)
         /\ SortKeys(list) = [p \in 1..Cardinality(S) |-> SortKeys(list)[p]]
         /\ \A p \in 1..Cardinality(S) : SortKeys(list)[p] \in S /\ Rank(S, SortKeys(list)[p]) = p - 1
         /\ \A a \in S : Rank(S, a) + 1 \in 1..Cardinality(S) /\ SortKeys(list)[Rank(S, a) + 1] = a
<1> DEFINE r == [a \in S |-> Rank(S, a)]
           v == [a \in S |-> a]
           E == {<<r[a], v[a]>> : a \in S}
           L == InOrder(E)
<1>1. IsFiniteSet(S) /\ Cardinality(S) \in Nat
  BY FS_CardinalityType DEF KeySet
<1>2. r \in [S -> 0..(Cardinality(S) - 1)] /\ \A a, b \in S : r[a] = r[b] => a = b
  BY RankIs
<1>3. SortKeys(list) = L
  <2>1. {<<r[a], v[a]>> : a \in S} = {<<Cardinality({k \in S : Less(k, a)}), a>> : a \in S}
    BY DEF Rank
  <2>2. SortKeys(list) = InOrder({<<Cardinality({k \in S : Less(k, key)}), key>> : key \in S})
    BY DEF SortKeys
  <2> QED BY <2>1, <2>2
<1>4. \A a \in S : r[a] = Rank(S, a) /\ v[a] = a
  OBVIOUS
<1>6. Placed(S, r, v, L) /\ DistinctPlaces(S, r)
  BY <1>1, <1>2 DEF Placed, DistinctPlaces
<1> HIDE DEF r, v, E, L
<1>5. /\ DOMAIN L = 1..Cardinality(S)
      /\ L = [place \in 1..Cardinality(S) |-> L[place]]
      /\ \A i \in S : r[i] + 1 \in 1..Cardinality(S) /\ L[r[i] + 1] = v[i]
      /\ \A p \in 1..Cardinality(S) : \E i \in S : r[i] = p - 1 /\ L[p] = v[i]
  BY <1>6, InOrderIs
<1> QED BY <1>3, <1>4, <1>5

\* A set of places that holds, with each, all smaller ones.
LEMMA InitialPlaces ==
  ASSUME NEW m \in Nat, NEW T, T \subseteq 1..m, \A i \in T, j \in 1..m : j <= i => j \in T
  PROVE  IsFiniteSet(T) /\ Cardinality(T) \in 0..m /\ T = 1..Cardinality(T)
<1>1. IsFiniteSet(1..m) /\ Cardinality(1..m) = m
  BY FS_Interval
<1>2. IsFiniteSet(T) /\ Cardinality(T) <= m
  BY <1>1, FS_Subset
<1>3. CASE T = {}
  <2>1. Cardinality(T) = 0
    BY <1>3, FS_EmptySet
  <2> QED BY <1>2, <1>3, <2>1
<1>4. CASE T # {}
  <2>1. T \subseteq 0..m
    OBVIOUS
  <2>2. PICK g \in T : \A x \in T : x <= g
    BY <1>4, <2>1, GreatestOf
  <2>3. T = 1..g
    <3>1. \A x \in 1..g : x \in 1..m /\ x <= g
      BY <2>2
    <3>2. \A x \in 1..g : x \in T
      BY <2>2, <3>1
    <3>3. \A x \in T : x \in 1..g
      BY <2>2
    <3> QED BY <3>2, <3>3
  <2>4. g \in 1..m
    OBVIOUS
  <2>5. Cardinality(T) = g
    BY <2>3, <2>4, FS_Interval
  <2> QED BY <1>2, <2>3, <2>4, <2>5
<1> QED BY <1>3, <1>4

\* How many entries of a list are no greater than a value.
AtMost(list, v) == Cardinality({i \in DOMAIN list : list[i] <= v})

\* Sorting numbers keeps how many there are up to any value.
LEMMA AscendingIs ==
  ASSUME NEW m \in Nat, NEW list \in [1..m -> Int]
  PROVE  /\ Ascending(list) \in [1..m -> Int]
         /\ \A i, j \in 1..m : i <= j => Ascending(list)[i] <= Ascending(list)[j]
         /\ \A i \in 1..m : \E j \in 1..m : Ascending(list)[i] = list[j]
         /\ \A v \in Int : AtMost(Ascending(list), v) = AtMost(list, v)
<1> DEFINE I == 1..m
           B == {p \in I \X I : list[p[1]] < list[p[2]] \/ (list[p[1]] = list[p[2]] /\ p[1] < p[2])}
           r == [i \in I |-> Cardinality({j \in I : <<j, i>> \in B})]
           E == {<<r[i], list[i]>> : i \in I}
           L == InOrder(E)
<1>1. IsFiniteSet(I) /\ Cardinality(I) = m
  BY FS_Interval
<1>2. \A i, j \in I : <<i, j>> \in B <=> list[i] < list[j] \/ (list[i] = list[j] /\ i < j)
  OBVIOUS
<1> HIDE DEF B
<1>3. \A i \in I : r[i] = Cardinality({j \in I : list[j] < list[i] \/ (list[j] = list[i] /\ j < i)})
  <2> TAKE i \in I
  <2>1. {j \in I : <<j, i>> \in B} = {j \in I : list[j] < list[i] \/ (list[j] = list[i] /\ j < i)}
    BY <1>2
  <2> QED BY <2>1
<1>4. Ascending(list) = L
  <2>1. DOMAIN list = I
    OBVIOUS
  <2>2. {<<Cardinality({j \in I : list[j] < list[i] \/ (list[j] = list[i] /\ j < i)}), list[i]>> : i \in I}
          = E
    <3> HIDE DEF r
    <3> QED BY <1>3
  <2> HIDE DEF r, E
  <2> QED BY <2>1, <2>2 DEF Ascending
<1>5. \A i \in I : list[i] \in Int /\ i \in Int
  OBVIOUS
<1>6. TotalOrder(I, B)
  <2> HIDE DEF I
  <2>1. \A i \in I : <<i, i>> \notin B
    BY <1>2, <1>5
  <2>2. \A i, j \in I : i # j => <<i, j>> \in B \/ <<j, i>> \in B
    BY <1>2, <1>5
  <2>3. \A i, j, k \in I : <<i, j>> \in B /\ <<j, k>> \in B => <<i, k>> \in B
    BY <1>2, <1>5
  <2> QED BY <1>1, <2>1, <2>2, <2>3 DEF TotalOrder
<1>7. Counted(I, B, r)
  BY DEF Counted
<1>14. Placed(I, r, list, L)
  BY DEF Placed
<1> HIDE DEF r, E, L
<1>8. /\ r \in [I -> 0..(Cardinality(I) - 1)]
      /\ \A i, j \in I : <<i, j>> \in B <=> r[i] < r[j]
      /\ \A i, j \in I : r[i] = r[j] => i = j
  <2> HIDE DEF I
  <2> QED BY <1>6, <1>7, RanksAreDistinct
<1>9. /\ DOMAIN L = 1..Cardinality(I)
      /\ L = [place \in 1..Cardinality(I) |-> L[place]]
      /\ \A i \in I : r[i] + 1 \in 1..Cardinality(I) /\ L[r[i] + 1] = list[i]
      /\ \A p \in 1..Cardinality(I) : \E i \in I : r[i] = p - 1 /\ L[p] = list[i]
  <2> HIDE DEF I
  <2>1. DistinctPlaces(I, r)
    BY <1>1, <1>8 DEF DistinctPlaces
  <2> QED BY <1>14, <2>1, InOrderIs
<1>10. /\ L \in [I -> Int]
       /\ \A i \in I : r[i] + 1 \in I /\ L[r[i] + 1] = list[i]
       /\ \A p \in I : \E i \in I : r[i] = p - 1 /\ L[p] = list[i]
  <2>1. \A p \in I : L[p] \in Int
    BY <1>1, <1>5, <1>9
  <2> QED BY <1>1, <1>9, <2>1
<1>11. ASSUME NEW i \in I, NEW j \in I, i <= j PROVE L[i] <= L[j]
  <2>1. PICK a \in I : r[a] = i - 1 /\ L[i] = list[a]
    BY <1>10
  <2>2. PICK b \in I : r[b] = j - 1 /\ L[j] = list[b]
    BY <1>10
  <2>3. ~(r[b] < r[a])
    BY <1>11, <2>1, <2>2
  <2>4. <<b, a>> \notin B
    BY <1>8, <2>3
  <2> QED BY <1>2, <1>5, <2>1, <2>2, <2>4
<1>12. ASSUME NEW v \in Int PROVE AtMost(L, v) = AtMost(list, v)
  <2> DEFINE F == {i \in I : list[i] <= v}
             G == {p \in I : L[p] <= v}
             f == [i \in F |-> r[i] + 1]
  <2>1. f \in [F -> G] /\ \A i, j \in F : f[i] = f[j] => i = j
    <3>1. \A i \in F : r[i] + 1 \in G
      BY <1>10
    <3>2. \A i, j \in F : r[i] + 1 = r[j] + 1 => i = j
      <4>1. \A i \in I : r[i] \in Int
        BY <1>1, <1>8
      <4> QED BY <1>8, <4>1
    <3> QED BY <3>1, <3>2
  <2>2. \A p \in G : \E i \in F : f[i] = p
    <3> TAKE p \in G
    <3>1. PICK i \in I : r[i] = p - 1 /\ L[p] = list[i]
      BY <1>10
    <3>2. i \in F /\ r[i] + 1 = p
      BY <3>1
    <3> QED BY <3>2
  <2>3. IsFiniteSet(F)
    <3>1. F \in SUBSET I
      OBVIOUS
    <3> QED BY <1>1, <3>1, FS_Subset
  <2> HIDE DEF f
  <2>4. f \in Bijection(F, G)
    BY <2>1, <2>2 DEF Bijection, Injection, Surjection, IsInjective
  <2>5. ExistsBijection(F, G)
    BY <2>4 DEF ExistsBijection
  <2>6. Cardinality(G) = Cardinality(F)
    <3> HIDE DEF F, G
    <3> QED BY <2>3, <2>5, FS_Bijection
  <2>7. DOMAIN L = I /\ DOMAIN list = I
    BY <1>10
  <2> QED BY <2>6, <2>7 DEF AtMost
<1>13. \A i \in I : \E j \in I : L[i] = list[j]
  BY <1>10
<1> QED BY <1>4, <1>10, <1>11, <1>12, <1>13

-----------------------------------------------------------------------------
(* Quotients. *)

\* Multiplying by a natural keeps the order.
LEMMA Scale ==
  ASSUME NEW i \in Int, NEW j \in Int, NEW k \in Nat, i <= j
  PROVE  i * k <= j * k
OBVIOUS

\* Quotient and residue.
LEMMA Division ==
  ASSUME NEW v \in Int, NEW k \in Nat \ {0}
  PROVE  v \div k \in Int /\ v % k \in 0..(k - 1) /\ v = (v \div k) * k + (v % k)
OBVIOUS

\* Quotient and residue are determined by the number they make up.
LEMMA DivisionIsUnique ==
  ASSUME NEW k \in Nat \ {0}, NEW q \in Int, NEW r \in 0..(k - 1)
  PROVE  (q * k + r) \div k = q /\ (q * k + r) % k = r
<1> DEFINE v == q * k + r
<1>1. v \in Int
  OBVIOUS
<1>2. PICK d \in Int, m \in 0..(k - 1) : d = v \div k /\ m = v % k /\ v = d * k + m
  BY <1>1, Division
<1>3. d <= q
  <2> SUFFICES ASSUME d >= q + 1 PROVE FALSE
    BY <1>2
  <2>1. (q + 1) * k <= d * k
    BY Scale
  <2>2. (q + 1) * k = q * k + k
    OBVIOUS
  <2> QED BY <1>2, <2>1, <2>2
<1>4. d >= q
  <2> SUFFICES ASSUME d + 1 <= q PROVE FALSE
    BY <1>2
  <2>1. (d + 1) * k <= q * k
    BY Scale
  <2>2. (d + 1) * k = d * k + k
    OBVIOUS
  <2> QED BY <1>2, <2>1, <2>2
<1>5. d = q
  BY <1>2, <1>3, <1>4
<1> QED BY <1>2, <1>5

\* A number below a product has a quotient below the other factor, and such
\* pairs of quotient and residue are the numbers below the product.
LEMMA Digits ==
  ASSUME NEW c \in Nat \ {0}, NEW m \in Nat
  PROVE  /\ m * c \in Nat
         /\ \A v \in 0..(m * c - 1) : v \div c \in 0..(m - 1) /\ v % c \in 0..(c - 1) /\ v = (v \div c) * c + (v % c)
         /\ \A i \in 0..(m - 1), j \in 0..(c - 1) :
               i * c + j \in 0..(m * c - 1) /\ (i * c + j) \div c = i /\ (i * c + j) % c = j
<1>1. m * c \in Nat
  OBVIOUS
<1>2. ASSUME NEW v \in 0..(m * c - 1)
      PROVE  v \div c \in 0..(m - 1) /\ v % c \in 0..(c - 1) /\ v = (v \div c) * c + (v % c)
  <2>1. v \in Int
    BY <1>1
  <2>2. PICK d \in Int, r \in 0..(c - 1) : d = v \div c /\ r = v % c /\ v = d * c + r
    BY <2>1, Division
  <2>3. d >= 0
    <3> SUFFICES ASSUME d <= -1 PROVE FALSE
      BY <2>2
    <3>1. d * c <= (-1) * c
      BY Scale
    <3>2. (-1) * c = - c /\ d * c \in Int
      OBVIOUS
    <3> QED BY <1>1, <2>2, <3>1, <3>2
  <2>4. d <= m - 1
    <3> SUFFICES ASSUME m <= d PROVE FALSE
      BY <2>2
    <3>1. m * c <= d * c
      BY Scale
    <3> QED BY <1>1, <2>2, <3>1
  <2> QED BY <2>2, <2>3, <2>4
<1>3. ASSUME NEW i \in 0..(m - 1), NEW j \in 0..(c - 1)
      PROVE  i * c + j \in 0..(m * c - 1) /\ (i * c + j) \div c = i /\ (i * c + j) % c = j
  <2>1. (i * c + j) \div c = i /\ (i * c + j) % c = j
    BY DivisionIsUnique
  <2>2. (i + 1) * c <= m * c
    BY Scale
  <2>3. (i + 1) * c = i * c + c /\ i * c \in Nat
    OBVIOUS
  <2>4. i * c + j \in 0..(m * c - 1)
    BY <1>1, <2>2, <2>3
  <2> QED BY <2>1, <2>4
<1> QED BY <1>1, <1>2, <1>3

\* The parts of a concatenation.
LEMMA ConcatIs ==
  ASSUME NEW X, NEW P \in Seq(X), NEW Q \in Seq(X)
  PROVE  /\ P \o Q \in Seq(X) /\ Len(P \o Q) = Len(P) + Len(Q)
         /\ \A k \in 1..(Len(P) + Len(Q)) : (P \o Q)[k] = IF k <= Len(P) THEN P[k] ELSE Q[k - Len(P)]
OBVIOUS

-----------------------------------------------------------------------------
(* The candidates. *)

\* What is assumed of a shape.
ShapeFits(q) ==
    /\ ValidParameters(q) /\ q.xs \in Nat \ {0} /\ q.ys \in Nat \ {0}
    /\ q.window \in Nat /\ q.window % 2 = 1

\* The half of an odd window.
LEMMA HalfIs ==
  ASSUME NEW q, ShapeFits(q)
  PROVE  Half(q) \in Nat /\ q.window = 2 * Half(q) + 1 /\ q.window \in Nat \ {0}
BY DEF ShapeFits, Half

\* The square of the CPU begins where the device's begins and is as wide.
LEMMA RangeIs ==
  ASSUME NEW q, ShapeFits(q), NEW len \in Nat \ {0}, NEW c \in 0..(len - 1)
  PROVE  /\ SpatialRange(q, c, len).low = ShiftedRangeLow(c, Half(q), len - 1)
         /\ SpatialRange(q, c, len).high = ShiftedRangeLow(c, Half(q), len - 1) + Least(q.window, len) - 1
         /\ ShiftedRangeLow(c, Half(q), len - 1) \in 0..(len - Least(q.window, len))
<1> DEFINE half == Half(q)
           shift == SpatialShift(q, c, len)
<1>1. half \in Nat /\ q.window = 2 * half + 1
  BY HalfIs
<1>2. shift = Least(0, c - half) + Greatest(0, c + half - (len - 1))
  BY DEF SpatialShift
<1>3. SpatialRange(q, c, len).low = Greatest(0, c - half - shift)
      /\ SpatialRange(q, c, len).high = Least(len - 1, c + half - shift)
  BY DEF SpatialRange
<1>4. ShiftedRangeLow(c, half, len - 1) = Least(Greatest(c - half - shift, 0), len - 1)
  BY <1>2 DEF ShiftedRangeLow, Clamp
<1> HIDE DEF half, shift
<1> DEFINE low == SpatialRange(q, c, len).low
           high == SpatialRange(q, c, len).high
<1>5. low = Greatest(0, c - half - shift) /\ high = Least(len - 1, c + half - shift)
  BY <1>3
<1> HIDE DEF low, high
<1>6. \/ shift = 0 /\ c - half >= 0 /\ c + half <= len - 1
      \/ shift = c - half /\ c - half < 0 /\ c + half <= len - 1
      \/ shift = c + half - (len - 1) /\ c - half >= 0 /\ c + half > len - 1
      \/ shift = 2 * c - (len - 1) /\ c - half < 0 /\ c + half > len - 1
  BY <1>1, <1>2 DEF Least, Greatest
<1>7. low = Least(Greatest(c - half - shift, 0), len - 1)
  BY <1>1, <1>5, <1>6 DEF Least, Greatest
<1>8. high = low + Least(2 * half + 1, len) - 1 /\ low \in 0..(len - Least(2 * half + 1, len))
  <2>1. CASE shift = 0 /\ c - half >= 0 /\ c + half <= len - 1
    BY <1>1, <1>5, <2>1 DEF Least, Greatest
  <2>2. CASE shift = c - half /\ c - half < 0 /\ c + half <= len - 1
    BY <1>1, <1>5, <2>2 DEF Least, Greatest
  <2>3. CASE shift = c + half - (len - 1) /\ c - half >= 0 /\ c + half > len - 1
    BY <1>1, <1>5, <2>3 DEF Least, Greatest
  <2>4. CASE shift = 2 * c - (len - 1) /\ c - half < 0 /\ c + half > len - 1
    BY <1>1, <1>5, <2>4 DEF Least, Greatest
  <2> QED BY <1>6, <2>1, <2>2, <2>3, <2>4
<1> QED BY <1>1, <1>4, <1>7, <1>8 DEF low, high, half

\* The frames searched: the window has its size, and the device's slots number
\* the frames in the order of the CPU's schedule, each once.
LEMMA WindowIs ==
  ASSUME NEW q, ValidParameters(q), NEW a \in 0..(ValidAnchorFrames(q) - 1)
  PROVE  /\ SearchWindow(q, a).low \in 0..a
         /\ SearchWindow(q, a).high \in a..(ValidAnchorFrames(q) - 1)
         /\ SearchWindow(q, a).high - SearchWindow(q, a).low + 1 = TemporalCount(q)
<1> DEFINE max == ValidAnchorFrames(q) - 1
           shift == Shift(q, a)
           low == SearchWindow(q, a).low
           high == SearchWindow(q, a).high
<1>1. q.bwd \in Nat /\ q.fwd \in Nat /\ max \in Nat
  BY DEF ValidParameters, ValidAnchorFrames
<1>2. shift = Least(0, a - q.bwd) + Greatest(0, a + q.fwd - max)
  BY DEF Shift
<1>3. low = Greatest(0, a - q.bwd - shift) /\ high = Least(max, a + q.fwd - shift)
  BY DEF SearchWindow
<1>4. TemporalCount(q) = Least(q.bwd + q.fwd + 1, max + 1)
  BY <1>1 DEF TemporalCount, ValidParameters, ValidAnchorFrames
<1>5. a \in 0..max
  OBVIOUS
<1> HIDE DEF max, shift, low, high
<1>6. \/ shift = 0 /\ a - q.bwd >= 0 /\ a + q.fwd <= max
      \/ shift = a - q.bwd /\ a - q.bwd < 0 /\ a + q.fwd <= max
      \/ shift = a + q.fwd - max /\ a - q.bwd >= 0 /\ a + q.fwd > max
      \/ shift = 2 * a - q.bwd + q.fwd - max /\ a - q.bwd < 0 /\ a + q.fwd > max
  BY <1>1, <1>2, <1>5 DEF Least, Greatest
<1>7. low \in 0..a /\ high \in a..max /\ high - low + 1 = Least(q.bwd + q.fwd + 1, max + 1)
  <2>1. CASE shift = 0 /\ a - q.bwd >= 0 /\ a + q.fwd <= max
    BY <1>1, <1>3, <1>5, <2>1 DEF Least, Greatest
  <2>2. CASE shift = a - q.bwd /\ a - q.bwd < 0 /\ a + q.fwd <= max
    BY <1>1, <1>3, <1>5, <2>2 DEF Least, Greatest
  <2>3. CASE shift = a + q.fwd - max /\ a - q.bwd >= 0 /\ a + q.fwd > max
    BY <1>1, <1>3, <1>5, <2>3 DEF Least, Greatest
  <2>4. CASE shift = 2 * a - q.bwd + q.fwd - max /\ a - q.bwd < 0 /\ a + q.fwd > max
    BY <1>1, <1>3, <1>5, <2>4 DEF Least, Greatest
  <2> QED BY <1>6, <2>1, <2>2, <2>3, <2>4
<1> QED BY <1>4, <1>7 DEF low, high, max

\* The walk over the frames visits each of the window once, the anchor's first.
LEMMA ScheduleIs ==
  ASSUME NEW q, ValidParameters(q), NEW a \in 0..(ValidAnchorFrames(q) - 1)
  PROVE  /\ TemporalCount(q) \in Nat \ {0}
         /\ Schedule(q, a) \in [1..TemporalCount(q) -> 0..(ValidAnchorFrames(q) - 1)]
         /\ \A k \in 1..TemporalCount(q) : Schedule(q, a)[k] = ScheduledFrame(q, a, k - 1)
         /\ \A k, l \in 1..TemporalCount(q) : Schedule(q, a)[k] = Schedule(q, a)[l] => k = l
<1> DEFINE max == ValidAnchorFrames(q) - 1
           low == SearchWindow(q, a).low
           high == SearchWindow(q, a).high
           T == TemporalCount(q)
           A == <<a>>
           B == [i \in 1..(high - a) |-> a + i]
           C == [i \in 1..(a - low) |-> a - i]
           L == Schedule(q, a)
<1>1. low \in 0..a /\ high \in a..max /\ high - low + 1 = T
  BY WindowIs
<1>2. max \in Nat /\ a \in 0..max
  BY DEF ValidParameters, ValidAnchorFrames
<1>3. L = A \o B \o C
  BY DEF Schedule
<1>4. ASSUME NEW k \in 1..T
      PROVE  ScheduledFrame(q, a, k - 1) = IF k - 1 <= high - a THEN a + (k - 1) ELSE a - (k - 1 - (high - a))
  <2>1. /\ Greatest(0, a - q.bwd - Shift(q, a)) = low
        /\ Least(max, a + q.fwd - Shift(q, a)) = high
    BY DEF SearchWindow
  <2> DEFINE f == IF k - 1 <= high - a THEN a + (k - 1) ELSE a - (k - 1 - (high - a))
  <2>2. ScheduledFrame(q, a, k - 1) = IF k - 1 = 0 THEN a ELSE Clamp(f, low, high)
    BY <2>1 DEF ScheduledFrame, Shift
  <2> HIDE DEF low, high, max, T
  <2>3. f \in low..high /\ (k - 1 = 0 => f = a)
    BY <1>1, <1>2
  <2>4. Clamp(f, low, high) = f
    BY <1>1, <1>2, <2>3 DEF Clamp, Least, Greatest
  <2> QED BY <2>2, <2>3, <2>4
<1> HIDE DEF low, high, max, T
<1>5. A \in Seq(Int) /\ B \in Seq(Int) /\ C \in Seq(Int) /\ Len(A) = 1 /\ Len(B) = high - a /\ Len(C) = a - low
  BY <1>1, <1>2
<1>6. A \o B \in Seq(Int) /\ Len(A \o B) = 1 + (high - a)
      /\ \A k \in 1..(1 + (high - a)) : (A \o B)[k] = IF k = 1 THEN a ELSE a + (k - 1)
  <2>1. \A k \in 1..(1 + (high - a)) : (A \o B)[k] = IF k <= 1 THEN A[k] ELSE B[k - 1]
    BY <1>1, <1>2, <1>5
  <2>2. \A k \in 1..(1 + (high - a)) : k > 1 => B[k - 1] = a + (k - 1)
    BY <1>1, <1>2
  <2> QED BY <1>1, <1>2, <1>5, <2>1, <2>2
<1>7. L \in Seq(Int) /\ Len(L) = T
      /\ \A k \in 1..T : L[k] = IF k - 1 <= high - a THEN a + (k - 1) ELSE a - (k - 1 - (high - a))
  <2> DEFINE P == A \o B
  <2>6. P \in Seq(Int) /\ Len(P) = 1 + (high - a)
    BY <1>6
  <2> HIDE DEF A, B, C, P
  <2>5. /\ P \o C \in Seq(Int) /\ Len(P \o C) = Len(P) + Len(C)
        /\ \A k \in 1..(Len(P) + Len(C)) : (P \o C)[k] = IF k <= Len(P) THEN P[k] ELSE C[k - Len(P)]
    BY <1>5, <2>6, ConcatIs
  <2>1. P \o C \in Seq(Int) /\ Len(P \o C) = T
    BY <1>1, <1>2, <1>5, <2>5, <2>6
  <2>2. \A k \in 1..T : (P \o C)[k] = IF k <= 1 + (high - a) THEN P[k] ELSE C[k - (1 + (high - a))]
    <3>1. Len(P) + Len(C) = T
      BY <1>1, <1>2, <1>5, <2>6
    <3> QED BY <2>5, <2>6, <3>1
  <2>3. \A k \in 1..T : k > 1 + (high - a) => C[k - (1 + (high - a))] = a - (k - (1 + (high - a)))
    BY <1>1, <1>2 DEF C
  <2>7. L = P \o C
    BY <1>3 DEF P
  <2>8. \A k \in 1..(1 + (high - a)) : P[k] = IF k = 1 THEN a ELSE a + (k - 1)
    BY <1>6 DEF P
  <2>4. \A k \in 1..T : L[k] = IF k - 1 <= high - a THEN a + (k - 1) ELSE a - (k - 1 - (high - a))
    <3> HIDE DEF L
    <3>4. T \in Int /\ high \in Int /\ low \in Int /\ a \in Int /\ a <= high /\ 1 + (high - a) <= T
      BY <1>1, <1>2
    <3>5. \A k \in 1..T : L[k] = IF k <= 1 + (high - a) THEN P[k] ELSE C[k - (1 + (high - a))]
      BY <2>2, <2>7, Zenon
    <3>3. /\ \A k \in 1..T : L[k] = IF k <= 1 + (high - a) THEN P[k] ELSE C[k - (1 + (high - a))]
          /\ T \in Int /\ high \in Int /\ low \in Int /\ a \in Int /\ a <= high /\ 1 + (high - a) <= T
      BY <3>4, <3>5
    <3> TAKE k \in 1..T
    <3>1. CASE k <= 1 + (high - a)
      <4>1. k \in 1..(1 + (high - a)) /\ L[k] = P[k]
        BY <3>1, <3>3
      <4>2. P[k] = IF k = 1 THEN a ELSE a + (k - 1)
        BY <2>8, <4>1
      <4> QED BY <1>1, <1>2, <3>1, <4>1, <4>2
    <3>2. CASE k > 1 + (high - a)
      <4>1. L[k] = a - (k - (1 + (high - a)))
        BY <2>3, <3>2, <3>3
      <4> QED BY <1>1, <1>2, <3>2, <4>1
    <3> QED BY <1>1, <1>2, <3>1, <3>2
  <2> QED BY <2>1, <2>4, <2>7
<1> HIDE DEF L
<1>8. T \in Nat \ {0}
  BY <1>1, <1>2
<1>9. \A k \in 1..T : L[k] \in 0..max
  BY <1>1, <1>2, <1>7
<1>10. \A k, l \in 1..T : L[k] = L[l] => k = l
  BY <1>1, <1>2, <1>7
<1>11. L \in [1..T -> 0..max]
  BY <1>7, <1>9
<1> QED BY <1>4, <1>7, <1>8, <1>10, <1>11 DEF L, T, max, low, high

-----------------------------------------------------------------------------
(* The walk of the CPU and the numbers of the device. *)

\* The first rows of f, each of length c, one after the other.
RowsUpTo(f, c, k) == [j \in 1..(k * c) |-> f[((j - 1) \div c) + 1][((j - 1) % c) + 1]]
Adjacent(P, Q, f, c, i) == P = RowsUpTo(f, c, i - 1) /\ Q = f[i]
RowsOf(f, m, c, X) == f \in [1..m -> Seq(X)] /\ \A j \in 1..m : Len(f[j]) = c

\* One more row.
LEMMA NextRow ==
  ASSUME NEW m \in Nat, NEW c \in Nat \ {0}, NEW X, NEW f, RowsOf(f, m, c, X),
         NEW i \in 1..m, i > 1, NEW P, NEW Q, Adjacent(P, Q, f, c, i)
  PROVE  P \o Q = RowsUpTo(f, c, i)
<1> USE DEF RowsOf
<1> DEFINE At(j) == f[((j - 1) \div c) + 1][((j - 1) % c) + 1]
           k == i - 1
           kc == k * c
           W == P \o Q
<1>1. k \in Nat /\ kc \in Nat /\ i * c = kc + c
  OBVIOUS
<1>2. ASSUME NEW j \in 1..kc PROVE At(j) \in X
  <2>1. j - 1 \in 0..(k * c - 1)
    BY <1>1
  <2>2. (j - 1) \div c \in 0..(k - 1) /\ (j - 1) % c \in 0..(c - 1)
    BY <1>1, <2>1, Digits
  <2>3. ((j - 1) \div c) + 1 \in 1..m /\ ((j - 1) % c) + 1 \in 1..c
    BY <1>1, <2>2
  <2> DEFINE g == f[((j - 1) \div c) + 1]
  <2>4. g \in Seq(X) /\ Len(g) = c
    BY <2>3
  <2> HIDE DEF g
  <2>5. g[((j - 1) % c) + 1] \in X
    BY <2>3, <2>4
  <2> QED BY <2>5 DEF g
<1>3. P = [j \in 1..kc |-> At(j)] /\ RowsUpTo(f, c, i) = [j \in 1..(i * c) |-> At(j)]
  BY DEF Adjacent, RowsUpTo
<1>4. Q \in Seq(X) /\ Len(Q) = c
  BY DEF Adjacent
<1>5. ASSUME NEW r \in 1..c PROVE At(kc + r) = Q[r]
  <2>1. (kc + r) - 1 = k * c + (r - 1) /\ r - 1 \in 0..(c - 1)
    BY <1>1
  <2>2. (k * c + (r - 1)) \div c = k /\ (k * c + (r - 1)) % c = r - 1
    <3> DEFINE x == r - 1
    <3>1. k \in Int /\ x \in 0..(c - 1)
      BY <1>1, <2>1
    <3> HIDE DEF k, x
    <3>2. (k * c + x) \div c = k /\ (k * c + x) % c = x
      BY <3>1, DivisionIsUnique
    <3> QED BY <3>2 DEF x
  <2>3. ((kc + r) - 1) \div c = k /\ ((kc + r) - 1) % c = r - 1
    BY <2>1, <2>2, Zenon
  <2>4. k + 1 = i /\ (r - 1) + 1 = r
    BY <1>1
  <2> QED BY <2>3, <2>4 DEF Adjacent
<1> HIDE DEF At, k, W, kc
<1>10. kc \in Nat /\ c \in Nat
  BY <1>1
<1>6. P \in Seq(X) /\ Len(P) = kc
  BY <1>2, <1>3, <1>10
<1>7. /\ W \in Seq(X) /\ Len(W) = kc + c
      /\ \A j \in 1..(kc + c) : W[j] = IF j <= kc THEN P[j] ELSE Q[j - kc]
  <2>1. /\ W \in Seq(X) /\ Len(W) = Len(P) + Len(Q)
        /\ \A j \in 1..(Len(P) + Len(Q)) : W[j] = IF j <= Len(P) THEN P[j] ELSE Q[j - Len(P)]
    <3> HIDE DEF RowsOf
    <3> QED BY <1>4, <1>6, ConcatIs DEF W
  <2>2. Len(P) = kc /\ Len(Q) = c
    BY <1>4, <1>6
  <2> QED BY <2>1, <2>2
<1>8. ASSUME NEW j \in 1..(kc + c) PROVE W[j] = At(j)
  <2>1. CASE j <= kc
    <3>1. j \in 1..kc /\ W[j] = P[j]
      BY <1>7, <1>10, <2>1
    <3> QED BY <1>3, <3>1
  <2>2. CASE ~(j <= kc)
    <3>1. j - kc \in 1..c /\ kc + (j - kc) = j
      BY <1>10, <2>2
    <3>2. W[j] = Q[j - kc]
      BY <1>7, <2>2
    <3>3. At(kc + (j - kc)) = Q[j - kc]
      BY <1>5, <3>1
    <3> QED BY <3>1, <3>2, <3>3
  <2> QED BY <2>1, <2>2
<1>9. W = [j \in 1..(kc + c) |-> At(j)]
  <2>1. W = [j \in 1..(kc + c) |-> W[j]]
    BY <1>7, <1>10
  <2> QED BY <1>8, <2>1
<1>11. W = RowsUpTo(f, c, i)
  BY <1>1, <1>3, <1>9
<1> QED BY <1>11 DEF W, k

\* A row alone.
LEMMA FirstRow ==
  ASSUME NEW m \in Nat \ {0}, NEW c \in Nat \ {0}, NEW X, NEW f, RowsOf(f, m, c, X)
  PROVE  RowsUpTo(f, c, 1) = f[1]
<1>1. f[1] \in Seq(X) /\ Len(f[1]) = c
  BY DEF RowsOf
<1>2. ASSUME NEW j \in 1..c PROVE ((j - 1) \div c) + 1 = 1 /\ ((j - 1) % c) + 1 = j
  <2>1. j - 1 \in 0..(1 * c - 1) /\ 1 * c = c
    OBVIOUS
  <2>2. /\ (j - 1) \div c \in 0..(1 - 1) /\ (j - 1) % c \in 0..(c - 1)
        /\ j - 1 = ((j - 1) \div c) * c + ((j - 1) % c)
    BY <2>1, Digits
  <2>3. (j - 1) \div c = 0
    BY <2>2
  <2>4. ((j - 1) \div c) * c = 0
    BY <2>3
  <2> QED BY <2>2, <2>3, <2>4
<1>3. RowsUpTo(f, c, 1) = [j \in 1..c |-> f[1][j]]
  <2>1. 1 * c = c
    OBVIOUS
  <2> QED BY <1>2, <2>1 DEF RowsUpTo
<1>4. f[1] = [j \in 1..c |-> f[1][j]]
  BY <1>1
<1> QED BY <1>3, <1>4

\* FlattenSeq puts rows of one length one after the other.
LEMMA FlattenIs ==
  ASSUME NEW m \in Nat \ {0}, NEW c \in Nat \ {0}, NEW X, NEW f, RowsOf(f, m, c, X)
  PROVE  FlattenSeq(f) = RowsUpTo(f, c, m)
<1> DEFINE Is(h) == h = [i \in 1..m |-> IF i = 1 THEN f[i] ELSE h[i - 1] \o f[i]]
           H == CHOOSE h : Is(h)
           h0 == [i \in 1..m |-> RowsUpTo(f, c, i)]
<1>1. Len(f) = m /\ m # 0
  BY DEF RowsOf
<1>2. FlattenSeq(f) = H[m]
  BY <1>1 DEF FlattenSeq
<1>3. RowsUpTo(f, c, 1) = f[1]
  BY FirstRow
<1>4. ASSUME NEW i \in 1..m, i > 1 PROVE RowsUpTo(f, c, i) = RowsUpTo(f, c, i - 1) \o f[i]
  <2>1. m \in Nat
    OBVIOUS
  <2> DEFINE P == RowsUpTo(f, c, i - 1)
  <2> DEFINE Q == f[i]
  <2>2. Adjacent(P, Q, f, c, i)
    BY DEF Adjacent
  <2> HIDE DEF P, Q
  <2>3. P \o Q = RowsUpTo(f, c, i)
    BY <1>4, <2>1, <2>2, NextRow
  <2> QED BY <2>3 DEF P, Q
<1>5. Is(h0)
  <2>1. \A i \in 1..m : h0[i] = RowsUpTo(f, c, i)
    OBVIOUS
  <2>2. h0 = [i \in 1..m |-> h0[i]]
    OBVIOUS
  <2> HIDE DEF h0
  <2>3. ASSUME NEW i \in 1..m PROVE h0[i] = IF i = 1 THEN f[i] ELSE h0[i - 1] \o f[i]
    <3>1. CASE i = 1
      BY <1>3, <2>1, <3>1
    <3>2. CASE i > 1
      <4>1. i - 1 \in 1..m /\ i # 1
        BY <3>2
      <4>2. h0[i - 1] = RowsUpTo(f, c, i - 1)
        BY <2>1, <4>1
      <4>3. h0[i] = h0[i - 1] \o f[i]
        BY <1>4, <2>1, <3>2, <4>2
      <4> QED BY <4>1, <4>3
    <3> QED BY <3>1, <3>2
  <2> QED BY <2>2, <2>3
<1>6. Is(H)
  <2> HIDE DEF Is
  <2> QED BY <1>5
<1> HIDE DEF H, h0
<1>7. \A i \in 1..m : H[i] = IF i = 1 THEN f[i] ELSE H[i - 1] \o f[i]
  BY <1>6
<1> DEFINE T == {i \in 0..m : i # 0 /\ H[i] # RowsUpTo(f, c, i)}
<1>8. T = {}
  <2> SUFFICES ASSUME T # {} PROVE FALSE
    OBVIOUS
  <2>1. PICK i \in 1..m : i \in T /\ i - 1 \in 0..m /\ i - 1 \notin T
    <3>1. T \subseteq 0..m /\ 0 \notin T /\ m \in Nat
      OBVIOUS
    <3> HIDE DEF T
    <3> QED BY <3>1, FirstFailure
  <2>2. H[i] # RowsUpTo(f, c, i)
    BY <2>1
  <2>3. i # 1
    BY <1>3, <1>7, <2>2
  <2>4. i - 1 # 0 /\ i > 1 /\ H[i - 1] = RowsUpTo(f, c, i - 1)
    BY <2>1, <2>3
  <2>5. H[i] = H[i - 1] \o f[i]
    BY <1>7, <2>3
  <2>6. RowsUpTo(f, c, i) = RowsUpTo(f, c, i - 1) \o f[i]
    BY <1>4, <2>4
  <2> QED BY <2>2, <2>4, <2>5, <2>6
<1>9. H[m] = RowsUpTo(f, c, m)
  BY <1>8
<1> QED BY <1>2, <1>9

\* The request: a search of those allowed, an anchor and centers in the frame.
RequestFits ==
    /\ search \in Searches
    /\ anchor \in [x : Nat, y : Nat, frame : Nat] /\ anchor.x < s.xs /\ anchor.y < s.ys
    /\ anchor.frame < ValidAnchorFrames(s)
    /\ centers \in [0..(s.frames - 1) -> [x : 0..(s.xs - 1), y : 0..(s.ys - 1)]]

\* What the request says of its parameters.
LEMMA ShapeIs ==
  ASSUME RequestFits
  PROVE  /\ ShapeFits(s) /\ ValidParameters(s) /\ Unlimited \in Nat /\ TileCapacity \in Nat \ {0}
         /\ s.xs \in Nat \ {0} /\ s.ys \in Nat \ {0} /\ s.window \in Nat \ {0}
         /\ K \in Nat \ {0} /\ search.factor \in Nat /\ tau \in Nat
         /\ search.strategy \in {"auto", "fused", "chunked", "fullsort"}
         /\ n <= Unlimited /\ search.distances \subseteq 0..(Unlimited - 1)
<1>1. ShapeFits(s)
  BY SearchesAssumption DEF RequestFits, ShapeFits, s
<1>2. s.window \in Nat \ {0}
  BY <1>1, HalfIs
<1> QED BY <1>1, <1>2, SearchesAssumption DEF RequestFits, ShapeFits, s, K, tau, n

\* The square has positive sides, and so many candidates.
LEMMA SidesAre ==
  ASSUME RequestFits
  PROVE  /\ WindowWidth(s) \in Nat \ {0} /\ WindowHeight(s) \in Nat \ {0}
         /\ WindowWidth(s) <= s.window /\ WindowHeight(s) <= s.window
         /\ SpatialCandidates(s) \in Nat \ {0} /\ TemporalCount(s) \in Nat \ {0}
         /\ n = TemporalCount(s) * SpatialCandidates(s) /\ n \in Nat \ {0}
<1>1. WindowWidth(s) \in Nat \ {0} /\ WindowHeight(s) \in Nat \ {0}
      /\ WindowWidth(s) <= s.window /\ WindowHeight(s) <= s.window
  BY ShapeIs DEF WindowWidth, WindowHeight, Least
<1>2. anchor.frame \in 0..(ValidAnchorFrames(s) - 1)
  BY ShapeIs DEF RequestFits, ValidParameters, ValidAnchorFrames
<1>3. TemporalCount(s) \in Nat \ {0}
  BY <1>2, ShapeIs, ScheduleIs
<1> DEFINE w == WindowWidth(s)
           h == WindowHeight(s)
           T == TemporalCount(s)
<1> HIDE DEF w, h, T
<1>4. w * h \in Nat /\ w * h # 0
  <2>1. w \in Nat \ {0} /\ h \in Nat \ {0}
    BY <1>1 DEF w, h
  <2>2. 1 * h <= w * h /\ 1 * h = h
    BY <2>1, Scale
  <2> QED BY <2>1, <2>2
<1>5. SpatialCandidates(s) \in Nat \ {0}
  BY <1>4 DEF SpatialCandidates, w, h
<1> DEFINE c == SpatialCandidates(s)
<1> HIDE DEF c
<1>6. T * c \in Nat /\ T * c # 0 /\ c * T = T * c
  <2>1. T \in Nat \ {0} /\ c \in Nat \ {0}
    BY <1>3, <1>5 DEF T, c
  <2>2. 1 * c <= T * c /\ 1 * c = c
    BY <2>1, Scale
  <2> QED BY <2>1, <2>2
<1>7. n = c * T
  BY DEF n, CandidateCount, c, T
<1> QED BY <1>1, <1>3, <1>5, <1>6, <1>7 DEF c, T

\* The frame of a slot, and where its square begins.
SlotFrame(k) == ScheduledFrame(s, anchor.frame, k)
SlotX(k) == MakeWindow(s, anchor, centers, k).x
SlotY(k) == MakeWindow(s, anchor, centers, k).y

\* A slot of the device is a frame of the walk, and its square the CPU's range.
LEMMA SlotIs ==
  ASSUME RequestFits, NEW k \in 0..(TemporalCount(s) - 1)
  PROVE  /\ SlotFrame(k) \in 0..(s.frames - 1) /\ SlotFrame(k) = Schedule(s, anchor.frame)[k + 1]
         /\ MakeWindow(s, anchor, centers, k) = [x |-> SlotX(k), y |-> SlotY(k), frame |-> SlotFrame(k)]
         /\ SlotX(k) \in 0..(s.xs - WindowWidth(s)) /\ SlotY(k) \in 0..(s.ys - WindowHeight(s))
         /\ SpatialRange(s, centers[SlotFrame(k)].x, s.xs) = [low |-> SlotX(k), high |-> SlotX(k) + WindowWidth(s) - 1]
         /\ SpatialRange(s, centers[SlotFrame(k)].y, s.ys) = [low |-> SlotY(k), high |-> SlotY(k) + WindowHeight(s) - 1]
<1> DEFINE f == SlotFrame(k)
           cx == centers[f].x
           cy == centers[f].y
<1>1. anchor.frame \in 0..(ValidAnchorFrames(s) - 1)
  BY ShapeIs DEF RequestFits, ValidParameters, ValidAnchorFrames
<1>2. k + 1 \in 1..TemporalCount(s) /\ (k + 1) - 1 = k
  BY <1>1, SidesAre
<1>3. f = Schedule(s, anchor.frame)[k + 1] /\ f \in 0..(ValidAnchorFrames(s) - 1)
  <2> DEFINE walk == Schedule(s, anchor.frame)
  <2>1. /\ walk \in [1..TemporalCount(s) -> 0..(ValidAnchorFrames(s) - 1)]
        /\ \A j \in 1..TemporalCount(s) : walk[j] = ScheduledFrame(s, anchor.frame, j - 1)
    BY <1>1, ShapeIs, ScheduleIs
  <2> HIDE DEF walk
  <2>2. walk[k + 1] = ScheduledFrame(s, anchor.frame, (k + 1) - 1)
    BY <2>1, <1>2
  <2>3. walk[k + 1] = f
    BY <2>2, <1>2 DEF SlotFrame
  <2> QED BY <2>1, <2>3, <1>2 DEF walk
<1>4. f \in 0..(s.frames - 1)
  BY <1>3, ShapeIs DEF ValidParameters, ValidAnchorFrames
<1>5. cx \in 0..(s.xs - 1) /\ cy \in 0..(s.ys - 1)
  BY <1>4 DEF RequestFits
<1>6. MakeWindow(s, anchor, centers, k) = [x |-> ShiftedRangeLow(cx, Half(s), s.xs - 1),
                                           y |-> ShiftedRangeLow(cy, Half(s), s.ys - 1), frame |-> f]
  BY DEF MakeWindow, SlotFrame
<1>7. SlotX(k) = ShiftedRangeLow(cx, Half(s), s.xs - 1) /\ SlotY(k) = ShiftedRangeLow(cy, Half(s), s.ys - 1)
  BY <1>6 DEF SlotX, SlotY
<1>8. /\ SpatialRange(s, cx, s.xs).low = SlotX(k) /\ SpatialRange(s, cx, s.xs).high = SlotX(k) + WindowWidth(s) - 1
      /\ SlotX(k) \in 0..(s.xs - WindowWidth(s))
  <2> HIDE DEF cx
  <2> QED BY <1>5, <1>7, ShapeIs, RangeIs DEF WindowWidth
<1>9. /\ SpatialRange(s, cy, s.ys).low = SlotY(k) /\ SpatialRange(s, cy, s.ys).high = SlotY(k) + WindowHeight(s) - 1
      /\ SlotY(k) \in 0..(s.ys - WindowHeight(s))
  <2> HIDE DEF cy
  <2> QED BY <1>5, <1>7, ShapeIs, RangeIs DEF WindowHeight
<1>10. /\ SpatialRange(s, cx, s.xs) = [low |-> SpatialRange(s, cx, s.xs).low, high |-> SpatialRange(s, cx, s.xs).high]
       /\ SpatialRange(s, cy, s.ys) = [low |-> SpatialRange(s, cy, s.ys).low, high |-> SpatialRange(s, cy, s.ys).high]
  BY DEF SpatialRange
<1> HIDE DEF cx, cy
<1>11. /\ SpatialRange(s, cx, s.xs) = [low |-> SlotX(k), high |-> SlotX(k) + WindowWidth(s) - 1]
       /\ SpatialRange(s, cy, s.ys) = [low |-> SlotY(k), high |-> SlotY(k) + WindowHeight(s) - 1]
  BY <1>8, <1>9, <1>10, Zenon
<1>12. MakeWindow(s, anchor, centers, k) = [x |-> SlotX(k), y |-> SlotY(k), frame |-> SlotFrame(k)]
  BY <1>6, <1>7
<1> QED BY <1>3, <1>4, <1>8, <1>9, <1>11, <1>12 DEF cx, cy

\* The origin at a column and row of a slot's square.
OriginAt(k, column, row) == [x |-> SlotX(k) + column, y |-> SlotY(k) + row, frame |-> SlotFrame(k)]

\* The CPU's walk of one frame.
LEMMA ScanFrameIs ==
  ASSUME RequestFits, NEW k \in 0..(TemporalCount(s) - 1)
  PROVE  ScanFrame(s, centers, SlotFrame(k))
           = [i \in 1..SpatialCandidates(s) |->
                 OriginAt(k, (i - 1) % WindowWidth(s), (i - 1) \div WindowWidth(s))]
<1> DEFINE x == SpatialRange(s, centers[SlotFrame(k)].x, s.xs)
           y == SpatialRange(s, centers[SlotFrame(k)].y, s.ys)
<1>1. /\ x = [low |-> SlotX(k), high |-> SlotX(k) + WindowWidth(s) - 1] /\ SlotX(k) \in Int
      /\ y = [low |-> SlotY(k), high |-> SlotY(k) + WindowHeight(s) - 1] /\ SlotY(k) \in Int
  BY SlotIs
<1>2. ScanFrame(s, centers, SlotFrame(k)) =
        [i \in 1..((x.high - x.low + 1) * (y.high - y.low + 1)) |->
            [x |-> x.low + ((i - 1) % (x.high - x.low + 1)),
             y |-> y.low + ((i - 1) \div (x.high - x.low + 1)), frame |-> SlotFrame(k)]]
  BY DEF ScanFrame
<1> HIDE DEF x, y
<1>3. x.low = SlotX(k) /\ x.high - x.low + 1 = WindowWidth(s)
  BY <1>1, SidesAre
<1>4. y.low = SlotY(k) /\ y.high - y.low + 1 = WindowHeight(s)
  BY <1>1, SidesAre
<1> QED BY <1>2, <1>3, <1>4, Zenon DEF OriginAt, SpatialCandidates

\* The patch of a candidate id.
Origin(id) == OriginOf(s, anchor, centers, id)
OriginType == [x : Int, y : Int, frame : Nat]

LEMMA SlotTypes ==
  ASSUME RequestFits, NEW k \in 0..(TemporalCount(s) - 1)
  PROVE  SlotX(k) \in Int /\ SlotY(k) \in Int /\ SlotFrame(k) \in Nat
<1>1. SlotX(k) \in 0..(s.xs - WindowWidth(s)) /\ SlotY(k) \in 0..(s.ys - WindowHeight(s)) /\ SlotFrame(k) \in 0..(s.frames - 1)
  BY SlotIs
<1>2. s.xs - WindowWidth(s) \in Int /\ s.ys - WindowHeight(s) \in Int /\ s.frames - 1 \in Int
  BY SidesAre, ShapeIs DEF ValidParameters
<1> QED BY <1>1, <1>2

LEMMA OriginAtType ==
  ASSUME RequestFits, NEW k \in 0..(TemporalCount(s) - 1), NEW column \in Int, NEW row \in Int
  PROVE  OriginAt(k, column, row) \in OriginType
<1>1. SlotX(k) \in Int /\ SlotY(k) \in Int /\ SlotFrame(k) \in Nat
  BY SlotTypes
<1> QED BY <1>1 DEF OriginAt, OriginType

\* An id is a slot and a place in its square, a place a column and a row.
LEMMA OriginIs ==
  ASSUME RequestFits, NEW id \in 0..(n - 1)
  PROVE  /\ id \div SpatialCandidates(s) \in 0..(TemporalCount(s) - 1)
         /\ id % SpatialCandidates(s) \in 0..(SpatialCandidates(s) - 1)
         /\ Origin(id) = OriginAt(id \div SpatialCandidates(s),
                (id % SpatialCandidates(s)) % WindowWidth(s), (id % SpatialCandidates(s)) \div WindowWidth(s))
<1> DEFINE c == SpatialCandidates(s)
           T == TemporalCount(s)
<1>1. c \in Nat \ {0} /\ T \in Nat \ {0} /\ n = T * c
  BY SidesAre
<1> HIDE DEF c, T
<1>2. id \div c \in 0..(T - 1) /\ id % c \in 0..(c - 1)
  <2>1. T \in Nat /\ id \in 0..(T * c - 1)
    BY <1>1
  <2> QED BY <1>1, <2>1, Digits
<1>3. MakeWindow(s, anchor, centers, id \div c) = [x |-> SlotX(id \div c), y |-> SlotY(id \div c), frame |-> SlotFrame(id \div c)]
  BY <1>2, SlotIs DEF T
<1>4. Origin(id) = LET w == MakeWindow(s, anchor, centers, id \div c)
                   IN  [x |-> w.x + ((id % c) % WindowWidth(s)), y |-> w.y + ((id % c) \div WindowWidth(s)), frame |-> w.frame]
  BY DEF Origin, OriginOf, c
<1>5. Origin(id) = OriginAt(id \div c, (id % c) % WindowWidth(s), (id % c) \div WindowWidth(s))
  BY <1>3, <1>4 DEF OriginAt
<1> QED BY <1>2, <1>5 DEF c, T

\* The places of a square are its columns and rows.
LEMMA PlaceIs ==
  ASSUME RequestFits, NEW i \in 0..(SpatialCandidates(s) - 1)
  PROVE  /\ i % WindowWidth(s) \in 0..(WindowWidth(s) - 1) /\ i \div WindowWidth(s) \in 0..(WindowHeight(s) - 1)
         /\ i = (i \div WindowWidth(s)) * WindowWidth(s) + (i % WindowWidth(s))
<1> DEFINE w == WindowWidth(s)
           h == WindowHeight(s)
<1>1. w \in Nat \ {0} /\ h \in Nat \ {0} /\ SpatialCandidates(s) = w * h
  BY SidesAre DEF SpatialCandidates
<1> HIDE DEF w, h
<1>2. w * h = h * w /\ h \in Nat
  BY <1>1
<1>3. i \in 0..(h * w - 1)
  BY <1>1, <1>2
<1>4. i \div w \in 0..(h - 1) /\ i % w \in 0..(w - 1) /\ i = (i \div w) * w + (i % w)
  BY <1>1, <1>2, <1>3, Digits
<1> QED BY <1>4 DEF w, h

\* Two ids are two patches.
LEMMA OriginsDiffer ==
  ASSUME RequestFits, NEW a \in 0..(n - 1), NEW b \in 0..(n - 1), Origin(a) = Origin(b)
  PROVE  a = b
<1> DEFINE c == SpatialCandidates(s)
           w == WindowWidth(s)
           k == a \div c
           l == b \div c
           i == a % c
           j == b % c
<1>1. /\ k \in 0..(TemporalCount(s) - 1) /\ i \in 0..(c - 1) /\ Origin(a) = OriginAt(k, i % w, i \div w)
      /\ l \in 0..(TemporalCount(s) - 1) /\ j \in 0..(c - 1) /\ Origin(b) = OriginAt(l, j % w, j \div w)
  BY OriginIs
<1>2. /\ i % w \in Int /\ i \div w \in Int /\ i = (i \div w) * w + (i % w)
      /\ j % w \in Int /\ j \div w \in Int /\ j = (j \div w) * w + (j % w)
  BY <1>1, PlaceIs
<1>3. a = k * c + i /\ b = l * c + j
  <2>1. c \in Nat \ {0} /\ n \in Nat
    BY SidesAre
  <2> HIDE DEF c
  <2> QED BY <2>1, Division
<1> HIDE DEF c, w, k, l, i, j
<1>4. /\ SlotX(k) + (i % w) = SlotX(l) + (j % w) /\ SlotY(k) + (i \div w) = SlotY(l) + (j \div w)
      /\ SlotFrame(k) = SlotFrame(l)
  <2>1. OriginAt(k, i % w, i \div w) = OriginAt(l, j % w, j \div w)
    BY <1>1
  <2>2. \A kk, a1, b1 : /\ OriginAt(kk, a1, b1).x = SlotX(kk) + a1
                          /\ OriginAt(kk, a1, b1).y = SlotY(kk) + b1
                          /\ OriginAt(kk, a1, b1).frame = SlotFrame(kk)
    BY DEF OriginAt
  <2> QED BY <2>1, <2>2, Zenon
<1>5. k = l
  <2> DEFINE walk == Schedule(s, anchor.frame)
  <2>0. k + 1 \in 1..TemporalCount(s) /\ l + 1 \in 1..TemporalCount(s)
    BY <1>1, SidesAre
  <2>a. SlotFrame(k) = walk[k + 1] /\ SlotFrame(l) = walk[l + 1]
    BY <1>1, SlotIs
  <2>1. /\ walk[k + 1] = walk[l + 1] /\ k + 1 \in 1..TemporalCount(s) /\ l + 1 \in 1..TemporalCount(s)
    BY <1>4, <2>0, <2>a
  <2>2. anchor.frame \in 0..(ValidAnchorFrames(s) - 1)
    BY ShapeIs DEF RequestFits, ValidParameters, ValidAnchorFrames
  <2>3. k + 1 = l + 1
    BY <2>1, <2>2, ShapeIs, ScheduleIs
  <2> QED BY <1>1, <2>3, SidesAre
<1>6. i % w = j % w /\ i \div w = j \div w
  <2>1. SlotX(k) \in Int /\ SlotY(k) \in Int
    BY <1>1, SlotTypes
  <2>2. SlotX(k) + (i % w) = SlotX(k) + (j % w) /\ SlotY(k) + (i \div w) = SlotY(k) + (j \div w)
    BY <1>4, <1>5
  <2> DEFINE ci == i % w
             cj == j % w
             ri == i \div w
             rj == j \div w
  <2>3. ci \in Int /\ cj \in Int /\ ri \in Int /\ rj \in Int
    BY <1>2
  <2> HIDE DEF ci, cj, ri, rj
  <2>4. SlotX(k) + ci = SlotX(k) + cj /\ SlotY(k) + ri = SlotY(k) + rj
    BY <2>2 DEF ci, cj, ri, rj
  <2>5. ci = cj /\ ri = rj
    BY <2>1, <2>3, <2>4
  <2> QED BY <2>5 DEF ci, cj, ri, rj
<1>7. i = j
  BY <1>2, <1>6
<1> QED BY <1>3, <1>5, <1>7

\* The CPU's walk visits the patches in the order of the ids.
LEMMA ScanIs ==
  ASSUME RequestFits
  PROVE  /\ scan = [i \in 1..n |-> Origin(i - 1)]
         /\ Len(scan) = n /\ scan \in Seq(OriginType)
         /\ \A i \in 1..n : scan[i] = Origin(i - 1)
         /\ ToSet(scan) = {Origin(id) : id \in 0..(n - 1)}
<1> DEFINE c == SpatialCandidates(s)
           T == TemporalCount(s)
           w == WindowWidth(s)
           frames == Schedule(s, anchor.frame)
           f == [i \in 1..T |-> [j \in 1..c |-> OriginAt(i - 1, (j - 1) % w, (j - 1) \div w)]]
<1>1. c \in Nat \ {0} /\ T \in Nat \ {0} /\ n = T * c /\ n \in Nat \ {0} /\ w \in Nat \ {0}
  BY SidesAre
<1>2. anchor.frame \in 0..(ValidAnchorFrames(s) - 1)
  BY ShapeIs DEF RequestFits, ValidParameters, ValidAnchorFrames
<1>3. DOMAIN frames = 1..T
  BY <1>2, ShapeIs, ScheduleIs
<1>4. \A i \in 1..T : ScanFrame(s, centers, frames[i]) = [j \in 1..c |-> OriginAt(i - 1, (j - 1) % w, (j - 1) \div w)]
  <2> SUFFICES ASSUME NEW i \in 1..T
               PROVE  ScanFrame(s, centers, frames[i]) = [j \in 1..c |-> OriginAt(i - 1, (j - 1) % w, (j - 1) \div w)]
    OBVIOUS
  <2>1. i - 1 \in 0..(T - 1) /\ (i - 1) + 1 = i
    BY <1>1
  <2>2. SlotFrame(i - 1) = frames[(i - 1) + 1]
    BY <2>1, SlotIs
  <2>3. SlotFrame(i - 1) = frames[i]
    BY <2>1, <2>2
  <2> QED BY <2>1, <2>3, ScanFrameIs
<1>5. scan = FlattenSeq(f)
  <2>1. scan = FlattenSeq([i \in DOMAIN frames |-> ScanFrame(s, centers, frames[i])])
    BY DEF scan, CpuScan
  <2>2. [i \in DOMAIN frames |-> ScanFrame(s, centers, frames[i])] = f
    BY <1>3, <1>4
  <2> QED BY <2>1, <2>2, Zenon
<1>6. RowsOf(f, T, c, OriginType)
  <2>1. \A i \in 1..T, j \in 1..c : OriginAt(i - 1, (j - 1) % w, (j - 1) \div w) \in OriginType
    <3> SUFFICES ASSUME NEW i \in 1..T, NEW j \in 1..c PROVE OriginAt(i - 1, (j - 1) % w, (j - 1) \div w) \in OriginType
      OBVIOUS
    <3>1. i - 1 \in 0..(T - 1) /\ j - 1 \in 0..(c - 1)
      BY <1>1
    <3>2. (j - 1) % w \in Int /\ (j - 1) \div w \in Int
      BY <3>1, PlaceIs
    <3> QED BY <3>1, <3>2, OriginAtType
  <2> HIDE DEF c, T, w
  <2>2. \A i \in 1..T : f[i] \in Seq(OriginType) /\ Len(f[i]) = c
    BY <2>1, <1>1
  <2> QED BY <2>2 DEF RowsOf
<1>7. scan = RowsUpTo(f, c, T)
  <2> HIDE DEF f, c, T
  <2> QED BY <1>5, <1>6, <1>1, FlattenIs
<1>8. \A i \in 1..n : f[((i - 1) \div c) + 1][((i - 1) % c) + 1] = Origin(i - 1)
  <2> SUFFICES ASSUME NEW i \in 1..n PROVE f[((i - 1) \div c) + 1][((i - 1) % c) + 1] = Origin(i - 1)
    OBVIOUS
  <2>1. i - 1 \in 0..(n - 1)
    BY <1>1
  <2> DEFINE k == (i - 1) \div c
             j == (i - 1) % c
  <2>2. k \in 0..(T - 1) /\ j \in 0..(c - 1) /\ Origin(i - 1) = OriginAt(k, j % w, j \div w)
    BY <2>1, OriginIs
  <2> HIDE DEF k, j
  <2>3. k + 1 \in 1..T /\ j + 1 \in 1..c /\ (k + 1) - 1 = k /\ (j + 1) - 1 = j
    BY <2>2, <1>1
  <2>4. f[k + 1][j + 1] = OriginAt((k + 1) - 1, ((j + 1) - 1) % w, ((j + 1) - 1) \div w)
    BY <2>3
  <2>5. f[k + 1][j + 1] = OriginAt(k, j % w, j \div w)
    BY <2>3, <2>4, Zenon
  <2> QED BY <2>2, <2>5 DEF k, j
<1>9. scan = [i \in 1..n |-> Origin(i - 1)]
  <2>1. RowsUpTo(f, c, T) = [i \in 1..n |-> f[((i - 1) \div c) + 1][((i - 1) % c) + 1]]
    BY <1>1 DEF RowsUpTo
  <2> HIDE DEF f, c, T
  <2> QED BY <1>7, <1>8, <2>1
<1>10. \A i \in 1..n : Origin(i - 1) \in OriginType
  <2> SUFFICES ASSUME NEW i \in 1..n PROVE Origin(i - 1) \in OriginType
    OBVIOUS
  <2>1. i - 1 \in 0..(n - 1)
    BY <1>1
  <2>2. PICK k \in 0..(T - 1), j \in 0..(c - 1) : Origin(i - 1) = OriginAt(k, j % w, j \div w)
    BY <2>1, OriginIs
  <2>3. j % w \in Int /\ j \div w \in Int
    BY PlaceIs
  <2> QED BY <2>2, <2>3, OriginAtType
<1>11. scan \in Seq(OriginType) /\ Len(scan) = n /\ DOMAIN scan = 1..n
  BY <1>1, <1>9, <1>10
<1>12. ToSet(scan) = {Origin(id) : id \in 0..(n - 1)}
  <2>1. ToSet(scan) = {scan[i] : i \in 1..n}
    BY <1>11 DEF ToSet
  <2>2. \A i \in 1..n : i - 1 \in 0..(n - 1) /\ scan[i] = Origin(i - 1)
    BY <1>1, <1>9
  <2>3. \A id \in 0..(n - 1) : id + 1 \in 1..n /\ scan[id + 1] = Origin(id)
    <3> SUFFICES ASSUME NEW id \in 0..(n - 1) PROVE id + 1 \in 1..n /\ scan[id + 1] = Origin(id)
      OBVIOUS
    <3>1. id + 1 \in 1..n /\ (id + 1) - 1 = id
      BY <1>1
    <3>2. scan[id + 1] = Origin((id + 1) - 1)
      BY <2>2, <3>1
    <3> QED BY <3>1, <3>2
  <2>4. \A o \in {scan[i] : i \in 1..n} : o \in {Origin(id) : id \in 0..(n - 1)}
    BY <2>2
  <2>5. \A o \in {Origin(id) : id \in 0..(n - 1)} : o \in {scan[i] : i \in 1..n}
    BY <2>3
  <2> QED BY <2>1, <2>4, <2>5
<1> QED BY <1>9, <1>11, <1>12

\* A set numbered without repetition from 0 on.
Numbered(m, r, V) ==
    /\ \A i \in 0..(m - 1) : r[i] \in V
    /\ \A i, j \in 0..(m - 1) : r[i] = r[j] => i = j
    /\ \A v \in V : \E i \in 0..(m - 1) : r[i] = v

\* A number is a slot, a row and a column.
LEMMA NumberedIs ==
  ASSUME NEW m \in Nat, NEW r, NEW V, Numbered(m, r, V)
  PROVE  IsFiniteSet(V) /\ Cardinality(V) = m
<1> DEFINE I == 0..(m - 1)
           f == [i \in I |-> r[i]]
<1>1. IsFiniteSet(I) /\ Cardinality(I) = m
  BY FS_Interval
<1>2. f \in Bijection(I, V)
  <2>0. f \in [I -> V] /\ \A i, j \in I : f[i] = f[j] => i = j
    BY DEF Numbered
  <2>1. f \in Injection(I, V)
    <3> HIDE DEF f, I
    <3> QED BY <2>0 DEF Injection, IsInjective
  <2>2. \A v \in V : \E i \in I : f[i] = v
    BY DEF Numbered
  <2>3. f \in Surjection(I, V)
    BY <2>0, <2>2 DEF Surjection
  <2> QED BY <2>1, <2>3 DEF Bijection
<1>3. ExistsBijection(I, V)
  BY <1>2 DEF ExistsBijection
<1> HIDE DEF I
<1> QED BY <1>1, <1>3, FS_Bijection

\* The walk lists as many origins as it has places.
LEMMA ScanCounts ==
  ASSUME RequestFits
  PROVE  IsFiniteSet(ToSet(scan)) /\ Cardinality(ToSet(scan)) = n
<1> DEFINE r == [id \in 0..(n - 1) |-> Origin(id)]
           V == ToSet(scan)
<1>1. n \in Nat
  BY SidesAre
<1>2. \A i, j \in 0..(n - 1) : r[i] = r[j] => i = j
  BY OriginsDiffer
<1>3. V = {Origin(id) : id \in 0..(n - 1)}
  BY ScanIs
<1>4. Numbered(n, r, V)
  BY <1>2, <1>3 DEF Numbered
<1> HIDE DEF r, V
<1>5. IsFiniteSet(V) /\ Cardinality(V) = n
  BY <1>1, <1>4, NumberedIs
<1> QED BY <1>5 DEF V

\* The numbers decode to the walk.
LEMMA CandidatesAreTheScan ==
  ASSUME RequestFits
  PROVE  CandidatesFollowTheScan
<1>1. scan = [i \in 1..n |-> OriginOf(s, anchor, centers, i - 1)]
  BY ScanIs DEF Origin
<1> QED BY <1>1, ScanCounts DEF CandidatesFollowTheScan

-----------------------------------------------------------------------------
(* The tiles. *)

\* A length is cut into pieces that all begin inside it.
LEMMA Cuts ==
  ASSUME NEW v \in Nat \ {0}, NEW k \in Nat \ {0}
  PROVE  /\ DivideRoundUp(v, k) \in Nat \ {0}
         /\ \A i \in 0..(v - 1) : i \div k \in 0..(DivideRoundUp(v, k) - 1)
         /\ \A g \in 0..(DivideRoundUp(v, k) - 1) : g * k \in 0..(v - 1)
<1> DEFINE q == (v - 1) \div k
           r == (v - 1) % k
<1>1. v - 1 \in Int /\ v - 1 >= 0
  OBVIOUS
<1>2. q \in Int /\ r \in 0..(k - 1) /\ v - 1 = q * k + r
  BY <1>1, Division
<1>3. DivideRoundUp(v, k) = 1 + q
  BY DEF DivideRoundUp
<1> HIDE DEF q, r
<1>4. q \in Nat
  <2> SUFFICES ASSUME q <= -1 PROVE FALSE
    BY <1>2
  <2>1. q * k <= (-1) * k
    BY <1>2, Scale
  <2> QED BY <2>1, <1>2
<1>5. ASSUME NEW i \in 0..(v - 1) PROVE i \div k \in 0..q
  <2> DEFINE a == i \div k
             b == i % k
  <2>1. a \in Int /\ b \in 0..(k - 1) /\ i = a * k + b
    BY Division
  <2> HIDE DEF a, b
  <2>2. a >= 0
    <3> SUFFICES ASSUME a <= -1 PROVE FALSE
      BY <2>1
    <3>1. a * k <= (-1) * k
      BY <2>1, Scale
    <3> QED BY <3>1, <2>1
  <2>3. a <= q
    <3> SUFFICES ASSUME q + 1 <= a PROVE FALSE
      BY <2>1, <1>4
    <3>1. (q + 1) * k <= a * k
      BY <2>1, <1>4, Scale
    <3>2. (q + 1) * k = q * k + k
      BY <1>4
    <3> QED BY <3>1, <3>2, <2>1, <1>2
  <2> QED BY <2>1, <2>2, <2>3, <1>4 DEF a
<1>6. ASSUME NEW g \in 0..q PROVE g * k \in 0..(v - 1)
  <2>1. g * k <= q * k /\ g * k \in Int
    BY <1>4, Scale
  <2>2. 0 * k <= g * k /\ 0 * k = 0
    BY <1>4, Scale
  <2> QED BY <2>1, <2>2, <1>2
<1>7. DivideRoundUp(v, k) - 1 = q
  BY <1>3, <1>4
<1> QED BY <1>3, <1>4, <1>5, <1>6, <1>7

TilesX == DivideRoundUp(WindowWidth(s), Layout.width)
TilesY == DivideRoundUp(WindowHeight(s), Layout.height)

\* The layout cuts every slot into columns and rows of tiles.
LEMMA LayoutIs ==
  ASSUME RequestFits
  PROVE  /\ Layout.width \in Nat \ {0} /\ Layout.height \in Nat \ {0}
         /\ Layout.x = TilesX /\ TilesX \in Nat \ {0} /\ TilesY \in Nat \ {0}
         /\ Layout.perSlot = TilesY * TilesX /\ Layout.perSlot \in Nat \ {0}
         /\ Layout.total = TemporalCount(s) * Layout.perSlot /\ Layout.total \in Nat \ {0}
<1> DEFINE w == WindowWidth(s)
           h == WindowHeight(s)
           cw == Least(w, TileCapacity)
           ch == Greatest(1, Least(h, TileCapacity \div cw))
           T == TemporalCount(s)
<1>1. w \in Nat \ {0} /\ h \in Nat \ {0} /\ T \in Nat \ {0} /\ TileCapacity \in Nat \ {0}
  BY SidesAre, ShapeIs
<1>2. Layout = [width |-> cw, height |-> ch, x |-> DivideRoundUp(w, cw),
                perSlot |-> DivideRoundUp(w, cw) * DivideRoundUp(h, ch),
                total |-> DivideRoundUp(w, cw) * DivideRoundUp(h, ch) * T]
  BY DEF Layout, TileLayout
<1> HIDE DEF w, h, T
<1>3. cw \in Nat \ {0}
  BY <1>1 DEF Least
<1>4. ch \in Nat \ {0}
  <2> DEFINE q == TileCapacity \div cw
  <2> HIDE DEF cw
  <2>1. q \in Int
    BY <1>1, <1>3, Division
  <2> HIDE DEF q
  <2> QED BY <2>1, <1>1 DEF Least, Greatest, q
<1> HIDE DEF cw, ch
<1> DEFINE tx == DivideRoundUp(w, cw)
           ty == DivideRoundUp(h, ch)
<1>5. tx \in Nat \ {0} /\ ty \in Nat \ {0}
  BY <1>1, <1>3, <1>4, Cuts
<1>6. Layout.width = cw /\ Layout.height = ch /\ Layout.x = tx /\ Layout.perSlot = tx * ty /\ Layout.total = tx * ty * T
  BY <1>2
<1>7. TilesX = tx /\ TilesY = ty
  BY <1>6 DEF TilesX, TilesY, w, h
<1> HIDE DEF tx, ty
<1>8. ty * tx = tx * ty /\ ty * tx \in Nat /\ ty * tx # 0
  <2>1. 1 * tx <= ty * tx /\ 1 * tx = tx
    BY <1>5, Scale
  <2> QED BY <2>1, <1>5
<1> DEFINE p == ty * tx
<1>9. p \in Nat \ {0} /\ tx * ty = p
  BY <1>8
<1> HIDE DEF p
<1>10. T * p = p * T /\ T * p \in Nat /\ T * p # 0
  <2>1. 1 * p <= T * p /\ 1 * p = p
    BY <1>9, <1>1, Scale
  <2> QED BY <2>1, <1>9, <1>1
<1>11. Layout.perSlot = p /\ Layout.total = p * T
  BY <1>6, <1>9
<1> QED BY <1>3, <1>4, <1>5, <1>6, <1>7, <1>9, <1>10, <1>11 DEF p, T

\* The tile of a task, and its part of the square.
Tile(task) == MakeTile(s, Layout, task)

\* A tile lies in its slot, and is no larger than a block can sort.
LEMMA TileIs ==
  ASSUME RequestFits, NEW task \in Tasks
  PROVE  /\ Tile(task).slot \in 0..(TemporalCount(s) - 1)
         /\ Tile(task).x \in Nat /\ Tile(task).y \in Nat
         /\ Tile(task).width \in Nat \ {0} /\ Tile(task).height \in Nat \ {0}
         /\ Tile(task).x + Tile(task).width <= WindowWidth(s)
         /\ Tile(task).y + Tile(task).height <= WindowHeight(s)
         /\ TileCandidates(task) = Tile(task).height * Tile(task).width
         /\ TileCandidates(task) \in Nat \ {0}
<1> DEFINE P == Layout.perSlot
           T == TemporalCount(s)
           u == task % P
           xBegin == (u % TilesX) * Layout.width
           yBegin == (u \div TilesX) * Layout.height
<1>1. /\ P \in Nat \ {0} /\ T \in Nat \ {0} /\ P = TilesY * TilesX /\ Layout.total = T * P
      /\ TilesX \in Nat \ {0} /\ TilesY \in Nat \ {0} /\ Layout.x = TilesX
      /\ Layout.width \in Nat \ {0} /\ Layout.height \in Nat \ {0}
  BY LayoutIs, SidesAre
<1>2. Tile(task) = [slot |-> task \div P, x |-> xBegin, y |-> yBegin,
                    width |-> Least(Layout.width, WindowWidth(s) - xBegin),
                    height |-> Least(Layout.height, WindowHeight(s) - yBegin)]
  BY <1>1 DEF Tile, MakeTile
<1>3. task \div P \in 0..(T - 1) /\ u \in 0..(P - 1)
  <2> HIDE DEF P, T
  <2>1. task \in 0..(T * P - 1) /\ T \in Nat
    BY <1>1 DEF Tasks
  <2> QED BY <1>1, <2>1, Digits
<1>4. u % TilesX \in 0..(TilesX - 1) /\ u \div TilesX \in 0..(TilesY - 1)
  <2> HIDE DEF u, P
  <2>1. u \in 0..(TilesY * TilesX - 1) /\ TilesY \in Nat
    BY <1>1, <1>3
  <2> QED BY <1>1, <2>1, Digits
<1>5. WindowWidth(s) \in Nat \ {0} /\ WindowHeight(s) \in Nat \ {0}
  BY SidesAre
<1> DEFINE gx == u % TilesX
           gy == u \div TilesX
<1>6. gx * Layout.width \in 0..(WindowWidth(s) - 1)
  <2>1. gx \in 0..(TilesX - 1)
    BY <1>4
  <2> HIDE DEF gx
  <2> QED BY <2>1, <1>1, <1>5, Cuts DEF TilesX
<1>7. gy * Layout.height \in 0..(WindowHeight(s) - 1)
  <2>1. gy \in 0..(TilesY - 1)
    BY <1>4
  <2> HIDE DEF gy
  <2> QED BY <2>1, <1>1, <1>5, Cuts DEF TilesY
<1>8. xBegin \in 0..(WindowWidth(s) - 1) /\ yBegin \in 0..(WindowHeight(s) - 1)
  BY <1>6, <1>7
<1> HIDE DEF xBegin, yBegin
<1>9. /\ Tile(task).slot = task \div P /\ Tile(task).x = xBegin /\ Tile(task).y = yBegin
      /\ Tile(task).width = Least(Layout.width, WindowWidth(s) - xBegin)
      /\ Tile(task).height = Least(Layout.height, WindowHeight(s) - yBegin)
  BY <1>2
<1>10. /\ Tile(task).width \in Nat \ {0} /\ Tile(task).height \in Nat \ {0}
       /\ Tile(task).x + Tile(task).width <= WindowWidth(s)
       /\ Tile(task).y + Tile(task).height <= WindowHeight(s)
       /\ Tile(task).x \in Nat /\ Tile(task).y \in Nat
  BY <1>9, <1>8, <1>1, <1>5 DEF Least
<1> DEFINE a == Tile(task).width
           b == Tile(task).height
<1>11. TileCandidates(task) = a * b
  BY DEF TileCandidates, Tile
<1>12. a \in Nat \ {0} /\ b \in Nat \ {0}
  BY <1>10
<1> HIDE DEF a, b
<1>13. a * b = b * a /\ b * a \in Nat /\ b * a # 0
  <2>1. 1 * a <= b * a /\ 1 * a = a
    BY <1>12, Scale
  <2> QED BY <2>1, <1>12
<1>14. TileCandidates(task) = b * a /\ TileCandidates(task) \in Nat \ {0}
  BY <1>11, <1>13
<1> QED BY <1>3, <1>9, <1>10, <1>14 DEF a, b

\* The id of a column and row of a slot's square.
IdAt(k, column, row) == k * SpatialCandidates(s) + row * WindowWidth(s) + column

\* The id of a place of a slot.
LEMMA IdAtIs ==
  ASSUME RequestFits, NEW k \in 0..(TemporalCount(s) - 1),
         NEW column \in 0..(WindowWidth(s) - 1), NEW row \in 0..(WindowHeight(s) - 1)
  PROVE  /\ IdAt(k, column, row) \in 0..(n - 1) /\ Origin(IdAt(k, column, row)) = OriginAt(k, column, row)
         /\ IdAt(k, column, row) \div SpatialCandidates(s) = k
         /\ (IdAt(k, column, row) % SpatialCandidates(s)) % WindowWidth(s) = column
         /\ (IdAt(k, column, row) % SpatialCandidates(s)) \div WindowWidth(s) = row
<1> DEFINE c == SpatialCandidates(s)
           T == TemporalCount(s)
           w == WindowWidth(s)
           h == WindowHeight(s)
           v == row * w + column
           id == k * c + v
<1>1. /\ c \in Nat \ {0} /\ T \in Nat \ {0} /\ n = T * c /\ w \in Nat \ {0} /\ h \in Nat \ {0} /\ n \in Nat
      /\ c = w * h
  BY SidesAre DEF SpatialCandidates
<1>2. k \in 0..(T - 1) /\ column \in 0..(w - 1) /\ row \in 0..(h - 1)
  OBVIOUS
<1>3. IdAt(k, column, row) = id
  <2>1. IdAt(k, column, row) = k * c + row * w + column
    BY DEF IdAt
  <2> HIDE DEF c, w
  <2> DEFINE kc == k * c
             rw == row * w
  <2>2. kc \in Int /\ rw \in Int /\ column \in Int
    BY <1>1, <1>2
  <2> HIDE DEF kc, rw
  <2>3. (kc + rw) + column = kc + (rw + column)
    BY <2>2
  <2> QED BY <2>1, <2>3 DEF kc, rw
<1> HIDE DEF c, T, w, h
<1>4. v \in 0..(c - 1) /\ v \div w = row /\ v % w = column
  <2>1. h \in Nat /\ w * h = h * w
    BY <1>1
  <2>2. v \in 0..(h * w - 1) /\ v \div w = row /\ v % w = column
    BY <1>1, <1>2, <2>1, Digits
  <2> QED BY <1>1, <2>1, <2>2
<1> HIDE DEF v
<1>5. id \in 0..(n - 1) /\ id \div c = k /\ id % c = v
  <2>1. T \in Nat
    BY <1>1
  <2>2. id \in 0..(T * c - 1) /\ id \div c = k /\ id % c = v
    BY <1>1, <1>2, <1>4, <2>1, Digits
  <2> QED BY <1>1, <2>2
<1> HIDE DEF id
<1>6. Origin(id) = OriginAt(id \div c, (id % c) % w, (id % c) \div w)
  BY <1>5, OriginIs DEF c, w
<1>7. Origin(id) = OriginAt(k, column, row)
  BY <1>4, <1>5, <1>6
<1> QED BY <1>3, <1>4, <1>5, <1>7 DEF c, w

\* The distance and the key of a candidate.
Distance(id) == dist[Origin(id)]
KeyAt(id) == [d |-> Distance(id), id |-> id]

\* The kernels read the distance of the candidate with that id.
LEMMA CandidateDistanceIs ==
  ASSUME RequestFits, NEW k \in 0..(TemporalCount(s) - 1), NEW column, NEW row
  PROVE  CandidateDistance(k, column, row) = dist[OriginAt(k, column, row)]
<1>1. MakeWindow(s, anchor, centers, k) = [x |-> SlotX(k), y |-> SlotY(k), frame |-> SlotFrame(k)]
  BY SlotIs
<1> QED BY <1>1 DEF CandidateDistance, OriginAt

\* Where the entries of a tile lie.
TileColumn(task, i) == Tile(task).x + ((i - 1) % Tile(task).width)
TileRow(task, i) == Tile(task).y + ((i - 1) \div Tile(task).width)
TileId(task, i) == IdAt(Tile(task).slot, TileColumn(task, i), TileRow(task, i))

\* Each key of a tile is at a place of its own.
LEMMA TilePlaces ==
  ASSUME RequestFits, NEW task \in Tasks, NEW i \in 1..TileCandidates(task)
  PROVE  /\ (i - 1) % Tile(task).width \in 0..(Tile(task).width - 1)
         /\ (i - 1) \div Tile(task).width \in 0..(Tile(task).height - 1)
         /\ i - 1 = ((i - 1) \div Tile(task).width) * Tile(task).width + ((i - 1) % Tile(task).width)
         /\ TileColumn(task, i) \in 0..(WindowWidth(s) - 1) /\ TileRow(task, i) \in 0..(WindowHeight(s) - 1)
<1> DEFINE a == Tile(task).width
           b == Tile(task).height
<1>1. /\ a \in Nat \ {0} /\ b \in Nat \ {0} /\ Tile(task).x \in Nat /\ Tile(task).y \in Nat
      /\ Tile(task).x + a <= WindowWidth(s) /\ Tile(task).y + b <= WindowHeight(s)
      /\ TileCandidates(task) = b * a /\ TileCandidates(task) \in Nat
  BY TileIs
<1>2. WindowWidth(s) \in Nat /\ WindowHeight(s) \in Nat
  BY SidesAre
<1>3. i - 1 \in 0..(b * a - 1) /\ b \in Nat
  <2> HIDE DEF a, b
  <2> QED BY <1>1
<1>4. (i - 1) \div a \in 0..(b - 1) /\ (i - 1) % a \in 0..(a - 1) /\ i - 1 = ((i - 1) \div a) * a + ((i - 1) % a)
  <2> HIDE DEF a, b
  <2> QED BY <1>1, <1>3, Digits
<1> DEFINE q == (i - 1) \div a
           r == (i - 1) % a
<1>5. q \in 0..(b - 1) /\ r \in 0..(a - 1)
  BY <1>4
<1>6. TileColumn(task, i) = Tile(task).x + r /\ TileRow(task, i) = Tile(task).y + q
  BY DEF TileColumn, TileRow
<1> HIDE DEF q, r, a, b
<1>7. TileColumn(task, i) \in 0..(WindowWidth(s) - 1) /\ TileRow(task, i) \in 0..(WindowHeight(s) - 1)
  BY <1>1, <1>2, <1>5, <1>6
<1> QED BY <1>4, <1>7 DEF a, b

\* A tile's block computes the keys of its candidates.
LEMMA TileKeysAre ==
  ASSUME RequestFits, NEW task \in Tasks
  PROVE  /\ DOMAIN TileKeys(task) = 1..TileCandidates(task)
         /\ \A i \in 1..TileCandidates(task) :
               TileId(task, i) \in 0..(n - 1) /\ TileKeys(task)[i] = KeyAt(TileId(task, i))
<1>1. TileKeys(task) = [i \in 1..TileCandidates(task) |->
                          [d |-> CandidateDistance(Tile(task).slot, TileColumn(task, i), TileRow(task, i)),
                           id |-> TileId(task, i)]]
  BY DEF TileKeys, TileCandidates, Tile, TileColumn, TileRow, TileId, IdAt
<1>2. ASSUME NEW i \in 1..TileCandidates(task)
      PROVE  TileId(task, i) \in 0..(n - 1) /\ TileKeys(task)[i] = KeyAt(TileId(task, i))
  <2> DEFINE k == Tile(task).slot
             x == TileColumn(task, i)
             y == TileRow(task, i)
  <2>1. k \in 0..(TemporalCount(s) - 1) /\ x \in 0..(WindowWidth(s) - 1) /\ y \in 0..(WindowHeight(s) - 1)
    BY TileIs, TilePlaces
  <2>2. IdAt(k, x, y) \in 0..(n - 1) /\ Origin(IdAt(k, x, y)) = OriginAt(k, x, y)
    BY <2>1, IdAtIs
  <2>3. CandidateDistance(k, x, y) = dist[OriginAt(k, x, y)]
    BY <2>1, CandidateDistanceIs
  <2>4. TileKeys(task)[i] = [d |-> CandidateDistance(k, x, y), id |-> TileId(task, i)] /\ TileId(task, i) = IdAt(k, x, y)
    BY <1>1 DEF TileId
  <2> QED BY <2>2, <2>3, <2>4 DEF KeyAt, Distance
<1> QED BY <1>1, <1>2

\* No tile has a candidate twice.
LEMMA TileIdsDiffer ==
  ASSUME RequestFits, NEW task \in Tasks, NEW i \in 1..TileCandidates(task), NEW j \in 1..TileCandidates(task),
         TileId(task, i) = TileId(task, j)
  PROVE  i = j
<1> DEFINE a == Tile(task).width
           k == Tile(task).slot
           qi == (i - 1) \div a
           ri == (i - 1) % a
           qj == (j - 1) \div a
           rj == (j - 1) % a
<1>1. /\ k \in 0..(TemporalCount(s) - 1) /\ a \in Nat \ {0} /\ Tile(task).height \in Nat
      /\ Tile(task).x \in Nat /\ Tile(task).y \in Nat /\ TileCandidates(task) \in Nat
  BY TileIs
<1>2. /\ ri \in 0..(a - 1) /\ qi \in 0..(Tile(task).height - 1) /\ i - 1 = qi * a + ri
      /\ TileColumn(task, i) \in 0..(WindowWidth(s) - 1) /\ TileRow(task, i) \in 0..(WindowHeight(s) - 1)
  BY TilePlaces
<1>3. /\ rj \in 0..(a - 1) /\ qj \in 0..(Tile(task).height - 1) /\ j - 1 = qj * a + rj
      /\ TileColumn(task, j) \in 0..(WindowWidth(s) - 1) /\ TileRow(task, j) \in 0..(WindowHeight(s) - 1)
  BY TilePlaces
<1>4. /\ TileColumn(task, i) = (TileId(task, i) % SpatialCandidates(s)) % WindowWidth(s)
      /\ TileRow(task, i) = (TileId(task, i) % SpatialCandidates(s)) \div WindowWidth(s)
  BY <1>1, <1>2, IdAtIs DEF TileId
<1>5. /\ TileColumn(task, j) = (TileId(task, j) % SpatialCandidates(s)) % WindowWidth(s)
      /\ TileRow(task, j) = (TileId(task, j) % SpatialCandidates(s)) \div WindowWidth(s)
  BY <1>1, <1>3, IdAtIs DEF TileId
<1>6. TileColumn(task, i) = TileColumn(task, j) /\ TileRow(task, i) = TileRow(task, j)
  BY <1>4, <1>5
<1>7. Tile(task).x + ri = Tile(task).x + rj /\ Tile(task).y + qi = Tile(task).y + qj
  BY <1>6 DEF TileColumn, TileRow
<1> HIDE DEF ri, rj, qi, qj, a
<1>8. ri = rj /\ qi = qj
  BY <1>1, <1>2, <1>3, <1>7
<1> QED BY <1>1, <1>2, <1>3, <1>8

\* Every candidate is in a tile.
LEMMA TilesCover ==
  ASSUME RequestFits, NEW id \in 0..(n - 1)
  PROVE  \E task \in Tasks : \E i \in 1..TileCandidates(task) : TileId(task, i) = id
<1> DEFINE c == SpatialCandidates(s)
           w == WindowWidth(s)
           cw == Layout.width
           ch == Layout.height
           k == id \div c
           v == id % c
           x == v % w
           y == v \div w
           gx == x \div cw
           gy == y \div ch
           u == gy * TilesX + gx
           P == Layout.perSlot
           task == k * P + u
<1>1. /\ c \in Nat \ {0} /\ n = TemporalCount(s) * c /\ n \in Nat /\ w \in Nat \ {0} /\ WindowHeight(s) \in Nat \ {0}
      /\ TemporalCount(s) \in Nat \ {0}
  BY SidesAre
<1>2. k \in 0..(TemporalCount(s) - 1) /\ v \in 0..(c - 1)
  BY OriginIs
<1>3. x \in 0..(w - 1) /\ y \in 0..(WindowHeight(s) - 1) /\ v = y * w + x
  BY <1>2, PlaceIs
<1>4. id = k * c + v
  <2>1. c \in Nat \ {0} /\ id \in Int
    BY <1>1
  <2> HIDE DEF c
  <2> QED BY <2>1, Division
<1>5. IdAt(k, x, y) = id
  <2>1. IdAt(k, x, y) = k * c + y * w + x
    BY DEF IdAt
  <2> DEFINE kc == k * c
             yw == y * w
  <2>2. kc \in Int /\ yw \in Int /\ x \in Int /\ v = yw + x /\ id = kc + v
    <3> HIDE DEF c, w, k, v, x, y
    <3> QED BY <1>1, <1>2, <1>3, <1>4
  <2>3. IdAt(k, x, y) = kc + yw + x
    BY <2>1
  <2> HIDE DEF kc, yw, x, v
  <2> QED BY <2>2, <2>3
<1> HIDE DEF k, v, x, y, c, w
<1>6. /\ cw \in Nat \ {0} /\ ch \in Nat \ {0} /\ TilesX \in Nat \ {0} /\ TilesY \in Nat \ {0}
      /\ P = TilesY * TilesX /\ P \in Nat \ {0} /\ Layout.total = TemporalCount(s) * P /\ Layout.x = TilesX
  BY LayoutIs
<1>7. gx \in 0..(TilesX - 1)
  <2>1. TilesX = DivideRoundUp(w, cw)
    BY DEF TilesX, w
  <2> HIDE DEF cw
  <2> QED BY <2>1, <1>1, <1>3, <1>6, Cuts
<1>8. gy \in 0..(TilesY - 1)
  <2>1. TilesY = DivideRoundUp(WindowHeight(s), ch)
    BY DEF TilesY
  <2> HIDE DEF ch
  <2> QED BY <2>1, <1>1, <1>3, <1>6, Cuts
<1>9. x = gx * cw + (x % cw) /\ x % cw \in 0..(cw - 1) /\ y = gy * ch + (y % ch) /\ y % ch \in 0..(ch - 1)
  <2> HIDE DEF cw, ch
  <2>1. x \in Int /\ y \in Int
    BY <1>1, <1>3
  <2> QED BY <2>1, <1>6, Division
<1> HIDE DEF gx, gy
<1>10. u \in 0..(P - 1) /\ u \div TilesX = gy /\ u % TilesX = gx
  <2>1. TilesY \in Nat
    BY <1>6
  <2>2. u \in 0..(TilesY * TilesX - 1) /\ u \div TilesX = gy /\ u % TilesX = gx
    BY <1>6, <1>7, <1>8, <2>1, Digits
  <2> HIDE DEF P
  <2> QED BY <2>2, <1>6
<1> HIDE DEF u, P
<1>11. task \in 0..(Layout.total - 1) /\ task \div P = k /\ task % P = u
  <2> DEFINE T == TemporalCount(s)
  <2>1. T \in Nat /\ P \in Nat \ {0} /\ k \in 0..(T - 1) /\ u \in 0..(P - 1)
    BY <1>1, <1>2, <1>6, <1>10
  <2> HIDE DEF T
  <2>2. task \in 0..(T * P - 1) /\ task \div P = k /\ task % P = u
    BY <2>1, Digits
  <2> QED BY <2>2, <1>6 DEF T
<1> HIDE DEF task
<1>12. task \in Tasks
  BY <1>11 DEF Tasks
<1> DEFINE xBegin == gx * cw
           yBegin == gy * ch
<1>13. Tile(task) = [slot |-> k, x |-> xBegin, y |-> yBegin, width |-> Least(cw, w - xBegin),
                     height |-> Least(ch, WindowHeight(s) - yBegin)]
  BY <1>6, <1>10, <1>11 DEF Tile, MakeTile, P, w
<1>14. xBegin \in Int /\ yBegin \in Int
  <2> HIDE DEF cw, ch
  <2> QED BY <1>6, <1>7, <1>8
<1> HIDE DEF xBegin, yBegin
<1> DEFINE a == Tile(task).width
           b == Tile(task).height
           rx == x % cw
           ry == y % ch
<1>15. /\ Tile(task).slot = k /\ Tile(task).x = xBegin /\ Tile(task).y = yBegin
       /\ a = Least(cw, w - xBegin) /\ b = Least(ch, WindowHeight(s) - yBegin)
  BY <1>13
<1>16. x = xBegin + rx /\ rx \in 0..(cw - 1) /\ y = yBegin + ry /\ ry \in 0..(ch - 1)
  BY <1>9 DEF xBegin, yBegin
<1>17. a \in Nat \ {0} /\ b \in Nat \ {0} /\ TileCandidates(task) = b * a /\ TileCandidates(task) \in Nat
  BY <1>12, TileIs
<1> HIDE DEF rx, ry, a, b
<1>18. rx \in 0..(a - 1) /\ ry \in 0..(b - 1)
  <2> HIDE DEF cw, ch
  <2> QED BY <1>1, <1>3, <1>6, <1>14, <1>15, <1>16, <1>17 DEF Least
<1> DEFINE i == ry * a + rx + 1
<1>19. /\ i - 1 = ry * a + rx /\ i - 1 \in 0..(b * a - 1) /\ (i - 1) \div a = ry /\ (i - 1) % a = rx
  <2>1. b \in Nat
    BY <1>17
  <2>2. ry * a + rx \in 0..(b * a - 1) /\ (ry * a + rx) \div a = ry /\ (ry * a + rx) % a = rx
    BY <2>1, <1>17, <1>18, Digits
  <2> DEFINE j == ry * a + rx
  <2>3. j \in Int
    BY <2>2, <1>17
  <2> HIDE DEF j
  <2>4. (j + 1) - 1 = j
    BY <2>3
  <2> QED BY <2>2, <2>4, Zenon DEF j
<1> HIDE DEF i
<1>20. i \in 1..TileCandidates(task)
  <2>1. i \in Int
    <3>1. ry * a \in Int /\ rx \in Int
      BY <1>17, <1>18
    <3> QED BY <3>1 DEF i
  <2> QED BY <2>1, <1>17, <1>19
<1>21. TileColumn(task, i) = x /\ TileRow(task, i) = y
  BY <1>15, <1>16, <1>19 DEF TileColumn, TileRow, a
<1>22. TileId(task, i) = id
  BY <1>5, <1>15, <1>21 DEF TileId
<1> QED BY <1>12, <1>20, <1>22

-----------------------------------------------------------------------------
(* What the tiles hand on. *)

\* Running sums of m counts.
SumsTo(c, m, h) == h = [t \in 0..m |-> IF t = 0 THEN 0 ELSE h[t - 1] + c[t - 1]]

\* The offsets are the running sums of what the tiles hand on.
LEMMA SumsExist ==
  ASSUME NEW m \in Nat, NEW c
  PROVE  \E h : SumsTo(c, m, h)
<1> DEFINE T == {j \in 0..m : ~ \E h : SumsTo(c, j, h)}
<1> SUFFICES ASSUME T # {} PROVE FALSE
  BY DEF T
<1>1. 0 \notin T
  <2> DEFINE h == [t \in 0..0 |-> 0]
  <2>1. SumsTo(c, 0, h)
    <3>1. [t \in 0..0 |-> IF t = 0 THEN 0 ELSE h[t - 1] + c[t - 1]] = [t \in 0..0 |-> 0]
      OBVIOUS
    <3> QED BY <3>1 DEF SumsTo
  <2> HIDE DEF h
  <2> QED BY <2>1
<1>2. PICK i \in 1..m : i \in T /\ i - 1 \in 0..m /\ i - 1 \notin T
  <2>1. T \subseteq 0..m
    OBVIOUS
  <2> HIDE DEF T
  <2> QED BY <1>1, <2>1, FirstFailure
<1>3. PICK h : SumsTo(c, i - 1, h)
  BY <1>2
<1> DEFINE g == [t \in 0..i |-> IF t = i THEN h[i - 1] + c[i - 1] ELSE h[t]]
<1>4. \A t \in 0..(i - 1) : h[t] = IF t = 0 THEN 0 ELSE h[t - 1] + c[t - 1]
  BY <1>3 DEF SumsTo
<1>5. \A t \in 0..i : g[t] = IF t = 0 THEN 0 ELSE g[t - 1] + c[t - 1]
  <2> SUFFICES ASSUME NEW t \in 0..i PROVE g[t] = IF t = 0 THEN 0 ELSE g[t - 1] + c[t - 1]
    OBVIOUS
  <2>1. CASE t = i
    <3>1. t # 0 /\ i - 1 \in 0..i /\ i - 1 # i
      BY <2>1
    <3>2. g[t] = h[i - 1] + c[i - 1] /\ g[i - 1] = h[i - 1]
      BY <2>1, <3>1
    <3> QED BY <2>1, <3>1, <3>2
  <2>2. CASE t # i
    <3>1. t \in 0..(i - 1) /\ (t # 0 => t - 1 \in 0..i /\ t - 1 # i)
      BY <2>2
    <3>2. g[t] = h[t] /\ (t # 0 => g[t - 1] = h[t - 1])
      BY <2>2, <3>1
    <3> QED BY <1>4, <3>1, <3>2
  <2> QED BY <2>1, <2>2
<1>6. g = [t \in 0..i |-> g[t]]
  OBVIOUS
<1> HIDE DEF g
<1>7. SumsTo(c, i, g)
  BY <1>5, <1>6 DEF SumsTo
<1> QED BY <1>2, <1>7

\* Running sums grow, and each tile has its own part.
LEMMA SumsAre ==
  ASSUME NEW m \in Nat, NEW c \in [0..(m - 1) -> Nat], NEW h, SumsTo(c, m, h)
  PROVE  /\ \A t \in 0..m : h[t] \in Nat
         /\ h[0] = 0 /\ \A t \in 0..(m - 1) : h[t + 1] = h[t] + c[t]
         /\ \A t \in 0..(m - 1), u \in 0..m : t < u => h[t + 1] <= h[u]
         /\ \A i \in 1..h[m] : \E t \in 0..(m - 1) : h[t] < i /\ i <= h[t + 1]
<1>1. \A t \in 0..m : h[t] = IF t = 0 THEN 0 ELSE h[t - 1] + c[t - 1]
  BY DEF SumsTo
<1>2. h[0] = 0
  BY <1>1
<1>3. \A t \in 0..(m - 1) : h[t + 1] = h[t] + c[t]
  <2> SUFFICES ASSUME NEW t \in 0..(m - 1) PROVE h[t + 1] = h[t] + c[t]
    OBVIOUS
  <2>1. t + 1 \in 0..m /\ t + 1 # 0 /\ (t + 1) - 1 = t
    OBVIOUS
  <2>2. h[t + 1] = h[(t + 1) - 1] + c[(t + 1) - 1]
    BY <1>1, <2>1
  <2> QED BY <2>1, <2>2
<1>4. \A t \in 0..m : h[t] \in Nat
  <2> DEFINE T == {t \in 0..m : h[t] \notin Nat}
  <2> SUFFICES ASSUME T # {} PROVE FALSE
    OBVIOUS
  <2>1. PICK i \in 1..m : i \in T /\ i - 1 \in 0..m /\ i - 1 \notin T
    <3>1. T \subseteq 0..m /\ 0 \notin T
      BY <1>2
    <3> HIDE DEF T
    <3> QED BY <3>1, FirstFailure
  <2>2. h[i] = h[i - 1] + c[i - 1] /\ c[i - 1] \in Nat /\ h[i - 1] \in Nat
    BY <1>1, <2>1
  <2> QED BY <2>1, <2>2
<1>5. \A t \in 0..(m - 1), u \in 0..m : t < u => h[t + 1] <= h[u]
  <2> SUFFICES ASSUME NEW t \in 0..(m - 1) PROVE \A u \in 0..m : t < u => h[t + 1] <= h[u]
    OBVIOUS
  <2> DEFINE T == {u \in 0..m : t < u /\ ~(h[t + 1] <= h[u])}
  <2> SUFFICES ASSUME T # {} PROVE FALSE
    OBVIOUS
  <2>1. PICK i \in 1..m : i \in T /\ i - 1 \in 0..m /\ i - 1 \notin T
    <3>1. T \subseteq 0..m /\ 0 \notin T
      OBVIOUS
    <3> HIDE DEF T
    <3> QED BY <3>1, FirstFailure
  <2>2. h[t + 1] \in Nat /\ h[i] \in Nat /\ h[i - 1] \in Nat /\ t < i /\ ~(h[t + 1] <= h[i])
    BY <1>4, <2>1
  <2>3. i # t + 1
    BY <2>2
  <2>4. t < i - 1 /\ h[t + 1] <= h[i - 1]
    BY <2>1, <2>2, <2>3
  <2>5. h[i] = h[i - 1] + c[i - 1] /\ c[i - 1] \in Nat
    BY <1>1, <2>1
  <2> QED BY <2>2, <2>4, <2>5
<1>6. \A i \in 1..h[m] : \E t \in 0..(m - 1) : h[t] < i /\ i <= h[t + 1]
  <2> SUFFICES ASSUME NEW i \in 1..h[m] PROVE \E t \in 0..(m - 1) : h[t] < i /\ i <= h[t + 1]
    OBVIOUS
  <2> DEFINE T == {t \in 0..m : i <= h[t]}
  <2>1. PICK u \in 1..m : u \in T /\ u - 1 \in 0..m /\ u - 1 \notin T
    <3>1. T \subseteq 0..m /\ 0 \notin T /\ m \in T
      BY <1>2, <1>4
    <3> HIDE DEF T
    <3> QED BY <3>1, FirstFailure
  <2>2. u - 1 \in 0..(m - 1) /\ (u - 1) + 1 = u /\ h[u - 1] \in Nat /\ i <= h[u] /\ ~(i <= h[u - 1]) /\ i \in Int
    BY <1>4, <2>1
  <2>3. h[u - 1] < i
    BY <2>2
  <2> QED BY <2>2, <2>3
<1> QED BY <1>2, <1>3, <1>4, <1>5, <1>6

\* The caps.
LEMMA CapsAre ==
  ASSUME RequestFits
  PROVE  /\ RetainedStride \in 1..n /\ BasisSimilar \in 1..RetainedStride /\ BasisSimilar = Least(K, n)
         /\ SoftCap \in Nat /\ RetainedStride = Least(SoftCap, n) /\ (SoftCap >= K \/ search.factor = 0)
<1> DEFINE f == search.factor
           kf == K * f
<1>1. K \in Nat \ {0} /\ f \in Nat /\ n \in Nat \ {0} /\ Unlimited \in Nat /\ n <= Unlimited
  BY ShapeIs, SidesAre
<1>2. kf \in Nat
  <2> HIDE DEF f
  <2> QED BY <1>1
<1>3. /\ SoftCap = IF f = 0 THEN Unlimited ELSE Greatest(K, kf)
      /\ RetainedStride = Greatest(IF f = 0 THEN n ELSE Least(n, kf), BasisSimilar)
  BY DEF SoftCap, RetainedStride
<1> HIDE DEF f, kf
<1>4. BasisSimilar = Least(K, n)
  BY DEF BasisSimilar
<1> QED BY <1>1, <1>2, <1>3, <1>4 DEF Least, Greatest, f

\* Where the tiles' best go.
LEMMA OffsetsAre ==
  ASSUME RequestFits
  PROVE  /\ \A task \in Tasks : PartialCount(task) \in 1..TileCandidates(task)
         /\ PartialPerGroup \in Nat
         /\ \A task \in Tasks : /\ PartialOffset[task] \in Nat
                                /\ PartialOffset[task + 1] = PartialOffset[task] + PartialCount(task)
                                /\ PartialOffset[task + 1] <= PartialPerGroup
         /\ \A task, other \in Tasks : task < other => PartialOffset[task + 1] <= PartialOffset[other]
         /\ \A i \in 1..PartialPerGroup :
               \E task \in Tasks : PartialOffset[task] < i /\ i <= PartialOffset[task + 1]
<1> DEFINE N == Layout.total
           c == [u \in 0..(N - 1) |-> PartialCount(u)]
           Is(h) == h = [task \in 0..N |-> IF task = 0 THEN 0 ELSE h[task - 1] + PartialCount(task - 1)]
           H == CHOOSE h : Is(h)
<1>1. N \in Nat \ {0} /\ Tasks = 0..(N - 1)
  BY LayoutIs DEF Tasks
<1>2. PartialOffset = H
  BY DEF PartialOffset
<1> HIDE DEF N
<1>3. \A task \in Tasks : PartialCount(task) \in 1..TileCandidates(task)
  <2> SUFFICES ASSUME NEW task \in Tasks PROVE PartialCount(task) \in 1..TileCandidates(task)
    OBVIOUS
  <2>1. TileCandidates(task) \in Nat \ {0} /\ RetainedStride \in Nat \ {0}
    BY TileIs, CapsAre, SidesAre
  <2> QED BY <2>1 DEF PartialCount, Least
<1>4. c \in [0..(N - 1) -> Nat]
  <2>1. \A task \in Tasks : PartialCount(task) \in Nat
    <3> SUFFICES ASSUME NEW task \in Tasks PROVE PartialCount(task) \in Nat
      OBVIOUS
    <3>1. TileCandidates(task) \in Nat
      BY TileIs
    <3> QED BY <3>1, <1>3
  <2> QED BY <2>1, <1>1
<1>5. \A h : Is(h) <=> SumsTo(c, N, h)
  <2> SUFFICES ASSUME NEW h PROVE Is(h) <=> SumsTo(c, N, h)
    OBVIOUS
  <2>1. [t \in 0..N |-> IF t = 0 THEN 0 ELSE h[t - 1] + c[t - 1]]
          = [t \in 0..N |-> IF t = 0 THEN 0 ELSE h[t - 1] + PartialCount(t - 1)]
    <3>1. ASSUME NEW t \in 0..N, t # 0 PROVE c[t - 1] = PartialCount(t - 1)
      <4>1. t - 1 \in 0..(N - 1)
        BY <1>1, <3>1
      <4> QED BY <4>1
    <3> HIDE DEF c
    <3> QED BY <3>1
  <2> HIDE DEF c
  <2> QED BY <2>1 DEF SumsTo
<1> HIDE DEF c
<1>6. Is(H)
  <2>1. \E h : Is(h)
    <3>1. PICK h : SumsTo(c, N, h)
      BY <1>1, SumsExist
    <3>2. Is(h)
      BY <3>1, <1>5
    <3> HIDE DEF Is
    <3> QED BY <3>2
  <2> HIDE DEF Is
  <2> QED BY <2>1
<1>7. SumsTo(c, N, PartialOffset)
  <2> HIDE DEF Is, H
  <2> QED BY <1>2, <1>5, <1>6
<1> HIDE DEF H, Is
<1> DEFINE h == PartialOffset
<1>8. /\ \A t \in 0..N : h[t] \in Nat
      /\ h[0] = 0 /\ \A t \in 0..(N - 1) : h[t + 1] = h[t] + c[t]
      /\ \A t \in 0..(N - 1), u \in 0..N : t < u => h[t + 1] <= h[u]
      /\ \A i \in 1..h[N] : \E t \in 0..(N - 1) : h[t] < i /\ i <= h[t + 1]
  <2>1. N \in Nat
    BY <1>1
  <2> HIDE DEF h
  <2>2. SumsTo(c, N, h)
    BY <1>7 DEF h
  <2> QED BY <2>1, <2>2, <1>4, SumsAre
<1>9. PartialPerGroup = h[N]
  BY DEF PartialPerGroup, N
<1>10. \A task \in Tasks : c[task] = PartialCount(task)
  BY <1>1 DEF c
<1> HIDE DEF h
<1>11. PartialPerGroup \in Nat
  BY <1>1, <1>8, <1>9
<1>12. \A task \in Tasks : /\ h[task] \in Nat
                           /\ h[task + 1] = h[task] + PartialCount(task)
                           /\ h[task + 1] <= PartialPerGroup
  <2> SUFFICES ASSUME NEW task \in Tasks
               PROVE  h[task] \in Nat /\ h[task + 1] = h[task] + PartialCount(task) /\ h[task + 1] <= PartialPerGroup
    OBVIOUS
  <2>1. task \in 0..(N - 1) /\ task \in 0..N /\ N \in 0..N /\ task < N
    BY <1>1
  <2> QED BY <2>1, <1>8, <1>9, <1>10
<1>13. \A task, other \in Tasks : task < other => h[task + 1] <= h[other]
  <2>1. Tasks \subseteq 0..N
    BY <1>1
  <2> QED BY <2>1, <1>1, <1>8
<1>14. \A i \in 1..PartialPerGroup : \E task \in Tasks : h[task] < i /\ i <= h[task + 1]
  BY <1>1, <1>8, <1>9
<1> QED BY <1>3, <1>11, <1>12, <1>13, <1>14 DEF h

-----------------------------------------------------------------------------
(* The group to find. *)

\* The distances are finite.
DistancesFit == dist \in [ToSet(scan) -> 0..(Unlimited - 1)]
AllKeys == {KeyAt(id) : id \in 0..(n - 1)}

\* One key for each candidate.
LEMMA KeysAre ==
  ASSUME RequestFits, DistancesFit
  PROVE  /\ \A id \in 0..(n - 1) : Distance(id) \in 0..(Unlimited - 1) /\ KeyAt(id) \in AllKeys
                                   /\ KeyAt(id).d = Distance(id) /\ KeyAt(id).id = id
         /\ KeySet(AllKeys) /\ Cardinality(AllKeys) = n
         /\ \A k \in AllKeys : k.id \in 0..(n - 1) /\ k = KeyAt(k.id) /\ k.d \in 0..(Unlimited - 1)
<1>1. n \in Nat \ {0} /\ Unlimited \in Nat
  BY SidesAre, ShapeIs
<1>2. \A id \in 0..(n - 1) : Distance(id) \in 0..(Unlimited - 1)
  BY ScanIs DEF Distance, DistancesFit
<1>3. \A id \in 0..(n - 1) : KeyAt(id) \in AllKeys /\ KeyAt(id).d = Distance(id) /\ KeyAt(id).id = id
  BY DEF KeyAt, AllKeys
<1>4. \A k \in AllKeys : k.id \in 0..(n - 1) /\ k = KeyAt(k.id) /\ k.d \in 0..(Unlimited - 1)
  BY <1>2 DEF KeyAt, AllKeys
<1>5. Numbered(n, [id \in 0..(n - 1) |-> KeyAt(id)], AllKeys)
  BY <1>3, <1>4 DEF Numbered, AllKeys
<1>6. IsFiniteSet(AllKeys) /\ Cardinality(AllKeys) = n
  <2> DEFINE r == [id \in 0..(n - 1) |-> KeyAt(id)]
  <2>1. n \in Nat /\ Numbered(n, r, AllKeys)
    BY <1>1, <1>5
  <2> HIDE DEF r
  <2> QED BY <2>1, NumberedIs
<1>7. AllKeys \subseteq KeyType
  BY <1>1, <1>2 DEF AllKeys, KeyAt, KeyType
<1>8. \A a, b \in AllKeys : a.id = b.id => a = b
  BY <1>4
<1>9. KeySet(AllKeys)
  BY <1>6, <1>7, <1>8 DEF KeySet
<1> QED BY <1>2, <1>3, <1>4, <1>6, <1>9

\* The fused kernel computes them all.
LEMMA FusedKeysAre ==
  ASSUME RequestFits, DistancesFit
  PROVE  /\ FusedKeys = [i \in 1..n |-> KeyAt(i - 1)] /\ ToSet(FusedKeys) = AllKeys
<1>1. n \in Nat \ {0}
  BY SidesAre
<1>2. ASSUME NEW i \in 1..n PROVE FusedKeys[i] = KeyAt(i - 1)
  <2> DEFINE c == SpatialCandidates(s)
             w == WindowWidth(s)
             id == i - 1
             k == id \div c
             v == id % c
  <2>1. id \in 0..(n - 1)
    BY <1>1
  <2>2. k \in 0..(TemporalCount(s) - 1) /\ Origin(id) = OriginAt(k, v % w, v \div w)
    BY <2>1, OriginIs
  <2>3. CandidateDistance(k, v % w, v \div w) = dist[OriginAt(k, v % w, v \div w)]
    BY <2>2, CandidateDistanceIs
  <2>4. FusedKeys[i] = [d |-> CandidateDistance(k, v % w, v \div w), id |-> id]
    BY DEF FusedKeys
  <2> HIDE DEF k, v, id
  <2>5. FusedKeys[i] = KeyAt(id)
    BY <2>2, <2>3, <2>4 DEF KeyAt, Distance
  <2> QED BY <2>5 DEF id
<1>3. DOMAIN FusedKeys = 1..n /\ FusedKeys = [i \in 1..n |-> FusedKeys[i]]
  BY DEF FusedKeys
<1>4. FusedKeys = [i \in 1..n |-> KeyAt(i - 1)]
  BY <1>2, <1>3
<1>5. ToSet(FusedKeys) = {KeyAt(i - 1) : i \in 1..n}
  BY <1>2, <1>3 DEF ToSet
<1>6. {KeyAt(i - 1) : i \in 1..n} = AllKeys
  <2>1. \A i \in 1..n : i - 1 \in 0..(n - 1)
    BY <1>1
  <2>2. \A id \in 0..(n - 1) : id + 1 \in 1..n /\ (id + 1) - 1 = id
    BY <1>1
  <2>3. \A id \in 0..(n - 1) : KeyAt(id) \in {KeyAt(i - 1) : i \in 1..n}
    <3> SUFFICES ASSUME NEW id \in 0..(n - 1) PROVE \E i \in 1..n : KeyAt(id) = KeyAt(i - 1)
      OBVIOUS
    <3>1. id + 1 \in 1..n /\ KeyAt(id) = KeyAt((id + 1) - 1)
      BY <2>2
    <3> QED BY <3>1
  <2>4. \A i \in 1..n : KeyAt(i - 1) \in AllKeys
    BY <2>1 DEF AllKeys
  <2> QED BY <2>3, <2>4 DEF AllKeys
<1> QED BY <1>4, <1>5, <1>6

\* A sorted list of keys ascends, and no key is there twice.
LEMMA SortKeysAscend ==
  ASSUME NEW S, KeySet(S), NEW list, ToSet(list) = S,
         NEW p \in 1..Cardinality(S), NEW q \in 1..Cardinality(S)
  PROVE  /\ p < q => SortKeys(list)[p].d <= SortKeys(list)[q].d
         /\ SortKeys(list)[p] = SortKeys(list)[q] => p = q
<1> DEFINE a == SortKeys(list)[p]
           b == SortKeys(list)[q]
<1>1. a \in S /\ b \in S /\ Rank(S, a) = p - 1 /\ Rank(S, b) = q - 1
  BY SortKeysIs
<1>2. Cardinality(S) \in Nat
  BY FS_CardinalityType DEF KeySet
<1> HIDE DEF a, b
<1>3. p < q => a.d <= b.d
  <2>1. p < q => Rank(S, a) < Rank(S, b)
    BY <1>1, <1>2
  <2>2. p < q => Less(a, b)
    BY <2>1, <1>1, RankIs
  <2> QED BY <2>2, <1>1, LessIsTotal
<1>4. a = b => p = q
  BY <1>1, <1>2
<1> QED BY <1>3, <1>4 DEF a, b

\* All candidates in order.
Sorted == SortKeys(FusedKeys)

\* All keys, by distance and then by number.
LEMMA SortedIs ==
  ASSUME RequestFits, DistancesFit
  PROVE  /\ DOMAIN Sorted = 1..n /\ Sorted = [p \in 1..n |-> Sorted[p]]
         /\ \A p \in 1..n : /\ Sorted[p] \in AllKeys /\ Sorted[p] \in KeyType /\ Rank(AllKeys, Sorted[p]) = p - 1
                            /\ Sorted[p].d \in 0..(Unlimited - 1) /\ Sorted[p].id \in 0..(n - 1)
                            /\ Sorted[p].d = Distance(Sorted[p].id)
         /\ \A p, q \in 1..n : /\ p < q => Sorted[p].d <= Sorted[q].d
                               /\ Sorted[p].id = Sorted[q].id => p = q
         /\ \A k \in AllKeys : Rank(AllKeys, k) + 1 \in 1..n /\ Sorted[Rank(AllKeys, k) + 1] = k
<1>1. KeySet(AllKeys) /\ ToSet(FusedKeys) = AllKeys /\ Cardinality(AllKeys) = n
  BY KeysAre, FusedKeysAre
<1>2. /\ DOMAIN Sorted = 1..n /\ Sorted = [p \in 1..n |-> Sorted[p]]
      /\ \A p \in 1..n : Sorted[p] \in AllKeys /\ Rank(AllKeys, Sorted[p]) = p - 1
      /\ \A k \in AllKeys : Rank(AllKeys, k) + 1 \in 1..n /\ Sorted[Rank(AllKeys, k) + 1] = k
  <2> DEFINE list == FusedKeys
  <2> HIDE DEF list
  <2>1. ToSet(list) = AllKeys /\ Sorted = SortKeys(list)
    BY <1>1 DEF list, Sorted
  <2>2. /\ DOMAIN SortKeys(list) = 1..n
        /\ SortKeys(list) = [p \in 1..n |-> SortKeys(list)[p]]
        /\ \A p \in 1..n : SortKeys(list)[p] \in AllKeys /\ Rank(AllKeys, SortKeys(list)[p]) = p - 1
        /\ \A a \in AllKeys : Rank(AllKeys, a) + 1 \in 1..n /\ SortKeys(list)[Rank(AllKeys, a) + 1] = a
    BY <1>1, <2>1, SortKeysIs
  <2> QED BY <2>1, <2>2, Zenon
<1>3. \A p \in 1..n : /\ Sorted[p].d \in 0..(Unlimited - 1) /\ Sorted[p].id \in 0..(n - 1)
                      /\ Sorted[p] = KeyAt(Sorted[p].id) /\ Sorted[p] \in KeyType
  BY <1>1, <1>2, KeysAre DEF KeySet
<1>4. \A p \in 1..n : Sorted[p].d = Distance(Sorted[p].id)
  BY <1>3, KeysAre, Zenon
<1>5. \A p, q \in 1..n : (p < q => Sorted[p].d <= Sorted[q].d) /\ (Sorted[p] = Sorted[q] => p = q)
  <2> SUFFICES ASSUME NEW p \in 1..n, NEW q \in 1..n
               PROVE  (p < q => Sorted[p].d <= Sorted[q].d) /\ (Sorted[p] = Sorted[q] => p = q)
    OBVIOUS
  <2>1. p \in 1..Cardinality(AllKeys) /\ q \in 1..Cardinality(AllKeys)
    BY <1>1
  <2> QED BY <1>1, <2>1, SortKeysAscend DEF Sorted
<1>6. \A p, q \in 1..n : Sorted[p].id = Sorted[q].id => p = q
  BY <1>3, <1>5, Zenon
<1> QED BY <1>2, <1>3, <1>4, <1>5, <1>6

\* The nearest candidates that a group of the caps takes.
Thr == Greatest(tau, Sorted[BasisSimilar].d)
BestSize == Cardinality({i \in 1..RetainedStride : Sorted[i].d <= Thr})

\* The group is a beginning of this order.
LEMMA BestSizeIs ==
  ASSUME RequestFits, DistancesFit
  PROVE  /\ Thr \in Nat /\ BestSize \in BasisSimilar..RetainedStride
         /\ \A i \in 1..RetainedStride : Sorted[i].d <= Thr <=> i <= BestSize
<1>1. /\ RetainedStride \in 1..n /\ BasisSimilar \in 1..RetainedStride /\ n \in Nat /\ tau \in Nat
      /\ RetainedStride \in Nat /\ BasisSimilar \in 1..n /\ Unlimited \in Nat
  BY CapsAre, SidesAre, ShapeIs
<1>2. /\ \A p \in 1..n : Sorted[p].d \in Int /\ Sorted[p].d >= 0
      /\ \A p, q \in 1..n : p < q => Sorted[p].d <= Sorted[q].d
  BY <1>1, SortedIs
<1>3. Thr \in Nat /\ Sorted[BasisSimilar].d <= Thr
  BY <1>1, <1>2 DEF Thr, Greatest
<1> DEFINE T == {i \in 1..RetainedStride : Sorted[i].d <= Thr}
<1>4. \A i \in T, j \in 1..RetainedStride : j <= i => j \in T
  <2> SUFFICES ASSUME NEW i \in T, NEW j \in 1..RetainedStride, j < i PROVE Sorted[j].d <= Thr
    BY <1>1
  <2>1. i \in 1..n /\ j \in 1..n
    BY <1>1
  <2>2. Sorted[j].d <= Sorted[i].d /\ Sorted[i].d <= Thr /\ Sorted[i].d \in Int /\ Sorted[j].d \in Int
    BY <2>1, <1>2
  <2> QED BY <2>2, <1>3
<1>5. BasisSimilar \in T
  BY <1>1, <1>3
<1>6. BestSize = Cardinality(T)
  BY DEF BestSize
<1>7. Cardinality(T) \in 0..RetainedStride /\ T = 1..Cardinality(T)
  <2>1. T \subseteq 1..RetainedStride
    OBVIOUS
  <2> HIDE DEF T
  <2> QED BY <2>1, <1>1, <1>4, InitialPlaces
<1>8. BestSize \in BasisSimilar..RetainedStride
  BY <1>1, <1>5, <1>6, <1>7
<1>9. \A i \in 1..RetainedStride : i \in T <=> i <= BestSize
  BY <1>1, <1>6, <1>7
<1> QED BY <1>3, <1>8, <1>9

\* The first entries of a list.
LEMMA SubSeqIs ==
  ASSUME NEW m \in Nat, NEW X, NEW list \in [1..m -> X], NEW k \in 0..m
  PROVE  /\ SubSeq(list, 1, k) = [i \in 1..k |-> list[i]] /\ DOMAIN SubSeq(list, 1, k) = 1..k
         /\ \A i \in 1..k : SubSeq(list, 1, k)[i] = list[i]
<1>1. list \in Seq(X) /\ Len(list) = m
  OBVIOUS
<1>2. SubSeq(list, 1, k) = [i \in 1..k |-> list[i]]
  <2>1. k \in Nat
    OBVIOUS
  <2> QED BY <1>1, <2>1
<1> QED BY <1>2

StartsSorted(list) == \A i \in 1..RetainedStride : list[i] = Sorted[i]

\* Both kernels' counts are the size of the group.
LEMMA CountsAre ==
  ASSUME RequestFits, DistancesFit, NEW list, StartsSorted(list)
  PROVE  Threshold(list) = Thr /\ BallotCount(list) = BestSize /\ LoopCount(list) = BestSize
<1> DEFINE R == RetainedStride
           B == BasisSimilar
           C == BestSize
<1>1. R \in Nat /\ B \in 1..R /\ C \in B..R /\ \A i \in 1..R : Sorted[i].d <= Thr <=> i <= C
  BY BestSizeIs, CapsAre, SidesAre
<1>2. \A i \in 1..R : list[i] = Sorted[i]
  BY DEF StartsSorted
<1>3. Threshold(list) = Thr
  BY <1>1, <1>2 DEF Threshold, Thr
<1>4. BallotCount(list) = BestSize
  <2>1. {i \in 1..R : list[i].d <= Threshold(list)} = {i \in 1..R : Sorted[i].d <= Thr}
    BY <1>2, <1>3
  <2> QED BY <2>1 DEF BallotCount, BestSize
<1> DEFINE stops == {i \in B..(R - 1) : list[i + 1].d > Threshold(list)}
<1>5. LoopCount(list) = IF stops = {} THEN R ELSE Lowest(stops)
  BY DEF LoopCount
<1>6. \A i \in B..(R - 1) : list[i + 1].d > Threshold(list) <=> ~(Sorted[i + 1].d <= Thr)
  <2> SUFFICES ASSUME NEW i \in B..(R - 1) PROVE list[i + 1].d > Thr <=> ~(Sorted[i + 1].d <= Thr)
    BY <1>3
  <2>1. i + 1 \in 1..R /\ i + 1 \in 1..n /\ n \in Nat
    BY <1>1, CapsAre, SidesAre
  <2>2. list[i + 1] = Sorted[i + 1]
    BY <2>1, <1>2
  <2>3. Sorted[i + 1].d \in Int /\ Thr \in Int
    <3>1. Sorted[i + 1].d \in 0..(Unlimited - 1) /\ Unlimited \in Nat
      BY <2>1, SortedIs, ShapeIs
    <3> QED BY <3>1, BestSizeIs
  <2> QED BY <2>2, <2>3
<1> HIDE DEF R, B, C
<1>7. \A i \in B..(R - 1) : i + 1 \in 1..R
  BY <1>1
<1>8. \A i \in B..(R - 1) : i \in stops <=> ~(i + 1 <= C)
  BY <1>1, <1>6, <1>7
<1>9. stops = C..(R - 1)
  <2>1. stops \subseteq B..(R - 1)
    OBVIOUS
  <2> HIDE DEF stops
  <2>2. B \in Int /\ R \in Int /\ C \in Int /\ B <= C
    BY <1>1
  <2>3. \A i \in B..(R - 1) : i \in stops <=> i \in C..(R - 1)
    BY <2>2, <1>8
  <2>4. C..(R - 1) \subseteq B..(R - 1)
    BY <2>2
  <2> QED BY <2>1, <2>3, <2>4
<1>10. LoopCount(list) = C
  <2>1. CASE C = R
    <3>1. stops = {}
      BY <1>1, <1>9, <2>1
    <3> QED BY <1>5, <3>1, <2>1
  <2>2. CASE C # R
    <3>1. C \in stops /\ \A x \in stops : C <= x
      <4>1. C \in C..(R - 1) /\ \A x \in C..(R - 1) : C <= x
        BY <1>1, <2>2
      <4> HIDE DEF stops
      <4> QED BY <4>1, <1>9
    <3>2. Lowest(stops) = C
      <4>1. \A m \in stops : (\A x \in stops : m <= x) => m = C
        BY <1>1, <1>9, <3>1
      <4> HIDE DEF stops
      <4> QED BY <3>1, <4>1 DEF Lowest
    <3> QED BY <1>5, <3>1, <3>2
  <2> QED BY <2>1, <2>2
<1> QED BY <1>3, <1>4, <1>10 DEF C

BestGroup == [i \in 1..BestSize |-> Origin(Sorted[i].id)]

\* What the gathers copy.
LEMMA GatheredIs ==
  ASSUME RequestFits, DistancesFit, NEW m \in Nat, m >= RetainedStride,
         NEW X, NEW list \in [1..m -> X], StartsSorted(list)
  PROVE  /\ Gathered(SubSeq(list, 1, BestSize)) = BestGroup
         /\ SubSeq(list, 1, RetainedStride) \in [1..RetainedStride -> X]
         /\ StartsSorted(SubSeq(list, 1, RetainedStride))
<1>1. RetainedStride \in Nat /\ BestSize \in 0..RetainedStride /\ RetainedStride \in 0..m /\ BestSize \in 0..m
  BY BestSizeIs, CapsAre, SidesAre
<1>2. \A i \in 1..RetainedStride : list[i] = Sorted[i]
  BY DEF StartsSorted
<1>3. /\ SubSeq(list, 1, BestSize) = [i \in 1..BestSize |-> list[i]]
      /\ SubSeq(list, 1, RetainedStride) = [i \in 1..RetainedStride |-> list[i]]
  BY <1>1, SubSeqIs
<1>4. Gathered(SubSeq(list, 1, BestSize)) = [i \in 1..BestSize |-> Origin(list[i].id)]
  BY <1>3 DEF Gathered, Origin
<1>5. \A i \in 1..BestSize : list[i] = Sorted[i]
  BY <1>1, <1>2
<1>6. Gathered(SubSeq(list, 1, BestSize)) = BestGroup
  BY <1>4, <1>5 DEF BestGroup
<1>7. \A i \in 1..RetainedStride : list[i] \in X
  BY <1>1
<1>8. SubSeq(list, 1, RetainedStride) \in [1..RetainedStride -> X] /\ StartsSorted(SubSeq(list, 1, RetainedStride))
  BY <1>2, <1>3, <1>7 DEF StartsSorted
<1> QED BY <1>6, <1>8

-----------------------------------------------------------------------------
(* The group to find numbers the walk from 1. *)

Up(k) == [d |-> k.d, id |-> k.id + 1]
UpKeys == {Up(k) : k \in AllKeys}

\* A one-to-one image has as many members.
OneToOne(T, f, V) ==
    /\ f \in [T -> V] /\ (\A a, b \in T : f[a] = f[b] => a = b) /\ (\A v \in V : \E a \in T : f[a] = v)

LEMMA ImageCounts ==
  ASSUME NEW T, IsFiniteSet(T), NEW f, NEW V, OneToOne(T, f, V)
  PROVE  IsFiniteSet(V) /\ Cardinality(V) = Cardinality(T)
<1>1. f \in Bijection(T, V)
  BY DEF OneToOne, Bijection, Injection, IsInjective, Surjection
<1>2. ExistsBijection(T, V)
  BY <1>1 DEF ExistsBijection
<1> QED BY <1>2, FS_Bijection

\* Numbering from 1 instead of 0 keeps the order.
LEMMA UpKeysAre ==
  ASSUME RequestFits, DistancesFit
  PROVE  /\ KeySet(UpKeys) /\ Cardinality(UpKeys) = n
         /\ \A k \in AllKeys : Up(k) \in UpKeys /\ Rank(UpKeys, Up(k)) = Rank(AllKeys, k)
<1>1. KeySet(AllKeys) /\ Cardinality(AllKeys) = n
  BY KeysAre
<1>2. \A k \in AllKeys : k.d \in Int /\ k.id \in Nat /\ k = [d |-> k.d, id |-> k.id]
  BY <1>1 DEF KeySet, KeyType
<1>3. \A a, b \in AllKeys : Up(a) = Up(b) => a = b
  <2> SUFFICES ASSUME NEW a \in AllKeys, NEW b \in AllKeys, Up(a) = Up(b) PROVE a = b
    OBVIOUS
  <2>1. a.d = b.d /\ a.id + 1 = b.id + 1
    BY DEF Up
  <2>2. a.id = b.id
    BY <1>2, <2>1
  <2> QED BY <1>1, <2>2 DEF KeySet
<1>4. \A a, b \in AllKeys : Less(Up(a), Up(b)) <=> Less(a, b)
  BY <1>2 DEF Up, Less
<1>5. \A T \in SUBSET AllKeys : IsFiniteSet({Up(k) : k \in T}) /\ Cardinality({Up(k) : k \in T}) = Cardinality(T)
  <2> SUFFICES ASSUME NEW T \in SUBSET AllKeys
               PROVE  IsFiniteSet({Up(k) : k \in T}) /\ Cardinality({Up(k) : k \in T}) = Cardinality(T)
    OBVIOUS
  <2>1. IsFiniteSet(T)
    BY <1>1, FS_Subset DEF KeySet
  <2> DEFINE V == {Up(k) : k \in T}
             f == [k \in T |-> Up(k)]
  <2>2. OneToOne(T, f, V)
    BY <1>3 DEF OneToOne
  <2> HIDE DEF f, V
  <2>3. IsFiniteSet(V) /\ Cardinality(V) = Cardinality(T)
    BY <2>1, <2>2, ImageCounts
  <2> QED BY <2>3 DEF V
<1>6. IsFiniteSet(UpKeys) /\ Cardinality(UpKeys) = n
  BY <1>1, <1>5 DEF UpKeys
<1>7. KeySet(UpKeys)
  <2>1. UpKeys \subseteq KeyType
    BY <1>2 DEF UpKeys, Up, KeyType
  <2>2. \A a, b \in UpKeys : a.id = b.id => a = b
    <3> SUFFICES ASSUME NEW a \in AllKeys, NEW b \in AllKeys, Up(a).id = Up(b).id PROVE Up(a) = Up(b)
      BY DEF UpKeys
    <3>1. a.id = b.id
      BY <1>2 DEF Up
    <3>2. a = b
      BY <3>1, <1>1 DEF KeySet
    <3> QED BY <3>2
  <2> QED BY <1>6, <2>1, <2>2 DEF KeySet
<1>8. ASSUME NEW k \in AllKeys PROVE Rank(UpKeys, Up(k)) = Rank(AllKeys, k)
  <2> DEFINE T == {a \in AllKeys : Less(a, k)}
  <2>1. {v \in UpKeys : Less(v, Up(k))} = {Up(a) : a \in T}
    BY <1>4 DEF UpKeys
  <2>2. Cardinality({Up(a) : a \in T}) = Cardinality(T)
    <3>1. T \in SUBSET AllKeys
      OBVIOUS
    <3> HIDE DEF T
    <3> QED BY <3>1, <1>5
  <2> QED BY <2>1, <2>2 DEF Rank
<1>9. \A k \in AllKeys : Up(k) \in UpKeys
  BY DEF UpKeys
<1> QED BY <1>6, <1>7, <1>8, <1>9

\* The group that is promised is this one.
LEMMA BestIs ==
  ASSUME RequestFits, DistancesFit
  PROVE  Best = BestGroup
<1> DEFINE R == RetainedStride
           B == BasisSimilar
           keysInScan == [i \in 1..n |-> [d |-> dist[scan[i]], id |-> i]]
           list == SubSeq(SortKeys(keysInScan), 1, R)
           size == Cardinality({i \in 1..R : i <= B \/ list[i].d <= Threshold(list)})
<1>1. R \in 1..n /\ B \in 1..R /\ n \in Nat /\ R \in Nat /\ BestSize \in B..R /\ R \in 0..n /\ Unlimited \in Nat
  BY CapsAre, SidesAre, BestSizeIs, ShapeIs
<1>2. Best = [i \in 1..size |-> scan[list[i].id]]
  BY DEF Best
<1>3. ASSUME NEW i \in 1..n PROVE i - 1 \in 0..(n - 1) /\ keysInScan[i] = Up(KeyAt(i - 1))
  <2>1. i - 1 \in 0..(n - 1) /\ (i - 1) + 1 = i
    BY <1>1
  <2>2. scan[i] = Origin(i - 1)
    BY ScanIs
  <2>3. KeyAt(i - 1).d = Distance(i - 1) /\ KeyAt(i - 1).id = i - 1
    BY DEF KeyAt
  <2>4. keysInScan[i] = [d |-> Distance(i - 1), id |-> i]
    BY <2>2 DEF Distance
  <2> QED BY <2>1, <2>3, <2>4 DEF Up
<1>4. ToSet(keysInScan) = UpKeys
  <2>1. ToSet(keysInScan) = {keysInScan[i] : i \in 1..n}
    BY DEF ToSet
  <2>2. \A i \in 1..n : keysInScan[i] \in UpKeys
    BY <1>3 DEF UpKeys, AllKeys
  <2>3. \A id \in 0..(n - 1) : id + 1 \in 1..n /\ keysInScan[id + 1] = Up(KeyAt(id))
    <3> SUFFICES ASSUME NEW id \in 0..(n - 1) PROVE id + 1 \in 1..n /\ keysInScan[id + 1] = Up(KeyAt(id))
      OBVIOUS
    <3>1. id + 1 \in 1..n /\ (id + 1) - 1 = id
      BY <1>1
    <3>2. keysInScan[id + 1] = Up(KeyAt((id + 1) - 1))
      BY <1>3, <3>1
    <3> QED BY <3>1, <3>2
  <2> HIDE DEF keysInScan
  <2>4. \A v \in UpKeys : \E i \in 1..n : v = keysInScan[i]
    <3> SUFFICES ASSUME NEW id \in 0..(n - 1) PROVE \E i \in 1..n : Up(KeyAt(id)) = keysInScan[i]
      BY DEF UpKeys, AllKeys
    <3> QED BY <2>3
  <2> QED BY <2>1, <2>2, <2>4
<1> HIDE DEF keysInScan
<1> DEFINE all == SortKeys(keysInScan)
<1>5. /\ DOMAIN all = 1..n /\ all = [p \in 1..n |-> all[p]]
      /\ \A p \in 1..n : all[p] \in UpKeys /\ Rank(UpKeys, all[p]) = p - 1
  BY <1>4, UpKeysAre, SortKeysIs
<1> HIDE DEF all
<1>6. ASSUME NEW p \in 1..n PROVE all[p] = Up(Sorted[p])
  <2>1. PICK k \in AllKeys : all[p] = Up(k)
    BY <1>5 DEF UpKeys
  <2>2. Rank(AllKeys, k) = p - 1
    BY <1>5, <2>1, UpKeysAre
  <2>3. Sorted[Rank(AllKeys, k) + 1] = k
    BY SortedIs
  <2>4. (p - 1) + 1 = p
    BY <1>1
  <2> QED BY <2>1, <2>2, <2>3, <2>4
<1>7. \A i \in 1..R : list[i] = Up(Sorted[i])
  <2>1. all \in [1..n -> UpKeys]
    BY <1>5
  <2>2. \A i \in 1..R : SubSeq(all, 1, R)[i] = all[i]
    BY <1>1, <2>1, SubSeqIs
  <2>3. \A i \in 1..R : i \in 1..n
    BY <1>1
  <2> QED BY <1>6, <2>2, <2>3 DEF all
<1> HIDE DEF list
<1>8. \A i \in 1..R : list[i].d = Sorted[i].d /\ list[i].id = Sorted[i].id + 1
  <2>1. \A k : Up(k).d = k.d /\ Up(k).id = k.id + 1
    BY DEF Up
  <2> HIDE DEF R
  <2> QED BY <1>7, <2>1, Zenon
<1>9. Threshold(list) = Thr
  BY <1>1, <1>8 DEF Threshold, Thr
<1>10. \A i \in 1..R : i <= B => Sorted[i].d <= Thr
  <2> HIDE DEF R, B
  <2> QED BY <1>1, BestSizeIs DEF R
<1>11. {i \in 1..R : i <= B \/ list[i].d <= Threshold(list)} = {i \in 1..R : Sorted[i].d <= Thr}
  BY <1>8, <1>9, <1>10
<1>12. size = BestSize
  BY <1>11 DEF BestSize
<1>13. ASSUME NEW i \in 1..BestSize PROVE scan[list[i].id] = Origin(Sorted[i].id)
  <2>1. i \in 1..R /\ i \in 1..n
    BY <1>1
  <2> DEFINE id == Sorted[i].id
  <2>2. id \in 0..(n - 1)
    BY <2>1, SortedIs
  <2>3. list[i].id = id + 1
    BY <2>1, <1>8
  <2> HIDE DEF id
  <2>4. id + 1 \in 1..n /\ (id + 1) - 1 = id
    BY <2>2, <1>1
  <2>5. scan[id + 1] = Origin((id + 1) - 1)
    BY <2>4, ScanIs
  <2> QED BY <2>3, <2>4, <2>5 DEF id
<1> HIDE DEF size
<1> QED BY <1>2, <1>12, <1>13 DEF BestGroup

-----------------------------------------------------------------------------
(* The best of each tile. *)

\* The candidates of a tile, and the best of them that it hands on.
TileSet(task) == ToSet(TileKeys(task))
TileBest(task) == SortKeys(TileKeys(task))
HandedBy(task) == {TileBest(task)[j] : j \in 1..PartialCount(task)}
Handed == UNION {HandedBy(task) : task \in Tasks}

\* The keys of a tile are keys of the search.
LEMMA TileSetIs ==
  ASSUME RequestFits, DistancesFit, NEW task \in Tasks
  PROVE  /\ KeySet(TileSet(task)) /\ TileSet(task) \subseteq AllKeys
         /\ Cardinality(TileSet(task)) = TileCandidates(task)
         /\ TileSet(task) = {KeyAt(TileId(task, i)) : i \in 1..TileCandidates(task)}
<1> DEFINE m == TileCandidates(task)
           r == [i \in 0..(m - 1) |-> KeyAt(TileId(task, i + 1))]
<1>1. m \in Nat \ {0}
  BY TileIs
<1>2. /\ DOMAIN TileKeys(task) = 1..m
      /\ \A i \in 1..m : TileId(task, i) \in 0..(n - 1) /\ TileKeys(task)[i] = KeyAt(TileId(task, i))
  BY TileKeysAre
<1>3. TileSet(task) = {KeyAt(TileId(task, i)) : i \in 1..m}
  BY <1>2 DEF TileSet, ToSet
<1>4. TileSet(task) \subseteq AllKeys
  BY <1>2, <1>3 DEF AllKeys
<1>5. KeySet(TileSet(task))
  <2>1. KeySet(AllKeys)
    BY KeysAre
  <2>2. IsFiniteSet(TileSet(task))
    BY <2>1, <1>4, FS_Subset DEF KeySet
  <2> QED BY <2>1, <2>2, <1>4 DEF KeySet
<1>6. \A i, j \in 1..m : KeyAt(TileId(task, i)) = KeyAt(TileId(task, j)) => i = j
  <2> SUFFICES ASSUME NEW i \in 1..m, NEW j \in 1..m, KeyAt(TileId(task, i)) = KeyAt(TileId(task, j)) PROVE i = j
    OBVIOUS
  <2>1. TileId(task, i) = TileId(task, j)
    BY DEF KeyAt
  <2> QED BY <2>1, TileIdsDiffer
<1> HIDE DEF m
<1>7. Numbered(m, r, TileSet(task))
  <2>1. \A i \in 0..(m - 1) : i + 1 \in 1..m /\ r[i] = KeyAt(TileId(task, i + 1))
    BY <1>1
  <2>2. \A i \in 1..m : i - 1 \in 0..(m - 1) /\ (i - 1) + 1 = i
    BY <1>1
  <2> HIDE DEF r
  <2>3. \A i \in 0..(m - 1) : r[i] \in TileSet(task)
    BY <2>1, <1>3
  <2>4. \A i, j \in 0..(m - 1) : r[i] = r[j] => i = j
    <3> SUFFICES ASSUME NEW i \in 0..(m - 1), NEW j \in 0..(m - 1), r[i] = r[j] PROVE i = j
      OBVIOUS
    <3>1. i + 1 = j + 1
      BY <2>1, <1>6
    <3> QED BY <3>1, <1>1
  <2>5. \A i \in 1..m : r[i - 1] = KeyAt(TileId(task, i))
    <3> SUFFICES ASSUME NEW i \in 1..m PROVE r[i - 1] = KeyAt(TileId(task, i))
      OBVIOUS
    <3>1. r[i - 1] = KeyAt(TileId(task, (i - 1) + 1))
      BY <2>1, <2>2
    <3> QED BY <2>2, <3>1
  <2>6. \A v \in TileSet(task) : \E i \in 0..(m - 1) : r[i] = v
    BY <2>2, <2>5, <1>3
  <2> QED BY <2>3, <2>4, <2>6 DEF Numbered
<1>8. Cardinality(TileSet(task)) = m
  <2> HIDE DEF r
  <2> QED BY <1>1, <1>7, NumberedIs
<1> QED BY <1>3, <1>4, <1>5, <1>8 DEF m

\* What a tile hands on are its first keys in order.
LEMMA TileBestIs ==
  ASSUME RequestFits, DistancesFit, NEW task \in Tasks
  PROVE  /\ DOMAIN TileBest(task) = 1..TileCandidates(task)
         /\ \A j \in 1..TileCandidates(task) : TileBest(task)[j] \in TileSet(task)
         /\ \A k \in TileSet(task) : /\ Rank(TileSet(task), k) + 1 \in 1..TileCandidates(task)
                                     /\ TileBest(task)[Rank(TileSet(task), k) + 1] = k
         /\ HandedBy(task) \subseteq AllKeys
<1> DEFINE list == TileKeys(task)
           S == TileSet(task)
<1>1. ToSet(list) = S /\ KeySet(S) /\ Cardinality(S) = TileCandidates(task) /\ S \subseteq AllKeys
  BY TileSetIs DEF TileSet
<1>2. TileBest(task) = SortKeys(list)
  BY DEF TileBest
<1> HIDE DEF list, S
<1>3. /\ DOMAIN TileBest(task) = 1..TileCandidates(task)
      /\ \A j \in 1..TileCandidates(task) : TileBest(task)[j] \in S
      /\ \A k \in S : /\ Rank(S, k) + 1 \in 1..TileCandidates(task)
                      /\ TileBest(task)[Rank(S, k) + 1] = k
  BY <1>1, <1>2, SortKeysIs
<1>4. \A j \in 1..PartialCount(task) : j \in 1..TileCandidates(task)
  <2>1. PartialCount(task) \in 1..TileCandidates(task) /\ TileCandidates(task) \in Nat
    BY OffsetsAre, TileIs
  <2> QED BY <2>1
<1>5. HandedBy(task) \subseteq AllKeys
  BY <1>1, <1>3, <1>4 DEF HandedBy
<1> QED BY <1>3, <1>5 DEF S

\* The best of all are among the best of their tiles.
LEMMA NearestAreHanded ==
  ASSUME RequestFits, DistancesFit, NEW p \in 1..RetainedStride
  PROVE  Sorted[p] \in Handed
<1> DEFINE k == Sorted[p]
<1>1. p \in 1..n /\ RetainedStride \in Nat /\ n \in Nat
  BY CapsAre, SidesAre
<1>2. k \in AllKeys /\ Rank(AllKeys, k) = p - 1 /\ k.id \in 0..(n - 1) /\ k = KeyAt(k.id)
  <2>1. k \in AllKeys /\ Rank(AllKeys, k) = p - 1
    BY <1>1, SortedIs
  <2> HIDE DEF k
  <2> QED BY <2>1, KeysAre
<1> HIDE DEF k
<1>3. PICK task \in Tasks : \E i \in 1..TileCandidates(task) : TileId(task, i) = k.id
  BY <1>2, TilesCover
<1>4. k \in TileSet(task)
  <2>1. PICK i \in 1..TileCandidates(task) : TileId(task, i) = k.id
    BY <1>3
  <2>2. KeyAt(TileId(task, i)) = k
    BY <1>2, <2>1
  <2> QED BY <2>2, TileSetIs
<1> DEFINE q == Rank(TileSet(task), k)
<1>5. q + 1 \in 1..TileCandidates(task) /\ TileBest(task)[q + 1] = k
  BY <1>4, TileBestIs
<1>6. q <= Rank(AllKeys, k) /\ q \in Nat
  <2> DEFINE all == {a \in AllKeys : Less(a, k)}
             mine == {a \in TileSet(task) : Less(a, k)}
  <2>1. mine \in SUBSET all
    BY TileSetIs
  <2>2. IsFiniteSet(all)
    <3>1. IsFiniteSet(AllKeys) /\ all \in SUBSET AllKeys
      BY KeysAre DEF KeySet
    <3> QED BY <3>1, FS_Subset
  <2>3. q = Cardinality(mine) /\ Rank(AllKeys, k) = Cardinality(all)
    BY DEF Rank
  <2> HIDE DEF mine, all, q
  <2>4. IsFiniteSet(mine) /\ Cardinality(mine) <= Cardinality(all)
    BY <2>1, <2>2, FS_Subset
  <2>5. Cardinality(mine) \in Nat
    BY <2>4, FS_CardinalityType
  <2> QED BY <2>3, <2>4, <2>5
<1> HIDE DEF q
<1>7. q + 1 \in 1..PartialCount(task)
  <2>1. TileCandidates(task) \in Nat
    BY TileIs
  <2> QED BY <2>1, <1>1, <1>2, <1>5, <1>6 DEF PartialCount, Least
<1>8. k \in HandedBy(task)
  BY <1>5, <1>7 DEF HandedBy
<1> QED BY <1>8 DEF Handed, k

\* All that the tiles hand on.
LEMMA HandedIs ==
  ASSUME RequestFits, DistancesFit
  PROVE  /\ KeySet(Handed) /\ Handed \subseteq AllKeys
         /\ Cardinality(Handed) \in Nat /\ RetainedStride <= Cardinality(Handed)
         /\ \A p \in 1..RetainedStride : Rank(Handed, Sorted[p]) = p - 1
<1>1. KeySet(AllKeys) /\ RetainedStride \in Nat /\ RetainedStride <= n /\ n \in Nat
  BY KeysAre, CapsAre, SidesAre
<1>2. Handed \subseteq AllKeys
  BY TileBestIs DEF Handed
<1>3. IsFiniteSet(Handed)
  BY <1>1, <1>2, FS_Subset DEF KeySet
<1>4. KeySet(Handed)
  BY <1>1, <1>2, <1>3 DEF KeySet
<1>5. \A p \in 1..RetainedStride : p \in 1..n
  BY <1>1
<1> DEFINE near == {Sorted[p] : p \in 1..RetainedStride}
           m == RetainedStride
           r == [i \in 0..(m - 1) |-> Sorted[i + 1]]
<1>6. Numbered(m, r, near)
  <2>1. \A i \in 0..(m - 1) : i + 1 \in 1..m /\ r[i] = Sorted[i + 1]
    BY <1>1
  <2>2. \A p \in 1..m : p - 1 \in 0..(m - 1) /\ (p - 1) + 1 = p
    BY <1>1
  <2>3. \A p, q \in 1..m : Sorted[p] = Sorted[q] => p = q
    BY <1>5, SortedIs
  <2> HIDE DEF r, m
  <2>4. \A p \in 1..m : r[p - 1] = Sorted[p]
    <3> SUFFICES ASSUME NEW p \in 1..m PROVE r[p - 1] = Sorted[p]
      OBVIOUS
    <3>1. r[p - 1] = Sorted[(p - 1) + 1]
      BY <2>1, <2>2
    <3> QED BY <3>1, <2>2
  <2>5. \A i, j \in 0..(m - 1) : r[i] = r[j] => i = j
    <3> SUFFICES ASSUME NEW i \in 0..(m - 1), NEW j \in 0..(m - 1), r[i] = r[j] PROVE i = j
      OBVIOUS
    <3>1. i + 1 = j + 1
      BY <2>1, <2>3
    <3> QED BY <3>1, <1>1 DEF m
  <2>6. near = {Sorted[p] : p \in 1..m}
    BY DEF m
  <2> HIDE DEF near
  <2>7. (\A i \in 0..(m - 1) : r[i] \in near) /\ (\A v \in near : \E i \in 0..(m - 1) : r[i] = v)
    BY <2>1, <2>2, <2>4, <2>6
  <2> QED BY <2>5, <2>7 DEF Numbered
<1>7. Cardinality(near) = m
  <2>1. m \in Nat
    BY <1>1
  <2> HIDE DEF m, r, near
  <2> QED BY <1>6, <2>1, NumberedIs
<1>8. near \in SUBSET Handed
  BY NearestAreHanded
<1>9. Cardinality(Handed) \in Nat /\ RetainedStride <= Cardinality(Handed)
  <2> HIDE DEF near
  <2> QED BY <1>3, <1>7, <1>8, FS_Subset, FS_CardinalityType
<1>10. ASSUME NEW p \in 1..RetainedStride PROVE Rank(Handed, Sorted[p]) = p - 1
  <2> DEFINE k == Sorted[p]
  <2>1. k \in AllKeys /\ Rank(AllKeys, k) = p - 1
    BY <1>5, SortedIs
  <2>2. ASSUME NEW a \in AllKeys, Less(a, k) PROVE a \in Handed
    <3>1. Rank(AllKeys, a) < Rank(AllKeys, k) /\ Rank(AllKeys, a) \in 0..(Cardinality(AllKeys) - 1)
      BY <1>1, <2>1, <2>2, RankIs
    <3>2. Cardinality(AllKeys) \in Nat
      BY <1>1, FS_CardinalityType DEF KeySet
    <3>3. Rank(AllKeys, a) + 1 \in 1..RetainedStride
      BY <3>1, <3>2, <2>1, <1>1
    <3>4. Sorted[Rank(AllKeys, a) + 1] = a
      BY SortedIs
    <3> QED BY <3>3, <3>4, NearestAreHanded
  <2> HIDE DEF k
  <2>3. {a \in Handed : Less(a, k)} = {a \in AllKeys : Less(a, k)}
    BY <1>2, <2>2
  <2>4. Rank(Handed, k) = Rank(AllKeys, k)
    BY <2>3 DEF Rank
  <2> QED BY <2>1, <2>4 DEF k
<1> QED BY <1>2, <1>4, <1>9, <1>10

\* What the merge reads once every tile has written.
TileWritten(list, task) == \A j \in 1..PartialCount(task) : list[PartialOffset[task] + j] = TileBest(task)[j]
ChunksWritten(list) ==
    /\ DOMAIN list = 1..PartialPerGroup /\ list = [i \in 1..PartialPerGroup |-> list[i]]
    /\ \A task \in Tasks : TileWritten(list, task)

\* When all blocks ran, the buffer holds what the tiles hand on.
LEMMA ChunksAreHanded ==
  ASSUME RequestFits, DistancesFit, NEW list, ChunksWritten(list)
  PROVE  ToSet(list) = Handed
<1>1. ToSet(list) = {list[i] : i \in 1..PartialPerGroup} /\ PartialPerGroup \in Nat
  BY OffsetsAre DEF ToSet, ChunksWritten
<1>2. ASSUME NEW i \in 1..PartialPerGroup PROVE list[i] \in Handed
  <2>1. PICK task \in Tasks : PartialOffset[task] < i /\ i <= PartialOffset[task + 1]
    BY OffsetsAre
  <2>2. PartialOffset[task] \in Nat /\ PartialOffset[task + 1] = PartialOffset[task] + PartialCount(task) /\ PartialCount(task) \in Nat
    <3>1. TileCandidates(task) \in Nat /\ PartialCount(task) \in 1..TileCandidates(task)
      BY TileIs, OffsetsAre
    <3> QED BY <3>1, OffsetsAre
  <2> DEFINE j == i - PartialOffset[task]
  <2>3. j \in 1..PartialCount(task) /\ PartialOffset[task] + j = i
    BY <1>1, <2>1, <2>2
  <2> HIDE DEF j
  <2>4. list[i] = TileBest(task)[j]
    BY <2>3 DEF ChunksWritten, TileWritten
  <2> QED BY <2>3, <2>4 DEF Handed, HandedBy
<1>3. ASSUME NEW task \in Tasks, NEW j \in 1..PartialCount(task) PROVE TileBest(task)[j] \in ToSet(list)
  <2>1. list[PartialOffset[task] + j] = TileBest(task)[j]
    BY DEF ChunksWritten, TileWritten
  <2>2. PartialOffset[task] + j \in 1..PartialPerGroup
    <3>1. TileCandidates(task) \in Nat /\ PartialCount(task) \in 1..TileCandidates(task)
      BY TileIs, OffsetsAre
    <3>2. /\ PartialOffset[task] \in Nat /\ PartialOffset[task + 1] = PartialOffset[task] + PartialCount(task)
          /\ PartialOffset[task + 1] <= PartialPerGroup
      BY OffsetsAre
    <3> QED BY <3>1, <3>2, <1>1
  <2> QED BY <1>1, <2>1, <2>2
<1>4. ToSet(list) \subseteq Handed
  BY <1>1, <1>2
<1>5. Handed \subseteq ToSet(list)
  BY <1>3 DEF Handed, HandedBy
<1> QED BY <1>4, <1>5

\* The merge of the tiles' best begins with the best of all.
LEMMA MergeIs ==
  ASSUME RequestFits, DistancesFit, NEW list, ChunksWritten(list)
  PROVE  /\ StartsSorted(SortKeys(list)) /\ SortKeys(list) \in [1..Cardinality(Handed) -> KeyType]
         /\ Cardinality(Handed) \in Nat /\ Cardinality(Handed) >= RetainedStride
<1> DEFINE S == Handed
<1>1. ToSet(list) = S /\ KeySet(S) /\ \A p \in 1..RetainedStride : Sorted[p] \in S /\ Rank(S, Sorted[p]) = p - 1
  BY ChunksAreHanded, HandedIs, NearestAreHanded
<1> HIDE DEF S
<1>2. /\ SortKeys(list) = [p \in 1..Cardinality(S) |-> SortKeys(list)[p]]
      /\ \A p \in 1..Cardinality(S) : SortKeys(list)[p] \in S
      /\ \A a \in S : SortKeys(list)[Rank(S, a) + 1] = a
  BY <1>1, SortKeysIs
<1>3. ASSUME NEW p \in 1..RetainedStride PROVE SortKeys(list)[p] = Sorted[p]
  <2>1. SortKeys(list)[(p - 1) + 1] = Sorted[p]
    BY <1>1, <1>2
  <2>2. (p - 1) + 1 = p
    BY CapsAre, SidesAre
  <2> QED BY <2>1, <2>2
<1>4. SortKeys(list) \in [1..Cardinality(S) -> KeyType]
  BY <1>1, <1>2 DEF KeySet
<1> QED BY <1>3, <1>4, HandedIs DEF S, StartsSorted

\* The tiles together hand on enough for the cap.
LEMMA PartialsSuffice ==
  ASSUME RequestFits, DistancesFit
  PROVE  PartialPerGroup >= RetainedStride
<1> DEFINE owner == [i \in 1..PartialPerGroup |->
                        CHOOSE task \in Tasks : PartialOffset[task] < i /\ i <= PartialOffset[task + 1]]
           list == [i \in 1..PartialPerGroup |-> TileBest(owner[i])[i - PartialOffset[owner[i]]]]
<1>1. PartialPerGroup \in Nat
  BY OffsetsAre
<1>2. \A i \in 1..PartialPerGroup : /\ owner[i] \in Tasks
                                    /\ PartialOffset[owner[i]] < i /\ i <= PartialOffset[owner[i] + 1]
  BY OffsetsAre
<1>3. \A i \in 1..PartialPerGroup : list[i] = TileBest(owner[i])[i - PartialOffset[owner[i]]]
  OBVIOUS
<1>4. DOMAIN list = 1..PartialPerGroup /\ list = [i \in 1..PartialPerGroup |-> list[i]]
  OBVIOUS
<1> HIDE DEF owner, list
<1>5. ASSUME NEW task \in Tasks, NEW j \in 1..PartialCount(task)
      PROVE  list[PartialOffset[task] + j] = TileBest(task)[j]
  <2> DEFINE i == PartialOffset[task] + j
             t == owner[i]
  <2>1. TileCandidates(task) \in Nat /\ PartialCount(task) \in 1..TileCandidates(task)
    BY TileIs, OffsetsAre
  <2>2. /\ PartialOffset[task] \in Nat /\ PartialOffset[task + 1] = PartialOffset[task] + PartialCount(task)
        /\ PartialOffset[task + 1] <= PartialPerGroup
    BY OffsetsAre
  <2>3. i \in 1..PartialPerGroup /\ PartialOffset[task] < i /\ i <= PartialOffset[task + 1] /\ i - PartialOffset[task] = j
    BY <2>1, <2>2, <1>1
  <2>4. t \in Tasks /\ PartialOffset[t] < i /\ i <= PartialOffset[t + 1]
    BY <2>3, <1>2
  <2>5. PartialOffset[t] \in Nat /\ PartialOffset[t + 1] \in Nat
    <3>1. PartialCount(t) \in 1..TileCandidates(t) /\ TileCandidates(t) \in Nat
      BY <2>4, OffsetsAre, TileIs
    <3>2. PartialOffset[t] \in Nat /\ PartialOffset[t + 1] = PartialOffset[t] + PartialCount(t)
      BY <2>4, OffsetsAre
    <3> QED BY <3>1, <3>2
  <2>6. i \in Int /\ PartialOffset[task + 1] \in Int /\ t \in Int /\ task \in Int
    BY <2>1, <2>2, <2>4, LayoutIs DEF Tasks
  <2>7. list[i] = TileBest(t)[i - PartialOffset[t]]
    BY <1>3, <2>3
  <2> HIDE DEF i, t
  <2>8. ~(t < task)
    <3> SUFFICES ASSUME t < task PROVE FALSE
      OBVIOUS
    <3>1. PartialOffset[t + 1] <= PartialOffset[task]
      BY <2>4, OffsetsAre
    <3> QED BY <3>1, <2>2, <2>3, <2>4, <2>5, <2>6
  <2>9. ~(task < t)
    <3> SUFFICES ASSUME task < t PROVE FALSE
      OBVIOUS
    <3>1. PartialOffset[task + 1] <= PartialOffset[t]
      BY <2>4, OffsetsAre
    <3> QED BY <3>1, <2>2, <2>3, <2>4, <2>5, <2>6
  <2>10. t = task
    BY <2>6, <2>8, <2>9
  <2>11. list[i] = TileBest(task)[j]
    BY <2>3, <2>7, <2>10, Zenon
  <2> QED BY <2>11 DEF i
<1>6. ChunksWritten(list)
  BY <1>4, <1>5 DEF ChunksWritten, TileWritten
<1>7. ToSet(list) = Handed
  BY <1>6, ChunksAreHanded
<1>8. list \in Surjection(1..PartialPerGroup, Handed)
  <2>1. Handed = {list[i] : i \in 1..PartialPerGroup}
    BY <1>4, <1>7 DEF ToSet
  <2>2. list \in [1..PartialPerGroup -> Handed]
    BY <2>1, <1>4
  <2> QED BY <2>1, <2>2 DEF Surjection
<1>9. Cardinality(Handed) <= PartialPerGroup
  <2>1. ExistsSurjection(1..PartialPerGroup, Handed)
    BY <1>8 DEF ExistsSurjection
  <2> QED BY <2>1, <1>1, FS_SurjCardinalityBound
<1> QED BY <1>1, <1>9, HandedIs, CapsAre, SidesAre

-----------------------------------------------------------------------------
(* The invariant of the CUDA matcher. *)

\* What the request alone determines does not change.
LEMMA RequestIsFixed ==
  ASSUME UNCHANGED inputs
  PROVE  /\ search' = search /\ anchor' = anchor /\ centers' = centers /\ dist' = dist
         /\ s' = s /\ n' = n /\ K' = K /\ tau' = tau /\ scan' = scan
         /\ RequestFits' = RequestFits /\ DistancesFit' = DistancesFit
         /\ SoftCap' = SoftCap /\ BasisSimilar' = BasisSimilar /\ RetainedStride' = RetainedStride /\ OutputCap' = OutputCap
         /\ \A id : Origin(id)' = Origin(id) /\ Distance(id)' = Distance(id) /\ KeyAt(id)' = KeyAt(id)
<1>1. search' = search /\ anchor' = anchor /\ centers' = centers /\ dist' = dist
  BY DEF inputs
<1>2. s' = s /\ K' = K /\ tau' = tau
  BY <1>1 DEF s, K, tau
<1>3. n' = n /\ scan' = scan
  BY <1>1, <1>2 DEF n, scan
<1>4. RequestFits' = RequestFits /\ DistancesFit' = DistancesFit
  BY <1>1, <1>2, <1>3 DEF RequestFits, DistancesFit
<1>5. SoftCap' = SoftCap /\ BasisSimilar' = BasisSimilar
  BY <1>1, <1>2, <1>3 DEF SoftCap, BasisSimilar
<1>6. RetainedStride' = RetainedStride /\ OutputCap' = OutputCap
  BY <1>1, <1>2, <1>3, <1>5 DEF RetainedStride, OutputCap
<1>7. \A id : Origin(id)' = Origin(id)
  BY <1>1, <1>2 DEF Origin
<1>8. \A id : Distance(id)' = Distance(id)
  BY <1>1, <1>7 DEF Distance
<1>9. \A id : KeyAt(id)' = KeyAt(id)
  BY <1>8 DEF KeyAt
<1> QED BY <1>1, <1>2, <1>3, <1>4, <1>5, <1>6, <1>7, <1>8, <1>9

\* Nor do the tiles change,
LEMMA TilesAreFixed ==
  ASSUME UNCHANGED inputs
  PROVE  /\ Layout' = Layout /\ Tasks' = Tasks
         /\ \A task : /\ TileCandidates(task)' = TileCandidates(task) /\ PartialCount(task)' = PartialCount(task)
                      /\ Tile(task)' = Tile(task) /\ TileKeys(task)' = TileKeys(task) /\ TileBest(task)' = TileBest(task)
         /\ \A task, i : TileId(task, i)' = TileId(task, i)
         /\ PartialOffset' = PartialOffset /\ PartialPerGroup' = PartialPerGroup
         /\ \A list, task : TileWritten(list, task)' = TileWritten(list, task)
<1>1. s' = s /\ anchor' = anchor /\ centers' = centers /\ dist' = dist /\ RetainedStride' = RetainedStride
  BY RequestIsFixed
<1>2. Layout' = Layout
  BY <1>1 DEF Layout
<1>3. Tasks' = Tasks
  BY <1>2 DEF Tasks
<1>4. \A task : Tile(task)' = Tile(task) /\ TileCandidates(task)' = TileCandidates(task)
  BY <1>1, <1>2 DEF Tile, TileCandidates
<1>5. \A task : PartialCount(task)' = PartialCount(task)
  BY <1>1, <1>4 DEF PartialCount
<1>6. \A slot, x, y : CandidateDistance(slot, x, y)' = CandidateDistance(slot, x, y)
  BY <1>1 DEF CandidateDistance
<1>7. \A task : TileKeys(task)' = TileKeys(task)
  BY <1>1, <1>2, <1>6 DEF TileKeys
<1>8. \A task : TileBest(task)' = TileBest(task)
  BY <1>7 DEF TileBest
<1>9. \A task, i : TileId(task, i)' = TileId(task, i)
  BY <1>1, <1>4 DEF TileId, TileColumn, TileRow, IdAt
<1>10. PartialOffset' = PartialOffset
  BY <1>2, <1>5 DEF PartialOffset
<1>11. PartialPerGroup' = PartialPerGroup
  BY <1>2, <1>10 DEF PartialPerGroup
<1>12. \A list, task : TileWritten(list, task)' = TileWritten(list, task)
  BY <1>5, <1>8, <1>10 DEF TileWritten
<1> QED BY <1>2, <1>3, <1>4, <1>5, <1>7, <1>8, <1>9, <1>10, <1>11, <1>12

\* nor the group to find.
LEMMA BestIsFixed ==
  ASSUME UNCHANGED inputs
  PROVE  /\ FusedKeys' = FusedKeys /\ Sorted' = Sorted /\ Thr' = Thr /\ BestSize' = BestSize
         /\ BestGroup' = BestGroup /\ Best' = Best
         /\ \A list : StartsSorted(list)' = StartsSorted(list)
<1>1. /\ s' = s /\ n' = n /\ anchor' = anchor /\ centers' = centers /\ dist' = dist /\ RetainedStride' = RetainedStride
      /\ BasisSimilar' = BasisSimilar /\ tau' = tau /\ scan' = scan /\ \A id : Origin(id)' = Origin(id)
  BY RequestIsFixed
<1>2. \A slot, x, y : CandidateDistance(slot, x, y)' = CandidateDistance(slot, x, y)
  BY <1>1 DEF CandidateDistance
<1>3. FusedKeys' = FusedKeys
  BY <1>1, <1>2 DEF FusedKeys
<1>4. Sorted' = Sorted
  BY <1>3 DEF Sorted
<1>5. Thr' = Thr
  BY <1>1, <1>4 DEF Thr
<1>6. BestSize' = BestSize
  BY <1>1, <1>4, <1>5 DEF BestSize
<1>7. BestGroup' = BestGroup
  BY <1>1, <1>4, <1>6 DEF BestGroup
<1>8. \A list : Threshold(list)' = Threshold(list)
  BY <1>1 DEF Threshold
<1>9. Best' = Best
  BY <1>1, <1>8 DEF Best
<1>10. \A list : StartsSorted(list)' = StartsSorted(list)
  BY <1>1, <1>4 DEF StartsSorted
<1> QED BY <1>3, <1>4, <1>5, <1>6, <1>7, <1>9, <1>10

Phases == {"scan", "reserve", "match", "gather", "done"}
Strategies == {"none", "fused", "chunked", "fullsort"}

\* Blocks that ran have written their tile's part.
ChunksHold ==
    /\ DOMAIN keys = 1..PartialPerGroup /\ keys = [i \in 1..PartialPerGroup |-> keys[i]]
    /\ \A task \in tasks : \A j \in 1..PartialCount(task) : keys[PartialOffset[task] + j] = TileBest(task)[j]
DistancesHold ==
    /\ DOMAIN keys = 1..n /\ keys = [i \in 1..n |-> keys[i]]
    /\ \A task \in tasks : \A j \in 1..TileCandidates(task) : keys[TileId(task, j) + 1] = KeyAt(TileId(task, j))
\* What the sort leaves begins with the nearest.
SelectedHold ==
    \E m \in Nat : /\ m >= RetainedStride /\ selected \in [1..m -> KeyType]
                   /\ \A i \in 1..RetainedStride : selected[i] = Sorted[i]

\* The request stays as it was made; what blocks that ran have written is right; and
\* the group that is found is the one to find.
CudaInv ==
    /\ RequestFits /\ DistancesFit
    /\ phase \in Phases /\ strategy \in Strategies /\ tasks \subseteq Tasks
    /\ phase \in {"scan", "reserve"} => tasks = {}
    /\ phase = "match" => strategy # "none"
    /\ phase = "match" /\ strategy = "chunked" => ChunksHold
    /\ phase = "match" /\ strategy = "fullsort" => DistancesHold
    /\ phase = "gather" => strategy \in {"chunked", "fullsort"} /\ SelectedHold
    /\ phase = "done" /\ strategy = "none" => search.strategy # "auto"
    /\ phase = "done" /\ strategy # "none" =>
          cudaGroup = IF SinglePath THEN <<anchor>> ELSE BestGroup

\* The CUDA matcher's invariant holds at first, and each action keeps it.
LEMMA CudaInit ==
  ASSUME MatchInit
  PROVE  CudaInv /\ phase = "scan"
<1>1. /\ search \in Searches /\ anchor \in AnchorChoices /\ anchor.x < s.xs /\ anchor.y < s.ys
      /\ anchor.frame < ValidAnchorFrames(s)
  BY DEF MatchInit
<1>2. anchor \in [x : Nat, y : Nat, frame : Nat] /\ s.xs \in Nat \ {0} /\ s.ys \in Nat \ {0} /\ search.distances \subseteq 0..(Unlimited - 1)
  BY <1>1, SearchesAssumption DEF s
<1>3. PICK d \in Shifts : centers = [f \in 0..(s.frames - 1) |->
              IF f = anchor.frame THEN [x |-> anchor.x, y |-> anchor.y]
              ELSE [x |-> Clamp(anchor.x + d, 0, s.xs - 1), y |-> Clamp(anchor.y + d, 0, s.ys - 1)]]
  BY DEF MatchInit
<1>4. d \in Int
  BY SearchesAssumption
<1>5. /\ anchor.x \in 0..(s.xs - 1) /\ anchor.y \in 0..(s.ys - 1)
      /\ Clamp(anchor.x + d, 0, s.xs - 1) \in 0..(s.xs - 1)
      /\ Clamp(anchor.y + d, 0, s.ys - 1) \in 0..(s.ys - 1)
  BY <1>1, <1>2, <1>4 DEF Clamp, Least, Greatest
<1>6. centers \in [0..(s.frames - 1) -> [x : 0..(s.xs - 1), y : 0..(s.ys - 1)]]
  <2> DEFINE X == 0..(s.xs - 1)
             Y == 0..(s.ys - 1)
             cx == Clamp(anchor.x + d, 0, s.xs - 1)
             cy == Clamp(anchor.y + d, 0, s.ys - 1)
  <2>1. anchor.x \in X /\ anchor.y \in Y /\ cx \in X /\ cy \in Y
    BY <1>5
  <2>2. centers = [f \in 0..(s.frames - 1) |->
              IF f = anchor.frame THEN [x |-> anchor.x, y |-> anchor.y] ELSE [x |-> cx, y |-> cy]]
    BY <1>3
  <2> HIDE DEF cx, cy, X, Y
  <2>3. centers \in [0..(s.frames - 1) -> [x : X, y : Y]]
    BY <2>1, <2>2
  <2> QED BY <2>3 DEF X, Y
<1>7. RequestFits
  BY <1>1, <1>2, <1>6 DEF RequestFits
<1>8. DistancesFit
  <2>1. dist \in [ToSet(scan) -> search.distances]
    BY DEF MatchInit
  <2> QED BY <2>1, <1>2 DEF DistancesFit
<1>9. phase = "scan" /\ strategy = "none" /\ tasks = {}
  BY DEF MatchInit
<1> QED BY <1>7, <1>8, <1>9 DEF CudaInv, Phases, Strategies

LEMMA CpuKeepsCuda ==
  ASSUME CudaInv, CpuTakesAnchor \/ ScanCandidate \/ CpuSelect
  PROVE  CudaInv'
<1>1. UNCHANGED inputs /\ UNCHANGED cudaVars /\ phase = "scan" /\ phase' \in {"scan", "reserve"}
  BY DEF CpuTakesAnchor, ScanCandidate, CpuSelect
<1>2. strategy' = strategy /\ tasks' = tasks /\ tasks = {} /\ strategy \in Strategies
  BY <1>1 DEF cudaVars, CudaInv
<1>3. RequestFits' /\ DistancesFit'
  BY <1>1, RequestIsFixed DEF CudaInv
<1> QED BY <1>1, <1>2, <1>3 DEF CudaInv, Phases

\* The automatic choice is never refused.
LEMMA AutoIsReserved ==
  ASSUME RequestFits, DistancesFit, search.strategy = "auto"
  PROVE  ~Refused
<1>1. /\ ShapeFits(s) /\ ValidParameters(s) /\ K \in Nat \ {0} /\ RetainedStride \in 1..n
      /\ BasisSimilar \in 1..RetainedStride /\ n \in Nat
  BY ShapeIs, CapsAre, SidesAre
<1>2. ValidShape
  <2>1. s.window % 2 = 1 /\ s.pt <= s.frames
    BY <1>1 DEF ShapeFits, ValidParameters
  <2> QED BY <2>1, <1>1 DEF ValidShape
<1>3. ~(PartialPerGroup < RetainedStride)
  <2>1. PartialPerGroup \in Nat
    BY OffsetsAre
  <2> QED BY <2>1, <1>1, PartialsSuffice
<1>4. Preferred = IF n <= TileCapacity THEN "fused"
                  ELSE IF ChunkFeasible /\ AutoChunkGeometry THEN "chunked" ELSE "fullsort"
  BY DEF Preferred
<1>5. TileCapacity \in Nat
  BY ShapeIs
<1> QED BY <1>1, <1>2, <1>3, <1>4, <1>5 DEF Refused

\* A reservation chooses a strategy or refuses.
LEMMA ReserveChooses ==
  ASSUME RequestFits, DistancesFit, Reserve
  PROVE  strategy' \in Strategies /\ (strategy' = "none" => search.strategy # "auto")
<1>1. search.strategy \in {"auto", "fused", "chunked", "fullsort"}
  BY ShapeIs
<1>2. Preferred \in {"fused", "chunked", "fullsort"}
  BY <1>1 DEF Preferred
<1>3. Configured \in Strategies /\ (Configured = "none" => search.strategy # "auto")
  <2>1. CASE Fits(Preferred)
    BY <2>1, <1>2 DEF Configured, Strategies
  <2>2. CASE ~Fits(Preferred) /\ search.strategy # "auto"
    BY <2>2 DEF Configured, Strategies
  <2>3. CASE ~Fits(Preferred) /\ search.strategy = "auto"
    <3>1. Configured = IF Preferred = "fused" /\ ChunkFeasible /\ Fits("chunked") THEN "chunked" ELSE "fullsort"
      BY <2>3 DEF Configured
    <3> QED BY <3>1 DEF Strategies
  <2> QED BY <2>1, <2>2, <2>3
<1>4. strategy' = IF ReservesSingle THEN "fused" ELSE IF Refused THEN "none" ELSE Configured
  BY DEF Reserve
<1>5. search.strategy = "auto" => ~Refused
  BY AutoIsReserved
<1> QED BY <1>3, <1>4, <1>5 DEF Strategies

LEMMA ReserveKeepsCuda ==
  ASSUME CudaInv, Reserve
  PROVE  CudaInv'
<1>1. /\ UNCHANGED inputs /\ tasks' = tasks /\ tasks = {} /\ search' = search
      /\ phase' = IF strategy' = "none" THEN "done" ELSE "match"
      /\ keys' = IF strategy' \in {"chunked", "fullsort"} THEN Workspace(strategy') ELSE <<>>
  BY DEF Reserve, CudaInv, inputs
<1>2. strategy' \in Strategies /\ (strategy' = "none" => search.strategy # "auto")
  BY ReserveChooses DEF CudaInv
<1>3. RequestFits' /\ DistancesFit'
  BY <1>1, RequestIsFixed DEF CudaInv
<1>4. strategy' = "chunked" => ChunksHold'
  <2> SUFFICES ASSUME strategy' = "chunked" PROVE ChunksHold'
    OBVIOUS
  <2>1. keys' = [i \in 1..PartialPerGroup |-> Junk]
    BY <1>1 DEF Workspace
  <2>2. PartialPerGroup' = PartialPerGroup
    BY <1>1, TilesAreFixed
  <2>3. DOMAIN keys' = 1..PartialPerGroup' /\ keys' = [i \in 1..PartialPerGroup' |-> keys'[i]]
    BY <2>1, <2>2
  <2> QED BY <2>3, <1>1 DEF ChunksHold
<1>5. strategy' = "fullsort" => DistancesHold'
  <2> SUFFICES ASSUME strategy' = "fullsort" PROVE DistancesHold'
    OBVIOUS
  <2>1. keys' = [i \in 1..n |-> Junk]
    BY <1>1 DEF Workspace
  <2>2. n' = n
    BY <1>1, RequestIsFixed
  <2>3. DOMAIN keys' = 1..n' /\ keys' = [i \in 1..n' |-> keys'[i]]
    BY <2>1, <2>2
  <2> QED BY <2>3, <1>1 DEF DistancesHold
<1>6. tasks' \subseteq Tasks' /\ phase' \in {"done", "match"}
  BY <1>1
<1> QED BY <1>1, <1>2, <1>3, <1>4, <1>5, <1>6 DEF CudaInv, Phases

LEMMA FusedKeepsCuda ==
  ASSUME CudaInv, SingleMatchGather \/ MatchSelectGather
  PROVE  CudaInv'
<1>1. /\ UNCHANGED inputs /\ tasks' = tasks /\ tasks \subseteq Tasks /\ strategy' = strategy /\ strategy = "fused"
      /\ phase' = "done" /\ RequestFits /\ DistancesFit
  BY DEF SingleMatchGather, MatchSelectGather, CudaInv, SinglePath
<1>2. RequestFits' /\ DistancesFit' /\ tasks' \subseteq Tasks'
  BY <1>1, RequestIsFixed, TilesAreFixed
<1>3. SinglePath' = SinglePath /\ anchor' = anchor /\ BestGroup' = BestGroup
  BY <1>1, RequestIsFixed, BestIsFixed DEF SinglePath
<1>4. cudaGroup' = IF SinglePath THEN <<anchor>> ELSE BestGroup
  <2>1. CASE SingleMatchGather
    BY <2>1 DEF SingleMatchGather
  <2>2. CASE MatchSelectGather
    <3> DEFINE list == SubSeq(Sorted, 1, RetainedStride)
               count == IF RetainedStride <= BallotStride THEN BallotCount(list) ELSE LoopCount(list)
    <3>1. cudaGroup' = Gathered(SubSeq(list, 1, count)) /\ ~SinglePath
      BY <2>2 DEF MatchSelectGather, Sorted
    <3>2. n \in Nat /\ n >= RetainedStride /\ RetainedStride \in Nat
      BY <1>1, CapsAre, SidesAre
    <3>3. Sorted \in [1..n -> KeyType] /\ StartsSorted(Sorted)
      BY <1>1, SortedIs DEF StartsSorted
    <3>4. list \in [1..RetainedStride -> KeyType] /\ StartsSorted(list)
      BY <1>1, <3>2, <3>3, GatheredIs
    <3> HIDE DEF list
    <3>5. count = BestSize
      BY <1>1, <3>4, CountsAre
    <3> HIDE DEF count
    <3>6. Gathered(SubSeq(list, 1, BestSize)) = BestGroup
      <4>1. RetainedStride >= RetainedStride
        BY <3>2
      <4> QED BY <1>1, <3>2, <3>4, <4>1, GatheredIs
    <3> QED BY <3>1, <3>5, <3>6
  <2> QED BY <2>1, <2>2
<1>5. cudaGroup' = IF SinglePath' THEN <<anchor'>> ELSE BestGroup'
  BY <1>3, <1>4
<1> QED BY <1>1, <1>2, <1>5 DEF CudaInv, Phases, Strategies

LEMMA ChunkKeepsCuda ==
  ASSUME CudaInv, NEW task \in Tasks, ChunkMatchSelect(task)
  PROVE  CudaInv'
<1>1. /\ UNCHANGED inputs /\ tasks' = tasks \cup {task} /\ task \notin tasks /\ strategy' = strategy /\ strategy = "chunked"
      /\ phase' = "match" /\ phase = "match" /\ RequestFits /\ DistancesFit /\ tasks \subseteq Tasks /\ ChunksHold
      /\ keys' = [i \in DOMAIN keys |-> IF PartialOffset[task] < i /\ i <= PartialOffset[task + 1]
                                        THEN TileBest(task)[i - PartialOffset[task]] ELSE keys[i]]
  BY DEF ChunkMatchSelect, CudaInv, TileBest
<1>2. RequestFits' /\ DistancesFit' /\ tasks' \subseteq Tasks'
  BY <1>1, RequestIsFixed, TilesAreFixed
<1>3. DOMAIN keys = 1..PartialPerGroup
  BY <1>1 DEF ChunksHold
<1>4. DOMAIN keys' = 1..PartialPerGroup /\ keys' = [i \in 1..PartialPerGroup |-> keys'[i]]
  BY <1>1, <1>3
<1>5. ASSUME NEW t \in tasks', NEW j \in 1..PartialCount(t)
      PROVE  keys'[PartialOffset[t] + j] = TileBest(t)[j]
  <2> DEFINE i == PartialOffset[t] + j
  <2>1. t \in Tasks
    BY <1>1
  <2>2. TileCandidates(t) \in Nat /\ PartialCount(t) \in 1..TileCandidates(t)
    BY <2>1, <1>1, TileIs, OffsetsAre
  <2>3. /\ PartialOffset[t] \in Nat /\ PartialOffset[t + 1] = PartialOffset[t] + PartialCount(t)
        /\ PartialOffset[t + 1] <= PartialPerGroup /\ PartialPerGroup \in Nat
    BY <2>1, <1>1, OffsetsAre
  <2>4. i \in 1..PartialPerGroup /\ PartialOffset[t] < i /\ i <= PartialOffset[t + 1] /\ i - PartialOffset[t] = j
    BY <2>2, <2>3
  <2>5. i \in Int /\ PartialOffset[t + 1] \in Int
    BY <2>2, <2>3, <2>4
  <2> HIDE DEF i
  <2>6. keys'[i] = IF PartialOffset[task] < i /\ i <= PartialOffset[task + 1]
                   THEN TileBest(task)[i - PartialOffset[task]] ELSE keys[i]
    BY <1>1, <1>3, <2>4
  <2>7. CASE t = task
    BY <2>4, <2>6, <2>7 DEF i
  <2>8. CASE t # task
    <3>1. t \in tasks
      BY <1>1, <2>8
    <3>2. /\ PartialOffset[task] \in Nat /\ PartialOffset[task + 1] = PartialOffset[task] + PartialCount(task)
          /\ PartialCount(task) \in Nat
      <4>1. TileCandidates(task) \in Nat /\ PartialCount(task) \in 1..TileCandidates(task)
        BY <1>1, TileIs, OffsetsAre
      <4> QED BY <4>1, <1>1, OffsetsAre
    <3>3. t \in Int /\ task \in Int
      BY <2>1, <1>1, LayoutIs DEF Tasks
    <3>4. t < task => PartialOffset[t + 1] <= PartialOffset[task]
      BY <2>1, <1>1, OffsetsAre
    <3>5. task < t => PartialOffset[task + 1] <= PartialOffset[t]
      BY <2>1, <1>1, OffsetsAre
    <3>6. ~(PartialOffset[task] < i /\ i <= PartialOffset[task + 1])
      BY <2>3, <2>4, <2>5, <2>8, <3>2, <3>3, <3>4, <3>5
    <3>7. keys'[i] = keys[i]
      BY <2>6, <3>6
    <3>8. keys[i] = TileBest(t)[j]
      BY <1>1, <3>1 DEF ChunksHold, i
    <3> QED BY <3>7, <3>8 DEF i
  <2> QED BY <2>7, <2>8
<1>6. ChunksHold'
  <2>1. /\ PartialPerGroup' = PartialPerGroup /\ PartialOffset' = PartialOffset
        /\ \A t : PartialCount(t)' = PartialCount(t) /\ TileBest(t)' = TileBest(t)
    BY <1>1, TilesAreFixed
  <2>2. \A t \in tasks' : \A j \in 1..(PartialCount(t)') : keys'[PartialOffset'[t] + j] = (TileBest(t)')[j]
    BY <1>5, <2>1
  <2> QED BY <1>4, <2>1, <2>2 DEF ChunksHold
<1> QED BY <1>1, <1>2, <1>6 DEF CudaInv, Phases, Strategies

LEMMA DistanceKeepsCuda ==
  ASSUME CudaInv, NEW task \in Tasks, MatchDistance(task)
  PROVE  CudaInv'
<1> DEFINE computed == ToSet(TileKeys(task))
<1>1. /\ UNCHANGED inputs /\ tasks' = tasks \cup {task} /\ strategy' = strategy /\ strategy = "fullsort"
      /\ phase' = "match" /\ phase = "match" /\ RequestFits /\ DistancesFit /\ tasks \subseteq Tasks /\ DistancesHold
      /\ keys' = [i \in DOMAIN keys |-> IF \E k \in computed : k.id + 1 = i
                                        THEN CHOOSE k \in computed : k.id + 1 = i ELSE keys[i]]
  BY DEF MatchDistance, CudaInv
<1>2. RequestFits' /\ DistancesFit' /\ tasks' \subseteq Tasks'
  BY <1>1, RequestIsFixed, TilesAreFixed
<1>3. DOMAIN keys = 1..n /\ n \in Nat
  BY <1>1, SidesAre DEF DistancesHold
<1>4. DOMAIN keys' = 1..n /\ keys' = [i \in 1..n |-> keys'[i]]
  BY <1>1, <1>3
<1>5. /\ computed = {KeyAt(TileId(task, i)) : i \in 1..TileCandidates(task)} /\ computed \subseteq AllKeys
  BY <1>1, TileSetIs DEF TileSet
<1> HIDE DEF computed
<1>6. ASSUME NEW id \in 0..(n - 1)
      PROVE  /\ keys'[id + 1] = KeyAt(id) \/ keys'[id + 1] = keys[id + 1]
             /\ KeyAt(id) \in computed => keys'[id + 1] = KeyAt(id)
  <2>1. id + 1 \in 1..n
    BY <1>3
  <2>2. keys'[id + 1] = IF \E k \in computed : k.id + 1 = id + 1
                        THEN CHOOSE k \in computed : k.id + 1 = id + 1 ELSE keys[id + 1]
    BY <1>1, <1>3, <2>1
  <2>3. \A k \in computed : k.id + 1 = id + 1 => k = KeyAt(id)
    <3> SUFFICES ASSUME NEW k \in computed, k.id + 1 = id + 1 PROVE k = KeyAt(id)
      OBVIOUS
    <3>1. k.id \in 0..(n - 1) /\ k = KeyAt(k.id)
      BY <1>1, <1>5, KeysAre
    <3>2. k.id = id
      BY <3>1, <1>3
    <3> QED BY <3>1, <3>2
  <2>4. KeyAt(id).id = id
    BY DEF KeyAt
  <2>5. CASE \E k \in computed : k.id + 1 = id + 1
    BY <2>2, <2>3, <2>5
  <2>6. CASE ~ \E k \in computed : k.id + 1 = id + 1
    BY <2>2, <2>4, <2>6
  <2> QED BY <2>5, <2>6
<1>7. ASSUME NEW t \in tasks', NEW j \in 1..TileCandidates(t)
      PROVE  keys'[TileId(t, j) + 1] = KeyAt(TileId(t, j))
  <2>1. t \in Tasks
    BY <1>1
  <2>2. TileId(t, j) \in 0..(n - 1)
    BY <2>1, <1>1, TileKeysAre
  <2>3. CASE t = task
    BY <2>2, <2>3, <1>5, <1>6
  <2>4. CASE t # task
    <3>1. keys[TileId(t, j) + 1] = KeyAt(TileId(t, j))
      BY <1>1, <2>4 DEF DistancesHold
    <3> QED BY <3>1, <2>2, <1>6
  <2> QED BY <2>3, <2>4
<1>8. DistancesHold'
  <2>1. /\ n' = n /\ \A id : KeyAt(id)' = KeyAt(id)
    BY <1>1, RequestIsFixed
  <2>2. (\A t : TileCandidates(t)' = TileCandidates(t)) /\ \A t, i : TileId(t, i)' = TileId(t, i)
    BY <1>1, TilesAreFixed
  <2>3. \A t, i : KeyAt(TileId(t, i))' = KeyAt(TileId(t, i))
    <3>1. dist' = dist /\ s' = s /\ anchor' = anchor /\ centers' = centers
      BY <1>1, RequestIsFixed
    <3> QED BY <2>2, <3>1 DEF KeyAt, Distance, Origin
  <2>4. \A t \in tasks' : \A j \in 1..(TileCandidates(t)') : keys'[(TileId(t, j)') + 1] = KeyAt(TileId(t, j))'
    BY <1>7, <2>2, <2>3
  <2> QED BY <1>4, <2>1, <2>4 DEF DistancesHold
<1> QED BY <1>1, <1>2, <1>8 DEF CudaInv, Phases, Strategies

LEMMA SortKeepsCuda ==
  ASSUME CudaInv, SortAll
  PROVE  CudaInv'
<1> DEFINE list == SortKeys(keys)
<1>1. /\ UNCHANGED inputs /\ tasks' = tasks /\ strategy' = strategy /\ strategy \in {"chunked", "fullsort"}
      /\ phase' = "gather" /\ RequestFits /\ DistancesFit /\ tasks = Tasks
      /\ selected' = IF strategy = "chunked" THEN SubSeq(list, 1, RetainedStride) ELSE list
      /\ strategy = "chunked" => ChunksHold
      /\ strategy = "fullsort" => DistancesHold
  BY DEF SortAll, CudaInv
<1>2. RequestFits' /\ DistancesFit' /\ tasks' \subseteq Tasks'
  BY <1>1, RequestIsFixed, TilesAreFixed
<1>3. n \in Nat /\ n >= RetainedStride /\ RetainedStride \in Nat
  BY <1>1, CapsAre, SidesAre
<1>4. \E m \in Nat : m >= RetainedStride /\ selected' \in [1..m -> KeyType] /\ \A i \in 1..RetainedStride : selected'[i] = Sorted[i]
  <2>1. CASE strategy = "chunked"
    <3>1. ChunksWritten(keys)
      BY <1>1, <2>1 DEF ChunksHold, ChunksWritten, TileWritten
    <3>2. /\ StartsSorted(list) /\ list \in [1..Cardinality(Handed) -> KeyType]
          /\ Cardinality(Handed) \in Nat /\ Cardinality(Handed) >= RetainedStride
      BY <1>1, <3>1, MergeIs
    <3> HIDE DEF list
    <3>3. /\ SubSeq(list, 1, RetainedStride) \in [1..RetainedStride -> KeyType]
          /\ StartsSorted(SubSeq(list, 1, RetainedStride))
      BY <1>1, <3>2, GatheredIs
    <3>4. selected' = SubSeq(list, 1, RetainedStride)
      BY <1>1, <2>1
    <3>5. RetainedStride >= RetainedStride
      BY <1>3
    <3> QED BY <1>3, <3>3, <3>4, <3>5 DEF StartsSorted
  <2>2. CASE strategy = "fullsort"
    <3>1. DistancesHold
      BY <1>1, <2>2
    <3>2. ASSUME NEW id \in 0..(n - 1) PROVE keys[id + 1] = KeyAt(id)
      <4>1. PICK t \in Tasks : \E i \in 1..TileCandidates(t) : TileId(t, i) = id
        BY <1>1, TilesCover
      <4> QED BY <1>1, <3>1, <4>1 DEF DistancesHold
    <3>3. keys = FusedKeys
      <4>1. \A i \in 1..n : keys[i] = KeyAt(i - 1)
        <5> SUFFICES ASSUME NEW i \in 1..n PROVE keys[i] = KeyAt(i - 1)
          OBVIOUS
        <5>1. i - 1 \in 0..(n - 1) /\ (i - 1) + 1 = i
          BY <1>3
        <5>2. keys[(i - 1) + 1] = KeyAt(i - 1)
          BY <3>2, <5>1
        <5> QED BY <5>1, <5>2
      <4>2. FusedKeys = [i \in 1..n |-> KeyAt(i - 1)]
        BY <1>1, FusedKeysAre
      <4>3. keys = [i \in 1..n |-> keys[i]]
        BY <3>1 DEF DistancesHold
      <4> QED BY <4>1, <4>2, <4>3
    <3>4. selected' = Sorted
      BY <1>1, <2>2, <3>3 DEF Sorted
    <3>5. Sorted \in [1..n -> KeyType]
      BY <1>1, SortedIs
    <3> QED BY <1>3, <3>4, <3>5
  <2> QED BY <1>1, <2>1, <2>2
<1>5. SelectedHold'
  <2>1. RetainedStride' = RetainedStride /\ Sorted' = Sorted
    BY <1>1, RequestIsFixed, BestIsFixed
  <2> QED BY <1>4, <2>1 DEF SelectedHold
<1> QED BY <1>1, <1>2, <1>5 DEF CudaInv, Phases, Strategies

LEMMA GatherKeepsCuda ==
  ASSUME CudaInv, SelectedGather
  PROVE  CudaInv'
<1>1. /\ UNCHANGED inputs /\ tasks' = tasks /\ tasks \subseteq Tasks /\ strategy' = strategy /\ strategy \in {"chunked", "fullsort"}
      /\ phase' = "done" /\ RequestFits /\ DistancesFit /\ SelectedHold
      /\ cudaGroup' = Gathered(SubSeq(selected, 1, LoopCount(selected)))
  BY DEF SelectedGather, CudaInv
<1>2. RequestFits' /\ DistancesFit' /\ tasks' \subseteq Tasks'
  BY <1>1, RequestIsFixed, TilesAreFixed
<1>3. PICK m \in Nat : /\ m >= RetainedStride /\ selected \in [1..m -> KeyType]
                       /\ \A i \in 1..RetainedStride : selected[i] = Sorted[i]
  BY <1>1 DEF SelectedHold
<1>4. StartsSorted(selected)
  BY <1>3 DEF StartsSorted
<1>5. LoopCount(selected) = BestSize
  BY <1>1, <1>4, CountsAre
<1>6. cudaGroup' = BestGroup
  BY <1>1, <1>3, <1>4, <1>5, GatheredIs
<1>7. BestGroup' = BestGroup
  BY <1>1, BestIsFixed
<1>8. ~(SinglePath')
  BY <1>1 DEF SinglePath
<1> QED BY <1>1, <1>2, <1>6, <1>7, <1>8 DEF CudaInv, Phases, Strategies

LEMMA StutterKeepsCuda ==
  ASSUME CudaInv, UNCHANGED matchVars
  PROVE  CudaInv'
<1>1. UNCHANGED inputs /\ UNCHANGED <<strategy, tasks, keys, selected, cudaGroup, phase>> /\ search' = search /\ anchor' = anchor
  BY DEF matchVars, cudaVars, inputs
<1>2. /\ RequestFits' = RequestFits /\ DistancesFit' = DistancesFit /\ n' = n /\ RetainedStride' = RetainedStride
      /\ K' = K /\ tau' = tau /\ dist' = dist /\ s' = s /\ anchor' = anchor /\ centers' = centers
  BY <1>1, RequestIsFixed
<1>3. /\ Tasks' = Tasks /\ PartialOffset' = PartialOffset /\ PartialPerGroup' = PartialPerGroup
      /\ \A t : PartialCount(t)' = PartialCount(t) /\ TileBest(t)' = TileBest(t) /\ TileCandidates(t)' = TileCandidates(t)
      /\ \A t, i : TileId(t, i)' = TileId(t, i)
  BY <1>1, TilesAreFixed
<1>4. \A t, i : KeyAt(TileId(t, i))' = KeyAt(TileId(t, i))
  BY <1>2, <1>3 DEF KeyAt, Distance, Origin
<1>5. Sorted' = Sorted /\ BestGroup' = BestGroup
  BY <1>1, BestIsFixed
<1>6. SinglePath' = SinglePath
  BY <1>1, <1>2 DEF SinglePath
<1>7. ChunksHold' = ChunksHold
  BY <1>1, <1>3 DEF ChunksHold
<1>8. DistancesHold' = DistancesHold
  BY <1>1, <1>2, <1>3, <1>4 DEF DistancesHold
<1>9. SelectedHold' = SelectedHold
  BY <1>1, <1>2, <1>5 DEF SelectedHold
<1> QED BY <1>1, <1>2, <1>3, <1>5, <1>6, <1>7, <1>8, <1>9 DEF CudaInv

LEMMA CudaNext ==
  ASSUME CudaInv, [MatchNext]_matchVars
  PROVE  CudaInv'
<1>1. CASE CpuTakesAnchor \/ ScanCandidate \/ CpuSelect
  BY <1>1, CpuKeepsCuda
<1>2. CASE Reserve
  BY <1>2, ReserveKeepsCuda
<1>3. CASE SingleMatchGather \/ MatchSelectGather
  BY <1>3, FusedKeepsCuda
<1>4. CASE \E task \in Tasks : ChunkMatchSelect(task) \/ MatchDistance(task)
  BY <1>4, ChunkKeepsCuda, DistanceKeepsCuda
<1>5. CASE SortAll
  BY <1>5, SortKeepsCuda
<1>6. CASE SelectedGather
  BY <1>6, GatherKeepsCuda
<1>7. CASE SearchOver \/ UNCHANGED matchVars
  BY <1>7, StutterKeepsCuda DEF SearchOver
<1> QED BY <1>1, <1>2, <1>3, <1>4, <1>5, <1>6, <1>7 DEF MatchNext

\* So it always holds.
LEMMA CudaAlways == MatchSpec => []CudaInv
<1>1. MatchInit => CudaInv
  BY CudaInit
<1>2. CudaInv /\ [MatchNext]_matchVars => CudaInv'
  BY CudaNext
<1> QED BY <1>1, <1>2, PTL DEF MatchSpec

\* CandidatesFollowTheScan: for every shape, anchor and displacement of the
\* centers, the numbers that the kernels decode list the CPU's walk, in its order, no candidate twice or missing.
THEOREM CandidatesAreTheWalk == MatchSpec => []CandidatesFollowTheScan
<1>1. CudaInv => CandidatesFollowTheScan
  BY CandidatesAreTheScan DEF CudaInv
<1> QED BY <1>1, CudaAlways, PTL

\* CudaFindsBestGroup: whatever the strategy that the shape and the device lead to,
\* and in whatever order the blocks run, the matcher finds the group of the nearest
\* keys; and the automatic choice is never refused.
THEOREM CudaFindsTheBest == MatchSpec => []CudaFindsBestGroup
<1>1. CudaInv => CudaFindsBestGroup
  <2> SUFFICES ASSUME CudaInv PROVE CudaFindsBestGroup
    OBVIOUS
  <2>1. Best = BestGroup
    BY BestIs DEF CudaInv
  <2> QED BY <2>1 DEF CudaInv, CudaFindsBestGroup, Matched
<1> QED BY <1>1, CudaAlways, PTL

-----------------------------------------------------------------------------
(* The list and the heap of the CPU. *)

\* In a list in order, the entries up to a value come first.
InSequence(m, list) ==
    /\ m \in Nat /\ list \in [1..m -> Int]
    /\ \A i, j \in 1..m : i <= j => list[i] <= list[j]

\* In a list in order, the numbers up to a value come first.
LEMMA AtMostIs ==
  ASSUME NEW m, NEW list, InSequence(m, list), NEW v \in Int
  PROVE  AtMost(list, v) \in 0..m /\ \A p \in 1..m : list[p] <= v <=> p <= AtMost(list, v)
<1> DEFINE T == {i \in 1..m : list[i] <= v}
<1>1. m \in Nat /\ list \in [1..m -> Int] /\ DOMAIN list = 1..m /\ \A i, j \in 1..m : i <= j => list[i] <= list[j]
  BY DEF InSequence
<1>2. AtMost(list, v) = Cardinality(T)
  BY <1>1 DEF AtMost
<1>3. \A i \in T, j \in 1..m : j <= i => j \in T
  <2> SUFFICES ASSUME NEW i \in T, NEW j \in 1..m, j <= i PROVE list[j] <= v
    OBVIOUS
  <2>1. list[j] <= list[i] /\ list[i] <= v /\ list[j] \in Int /\ list[i] \in Int
    BY <1>1
  <2> QED BY <2>1
<1>4. Cardinality(T) \in 0..m /\ T = 1..Cardinality(T)
  <2>1. T \subseteq 1..m
    OBVIOUS
  <2> HIDE DEF T
  <2> QED BY <2>1, <1>1, <1>3, InitialPlaces
<1>5. \A p \in 1..m : p \in T <=> p <= Cardinality(T)
  <2> HIDE DEF T
  <2> QED BY <1>4, <1>1
<1> QED BY <1>2, <1>4, <1>5

\* One more entry.
LEMMA AtMostAppend ==
  ASSUME NEW m \in Nat, NEW list \in [1..m -> Int], NEW d \in Int
  PROVE  /\ Append(list, d) \in [1..(m + 1) -> Int]
         /\ \A v \in Int : /\ AtMost(list, v) \in Nat
                           /\ AtMost(Append(list, d), v) = AtMost(list, v) + IF d <= v THEN 1 ELSE 0
<1>1. list \in Seq(Int) /\ Len(list) = m
  OBVIOUS
<1> DEFINE longer == Append(list, d)
<1>2. longer = [i \in 1..(m + 1) |-> IF i = m + 1 THEN d ELSE list[i]]
  <2>1. longer \in Seq(Int) /\ Len(longer) = m + 1
    BY <1>1
  <2>2. \A i \in 1..m : longer[i] = list[i]
    BY <1>1
  <2>3. longer[m + 1] = d
    BY <1>1
  <2> HIDE DEF longer
  <2>4. longer = [i \in 1..(m + 1) |-> longer[i]]
    BY <2>1
  <2>5. \A i \in 1..(m + 1) : longer[i] = IF i = m + 1 THEN d ELSE list[i]
    BY <2>2, <2>3
  <2> QED BY <2>4, <2>5
<1>3. longer \in [1..(m + 1) -> Int]
  <2>1. \A i \in 1..(m + 1) : i # m + 1 => i \in 1..m
    OBVIOUS
  <2> QED BY <2>1, <1>2
<1>4. ASSUME NEW v \in Int
      PROVE  AtMost(list, v) \in Nat /\ AtMost(longer, v) = AtMost(list, v) + IF d <= v THEN 1 ELSE 0
  <2> DEFINE T == {i \in 1..m : list[i] <= v}
             U == {i \in 1..(m + 1) : longer[i] <= v}
  <2>1. AtMost(list, v) = Cardinality(T) /\ AtMost(longer, v) = Cardinality(U)
    <3>1. DOMAIN longer = 1..(m + 1) /\ DOMAIN list = 1..m
      BY <1>3
    <3> QED BY <3>1 DEF AtMost
  <2>2. IsFiniteSet(T)
    <3>1. IsFiniteSet(1..m) /\ T \in SUBSET (1..m)
      BY FS_Interval
    <3> HIDE DEF T
    <3> QED BY <3>1, FS_Subset
  <2>3. m + 1 \notin T /\ longer[m + 1] = d /\ \A i \in 1..m : longer[i] = list[i] /\ i \in 1..(m + 1)
    BY <1>2
  <2>4. U = IF d <= v THEN T \cup {m + 1} ELSE T
    <3>1. \A i \in 1..(m + 1) : i \in 1..m \/ i = m + 1
      OBVIOUS
    <3>2. m + 1 \in 1..(m + 1)
      OBVIOUS
    <3> HIDE DEF longer
    <3> QED BY <3>1, <3>2, <2>3
  <2> HIDE DEF T, U
  <2>5. Cardinality(T) \in Nat /\ Cardinality(T \cup {m + 1}) = Cardinality(T) + 1
    BY <2>2, <2>3, FS_AddElement, FS_CardinalityType
  <2> QED BY <2>1, <2>4, <2>5
<1> QED BY <1>3, <1>4

\* The first entries of a list in order are in order, and no more of them are small.
LEMMA FirstInSequence ==
  ASSUME NEW m, NEW list, InSequence(m, list), NEW k \in 0..m
  PROVE  /\ InSequence(k, SubSeq(list, 1, k)) /\ Len(SubSeq(list, 1, k)) = k
         /\ \A i \in 1..k : SubSeq(list, 1, k)[i] = list[i]
         /\ \A v \in Int : AtMost(SubSeq(list, 1, k), v) <= AtMost(list, v)
<1> DEFINE first == SubSeq(list, 1, k)
<1>1. m \in Nat /\ list \in [1..m -> Int] /\ \A i, j \in 1..m : i <= j => list[i] <= list[j]
  BY DEF InSequence
<1>2. first = [i \in 1..k |-> list[i]] /\ \A i \in 1..k : first[i] = list[i]
  BY <1>1, SubSeqIs
<1> HIDE DEF first
<1>3. \A i \in 1..k : i \in 1..m
  BY <1>1
<1>4. InSequence(k, first) /\ Len(first) = k
  <2>1. first \in [1..k -> Int]
    BY <1>1, <1>2, <1>3
  <2>2. \A i, j \in 1..k : i <= j => first[i] <= first[j]
    BY <1>1, <1>2, <1>3
  <2>3. k \in Nat
    BY <1>1
  <2>4. Len(first) = k
    BY <2>1, <2>3
  <2> QED BY <2>1, <2>2, <2>3, <2>4 DEF InSequence
<1>5. ASSUME NEW v \in Int PROVE AtMost(first, v) <= AtMost(list, v)
  <2> DEFINE a == AtMost(first, v)
             b == AtMost(list, v)
  <2>1. /\ a \in 0..k /\ \A p \in 1..k : first[p] <= v <=> p <= a
        /\ b \in 0..m /\ \A p \in 1..m : list[p] <= v <=> p <= b
    BY <1>4, AtMostIs
  <2> HIDE DEF a, b
  <2>2. a <= b
    <3>1. CASE a = 0
      BY <3>1, <2>1, <1>1
    <3>2. CASE a # 0
      <4>1. a \in 1..k /\ a \in 1..m
        BY <3>2, <2>1, <1>1, <1>3
      <4>2. first[a] <= v /\ first[a] = list[a]
        BY <4>1, <2>1, <1>1, <1>2
      <4> QED BY <4>1, <4>2, <2>1
    <3> QED BY <3>1, <3>2
  <2> QED BY <2>2 DEF a, b
<1> QED BY <1>2, <1>4, <1>5 DEF first

\* record_candidate_distance keeps the smallest distances in order.
LEMMA TopIs ==
  ASSUME NEW m, InSequence(m, top), m <= K, K \in Nat \ {0}, NEW d \in Int
  PROVE  /\ InSequence(Least(K, m + 1), RecordDistance(d))
         /\ \A v \in Int : /\ AtMost(top, v) \in Nat
                           /\ AtMost(RecordDistance(d), v) <= AtMost(top, v) + IF d <= v THEN 1 ELSE 0
         /\ m = K => RecordDistance(d)[K] <= top[K]
<1> DEFINE longer == Append(top, d)
           all == Ascending(longer)
           k == Least(K, m + 1)
<1>1. m \in Nat /\ top \in [1..m -> Int] /\ m + 1 \in Nat
  BY DEF InSequence
<1>2. /\ longer \in [1..(m + 1) -> Int]
      /\ \A v \in Int : AtMost(top, v) \in Nat /\ AtMost(longer, v) = AtMost(top, v) + IF d <= v THEN 1 ELSE 0
  BY <1>1, AtMostAppend
<1> HIDE DEF longer
<1>3. InSequence(m + 1, all) /\ Len(all) = m + 1 /\ \A v \in Int : AtMost(all, v) = AtMost(longer, v)
  <2>1. /\ all \in [1..(m + 1) -> Int]
        /\ \A i, j \in 1..(m + 1) : i <= j => all[i] <= all[j]
        /\ \A v \in Int : AtMost(all, v) = AtMost(longer, v)
    BY <1>1, <1>2, AscendingIs
  <2> HIDE DEF all
  <2>2. Len(all) = m + 1
    BY <1>1, <2>1
  <2> QED BY <1>1, <2>1, <2>2 DEF InSequence
<1>4. RecordDistance(d) = SubSeq(all, 1, k)
  BY <1>3 DEF RecordDistance, longer
<1>5. k \in 0..(m + 1) /\ (m = K => k = K)
  BY <1>1 DEF Least
<1> HIDE DEF all, k
<1>6. /\ InSequence(k, RecordDistance(d)) /\ \A i \in 1..k : RecordDistance(d)[i] = all[i]
      /\ \A v \in Int : AtMost(RecordDistance(d), v) <= AtMost(all, v)
  BY <1>3, <1>4, <1>5, FirstInSequence
<1>7. ASSUME m = K PROVE RecordDistance(d)[K] <= top[K]
  <2> DEFINE v == top[K]
  <2>1. K \in 1..m /\ K \in 1..k /\ K \in 1..(m + 1) /\ v \in Int /\ v <= v
    BY <1>1, <1>5, <1>7
  <2> HIDE DEF v
  <2>2. K <= AtMost(top, v)
    <3>1. top[K] <= v
      BY <2>1 DEF v
    <3> QED BY <2>1, <3>1, AtMostIs
  <2>3. K <= AtMost(all, v)
    <3>1. AtMost(all, v) = AtMost(longer, v) /\ AtMost(top, v) \in Nat
          /\ AtMost(longer, v) = AtMost(top, v) + IF d <= v THEN 1 ELSE 0
      BY <2>1, <1>2, <1>3
    <3>2. AtMost(top, v) <= AtMost(longer, v)
      BY <3>1
    <3> QED BY <2>2, <3>1, <3>2
  <2>4. all[K] <= v
    BY <2>1, <2>3, <1>3, AtMostIs
  <2> QED BY <2>1, <2>4, <1>6 DEF v
<1>8. \A v \in Int : /\ AtMost(top, v) \in Nat
                     /\ AtMost(RecordDistance(d), v) <= AtMost(top, v) + IF d <= v THEN 1 ELSE 0
  BY <1>2, <1>3, <1>6
<1> QED BY <1>6, <1>7, <1>8 DEF k

\* The candidates as the CPU's list has them.
Match(i) == [d |-> dist[scan[i]], o |-> scan[i]]
Seen(k) == {Match(i) : i \in 1..k}
Count(S, v) == Cardinality({m \in S : m.d <= v})

\* The candidate at a place of the walk.
LEMMA MatchIs ==
  ASSUME RequestFits, DistancesFit
  PROVE  /\ \A i \in 1..n : /\ Match(i).d \in 0..(Unlimited - 1) /\ Match(i).d \in Int
                            /\ Match(i).d = Distance(i - 1) /\ Match(i).o = Origin(i - 1)
                            /\ Match(i).d = dist[Match(i).o] /\ Match(i).o \in ToSet(scan)
         /\ \A i, j \in 1..n : Match(i).o = Match(j).o => i = j
<1>1. n \in Nat \ {0} /\ Unlimited \in Nat
  BY SidesAre, ShapeIs
<1>2. ASSUME NEW i \in 1..n
      PROVE  /\ i - 1 \in 0..(n - 1)
             /\ Match(i).d = Distance(i - 1) /\ Match(i).o = Origin(i - 1) /\ Match(i).d = dist[Match(i).o]
             /\ Match(i).d \in 0..(Unlimited - 1) /\ Match(i).d \in Int /\ Match(i).o \in ToSet(scan)
  <2>1. i - 1 \in 0..(n - 1)
    BY <1>1
  <2>2. scan[i] = Origin(i - 1)
    BY ScanIs
  <2>3. Match(i).d = Distance(i - 1) /\ Match(i).o = Origin(i - 1) /\ Match(i).d = dist[Match(i).o]
    BY <2>2 DEF Match, Distance
  <2>4. Distance(i - 1) \in 0..(Unlimited - 1)
    BY <2>1, KeysAre
  <2>5. Origin(i - 1) \in ToSet(scan)
    BY <2>1, ScanIs
  <2>6. \A v \in 0..(Unlimited - 1) : v \in Int
    OBVIOUS
  <2> QED BY <2>1, <2>3, <2>4, <2>5, <2>6
<1>3. ASSUME NEW i \in 1..n, NEW j \in 1..n, Match(i).o = Match(j).o PROVE i = j
  <2>1. Origin(i - 1) = Origin(j - 1) /\ i - 1 \in 0..(n - 1) /\ j - 1 \in 0..(n - 1)
    BY <1>2, <1>3
  <2>2. i - 1 = j - 1
    BY <2>1, OriginsDiffer
  <2> QED BY <2>2, <1>1
<1> QED BY <1>2, <1>3

\* The candidates that were scanned.
LEMMA SeenIs ==
  ASSUME RequestFits, DistancesFit
  PROVE  /\ IsFiniteSet(Seen(n)) /\ Cardinality(Seen(n)) = n /\ Seen(0) = {}
         /\ \A k \in 0..n : Seen(k) \subseteq Seen(n) /\ IsFiniteSet(Seen(k))
         /\ \A k \in 0..(n - 1) : Seen(k + 1) = Seen(k) \cup {Match(k + 1)} /\ Match(k + 1) \notin Seen(k)
         /\ \A a \in Seen(n) : a.d \in 0..(Unlimited - 1) /\ a.d \in Int /\ a.d = dist[a.o] /\ a.o \in ToSet(scan)
         /\ \A a, b \in Seen(n) : a.o = b.o => a = b
<1>1. n \in Nat \ {0}
  BY SidesAre
<1>2. \A a \in Seen(n) : a.d \in 0..(Unlimited - 1) /\ a.d \in Int /\ a.d = dist[a.o] /\ a.o \in ToSet(scan)
  BY MatchIs DEF Seen
<1>3. \A a, b \in Seen(n) : a.o = b.o => a = b
  <2> SUFFICES ASSUME NEW i \in 1..n, NEW j \in 1..n, Match(i).o = Match(j).o PROVE Match(i) = Match(j)
    BY DEF Seen
  <2> QED BY MatchIs
<1> DEFINE r == [i \in 0..(n - 1) |-> Match(i + 1)]
<1>4. Numbered(n, r, Seen(n))
  <2>1. \A i \in 0..(n - 1) : i + 1 \in 1..n /\ r[i] = Match(i + 1)
    BY <1>1
  <2>2. \A i \in 1..n : i - 1 \in 0..(n - 1) /\ (i - 1) + 1 = i
    BY <1>1
  <2> HIDE DEF r
  <2>3. \A i \in 0..(n - 1) : r[i] \in Seen(n)
    BY <2>1 DEF Seen
  <2>4. \A i, j \in 0..(n - 1) : r[i] = r[j] => i = j
    <3> SUFFICES ASSUME NEW i \in 0..(n - 1), NEW j \in 0..(n - 1), r[i] = r[j] PROVE i = j
      OBVIOUS
    <3>1. i + 1 = j + 1
      BY <2>1, MatchIs
    <3> QED BY <3>1, <1>1
  <2>5. \A i \in 1..n : r[i - 1] = Match(i)
    <3> SUFFICES ASSUME NEW i \in 1..n PROVE r[i - 1] = Match(i)
      OBVIOUS
    <3>1. r[i - 1] = Match((i - 1) + 1)
      BY <2>1, <2>2
    <3> QED BY <3>1, <2>2
  <2>6. \A v \in Seen(n) : \E i \in 0..(n - 1) : r[i] = v
    BY <2>2, <2>5 DEF Seen
  <2> QED BY <2>3, <2>4, <2>6 DEF Numbered
<1>5. IsFiniteSet(Seen(n)) /\ Cardinality(Seen(n)) = n
  <2> HIDE DEF r
  <2>1. n \in Nat
    BY <1>1
  <2> QED BY <2>1, <1>4, NumberedIs
<1>6. \A k \in 0..n : Seen(k) \subseteq Seen(n) /\ IsFiniteSet(Seen(k))
  <2> SUFFICES ASSUME NEW k \in 0..n PROVE Seen(k) \subseteq Seen(n) /\ IsFiniteSet(Seen(k))
    OBVIOUS
  <2>1. \A i \in 1..k : i \in 1..n
    BY <1>1
  <2>2. Seen(k) \subseteq Seen(n)
    BY <2>1 DEF Seen
  <2> QED BY <2>2, <1>5, FS_Subset
<1>7. ASSUME NEW k \in 0..(n - 1) PROVE Seen(k + 1) = Seen(k) \cup {Match(k + 1)} /\ Match(k + 1) \notin Seen(k)
  <2>1. /\ \A i \in 1..(k + 1) : i \in 1..k \/ i = k + 1
        /\ \A i \in 1..k : i \in 1..(k + 1) /\ i \in 1..n /\ i # k + 1
        /\ k + 1 \in 1..(k + 1) /\ k + 1 \in 1..n
    BY <1>1
  <2>2. Seen(k + 1) = Seen(k) \cup {Match(k + 1)}
    BY <2>1 DEF Seen
  <2>3. \A i \in 1..k : Match(i) # Match(k + 1)
    BY <2>1, MatchIs
  <2> QED BY <2>2, <2>3 DEF Seen
<1>8. Seen(0) = {}
  BY DEF Seen
<1> QED BY <1>2, <1>3, <1>5, <1>6, <1>7, <1>8

\* How many candidates are near: those first in the matcher's order.
LEMMA NearCounts ==
  ASSUME RequestFits, DistancesFit, NEW v \in Int
  PROVE  /\ Count(Seen(n), v) \in 0..n
         /\ \A p \in 1..n : Sorted[p].d <= v <=> p <= Count(Seen(n), v)
<1> DEFINE list == [p \in 1..n |-> Sorted[p].d]
           P == {p \in 1..n : Sorted[p].d <= v}
           V == {a \in Seen(n) : a.d <= v}
           f == [p \in P |-> Match(Sorted[p].id + 1)]
<1>1. n \in Nat \ {0} /\ Unlimited \in Nat
  BY SidesAre, ShapeIs
<1>2. \A p \in 1..n : Sorted[p].d \in Int
  <2>1. \A p \in 1..n : Sorted[p].d \in 0..(Unlimited - 1)
    BY SortedIs
  <2> QED BY <2>1
<1>3. InSequence(n, list)
  <2>1. \A i, j \in 1..n : i <= j => Sorted[i].d <= Sorted[j].d
    <3> SUFFICES ASSUME NEW i \in 1..n, NEW j \in 1..n, i <= j PROVE Sorted[i].d <= Sorted[j].d
      OBVIOUS
    <3>1. i < j => Sorted[i].d <= Sorted[j].d
      BY SortedIs
    <3> QED BY <3>1, <1>1, <1>2
  <2>2. list \in [1..n -> Int] /\ \A i \in 1..n : list[i] = Sorted[i].d
    BY <1>2
  <2> HIDE DEF list
  <2>3. \A i, j \in 1..n : i <= j => list[i] <= list[j]
    BY <2>1, <2>2
  <2>4. n \in Nat
    BY <1>1
  <2> QED BY <2>2, <2>3, <2>4 DEF InSequence
<1>4. AtMost(list, v) = Cardinality(P)
  BY DEF AtMost
<1>5. Cardinality(P) \in 0..n /\ \A p \in 1..n : Sorted[p].d <= v <=> p <= Cardinality(P)
  <2>1. \A p \in 1..n : list[p] = Sorted[p].d
    OBVIOUS
  <2> HIDE DEF list, P
  <2>2. AtMost(list, v) \in 0..n /\ \A p \in 1..n : list[p] <= v <=> p <= AtMost(list, v)
    BY <1>3, AtMostIs
  <2> QED BY <2>1, <2>2, <1>4
<1>6. \A p \in 1..n : /\ Sorted[p].id + 1 \in 1..n /\ (Sorted[p].id + 1) - 1 = Sorted[p].id
                      /\ Match(Sorted[p].id + 1).d = Sorted[p].d
  <2> SUFFICES ASSUME NEW p \in 1..n
               PROVE  /\ Sorted[p].id + 1 \in 1..n /\ (Sorted[p].id + 1) - 1 = Sorted[p].id
                      /\ Match(Sorted[p].id + 1).d = Sorted[p].d
    OBVIOUS
  <2> DEFINE id == Sorted[p].id
  <2>1. id \in 0..(n - 1) /\ Sorted[p].d = Distance(id)
    BY SortedIs
  <2> HIDE DEF id
  <2>2. id + 1 \in 1..n /\ (id + 1) - 1 = id
    BY <2>1, <1>1
  <2>3. Match(id + 1).d = Distance((id + 1) - 1)
    BY <2>2, MatchIs
  <2> QED BY <2>1, <2>2, <2>3 DEF id
<1>7. OneToOne(P, f, V)
  <2>1. f \in [P -> V]
    BY <1>6 DEF Seen
  <2>2. \A a, b \in P : f[a] = f[b] => a = b
    <3> SUFFICES ASSUME NEW a \in P, NEW b \in P, f[a] = f[b] PROVE a = b
      OBVIOUS
    <3>1. Sorted[a].id + 1 = Sorted[b].id + 1
      BY <1>6, MatchIs
    <3>2. Sorted[a].id = Sorted[b].id
      BY <3>1, <1>6
    <3> QED BY <3>2, SortedIs
  <2>3. \A m \in V : \E a \in P : f[a] = m
    <3> SUFFICES ASSUME NEW i \in 1..n, Match(i).d <= v PROVE \E a \in P : f[a] = Match(i)
      BY DEF Seen
    <3>1. i - 1 \in 0..(n - 1) /\ (i - 1) + 1 = i
      BY <1>1
    <3>2. KeyAt(i - 1) \in AllKeys /\ KeyAt(i - 1).id = i - 1 /\ KeyAt(i - 1).d = Distance(i - 1)
      BY <3>1, KeysAre
    <3> DEFINE p == Rank(AllKeys, KeyAt(i - 1)) + 1
    <3>3. p \in 1..n /\ Sorted[p] = KeyAt(i - 1)
      BY <3>2, SortedIs
    <3> HIDE DEF p
    <3>4. Sorted[p].d = Match(i).d
      BY <3>2, <3>3, MatchIs
    <3>5. p \in P /\ Sorted[p].id + 1 = i
      BY <3>1, <3>2, <3>3, <3>4
    <3>6. f[p] = Match(i)
      BY <3>5
    <3> QED BY <3>5, <3>6
  <2> HIDE DEF P, V, f
  <2> QED BY <2>1, <2>2, <2>3 DEF OneToOne
<1>8. Cardinality(V) = Cardinality(P)
  <2>1. IsFiniteSet(P)
    <3>1. IsFiniteSet(1..n) /\ P \in SUBSET (1..n)
      BY <1>1, FS_Interval
    <3> HIDE DEF P
    <3> QED BY <3>1, FS_Subset
  <2> HIDE DEF P, V, f
  <2> QED BY <2>1, <1>7, ImageCounts
<1>9. Count(Seen(n), v) = Cardinality(P)
  BY <1>8 DEF Count
<1> QED BY <1>5, <1>9

\* A list without repetition counts as its set does.
Holds(m, list, S) ==
    /\ m \in Nat /\ list \in [1..m -> S] /\ IsFiniteSet(S)
    /\ \A i, j \in 1..m : list[i] = list[j] => i = j

\* Counting over a list without repetitions.
LEMMA ListCounts ==
  ASSUME NEW m, NEW list, NEW S, Holds(m, list, S)
  PROVE  /\ Len(list) = m /\ DOMAIN list = 1..m /\ ToSet(list) = {list[i] : i \in 1..m} /\ ToSet(list) \subseteq S
         /\ IsFiniteSet(ToSet(list)) /\ Cardinality(ToSet(list)) = m /\ m <= Cardinality(S)
         /\ \A v \in Int : AtMost([i \in DOMAIN list |-> list[i].d], v) = Count(ToSet(list), v)
<1>1. m \in Nat /\ list \in [1..m -> S] /\ IsFiniteSet(S) /\ \A i, j \in 1..m : list[i] = list[j] => i = j
  BY DEF Holds
<1>2. Len(list) = m /\ DOMAIN list = 1..m
  BY <1>1
<1>3. ToSet(list) = {list[i] : i \in 1..m}
  BY <1>2 DEF ToSet
<1>4. ToSet(list) \subseteq S
  BY <1>1, <1>3
<1>5. IsFiniteSet(1..m) /\ Cardinality(1..m) = m
  BY <1>1, FS_Interval
<1>6. \A P \in SUBSET (1..m) : Cardinality({list[i] : i \in P}) = Cardinality(P)
  <2> SUFFICES ASSUME NEW P \in SUBSET (1..m) PROVE Cardinality({list[i] : i \in P}) = Cardinality(P)
    OBVIOUS
  <2> DEFINE f == [i \in P |-> list[i]]
             V == {list[i] : i \in P}
  <2>1. OneToOne(P, f, V)
    BY <1>1 DEF OneToOne
  <2>2. IsFiniteSet(P)
    BY <1>5, FS_Subset
  <2> HIDE DEF f, V
  <2>3. Cardinality(V) = Cardinality(P)
    BY <2>1, <2>2, ImageCounts
  <2> QED BY <2>3 DEF V
<1>7. Cardinality(ToSet(list)) = m
  BY <1>3, <1>5, <1>6
<1>8. IsFiniteSet(ToSet(list)) /\ m <= Cardinality(S)
  BY <1>1, <1>4, <1>7, FS_Subset
<1>9. ASSUME NEW v \in Int PROVE AtMost([i \in DOMAIN list |-> list[i].d], v) = Count(ToSet(list), v)
  <2> DEFINE P == {i \in 1..m : list[i].d <= v}
  <2>1. AtMost([i \in DOMAIN list |-> list[i].d], v) = Cardinality(P)
    BY <1>2 DEF AtMost
  <2>2. {a \in ToSet(list) : a.d <= v} = {list[i] : i \in P}
    BY <1>3
  <2>3. P \in SUBSET (1..m)
    OBVIOUS
  <2> HIDE DEF P
  <2> QED BY <2>1, <2>2, <2>3, <1>6 DEF Count
<1> QED BY <1>2, <1>3, <1>4, <1>7, <1>8, <1>9

\* The CPU's cap keeps as many as the matcher's, wherever they differ.
LEMMA OutputCapIs ==
  ASSUME RequestFits
  PROVE  /\ OutputCap \in Nat \ {0} /\ OutputCap <= SoftCap /\ RetainedStride = Least(OutputCap, n)
         /\ BasisSimilar <= OutputCap
<1> DEFINE w == WindowWidth(s)
           h == WindowHeight(s)
           z == s.window
           T == TemporalCount(s)
           area == z * z
<1>1. /\ w \in Nat \ {0} /\ h \in Nat \ {0} /\ z \in Nat \ {0} /\ w <= z /\ h <= z /\ T \in Nat \ {0} /\ n \in Nat \ {0}
      /\ n = T * SpatialCandidates(s) /\ SpatialCandidates(s) = w * h
  BY SidesAre, ShapeIs DEF SpatialCandidates
<1>2. Len(Schedule(s, anchor.frame)) = T
  <2> DEFINE walk == Schedule(s, anchor.frame)
  <2>1. anchor.frame \in 0..(ValidAnchorFrames(s) - 1)
    BY ShapeIs DEF RequestFits, ValidParameters, ValidAnchorFrames
  <2>2. walk \in [1..T -> 0..(ValidAnchorFrames(s) - 1)] /\ T \in Nat
    BY <2>1, ShapeIs, ScheduleIs
  <2> DEFINE X == 0..(ValidAnchorFrames(s) - 1)
  <2>3. walk \in [1..T -> X] /\ T \in Nat
    BY <2>2
  <2> HIDE DEF walk, T, X
  <2>4. walk \in Seq(X) /\ Len(walk) = T
    BY <2>3
  <2> QED BY <2>4 DEF walk
<1>3. OutputCap = Least(SoftCap, area * T)
  BY <1>2 DEF OutputCap
<1> DEFINE c == SpatialCandidates(s)
<1> HIDE DEF w, h, z, T, c
<1>4. w * h <= area /\ w * h \in Int /\ area \in Int
  <2>1. w * h <= z * h
    BY <1>1, Scale
  <2>2. h * z <= z * z
    BY <1>1, Scale
  <2>3. z * h = h * z /\ w * h \in Int /\ z * h \in Int /\ z * z \in Int
    BY <1>1
  <2> QED BY <2>1, <2>2, <2>3
<1> HIDE DEF area
<1>5. n <= area * T /\ area * T \in Int
  <2>0. c \in Int /\ c <= area /\ n = T * c
    BY <1>1, <1>4 DEF c
  <2>1. c * T <= area * T
    BY <2>0, <1>1, <1>4, Scale
  <2>2. c * T = T * c /\ area * T \in Int
    BY <2>0, <1>1, <1>4
  <2> QED BY <2>0, <2>1, <2>2
<1> DEFINE big == area * T
<1> HIDE DEF big
<1>6. n <= big /\ big \in Int /\ OutputCap = Least(SoftCap, big)
  BY <1>3, <1>5 DEF big
<1>7. /\ RetainedStride \in 1..n /\ BasisSimilar \in 1..RetainedStride
      /\ SoftCap \in Nat /\ RetainedStride = Least(SoftCap, n)
  BY CapsAre
<1> QED BY <1>1, <1>6, <1>7 DEF Least

-----------------------------------------------------------------------------
(* What a step of the scan keeps. *)

\* A dropped candidate is no nearer than all matches of a full list, or farther
\* than tau and than K others.
LostIs(a, list, heap) ==
    \/ Len(list) = OutputCap /\ \A j \in 1..Len(list) : list[j].d <= a.d
    \/ Len(heap) = K /\ heap[K] < a.d /\ tau < a.d

\* After k candidates.
ScanFits(k, list, heap) ==
    /\ k \in 0..n
    /\ Holds(Len(list), list, Seen(k)) /\ Len(list) <= OutputCap
    /\ InSequence(Len(heap), heap) /\ Len(heap) <= K
    /\ \A v \in Int : AtMost(heap, v) <= Count(Seen(k), v)
    /\ \A a \in Seen(k) \ ToSet(list) : LostIs(a, list, heap)

\* One candidate more.
LEMMA CountGrows ==
  ASSUME RequestFits, DistancesFit, NEW k \in 0..(n - 1), NEW v \in Int
  PROVE  /\ Count(Seen(k), v) \in Nat
         /\ Count(Seen(k + 1), v) = Count(Seen(k), v) + IF Match(k + 1).d <= v THEN 1 ELSE 0
<1> DEFINE V == {a \in Seen(k) : a.d <= v}
           m == Match(k + 1)
<1>1. Seen(k + 1) = Seen(k) \cup {m} /\ m \notin Seen(k) /\ IsFiniteSet(Seen(k))
  BY SeenIs, SidesAre
<1>2. IsFiniteSet(V)
  <2>1. V \in SUBSET Seen(k)
    OBVIOUS
  <2> HIDE DEF V
  <2> QED BY <2>1, <1>1, FS_Subset
<1>3. Count(Seen(k), v) = Cardinality(V)
  BY DEF Count
<1>4. {a \in Seen(k + 1) : a.d <= v} = IF m.d <= v THEN V \cup {m} ELSE V
  BY <1>1
<1>5. m \notin V
  BY <1>1
<1> HIDE DEF V, m
<1>6. Cardinality(V) \in Nat /\ Cardinality(V \cup {m}) = Cardinality(V) + 1
  BY <1>2, <1>5, FS_AddElement, FS_CardinalityType
<1>7. Count(Seen(k + 1), v) = Cardinality(IF m.d <= v THEN V \cup {m} ELSE V)
  BY <1>4 DEF Count
<1>8. Count(Seen(k + 1), v) = Count(Seen(k), v) + IF m.d <= v THEN 1 ELSE 0
  <2>1. CASE m.d <= v
    BY <1>3, <1>6, <1>7, <2>1
  <2>2. CASE ~(m.d <= v)
    BY <1>3, <1>6, <1>7, <2>2
  <2> QED BY <2>1, <2>2
<1> QED BY <1>3, <1>6, <1>8 DEF m

\* The first farthest match.
LEMMA FarthestIs ==
  ASSUME NEW m \in Nat \ {0}, NEW X, matches \in [1..m -> X], \A a \in X : a.d \in Nat
  PROVE  Farthest \in 1..m /\ \A j \in 1..m : matches[j].d <= matches[Farthest].d
<1> DEFINE Top(i) == \A j \in 1..m : matches[j].d <= matches[i].d
           T == {i \in 1..m : Top(i)}
<1>1. \A j \in 1..m : matches[j].d \in Nat
  OBVIOUS
<1>2. T # {}
  <2> SUFFICES \E i \in 1..m : Top(i)
    OBVIOUS
  <2> DEFINE Good(p) == \E i \in 1..p : \A j \in 1..p : matches[j].d <= matches[i].d
             U == {p \in 0..m : p # 0 /\ ~Good(p)}
  <2>1. U = {}
    <3> SUFFICES ASSUME U # {} PROVE FALSE
      OBVIOUS
    <3>1. PICK p \in 1..m : p \in U /\ p - 1 \in 0..m /\ p - 1 \notin U
      <4>1. U \subseteq 0..m /\ 0 \notin U /\ m \in Nat
        OBVIOUS
      <4> HIDE DEF U
      <4> QED BY <4>1, FirstFailure
    <3>2. CASE p = 1
      <4>1. 1 \in 1..1 /\ \A j \in 1..1 : j = 1
        OBVIOUS
      <4>2. matches[1].d <= matches[1].d
        BY <1>1
      <4>3. Good(1)
        BY <4>1, <4>2
      <4> QED BY <3>1, <3>2, <4>3
    <3>3. CASE p # 1
      <4>1. Good(p - 1)
        BY <3>1, <3>3
      <4>2. PICK i \in 1..(p - 1) : \A j \in 1..(p - 1) : matches[j].d <= matches[i].d
        BY <4>1
      <4>3. /\ i \in 1..p /\ i \in 1..m /\ p \in 1..p /\ p \in 1..m
            /\ \A j \in 1..p : j \in 1..m /\ (j \in 1..(p - 1) \/ j = p)
        BY <3>1
      <4>4. CASE matches[p].d <= matches[i].d
        <5>1. \A j \in 1..p : matches[j].d <= matches[i].d
          BY <4>2, <4>3, <4>4
        <5> QED BY <3>1, <4>3, <5>1
      <4>5. CASE ~(matches[p].d <= matches[i].d)
        <5>1. \A j \in 1..p : matches[j].d <= matches[p].d
          BY <1>1, <4>2, <4>3, <4>5
        <5> QED BY <3>1, <4>3, <5>1
      <4> QED BY <4>4, <4>5
    <3> QED BY <3>2, <3>3
  <2>2. m \in 0..m /\ m # 0
    OBVIOUS
  <2>3. Good(m)
    BY <2>1, <2>2
  <2> QED BY <2>3
<1>3. PICK f \in T : \A i \in T : f <= i
  <2>1. T \subseteq Nat
    OBVIOUS
  <2> HIDE DEF T
  <2> QED BY <1>2, <2>1, LeastOf
<1>4. DOMAIN matches = 1..m
  OBVIOUS
<1>5. \A j \in 1..(f - 1) : matches[j].d < matches[f].d
  <2> SUFFICES ASSUME NEW j \in 1..(f - 1), ~(matches[j].d < matches[f].d) PROVE FALSE
    OBVIOUS
  <2>1. j \in 1..m /\ f \in 1..m /\ ~(f <= j)
    OBVIOUS
  <2>2. matches[j].d \in Nat /\ matches[f].d \in Nat /\ matches[j].d >= matches[f].d
    BY <1>1, <2>1
  <2>3. \A i \in 1..m : matches[i].d <= matches[j].d
    <3> SUFFICES ASSUME NEW i \in 1..m PROVE matches[i].d <= matches[j].d
      OBVIOUS
    <3>1. matches[i].d <= matches[f].d /\ matches[i].d \in Nat
      BY <1>1
    <3> QED BY <2>2, <3>1
  <2>4. j \in T
    BY <2>1, <2>3
  <2> QED BY <1>3, <2>1, <2>4
<1>6. \E i \in DOMAIN matches : /\ \A j \in DOMAIN matches : matches[j].d <= matches[i].d
                                /\ \A j \in 1..(i - 1) : matches[j].d < matches[i].d
  BY <1>4, <1>5
<1>7. /\ Farthest \in DOMAIN matches /\ \A j \in DOMAIN matches : matches[j].d <= matches[Farthest].d
  BY <1>6, Zenon DEF Farthest
<1> QED BY <1>4, <1>7

\* A list in order, as a sequence.
LEMMA InSequenceLen ==
  ASSUME NEW m, NEW list, InSequence(m, list)
  PROVE  Len(list) = m /\ m \in Nat /\ \A i \in 1..m : list[i] \in Int
<1>1. m \in Nat /\ list \in [1..m -> Int]
  BY DEF InSequence
<1> QED BY <1>1

\* What the heap's next state keeps, if the candidate after k is recorded or not.
HeapFits(k, heap) ==
    /\ InSequence(Len(heap), heap) /\ Len(heap) <= K
    /\ \A v \in Int : AtMost(heap, v) <= Count(Seen(k + 1), v)
    /\ Len(top) = K => Len(heap) = K /\ heap[K] <= top[K]

\* Recording a distance, or not, keeps a heap of the scanned candidates.
LEMMA HeapRecords ==
  ASSUME RequestFits, DistancesFit, NEW k \in 0..(n - 1), ScanFits(k, matches, top)
  PROVE  HeapFits(k, RecordDistance(Match(k + 1).d)) /\ HeapFits(k, top)
<1> DEFINE d == Match(k + 1).d
           m == Len(top)
           new == RecordDistance(d)
<1>1. /\ InSequence(m, top) /\ m <= K /\ K \in Nat \ {0} /\ n \in Nat
      /\ \A v \in Int : AtMost(top, v) <= Count(Seen(k), v)
  BY ShapeIs, SidesAre DEF ScanFits
<1>2. d \in Int
  <2>1. k + 1 \in 1..n
    BY <1>1
  <2> QED BY <2>1, MatchIs
<1>3. \A v \in Int : /\ Count(Seen(k), v) \in Nat
                     /\ Count(Seen(k + 1), v) = Count(Seen(k), v) + IF d <= v THEN 1 ELSE 0
  BY CountGrows
<1> HIDE DEF d, m
<1>4. /\ InSequence(Least(K, m + 1), new)
      /\ \A v \in Int : AtMost(top, v) \in Nat /\ AtMost(new, v) <= AtMost(top, v) + IF d <= v THEN 1 ELSE 0
      /\ m = K => new[K] <= top[K]
  BY <1>1, <1>2, TopIs
<1> HIDE DEF new
<1>5. Len(new) = Least(K, m + 1) /\ m \in Nat
  BY <1>1, <1>4, InSequenceLen
<1>6. Len(new) <= K /\ (m = K => Len(new) = K)
  BY <1>1, <1>5 DEF Least
<1>7. \A v \in Int : AtMost(new, v) \in Nat
  <2> SUFFICES ASSUME NEW v \in Int PROVE AtMost(new, v) \in Nat
    OBVIOUS
  <2>1. AtMost(new, v) \in 0..Len(new) /\ Len(new) \in Nat
    BY <1>4, <1>5, AtMostIs, InSequenceLen
  <2> QED BY <2>1
<1>8. \A v \in Int : AtMost(new, v) <= Count(Seen(k + 1), v) /\ AtMost(top, v) <= Count(Seen(k + 1), v)
  <2> SUFFICES ASSUME NEW v \in Int
               PROVE  AtMost(new, v) <= Count(Seen(k + 1), v) /\ AtMost(top, v) <= Count(Seen(k + 1), v)
    OBVIOUS
  <2> DEFINE a == AtMost(new, v)
             b == AtMost(top, v)
             c == Count(Seen(k), v)
             e == Count(Seen(k + 1), v)
             one == IF d <= v THEN 1 ELSE 0
  <2>1. a \in Nat /\ b \in Nat /\ c \in Nat /\ e = c + one /\ a <= b + one /\ b <= c /\ one \in 0..1
    BY <1>1, <1>3, <1>4, <1>7
  <2> HIDE DEF a, b, c, e, one
  <2>2. a <= e /\ b <= e
    BY <2>1
  <2> QED BY <2>2 DEF a, b, e
<1>9. HeapFits(k, new)
  BY <1>4, <1>5, <1>6, <1>8 DEF HeapFits, m
<1>10. HeapFits(k, top)
  <2>1. m = K => top[K] <= top[K]
    <3> SUFFICES ASSUME m = K PROVE top[K] <= top[K]
      OBVIOUS
    <3>1. top[K] \in Int
      BY <1>1, InSequenceLen
    <3> QED BY <3>1
  <2> QED BY <1>1, <1>8, <2>1 DEF HeapFits, m
<1> QED BY <1>9, <1>10 DEF new, d

\* What a step starts from.
StepFits(k) ==
    /\ RequestFits /\ DistancesFit /\ k \in 0..(n - 1) /\ ScanFits(k, matches, top)

\* All that a step may use.
LEMMA StepIs ==
  ASSUME NEW k, StepFits(k)
  PROVE  /\ k + 1 \in 0..n /\ k + 1 \in 1..n /\ k \in 0..n
         /\ OutputCap \in Nat \ {0} /\ K \in Nat \ {0} /\ tau \in Nat /\ Unlimited \in Nat
         /\ Len(matches) \in Nat /\ Len(matches) <= OutputCap /\ Len(top) \in Nat /\ Len(top) <= K
         /\ matches \in [1..Len(matches) -> Seen(k)] /\ DOMAIN matches = 1..Len(matches)
         /\ \A i, j \in 1..Len(matches) : matches[i] = matches[j] => i = j
         /\ \A j \in 1..Len(matches) : matches[j].d \in Int /\ matches[j] \in Seen(k)
         /\ Seen(k + 1) = Seen(k) \cup {Match(k + 1)} /\ Match(k + 1) \notin Seen(k)
         /\ IsFiniteSet(Seen(k + 1)) /\ IsFiniteSet(Seen(k))
         /\ Match(k + 1).d \in 0..(Unlimited - 1) /\ Match(k + 1).d \in Int
         /\ \A a \in Seen(k + 1) : a.d \in Int /\ a.d \in Nat
         /\ \A i \in 1..Len(top) : top[i] \in Int
         /\ ToSet(matches) = {matches[j] : j \in 1..Len(matches)}
         /\ \A a \in Seen(k) \ ToSet(matches) : LostIs(a, matches, top)
<1>1. RequestFits /\ DistancesFit /\ k \in 0..(n - 1) /\ ScanFits(k, matches, top) /\ n \in Nat
  BY SidesAre DEF StepFits
<1>2. k + 1 \in 0..n /\ k + 1 \in 1..n /\ k \in 0..n
  BY <1>1
<1>3. Holds(Len(matches), matches, Seen(k)) /\ InSequence(Len(top), top) /\ Len(top) <= K /\ Len(matches) <= OutputCap
      /\ \A a \in Seen(k) \ ToSet(matches) : LostIs(a, matches, top)
  BY <1>1 DEF ScanFits
<1>4. OutputCap \in Nat \ {0} /\ K \in Nat \ {0} /\ tau \in Nat /\ Unlimited \in Nat
  BY <1>1, OutputCapIs, ShapeIs
<1>5. /\ Seen(k + 1) = Seen(k) \cup {Match(k + 1)} /\ Match(k + 1) \notin Seen(k)
      /\ IsFiniteSet(Seen(k + 1)) /\ IsFiniteSet(Seen(k)) /\ Seen(k + 1) \subseteq Seen(n)
  BY <1>1, <1>2, SeenIs
<1>6. Match(k + 1).d \in 0..(Unlimited - 1) /\ Match(k + 1).d \in Int
  BY <1>1, <1>2, MatchIs
<1>7. \A a \in Seen(k + 1) : a.d \in Int /\ a.d \in Nat
  <2>1. \A a \in Seen(n) : a.d \in 0..(Unlimited - 1) /\ a.d \in Int
    BY <1>1, SeenIs
  <2>2. \A v \in 0..(Unlimited - 1) : v \in Nat
    BY <1>4
  <2> QED BY <2>1, <2>2, <1>5
<1>8. /\ Len(matches) \in Nat /\ matches \in [1..Len(matches) -> Seen(k)] /\ DOMAIN matches = 1..Len(matches)
      /\ \A i, j \in 1..Len(matches) : matches[i] = matches[j] => i = j
  BY <1>3 DEF Holds
<1>9. \A j \in 1..Len(matches) : matches[j].d \in Int /\ matches[j] \in Seen(k)
  BY <1>5, <1>7, <1>8
<1>10. ToSet(matches) = {matches[j] : j \in 1..Len(matches)}
  BY <1>8 DEF ToSet
<1>11. Len(top) \in Nat /\ \A i \in 1..Len(top) : top[i] \in Int
  BY <1>3, InSequenceLen
<1> QED BY <1>2, <1>3, <1>4, <1>5, <1>6, <1>7, <1>8, <1>9, <1>10, <1>11

\* A list that lost nothing more than the rules allow fits the next state.
LEMMA NextFits ==
  ASSUME NEW k, StepFits(k), NEW heap, HeapFits(k, heap), NEW list, NEW m \in Nat, m <= OutputCap,
         list \in [1..m -> Seen(k + 1)], \A i, j \in 1..m : list[i] = list[j] => i = j,
         \A a \in Seen(k + 1) : (\A j \in 1..m : list[j] # a) => LostIs(a, list, heap)
  PROVE  ScanFits(k + 1, list, heap)
<1>1. Len(list) = m /\ DOMAIN list = 1..m
  OBVIOUS
<1>2. ToSet(list) = {list[j] : j \in 1..m}
  BY <1>1 DEF ToSet
<1>3. Holds(Len(list), list, Seen(k + 1))
  BY <1>1, StepIs DEF Holds
<1>4. \A a \in Seen(k + 1) \ ToSet(list) : LostIs(a, list, heap)
  BY <1>2
<1> QED BY <1>1, <1>3, <1>4, StepIs DEF ScanFits, HeapFits

\* What was lost stays lost.
LEMMA LostStays ==
  ASSUME NEW k, StepFits(k), NEW heap, HeapFits(k, heap), NEW list, NEW a \in Seen(k + 1),
         LostIs(a, matches, top), Len(list) = Len(matches) \/ Len(matches) < OutputCap,
         Len(matches) = OutputCap => \A i \in 1..Len(list) : list[i].d <= a.d \/ \E j \in 1..Len(matches) : list[i] = matches[j]
  PROVE  LostIs(a, list, heap)
<1>1. CASE Len(matches) = OutputCap /\ \A j \in 1..Len(matches) : matches[j].d <= a.d
  <2>1. Len(list) = OutputCap
    BY <1>1, StepIs
  <2>2. \A i \in 1..Len(list) : list[i].d <= a.d
    BY <1>1
  <2> QED BY <2>1, <2>2 DEF LostIs
<1>2. CASE Len(top) = K /\ top[K] < a.d /\ tau < a.d
  <2>1. Len(heap) = K /\ heap[K] <= top[K] /\ InSequence(K, heap)
    BY <1>2 DEF HeapFits
  <2>2. heap[K] \in Int /\ top[K] \in Int /\ a.d \in Int
    <3>1. K \in 1..K
      BY StepIs
    <3> QED BY <3>1, <2>1, <1>2, StepIs, InSequenceLen
  <2>3. heap[K] < a.d
    BY <2>1, <2>2, <1>2
  <2> QED BY <2>1, <2>3, <1>2 DEF LostIs
<1> QED BY <1>1, <1>2 DEF LostIs

\* A full list has a farthest match.
LEMMA FullIs ==
  ASSUME NEW k, StepFits(k)
  PROVE  /\ Full <=> Len(matches) = OutputCap
         /\ Full => Farthest \in 1..Len(matches) /\ \A j \in 1..Len(matches) : matches[j].d <= matches[Farthest].d
<1>1. Full <=> Len(matches) = OutputCap
  BY StepIs DEF Full
<1>2. ASSUME Full PROVE Farthest \in 1..Len(matches) /\ \A j \in 1..Len(matches) : matches[j].d <= matches[Farthest].d
  <2>1. Len(matches) \in Nat \ {0} /\ matches \in [1..Len(matches) -> Seen(k)] /\ \A a \in Seen(k) : a.d \in Nat
    BY <1>1, <1>2, StepIs
  <2> QED BY <2>1, FarthestIs
<1> QED BY <1>1, <1>2

\* A candidate beyond the limit is lost.
LEMMA RejectFits ==
  ASSUME NEW k, StepFits(k), ~(Match(k + 1).d <= DistanceLimit)
  PROVE  ScanFits(k + 1, matches, top)
<1> DEFINE c == Match(k + 1)
           m == Len(matches)
           near == IF Len(top) >= K THEN Greatest(tau, top[Len(top)]) ELSE Unlimited
           far == IF Full THEN matches[Farthest].d ELSE Unlimited
<1>1. HeapFits(k, top)
  BY HeapRecords DEF StepFits
<1>2. DistanceLimit = Least(near, far)
  BY DEF DistanceLimit
<1>3. /\ K \in Nat \ {0} /\ tau \in Nat /\ Unlimited \in Nat /\ c.d \in 0..(Unlimited - 1) /\ c.d \in Int
      /\ Len(top) \in Nat /\ Len(top) <= K /\ \A i \in 1..Len(top) : top[i] \in Int
      /\ \A j \in 1..m : matches[j].d \in Int
  BY StepIs
<1>4. near \in Int
  <2>1. CASE Len(top) >= K
    <3>1. Len(top) \in 1..Len(top)
      BY <1>3, <2>1
    <3> QED BY <1>3, <2>1, <3>1 DEF Greatest
  <2>2. CASE ~(Len(top) >= K)
    BY <1>3, <2>2
  <2> QED BY <2>1, <2>2
<1>5. far \in Int
  BY <1>3, FullIs
<1>6. near < c.d \/ far < c.d
  <2> HIDE DEF near, far
  <2> QED BY <1>2, <1>3, <1>4, <1>5 DEF Least
<1>7. LostIs(c, matches, top)
  <2>1. CASE near < c.d
    <3>1. Len(top) >= K
      BY <1>3, <2>1
    <3>2. Len(top) = K /\ near = Greatest(tau, top[K]) /\ top[K] \in Int
      <4>1. Len(top) = K
        BY <1>3, <3>1
      <4>2. K \in 1..Len(top)
        BY <1>3, <4>1
      <4> QED BY <1>3, <3>1, <4>1, <4>2
    <3>3. top[K] < c.d /\ tau < c.d
      <4> HIDE DEF near
      <4> QED BY <1>3, <2>1, <3>2 DEF Greatest
    <3> QED BY <3>2, <3>3 DEF LostIs
  <2>2. CASE far < c.d
    <3>1. Full
      BY <1>3, <2>2
    <3>2. matches[Farthest].d < c.d /\ m = OutputCap /\ Farthest \in 1..m /\ \A j \in 1..m : matches[j].d <= matches[Farthest].d
      BY <2>2, <3>1, FullIs
    <3>3. \A j \in 1..m : matches[j].d <= c.d
      BY <1>3, <3>2
    <3> QED BY <3>2, <3>3 DEF LostIs
  <2> QED BY <1>6, <2>1, <2>2
<1>8. m \in Nat /\ m <= OutputCap /\ matches \in [1..m -> Seen(k + 1)] /\ \A i, j \in 1..m : matches[i] = matches[j] => i = j
  BY StepIs
<1>9. ASSUME NEW a \in Seen(k + 1), \A j \in 1..m : matches[j] # a PROVE LostIs(a, matches, top)
  <2>1. CASE a = c
    BY <1>7, <2>1
  <2>2. CASE a # c
    <3>1. a \in Seen(k) \ ToSet(matches)
      BY <1>9, <2>2, StepIs
    <3> QED BY <3>1, StepIs
  <2> QED BY <2>1, <2>2
<1> QED BY <1>1, <1>8, <1>9, NextFits

\* A list with room takes the candidate.
LEMMA AppendFits ==
  ASSUME NEW k, StepFits(k), ~Full, NEW heap, HeapFits(k, heap)
  PROVE  ScanFits(k + 1, Append(matches, Match(k + 1)), heap)
<1> DEFINE c == Match(k + 1)
           m == Len(matches)
           list == Append(matches, c)
<1>1. /\ m \in Nat /\ m < OutputCap /\ m + 1 \in Nat /\ m + 1 <= OutputCap /\ OutputCap \in Nat
  BY FullIs, StepIs
<1>2. list = [i \in 1..(m + 1) |-> IF i = m + 1 THEN c ELSE matches[i]]
  <2> DEFINE X == Seen(k + 1)
  <2>0. matches \in [1..m -> X] /\ m \in Nat /\ c \in X
    BY StepIs
  <2>1. matches \in Seq(X) /\ c \in X
    <3> HIDE DEF X, c, m
    <3> QED BY <2>0
  <2> HIDE DEF X, c, m
  <2>2. matches \in Seq(X) /\ c \in X /\ Len(matches) = m /\ m \in Nat
    BY <2>1, <1>1 DEF X, m
  <2>3. list \in Seq(X) /\ Len(list) = m + 1 /\ list[m + 1] = c /\ \A i \in 1..m : list[i] = matches[i]
    BY <2>2
  <2> HIDE DEF list
  <2>4. list = [i \in 1..(m + 1) |-> list[i]]
    BY <2>2, <2>3
  <2>5. \A i \in 1..(m + 1) : list[i] = IF i = m + 1 THEN c ELSE matches[i]
    BY <2>2, <2>3
  <2> QED BY <2>4, <2>5
<1> HIDE DEF list
<1>3. \A i \in 1..(m + 1) : i = m + 1 \/ i \in 1..m
  BY <1>1
<1>4. list \in [1..(m + 1) -> Seen(k + 1)] /\ Len(list) = m + 1
  <2>1. \A i \in 1..m : matches[i] \in Seen(k + 1)
    BY StepIs
  <2>2. c \in Seen(k + 1)
    BY StepIs
  <2>3. list \in [1..(m + 1) -> Seen(k + 1)]
    BY <1>2, <1>3, <2>1, <2>2
  <2> QED BY <2>3, <1>1
<1>5. \A i, j \in 1..(m + 1) : list[i] = list[j] => i = j
  <2>1. \A i \in 1..m : matches[i] # c
    BY StepIs
  <2>2. \A i, j \in 1..m : matches[i] = matches[j] => i = j
    BY StepIs
  <2> HIDE DEF m, c
  <2>3. m + 1 \notin 1..m /\ m + 1 \in 1..(m + 1)
    BY <1>1
  <2> QED BY <1>2, <1>3, <2>1, <2>2, <2>3
<1>6. ASSUME NEW a \in Seen(k + 1), \A j \in 1..(m + 1) : list[j] # a PROVE LostIs(a, list, heap)
  <2>1. a # c
    <3>1. m + 1 \in 1..(m + 1) /\ list[m + 1] = c
      BY <1>1, <1>2
    <3> QED BY <3>1, <1>6
  <2>2. \A j \in 1..m : matches[j] # a
    <3>1. \A j \in 1..m : j \in 1..(m + 1) /\ j # m + 1
      BY <1>1
    <3>2. \A j \in 1..m : list[j] = matches[j]
      BY <3>1, <1>2
    <3> QED BY <3>1, <3>2, <1>6
  <2>3. LostIs(a, matches, top)
    <3>1. a \in Seen(k) \ ToSet(matches)
      BY <2>1, <2>2, StepIs
    <3> QED BY <3>1, StepIs
  <2>4. Len(matches) < OutputCap /\ ~(Len(matches) = OutputCap)
    BY <1>1
  <2> QED BY <2>3, <2>4, LostStays
<1>7. ScanFits(k + 1, list, heap)
  BY <1>1, <1>4, <1>5, <1>6, NextFits
<1> QED BY <1>7 DEF list

\* A full list gives up a farthest match, or the candidate.
LEMMA ReplaceFits ==
  ASSUME NEW k, StepFits(k), Full, NEW heap, HeapFits(k, heap)
  PROVE  /\ Match(k + 1).d < matches[Farthest].d =>
               ScanFits(k + 1, [matches EXCEPT ![Farthest] = Match(k + 1)], heap)
         /\ ~(Match(k + 1).d < matches[Farthest].d) => ScanFits(k + 1, matches, heap)
<1> DEFINE c == Match(k + 1)
           m == Len(matches)
           f == Farthest
           list == [matches EXCEPT ![f] = c]
<1>1. /\ m \in Nat /\ m = OutputCap /\ m <= OutputCap /\ f \in 1..m /\ \A j \in 1..m : matches[j].d <= matches[f].d
  BY FullIs, StepIs
<1>2. /\ \A j \in 1..m : matches[j].d \in Int /\ matches[j] \in Seen(k) /\ matches[j] # c
      /\ c.d \in Int /\ c \in Seen(k + 1) /\ matches \in [1..m -> Seen(k + 1)]
      /\ \A i, j \in 1..m : matches[i] = matches[j] => i = j
      /\ \A a \in Seen(k + 1) : a.d \in Int
  BY StepIs
<1>3. \A a \in Seen(k + 1) : a = c \/ (\E j \in 1..m : matches[j] = a) \/ LostIs(a, matches, top)
  <2> SUFFICES ASSUME NEW a \in Seen(k + 1), a # c, \A j \in 1..m : matches[j] # a PROVE LostIs(a, matches, top)
    OBVIOUS
  <2>1. a \in Seen(k) \ ToSet(matches)
    BY StepIs
  <2> QED BY <2>1, StepIs
<1>4. ASSUME c.d < matches[f].d PROVE ScanFits(k + 1, list, heap)
  <2>1. /\ \A j \in 1..m : list[j] = IF j = f THEN c ELSE matches[j]
        /\ list \in [1..m -> Seen(k + 1)] /\ Len(list) = m
    <3>1. list = [j \in 1..m |-> IF j = f THEN c ELSE matches[j]]
      BY <1>1, <1>2
    <3> HIDE DEF list, f, c, m
    <3>2. list \in [1..m -> Seen(k + 1)]
      BY <3>1, <1>2
    <3> QED BY <3>1, <3>2, <1>1
  <2> HIDE DEF list, f
  <2>2. \A i, j \in 1..m : list[i] = list[j] => i = j
    BY <2>1, <1>2
  <2>3. \A j \in 1..m : list[j].d <= matches[f].d
    BY <1>1, <1>2, <1>4, <2>1
  <2>4. ASSUME NEW a \in Seen(k + 1), \A j \in 1..m : list[j] # a PROVE LostIs(a, list, heap)
    <3>1. a # c
      BY <1>1, <2>1, <2>4
    <3>2. CASE a = matches[f]
      BY <1>1, <2>1, <2>3, <3>2 DEF LostIs
    <3>3. CASE a # matches[f]
      <4>1. \A j \in 1..m : matches[j] # a
        BY <2>1, <2>4, <3>3
      <4>2. LostIs(a, matches, top)
        BY <1>3, <3>1, <4>1
      <4>3. Len(list) = Len(matches)
        BY <2>1
      <4>4. CASE Len(top) = K /\ top[K] < a.d /\ tau < a.d
        <5>1. Len(heap) = K /\ heap[K] <= top[K] /\ InSequence(K, heap)
          BY <4>4 DEF HeapFits
        <5>2. heap[K] \in Int /\ top[K] \in Int /\ a.d \in Int
          <6>1. K \in 1..K
            BY StepIs
          <6> QED BY <6>1, <5>1, <4>4, <1>2, StepIs, InSequenceLen
        <5>3. heap[K] < a.d
          BY <5>1, <5>2, <4>4
        <5> QED BY <5>1, <5>3, <4>4 DEF LostIs
      <4>5. CASE \A j \in 1..m : matches[j].d <= a.d
        <5>1. \A j \in 1..m : list[j].d <= a.d
          <6>1. matches[f].d <= a.d /\ matches[f].d \in Int /\ a.d \in Int
            BY <1>1, <1>2, <4>5
          <6> QED BY <1>2, <1>4, <2>1, <4>5, <6>1
        <5> QED BY <1>1, <2>1, <5>1 DEF LostIs
      <4> QED BY <4>2, <4>4, <4>5 DEF LostIs
    <3> QED BY <3>2, <3>3
  <2> QED BY <1>1, <2>1, <2>2, <2>4, NextFits
<1>5. ASSUME ~(c.d < matches[f].d) PROVE ScanFits(k + 1, matches, heap)
  <2>1. \A j \in 1..m : matches[j].d <= c.d
    BY <1>1, <1>2, <1>5
  <2>2. LostIs(c, matches, heap)
    BY <1>1, <2>1 DEF LostIs
  <2>3. ASSUME NEW a \in Seen(k + 1), \A j \in 1..m : matches[j] # a PROVE LostIs(a, matches, heap)
    <3>1. CASE a = c
      BY <2>2, <3>1
    <3>2. CASE a # c
      <4>1. LostIs(a, matches, top)
        BY <1>3, <2>3, <3>2
      <4>2. \A i \in 1..Len(matches) : \E j \in 1..Len(matches) : matches[i] = matches[j]
        OBVIOUS
      <4> QED BY <4>1, <4>2, LostStays
    <3> QED BY <3>1, <3>2
  <2> QED BY <1>1, <1>2, <2>3, NextFits
<1> QED BY <1>4, <1>5

\* So one step of the scan keeps what it must.
LEMMA CandidateFits ==
  ASSUME NEW k, StepFits(k), NEW list, NEW heap,
         IF Match(k + 1).d <= DistanceLimit
         THEN list = RecordMatch(Match(k + 1)) /\ heap = RecordDistance(Match(k + 1).d)
         ELSE list = matches /\ heap = top
  PROVE  ScanFits(k + 1, list, heap)
<1>1. CASE ~(Match(k + 1).d <= DistanceLimit)
  BY <1>1, RejectFits
<1>2. CASE Match(k + 1).d <= DistanceLimit
  <2>1. HeapFits(k, heap)
    BY <1>2, HeapRecords DEF StepFits
  <2>2. list = RecordMatch(Match(k + 1))
    BY <1>2
  <2>3. CASE ~Full
    BY <2>1, <2>2, <2>3, AppendFits DEF RecordMatch
  <2>4. CASE Full
    BY <2>1, <2>2, <2>4, ReplaceFits DEF RecordMatch
  <2> QED BY <2>3, <2>4
<1> QED BY <1>1, <1>2

-----------------------------------------------------------------------------
(* The selection of the CPU. *)

\* A group of the nearest patches, of the size that tau and the caps give.
Nearest(T) ==
    /\ T \subseteq Seen(n) /\ IsFiniteSet(T) /\ Cardinality(T) = BestSize
    /\ \A a \in T, b \in Seen(n) \ T : a.d <= b.d

\* What the selection starts from.
Walked == RequestFits /\ DistancesFit /\ ScanFits(n, matches, top)

\* All that the selection may use.
LEMMA WalkedIs ==
  ASSUME Walked
  PROVE  /\ Len(matches) \in Nat /\ Len(matches) <= OutputCap /\ Len(matches) <= n /\ n \in Nat \ {0} /\ K \in Nat \ {0}
         /\ OutputCap \in Nat \ {0} /\ OutputCap <= SoftCap /\ RetainedStride = Least(OutputCap, n)
         /\ BasisSimilar <= OutputCap /\ BasisSimilar \in 1..n /\ BasisSimilar = Least(K, n) /\ SoftCap \in Nat
         /\ ToSet(matches) \subseteq Seen(n) /\ IsFiniteSet(ToSet(matches)) /\ Cardinality(ToSet(matches)) = Len(matches)
         /\ IsFiniteSet(Seen(n)) /\ Cardinality(Seen(n)) = n /\ \A a \in Seen(n) : a.d \in Int
         /\ \A v \in Int : AtMost([i \in DOMAIN matches |-> matches[i].d], v) = Count(ToSet(matches), v)
         /\ DOMAIN matches = 1..Len(matches) /\ \A i \in 1..Len(matches) : matches[i] \in Seen(n) /\ matches[i].d \in Int
         /\ \A a \in ToSet(matches) : \E j \in 1..Len(matches) : matches[j] = a
         /\ \A a \in Seen(n) \ ToSet(matches) : LostIs(a, matches, top)
<1>1. /\ RequestFits /\ DistancesFit /\ Holds(Len(matches), matches, Seen(n)) /\ Len(matches) <= OutputCap
      /\ \A a \in Seen(n) \ ToSet(matches) : LostIs(a, matches, top)
  BY DEF Walked, ScanFits
<1>2. /\ ToSet(matches) = {matches[i] : i \in 1..Len(matches)} /\ ToSet(matches) \subseteq Seen(n)
      /\ IsFiniteSet(ToSet(matches)) /\ Cardinality(ToSet(matches)) = Len(matches)
      /\ Len(matches) <= Cardinality(Seen(n)) /\ DOMAIN matches = 1..Len(matches)
      /\ \A v \in Int : AtMost([i \in DOMAIN matches |-> matches[i].d], v) = Count(ToSet(matches), v)
  BY <1>1, ListCounts
<1>3. /\ IsFiniteSet(Seen(n)) /\ Cardinality(Seen(n)) = n /\ \A a \in Seen(n) : a.d \in Int
  BY <1>1, SeenIs
<1>4. n \in Nat \ {0} /\ K \in Nat \ {0}
  BY <1>1, SidesAre, ShapeIs
<1>5. /\ OutputCap \in Nat \ {0} /\ OutputCap <= SoftCap /\ RetainedStride = Least(OutputCap, n)
      /\ BasisSimilar <= OutputCap
  BY <1>1, OutputCapIs
<1>6. SoftCap \in Nat
  BY <1>1, CapsAre
<1>7. BasisSimilar = Least(K, n)
  BY DEF BasisSimilar
<1>8. BasisSimilar \in 1..n
  BY <1>4, <1>7 DEF Least
<1>9. Len(matches) \in Nat
  BY <1>1 DEF Holds
<1>10. \A i \in 1..Len(matches) : matches[i] \in Seen(n) /\ matches[i].d \in Int
  BY <1>2, <1>3
<1>11. \A a \in ToSet(matches) : \E j \in 1..Len(matches) : matches[j] = a
  BY <1>2
<1> QED BY <1>1, <1>2, <1>3, <1>4, <1>5, <1>6, <1>7, <1>8, <1>9, <1>10, <1>11

\* A subset counts no more.
LEMMA PartCounts ==
  ASSUME NEW S, IsFiniteSet(S), NEW P, P \subseteq S, NEW v
  PROVE  /\ Count(P, v) \in Nat /\ Count(S, v) \in Nat /\ Count(P, v) <= Count(S, v) /\ Count(P, v) <= Cardinality(P)
         /\ Cardinality(P) \in Nat
         /\ (\A a \in S : a.d <= v => a \in P) => Count(P, v) = Count(S, v)
         /\ (\A a \in P : a.d <= v) => Count(P, v) = Cardinality(P)
<1> DEFINE A == {m \in P : m.d <= v}
           B == {m \in S : m.d <= v}
<1>1. A \subseteq B /\ B \subseteq S /\ A \subseteq P /\ IsFiniteSet(P)
  BY FS_Subset
<1>2. Count(P, v) = Cardinality(A) /\ Count(S, v) = Cardinality(B)
  BY DEF Count
<1>3. (\A a \in S : a.d <= v => a \in P) => A = B
  OBVIOUS
<1>4. (\A a \in P : a.d <= v) => A = P
  OBVIOUS
<1> HIDE DEF A, B
<1>5. IsFiniteSet(A) /\ IsFiniteSet(B) /\ Cardinality(A) <= Cardinality(B) /\ Cardinality(A) <= Cardinality(P)
  BY <1>1, FS_Subset
<1>6. Cardinality(A) \in Nat /\ Cardinality(B) \in Nat /\ Cardinality(P) \in Nat
  BY <1>1, <1>5, FS_CardinalityType
<1> QED BY <1>2, <1>3, <1>4, <1>5, <1>6

\* As many candidates as basis_similar are within the last of a full heap.
LEMMA HeapReaches ==
  ASSUME Walked, Len(top) = K
  PROVE  top[K] \in Int /\ Count(Seen(n), top[K]) >= K /\ Sorted[BasisSimilar].d <= top[K]
<1>1. InSequence(K, top) /\ \A v \in Int : AtMost(top, v) <= Count(Seen(n), v)
  BY DEF Walked, ScanFits
<1>2. K \in 1..K /\ K \in Nat
  BY WalkedIs
<1>3. top[K] \in Int
  BY <1>1, <1>2, InSequenceLen
<1> DEFINE v == top[K]
<1>4. AtMost(top, v) \in 0..K /\ (top[K] <= v <=> K <= AtMost(top, v))
  BY <1>1, <1>2, <1>3, AtMostIs
<1>5. K <= AtMost(top, v)
  BY <1>3, <1>4
<1>6. Count(Seen(n), v) \in Int /\ AtMost(top, v) <= Count(Seen(n), v)
  <2>1. Count(Seen(n), v) \in Nat
    BY <1>3, WalkedIs, PartCounts
  <2> QED BY <1>1, <1>3, <2>1
<1> DEFINE a == AtMost(top, v)
           c == Count(Seen(n), v)
<1>7. c >= K
  <2>1. a \in Int /\ c \in Int /\ K <= a /\ a <= c /\ K \in Int
    BY <1>2, <1>4, <1>5, <1>6
  <2> HIDE DEF a, c
  <2> QED BY <2>1
<1>8. BasisSimilar \in 1..n /\ BasisSimilar <= c
  <2>1. BasisSimilar \in 1..n /\ BasisSimilar = Least(K, n) /\ n \in Nat
    BY WalkedIs
  <2>2. c \in Int
    BY <1>6
  <2> HIDE DEF c
  <2> QED BY <1>2, <1>7, <2>1, <2>2 DEF Least
<1>9. Sorted[BasisSimilar].d <= v
  BY <1>3, <1>8, NearCounts DEF Walked
<1> QED BY <1>3, <1>7, <1>9

\* What was dropped although tau or the K nearest would admit it was dropped by a
\* full list of nearer matches.
LEMMA DroppedIs ==
  ASSUME Walked, NEW b \in Seen(n) \ ToSet(matches), b.d <= Thr
  PROVE  Len(matches) = OutputCap /\ \A a \in ToSet(matches) : a.d <= b.d
<1>1. LostIs(b, matches, top)
  BY WalkedIs
<1>2. b.d \in Int
  BY WalkedIs
<1>3. ~(Len(top) = K /\ top[K] < b.d /\ tau < b.d)
  <2> SUFFICES ASSUME Len(top) = K, top[K] < b.d, tau < b.d PROVE FALSE
    OBVIOUS
  <2>1. top[K] \in Int /\ Sorted[BasisSimilar].d <= top[K]
    BY HeapReaches
  <2>2. tau \in Int /\ Sorted[BasisSimilar].d \in Int
    <3>1. BasisSimilar \in 1..n
      BY WalkedIs
    <3>2. Sorted[BasisSimilar].d \in 0..(Unlimited - 1)
      BY <3>1, SortedIs DEF Walked
    <3> QED BY <3>2, ShapeIs DEF Walked
  <2>3. b.d <= tau \/ b.d <= Sorted[BasisSimilar].d
    BY <2>2, <1>2 DEF Thr, Greatest
  <2> QED BY <1>2, <2>1, <2>2, <2>3
<1>4. Len(matches) = OutputCap /\ \A j \in 1..Len(matches) : matches[j].d <= b.d
  BY <1>1, <1>3 DEF LostIs
<1> QED BY <1>4, WalkedIs

\* The list holds enough for basis_similar.
LEMMA EnoughAreKept ==
  ASSUME Walked
  PROVE  BasisSimilar <= Len(matches) /\ Least(K, Len(matches)) = BasisSimilar
<1> DEFINE L == Len(matches)
           M == ToSet(matches)
           S == Seen(n)
<1>1. /\ L \in Nat /\ L <= OutputCap /\ L <= n /\ n \in Nat /\ K \in Nat /\ OutputCap \in Nat
      /\ BasisSimilar <= OutputCap /\ BasisSimilar = Least(K, n) /\ BasisSimilar \in Nat
      /\ M \subseteq S /\ Cardinality(M) = L /\ IsFiniteSet(S) /\ Cardinality(S) = n /\ \A a \in S : a.d \in Int
  BY WalkedIs
<1>2. BasisSimilar <= L
  <2>1. CASE L = OutputCap
    BY <1>1, <2>1
  <2>2. CASE M = S
    BY <1>1, <2>2 DEF Least
  <2>3. CASE L # OutputCap /\ M # S
    <3>1. \A a \in S \ M : Len(top) = K /\ top[K] < a.d
      BY <2>3, WalkedIs DEF LostIs
    <3>2. Len(top) = K
      BY <1>1, <2>3, <3>1
    <3>3. top[K] \in Int /\ Count(S, top[K]) >= K
      BY <3>2, HeapReaches
    <3>4. \A a \in S : a.d <= top[K] => a \in M
      BY <1>1, <3>1, <3>3
    <3>5. Count(M, top[K]) = Count(S, top[K]) /\ Count(M, top[K]) <= Cardinality(M) /\ Count(M, top[K]) \in Nat
      BY <1>1, <3>4, PartCounts
    <3> QED BY <1>1, <3>3, <3>5 DEF Least
  <2> QED BY <2>1, <2>2, <2>3
<1> QED BY <1>1, <1>2 DEF Least

\* So the threshold among the kept matches is the one among all candidates.
LEMMA ThresholdsAgree ==
  ASSUME Walked
  PROVE  Greatest(tau, Ascending([i \in DOMAIN matches |-> matches[i].d])[Least(K, Len(matches))]) = Thr
<1> DEFINE L == Len(matches)
           M == ToSet(matches)
           S == Seen(n)
           B == BasisSimilar
           list == [i \in DOMAIN matches |-> matches[i].d]
           kth == Ascending(list)[B]
           q == Sorted[B].d
<1>1. /\ L \in Nat /\ B \in 1..n /\ B \in 1..L /\ B <= OutputCap /\ n \in Nat
      /\ M \subseteq S /\ Cardinality(M) = L /\ IsFiniteSet(S) /\ \A a \in S : a.d \in Int
      /\ DOMAIN matches = 1..L /\ \A i \in 1..L : matches[i].d \in Int
      /\ \A v \in Int : AtMost(list, v) = Count(M, v)
  BY WalkedIs, EnoughAreKept
<1>2. list \in [1..L -> Int]
  BY <1>1
<1>3. /\ Ascending(list) \in [1..L -> Int]
      /\ \A i, j \in 1..L : i <= j => Ascending(list)[i] <= Ascending(list)[j]
      /\ \A v \in Int : AtMost(Ascending(list), v) = AtMost(list, v)
  <2> HIDE DEF L, list
  <2> QED BY <1>1, <1>2, AscendingIs
<1>4. InSequence(L, Ascending(list)) /\ kth \in Int
  <2> HIDE DEF list
  <2> QED BY <1>1, <1>3 DEF InSequence
<1>5. \A v \in Int : /\ AtMost(Ascending(list), v) = Count(M, v)
                     /\ kth <= v <=> B <= AtMost(Ascending(list), v)
  <2> HIDE DEF list, L, B
  <2> QED BY <1>1, <1>3, <1>4, AtMostIs DEF B
<1>6. \A v \in Int : kth <= v <=> B <= Count(M, v)
  BY <1>5
<1>7. \A v \in Int : q <= v <=> B <= Count(S, v)
  BY <1>1, NearCounts DEF Walked
<1>8. tau \in Int /\ q \in Int /\ Thr = Greatest(tau, q)
  <2>1. q \in 0..(Unlimited - 1)
    BY <1>1, SortedIs DEF Walked
  <2>2. q \in Int
    BY <2>1, ShapeIs DEF Walked
  <2> QED BY <2>2, ShapeIs DEF Walked, Thr
<1>9. \A v : Count(M, v) \in Nat /\ Count(S, v) \in Nat /\ Count(M, v) <= Count(S, v)
  BY <1>1, PartCounts
<1> HIDE DEF kth, q
<1>10. q <= kth
  <2>1. B <= Count(M, kth)
    BY <1>4, <1>6
  <2>2. B <= Count(S, kth)
    <3> DEFINE x == Count(M, kth)
               y == Count(S, kth)
    <3>1. x \in Nat /\ y \in Nat /\ x <= y /\ B <= x /\ B \in Int
      BY <1>1, <1>9, <2>1
    <3> HIDE DEF x, y, B
    <3>2. B <= y
      BY <3>1
    <3> QED BY <3>2 DEF y
  <2> QED BY <1>4, <1>7, <2>2
<1>11. Thr \in Int /\ tau <= Thr /\ q <= Thr
  BY <1>8 DEF Greatest
<1>12. kth <= Thr
  <2>1. B <= Count(M, Thr)
    <3>1. CASE \A a \in S : a.d <= Thr => a \in M
      <4>1. Count(M, Thr) = Count(S, Thr)
        BY <1>1, <3>1, PartCounts
      <4>2. B <= Count(S, Thr)
        BY <1>7, <1>11
      <4> QED BY <4>1, <4>2
    <3>2. ASSUME NEW b \in S \ M, b.d <= Thr PROVE B <= Count(M, Thr)
      <4>1. L = OutputCap /\ \A a \in M : a.d <= b.d
        BY <3>2, DroppedIs
      <4>2. \A a \in M : a.d <= Thr
        BY <1>1, <1>11, <3>2, <4>1
      <4>3. Count(M, Thr) = Cardinality(M)
        BY <1>1, <4>2, PartCounts
      <4> QED BY <1>1, <4>1, <4>3
    <3> QED BY <3>1, <3>2
  <2> QED BY <1>6, <1>11, <2>1
<1>13. Greatest(tau, kth) = Thr
  BY <1>4, <1>8, <1>10, <1>11, <1>12 DEF Greatest
<1>14. Least(K, L) = B
  BY EnoughAreKept
<1> QED BY <1>13, <1>14 DEF kth

\* The group's size is what tau admits, up to the cap.
LEMMA BestSizeCounts ==
  ASSUME Walked
  PROVE  BestSize = Least(RetainedStride, Count(Seen(n), Thr)) /\ Count(Seen(n), Thr) \in 0..n /\ Thr \in Int
<1> DEFINE c == Count(Seen(n), Thr)
<1>1. /\ Thr \in Nat /\ BestSize \in BasisSimilar..RetainedStride
      /\ \A i \in 1..RetainedStride : Sorted[i].d <= Thr <=> i <= BestSize
  BY BestSizeIs DEF Walked
<1>2. c \in 0..n /\ \A p \in 1..n : Sorted[p].d <= Thr <=> p <= c
  BY <1>1, NearCounts DEF Walked
<1>3. RetainedStride \in Nat /\ RetainedStride <= n /\ n \in Nat /\ BasisSimilar \in Nat
  <2>1. RetainedStride = Least(OutputCap, n) /\ OutputCap \in Nat /\ n \in Nat /\ BasisSimilar \in 1..n
    BY WalkedIs
  <2> QED BY <2>1 DEF Least
<1>4. \A i \in 1..RetainedStride : i <= c <=> i <= BestSize
  <2>1. \A i \in 1..RetainedStride : i \in 1..n
    BY <1>3
  <2> QED BY <1>1, <1>2, <2>1
<1> DEFINE R == RetainedStride
           z == BestSize
<1>5. c \in Nat /\ z \in Nat /\ R \in Nat /\ z <= R /\ \A i \in 1..R : i <= c <=> i <= z
  BY <1>1, <1>2, <1>3, <1>4
<1>6. z = Least(R, c)
  <2> HIDE DEF c, z, R
  <2>1. CASE c >= R
    <3>1. R = 0 \/ R \in 1..R
      BY <1>5
    <3>2. R <= z
      BY <1>5, <2>1, <3>1
    <3> QED BY <1>5, <2>1, <3>2 DEF Least
  <2>2. CASE c < R
    <3>1. z <= c
      <4>1. z = 0 \/ z \in 1..R
        BY <1>5
      <4> QED BY <1>5, <4>1
    <3>2. c <= z
      <4>1. c = 0 \/ c \in 1..R
        BY <1>5, <2>2
      <4> QED BY <1>5, <4>1
    <3> QED BY <1>5, <2>2, <3>1, <3>2 DEF Least
  <2> QED BY <1>5, <2>1, <2>2
<1> QED BY <1>1, <1>2, <1>6

\* A part as large as the whole is the whole.
LEMMA PartIsAll ==
  ASSUME NEW S, IsFiniteSet(S), NEW P, P \subseteq S, Cardinality(P) = Cardinality(S)
  PROVE  P = S
BY FS_Subset

\* The CPU's group is nearest.
LEMMA SelectionIsNearest ==
  ASSUME Walked, NEW T \in Selections
  PROVE  Nearest(T)
<1> DEFINE L == Len(matches)
           M == ToSet(matches)
           S == Seen(n)
           C == {a \in S : a.d <= Thr}
           near == {m \in M : m.d <= Thr}
           c == Count(S, Thr)
           size == Least(Least(SoftCap, L), Cardinality(near))
<1>1. T \in NearestSubsets(near, size)
  BY ThresholdsAgree DEF Selections
<1>2. T \subseteq near /\ Cardinality(T) = size
  BY <1>1 DEF NearestSubsets
<1>3. /\ L \in Nat /\ L <= OutputCap /\ L <= n /\ n \in Nat /\ OutputCap \in Nat /\ OutputCap <= SoftCap /\ SoftCap \in Nat
      /\ RetainedStride = Least(OutputCap, n) /\ M \subseteq S /\ IsFiniteSet(M) /\ Cardinality(M) = L
      /\ IsFiniteSet(S) /\ \A a \in S : a.d \in Int
  BY WalkedIs
<1>4. BestSize = Least(RetainedStride, c) /\ c \in 0..n /\ Thr \in Int
  BY BestSizeCounts
<1>5. CASE \A a \in S : a.d <= Thr => a \in M
  <2>1. near = C
    BY <1>3, <1>5
  <2>2. c = Cardinality(C) /\ C \subseteq S
    BY DEF Count
  <2>3. c <= L
    <3>1. Count(M, Thr) = c /\ Count(M, Thr) <= Cardinality(M)
      BY <1>3, <1>5, PartCounts
    <3> QED BY <1>3, <3>1
  <2>4. size = c /\ BestSize = c
    <3>1. Cardinality(near) = c
      BY <2>1, <2>2
    <3> HIDE DEF near, c, L
    <3>2. size = c
      BY <1>3, <1>4, <2>3, <3>1 DEF Least
    <3>3. BestSize = c
      BY <1>3, <1>4, <2>3 DEF Least
    <3> QED BY <3>2, <3>3
  <2>5. IsFiniteSet(C)
    BY <1>3, <2>2, FS_Subset
  <2>6. T = C
    BY <1>2, <2>1, <2>2, <2>4, <2>5, PartIsAll
  <2>7. \A a \in C, b \in S \ C : a.d <= b.d
    BY <1>3, <1>4
  <2> QED BY <2>2, <2>4, <2>5, <2>6, <2>7 DEF Nearest
<1>6. ASSUME NEW b0 \in S \ M, b0.d <= Thr PROVE Nearest(T)
  <2>1. L = OutputCap /\ \A a \in M : a.d <= b0.d
    BY <1>6, DroppedIs
  <2>2. \A a \in M : a.d <= Thr
    BY <1>3, <1>4, <1>6, <2>1
  <2>3. near = M
    BY <2>2
  <2>4. size = L
    <3>1. Cardinality(near) = L
      BY <1>3, <2>3
    <3> HIDE DEF near, L
    <3> QED BY <1>3, <2>1, <3>1 DEF Least
  <2>5. L <= c
    <3>1. Count(M, Thr) = Cardinality(M) /\ Count(M, Thr) <= Count(S, Thr)
      BY <1>3, <2>2, PartCounts
    <3> QED BY <1>3, <3>1
  <2>6. BestSize = L
    BY <1>3, <1>4, <2>1, <2>5 DEF Least
  <2>7. T = M
    BY <1>2, <1>3, <2>3, <2>4, PartIsAll
  <2>8. \A a \in M, b \in S \ M : a.d <= b.d
    <3> SUFFICES ASSUME NEW a \in M, NEW b \in S \ M PROVE a.d <= b.d
      OBVIOUS
    <3>1. CASE b.d <= Thr
      BY <3>1, DroppedIs
    <3>2. CASE ~(b.d <= Thr)
      BY <1>3, <1>4, <2>2, <3>2
    <3> QED BY <3>1, <3>2
  <2> QED BY <1>3, <2>6, <2>7, <2>8 DEF Nearest
<1> QED BY <1>5, <1>6

-----------------------------------------------------------------------------
(* The invariant of the CPU, and both groups. *)

\* The CPU's group is nearest patches' origins.
CpuFinds == \E T : Nearest(T) /\ cpuGroup = {a.o : a \in T}

\* While the CPU scans, its list has lost only what it may lose; then it has a group
\* of the nearest.
CpuInv ==
    /\ phase = "scan" /\ K > 1 => ScanFits(scanned, matches, top)
    /\ phase # "scan" /\ K > 1 => CpuFinds

LEMMA ScanIsFixed ==
  ASSUME UNCHANGED inputs
  PROVE  /\ (ScanFits(scanned, matches, top))' <=> ScanFits(scanned', matches', top')
         /\ CpuFinds' <=> \E T : Nearest(T) /\ cpuGroup' = {a.o : a \in T}
<1>1. n' = n /\ K' = K /\ tau' = tau /\ scan' = scan /\ dist' = dist /\ OutputCap' = OutputCap /\ BestSize' = BestSize
  BY RequestIsFixed, BestIsFixed
<1>2. Seen(n)' = Seen(n)
  BY <1>1 DEF Seen, Match
<1>3. Seen(scanned)' = Seen(scanned')
  BY <1>1 DEF Seen, Match
<1>4. \A T : Nearest(T)' = Nearest(T)
  BY <1>1, <1>2 DEF Nearest
<1>5. CpuFinds' <=> \E T : Nearest(T) /\ cpuGroup' = {a.o : a \in T}
  BY <1>4 DEF CpuFinds
<1>6. \A a : LostIs(a, matches, top)' <=> LostIs(a, matches', top')
  BY <1>1 DEF LostIs
<1>7. \A v : (AtMost(top, v) <= Count(Seen(scanned), v))' <=> AtMost(top', v) <= Count(Seen(scanned'), v)
  BY <1>3 DEF AtMost, Count
<1>8. (Holds(Len(matches), matches, Seen(scanned)))' <=> Holds(Len(matches'), matches', Seen(scanned'))
  BY <1>3 DEF Holds
<1>9. (InSequence(Len(top), top))' <=> InSequence(Len(top'), top')
  BY DEF InSequence
<1>10. ToSet(matches)' = ToSet(matches')
  BY DEF ToSet
<1>11. (ScanFits(scanned, matches, top))' <=> ScanFits(scanned', matches', top')
  BY <1>1, <1>3, <1>6, <1>7, <1>8, <1>9, <1>10 DEF ScanFits
<1> QED BY <1>5, <1>11

\* The CPU's invariant holds at first, and each action keeps it.
LEMMA CpuInit ==
  ASSUME MatchInit, RequestFits, DistancesFit
  PROVE  CpuInv
<1>1. phase = "scan" /\ scanned = 0 /\ matches = <<>> /\ top = <<>>
  BY DEF MatchInit
<1>2. OutputCap \in Nat \ {0} /\ K \in Nat \ {0} /\ n \in Nat \ {0}
  BY OutputCapIs, ShapeIs, SidesAre
<1>3. IsFiniteSet(Seen(0)) /\ Seen(0) = {}
  BY <1>2, SeenIs
<1>4. Len(<<>>) = 0 /\ \A X : <<>> \in [1..0 -> X]
  OBVIOUS
<1>5. Holds(0, <<>>, Seen(0))
  BY <1>3, <1>4 DEF Holds
<1>6. InSequence(0, <<>>)
  BY <1>4 DEF InSequence
<1>7. ASSUME NEW v \in Int PROVE AtMost(<<>>, v) <= Count(Seen(0), v)
  <2>1. {m \in Seen(0) : m.d <= v} = {}
    BY <1>3
  <2>2. Count(Seen(0), v) = 0
    BY <2>1, FS_EmptySet DEF Count
  <2>3. AtMost(<<>>, v) \in 0..0
    BY <1>6, AtMostIs
  <2> QED BY <2>2, <2>3
<1>8. ScanFits(0, <<>>, <<>>)
  BY <1>2, <1>3, <1>4, <1>5, <1>6, <1>7 DEF ScanFits
<1> QED BY <1>1, <1>8 DEF CpuInv

LEMMA CandidateKeepsCpu ==
  ASSUME CudaInv, CpuInv, ScanCandidate
  PROVE  CpuInv'
<1> DEFINE k == scanned
           m == [d |-> dist[scan[scanned + 1]], o |-> scan[scanned + 1]]
<1>1. /\ phase = "scan" /\ phase' = phase /\ K > 1 /\ scanned < Len(scan) /\ scanned' = scanned + 1 /\ UNCHANGED inputs
      /\ IF m.d <= DistanceLimit THEN matches' = RecordMatch(m) /\ top' = RecordDistance(m.d)
         ELSE matches' = matches /\ top' = top
  BY DEF ScanCandidate
<1>2. RequestFits /\ DistancesFit /\ ScanFits(k, matches, top)
  BY <1>1 DEF CudaInv, CpuInv
<1>3. Len(scan) = n /\ n \in Nat
  BY <1>2, ScanIs, SidesAre
<1>4. k \in 0..(n - 1)
  BY <1>1, <1>2, <1>3 DEF ScanFits
<1>5. StepFits(k)
  BY <1>2, <1>4 DEF StepFits
<1>6. m = Match(k + 1)
  BY DEF Match
<1>7. ScanFits(k + 1, matches', top')
  <2> HIDE DEF m, k
  <2> QED BY <1>1, <1>5, <1>6, CandidateFits
<1>8. (ScanFits(scanned, matches, top))'
  BY <1>1, <1>7, ScanIsFixed
<1> QED BY <1>1, <1>8 DEF CpuInv

LEMMA SelectKeepsCpu ==
  ASSUME CudaInv, CpuInv, CpuSelect
  PROVE  CpuInv'
<1>1. /\ phase = "scan" /\ phase' = "reserve" /\ K > 1 /\ scanned = Len(scan) /\ UNCHANGED inputs
      /\ \E T \in Selections : cpuGroup' = {m.o : m \in T}
  BY DEF CpuSelect
<1>2. RequestFits /\ DistancesFit /\ ScanFits(scanned, matches, top)
  BY <1>1 DEF CudaInv, CpuInv
<1>3. Len(scan) = n
  BY <1>2, ScanIs, SidesAre
<1>4. Walked
  BY <1>1, <1>2, <1>3 DEF Walked
<1>5. PICK T \in Selections : cpuGroup' = {m.o : m \in T}
  BY <1>1
<1>6. Nearest(T)
  BY <1>4, SelectionIsNearest
<1>7. CpuFinds'
  BY <1>1, <1>5, <1>6, ScanIsFixed
<1> QED BY <1>1, <1>7 DEF CpuInv

LEMMA OthersKeepCpu ==
  ASSUME CpuInv, UNCHANGED <<inputs, cpuVars>>, phase' = phase \/ (phase # "scan" /\ phase' # "scan")
  PROVE  CpuInv'
<1>1. UNCHANGED inputs /\ scanned' = scanned /\ matches' = matches /\ top' = top /\ cpuGroup' = cpuGroup /\ K' = K
  BY RequestIsFixed DEF cpuVars
<1>2. (ScanFits(scanned, matches, top))' <=> ScanFits(scanned, matches, top)
  BY <1>1, ScanIsFixed
<1>3. CpuFinds' <=> CpuFinds
  BY <1>1, ScanIsFixed DEF CpuFinds
<1> QED BY <1>1, <1>2, <1>3 DEF CpuInv

LEMMA CpuNext ==
  ASSUME CudaInv, CpuInv, [MatchNext]_matchVars
  PROVE  CpuInv'
<1>1. CASE CpuTakesAnchor
  <2>1. phase' = "reserve" /\ ~(K > 1) /\ K' = K
    BY <1>1, RequestIsFixed, ShapeIs DEF CpuTakesAnchor, CudaInv
  <2> QED BY <2>1 DEF CpuInv
<1>2. CASE ScanCandidate
  BY <1>2, CandidateKeepsCpu
<1>3. CASE CpuSelect
  BY <1>3, SelectKeepsCpu
<1>4. CASE Reserve
  <2>1. UNCHANGED <<inputs, cpuVars>> /\ phase # "scan" /\ phase' # "scan"
    BY <1>4 DEF Reserve
  <2> QED BY <2>1, OthersKeepCpu
<1>5. CASE SingleMatchGather
  <2>1. UNCHANGED <<inputs, cpuVars>> /\ phase # "scan" /\ phase' # "scan"
    BY <1>5 DEF SingleMatchGather
  <2> QED BY <2>1, OthersKeepCpu
<1>6. CASE MatchSelectGather
  <2>1. UNCHANGED <<inputs, cpuVars>> /\ phase # "scan" /\ phase' # "scan"
    BY <1>6 DEF MatchSelectGather
  <2> QED BY <2>1, OthersKeepCpu
<1>7. ASSUME NEW task \in Tasks, ChunkMatchSelect(task) \/ MatchDistance(task) PROVE CpuInv'
  <2>1. UNCHANGED <<inputs, cpuVars, phase>>
    BY <1>7 DEF ChunkMatchSelect, MatchDistance
  <2> QED BY <2>1, OthersKeepCpu
<1>8. CASE SortAll
  <2>1. UNCHANGED <<inputs, cpuVars>> /\ phase # "scan" /\ phase' # "scan"
    BY <1>8 DEF SortAll
  <2> QED BY <2>1, OthersKeepCpu
<1>9. CASE SelectedGather
  <2>1. UNCHANGED <<inputs, cpuVars>> /\ phase # "scan" /\ phase' # "scan"
    BY <1>9 DEF SelectedGather
  <2> QED BY <2>1, OthersKeepCpu
<1>10. CASE UNCHANGED matchVars \/ SearchOver
  <2>1. UNCHANGED <<inputs, cpuVars, phase>>
    BY <1>10 DEF SearchOver, matchVars
  <2> QED BY <2>1, OthersKeepCpu
<1> QED BY <1>1, <1>2, <1>3, <1>4, <1>5, <1>6, <1>7, <1>8, <1>9, <1>10 DEF MatchNext

\* Both invariants always hold.
LEMMA CpuAlways == MatchSpec => [](CudaInv /\ CpuInv)
<1>1. MatchInit => CudaInv /\ CpuInv
  <2> SUFFICES ASSUME MatchInit PROVE CudaInv /\ CpuInv
    OBVIOUS
  <2>1. CudaInv
    BY CudaInit
  <2>2. RequestFits /\ DistancesFit
    BY <2>1 DEF CudaInv
  <2> QED BY <2>1, <2>2, CpuInit
<1>2. (CudaInv /\ CpuInv) /\ [MatchNext]_matchVars => (CudaInv /\ CpuInv)'
  BY CudaNext, CpuNext
<1> QED BY <1>1, <1>2, PTL DEF MatchSpec

\* The matcher's group, as patches with their distances.
BestPatches == {Match(Sorted[i].id + 1) : i \in 1..BestSize}

\* It is a group of the nearest.
LEMMA BestPatchesAre ==
  ASSUME RequestFits, DistancesFit, K > 1
  PROVE  /\ Nearest(BestPatches) /\ BestSize \in Nat \ {0}
         /\ BestPatches \subseteq Seen(n)
         /\ DOMAIN BestGroup = 1..BestSize /\ Len(BestGroup) = BestSize
         /\ ToSet(BestGroup) = {a.o : a \in BestPatches}
         /\ \E l \in BestPatches : BestGroup[BestSize] = l.o /\ \A a \in BestPatches : a.d <= l.d
<1> DEFINE z == BestSize
           B == BestPatches
           At(p) == Match(Sorted[p].id + 1)
<1>1. z \in 1..n /\ n \in Nat /\ z \in Nat
  <2>1. BestSize \in BasisSimilar..RetainedStride /\ RetainedStride \in 1..n /\ BasisSimilar \in 1..RetainedStride /\ n \in Nat
    BY BestSizeIs, CapsAre, SidesAre
  <2> QED BY <2>1
<1>2. \A p \in 1..z : p \in 1..n
  BY <1>1
<1>3. \A p \in 1..n : /\ Sorted[p].id \in 0..(n - 1) /\ Sorted[p].d = Distance(Sorted[p].id)
                      /\ Sorted[p].d \in 0..(Unlimited - 1)
  BY SortedIs
<1>4. \A p \in 1..n : Sorted[p].d \in Int
  BY <1>3, ShapeIs
<1>5. \A p \in 1..n : /\ Sorted[p].id + 1 \in 1..n /\ At(p) \in Seen(n)
                      /\ At(p).d = Sorted[p].d /\ At(p).o = Origin(Sorted[p].id)
  <2> SUFFICES ASSUME NEW p \in 1..n
               PROVE  /\ Sorted[p].id + 1 \in 1..n /\ At(p) \in Seen(n)
                      /\ At(p).d = Sorted[p].d /\ At(p).o = Origin(Sorted[p].id)
    OBVIOUS
  <2>1. Sorted[p].id \in 0..(n - 1) /\ Sorted[p].d = Distance(Sorted[p].id)
    BY <1>3
  <2> DEFINE i == Sorted[p].id + 1
  <2>2. i \in 1..n /\ i - 1 = Sorted[p].id
    BY <1>1, <2>1
  <2> HIDE DEF i
  <2>3. Match(i).d = Distance(i - 1) /\ Match(i).o = Origin(i - 1) /\ Match(i) \in Seen(n)
    BY <2>2, MatchIs DEF Seen
  <2> QED BY <2>1, <2>2, <2>3 DEF i
<1>6. \A p, q \in 1..n : At(p) = At(q) => p = q
  <2> SUFFICES ASSUME NEW p \in 1..n, NEW q \in 1..n, At(p) = At(q) PROVE p = q
    OBVIOUS
  <2>1. Sorted[p].id + 1 = Sorted[q].id + 1
    BY <1>5, MatchIs
  <2>2. Sorted[p].id = Sorted[q].id
    BY <1>3, <2>1
  <2> QED BY <2>2, SortedIs
<1>7. \A p, q \in 1..n : p <= q => At(p).d <= At(q).d
  <2> SUFFICES ASSUME NEW p \in 1..n, NEW q \in 1..n, p <= q PROVE At(p).d <= At(q).d
    OBVIOUS
  <2>1. p = q \/ p < q
    OBVIOUS
  <2>2. Sorted[p].d <= Sorted[q].d
    BY <1>4, <2>1, SortedIs
  <2> QED BY <1>5, <2>2
<1>8. \A a \in Seen(n) : \E p \in 1..n : a = At(p)
  <2> SUFFICES ASSUME NEW a \in Seen(n) PROVE \E p \in 1..n : a = At(p)
    OBVIOUS
  <2>1. PICK i \in 1..n : a = Match(i)
    BY DEF Seen
  <2>2. i - 1 \in 0..(n - 1) /\ (i - 1) + 1 = i
    BY <1>1
  <2>3. KeyAt(i - 1) \in AllKeys /\ KeyAt(i - 1).id = i - 1
    BY <2>2, KeysAre
  <2>4. PICK p \in 1..n : Sorted[p] = KeyAt(i - 1)
    BY <2>3, SortedIs
  <2> QED BY <2>1, <2>2, <2>3, <2>4
<1>9. /\ B = {At(p) : p \in 1..z} /\ B \subseteq Seen(n)
  BY <1>2, <1>5 DEF BestPatches
<1>10. IsFiniteSet(B) /\ Cardinality(B) = z
  <2> DEFINE X == 1..z
             f == [p \in X |-> At(p)]
  <2>1. OneToOne(X, f, B)
    BY <1>2, <1>6, <1>9 DEF OneToOne
  <2>2. IsFiniteSet(X) /\ Cardinality(X) = z
    BY <1>1, FS_Interval
  <2> HIDE DEF X, f, B
  <2> QED BY <2>1, <2>2, ImageCounts
<1>11. \A a \in B, b \in Seen(n) \ B : a.d <= b.d
  <2> SUFFICES ASSUME NEW a \in B, NEW b \in Seen(n) \ B PROVE a.d <= b.d
    OBVIOUS
  <2>1. PICK p \in 1..z : a = At(p)
    BY <1>9
  <2>2. PICK q \in 1..n : b = At(q)
    BY <1>8
  <2>3. q \notin 1..z
    BY <1>9, <2>2
  <2>4. p <= q /\ p \in 1..n
    BY <1>1, <2>3
  <2> QED BY <1>7, <2>1, <2>2, <2>4
<1>12. DOMAIN BestGroup = 1..z /\ Len(BestGroup) = z /\ \A p \in 1..z : BestGroup[p] = At(p).o
  <2>1. BestGroup = [p \in 1..z |-> Origin(Sorted[p].id)]
    BY DEF BestGroup
  <2> HIDE DEF z
  <2> QED BY <1>1, <1>2, <1>5, <2>1
<1>13. ToSet(BestGroup) = {a.o : a \in B}
  BY <1>9, <1>12 DEF ToSet
<1>14. z \in 1..z /\ At(z) \in B /\ BestGroup[z] = At(z).o /\ \A a \in B : a.d <= At(z).d
  <2>1. z \in 1..z /\ \A p \in 1..z : p <= z
    BY <1>1
  <2> QED BY <1>2, <1>7, <1>9, <1>12, <2>1
<1>15. z \in Nat \ {0}
  BY <1>1
<1> QED BY <1>9, <1>10, <1>11, <1>12, <1>13, <1>14, <1>15 DEF Nearest

\* Two groups of the nearest differ only in equally distant patches.
LEMMA NearestAgree ==
  ASSUME RequestFits, DistancesFit, NEW T, NEW U, Nearest(T), Nearest(U),
         NEW l \in U, \A a \in U : a.d <= l.d
  PROVE  \A a \in (T \ U) \cup (U \ T) : a.d = l.d
<1>1. /\ T \subseteq Seen(n) /\ U \subseteq Seen(n) /\ IsFiniteSet(T) /\ IsFiniteSet(U) /\ Cardinality(T) = Cardinality(U)
      /\ \A a \in T, b \in Seen(n) \ T : a.d <= b.d
      /\ \A a \in U, b \in Seen(n) \ U : a.d <= b.d
  BY DEF Nearest
<1>2. \A a \in Seen(n) : a.d \in Int
  BY SeenIs
<1>3. ASSUME NEW a \in T \ U PROVE a.d = l.d
  <2>1. PICK u \in U : u \notin T
    <3>1. ~(U \subseteq T)
      BY <1>1, <1>3, PartIsAll
    <3> QED BY <3>1
  <2>2. a.d <= u.d /\ l.d <= a.d /\ u.d <= l.d
    BY <1>1, <2>1
  <2> QED BY <1>1, <1>2, <2>2
<1>4. ASSUME NEW a \in U \ T PROVE a.d = l.d
  <2>1. PICK t \in T : t \notin U
    <3>1. ~(T \subseteq U)
      BY <1>1, <1>4, PartIsAll
    <3> QED BY <3>1
  <2>2. t.d <= a.d /\ l.d <= t.d /\ a.d <= l.d
    BY <1>1, <2>1
  <2> QED BY <1>1, <1>2, <2>2
<1> QED BY <1>3, <1>4

\* Both invariants together give the promise.
LEMMA GroupsAgree ==
  ASSUME CudaInv, CpuInv
  PROVE  MatchersAgree
<1> SUFFICES ASSUME phase = "done", strategy # "none", K > 1
             PROVE  /\ Cardinality(cpuGroup) = Len(cudaGroup)
                    /\ \A o \in (cpuGroup \ ToSet(cudaGroup)) \cup (ToSet(cudaGroup) \ cpuGroup) :
                          dist[o] = dist[cudaGroup[Len(cudaGroup)]]
  BY DEF MatchersAgree, Matched
<1>1. RequestFits /\ DistancesFit /\ cudaGroup = BestGroup /\ CpuFinds /\ K \in Nat
  <2>1. RequestFits /\ DistancesFit /\ cudaGroup = IF SinglePath THEN <<anchor>> ELSE BestGroup
    BY DEF CudaInv
  <2>2. CpuFinds
    BY DEF CpuInv
  <2>3. K \in Nat
    BY <2>1, ShapeIs
  <2>4. ~SinglePath
    BY <2>3 DEF SinglePath
  <2> QED BY <2>1, <2>2, <2>3, <2>4
<1>2. PICK T : Nearest(T) /\ cpuGroup = {a.o : a \in T}
  BY <1>1 DEF CpuFinds
<1> DEFINE U == BestPatches
<1>3. /\ Nearest(U) /\ U \subseteq Seen(n) /\ Len(cudaGroup) = BestSize /\ ToSet(cudaGroup) = {a.o : a \in U}
  BY <1>1, BestPatchesAre
<1>4. PICK l \in U : cudaGroup[BestSize] = l.o /\ \A a \in U : a.d <= l.d
  BY <1>1, BestPatchesAre
<1>5. /\ \A a \in Seen(n) : a.d = dist[a.o]
      /\ \A a, b \in Seen(n) : a.o = b.o => a = b
  BY <1>1, SeenIs
<1>6. T \subseteq Seen(n) /\ IsFiniteSet(T) /\ Cardinality(T) = BestSize
  BY <1>2 DEF Nearest
<1>7. Cardinality(cpuGroup) = BestSize
  <2> DEFINE f == [a \in T |-> a.o]
  <2>1. OneToOne(T, f, cpuGroup)
    BY <1>2, <1>5, <1>6 DEF OneToOne
  <2> HIDE DEF f
  <2> QED BY <2>1, <1>6, ImageCounts
<1>8. \A a \in (T \ U) \cup (U \ T) : a.d = l.d
  BY <1>1, <1>2, <1>3, <1>4, NearestAgree
<1>9. ASSUME NEW o \in (cpuGroup \ ToSet(cudaGroup)) \cup (ToSet(cudaGroup) \ cpuGroup)
      PROVE  dist[o] = dist[cudaGroup[BestSize]]
  <2>1. \E a \in (T \ U) \cup (U \ T) : o = a.o
    BY <1>2, <1>3
  <2>2. PICK a \in (T \ U) \cup (U \ T) : o = a.o
    BY <2>1
  <2>3. a \in Seen(n) /\ l \in Seen(n)
    BY <1>3, <1>6
  <2> QED BY <1>4, <1>5, <1>8, <2>2, <2>3
<1> QED BY <1>3, <1>7, <1>9

\* MatchersAgree: for every request, the CPU's bounded list with its early limit and
\* the matcher find groups of the same size, which differ at most in which of the
\* farthest, equally distant patches they took.
THEOREM MatchersFindTheSame == MatchSpec => []MatchersAgree
<1>1. CudaInv /\ CpuInv => MatchersAgree
  BY GroupsAgree
<1> QED BY <1>1, CpuAlways, PTL
=============================================================================
