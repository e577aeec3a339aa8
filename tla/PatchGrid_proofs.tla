--------------------------- MODULE PatchGrid_proofs ---------------------------
(***************************************************************************)
(* Theorems about the patches of an anchor frame: AnchorGrid, for every    *)
(* geometry, and PasteMask, for every geometry, frame, block of threads,   *)
(* size of the kernels and lists of matches.                               *)
(*                                                                         *)
(* Grid is defined by recursion over its rows.  Facts about every level of *)
(* such a stack are proved by looking at the first level that fails        *)
(* (FirstFailure), and that the definition has a solution at all           *)
(* (StackExists) by looking at the least height that has none.             *)
(***************************************************************************)
EXTENDS AnchorGrid, PasteMask, SequenceTheorems, WellFoundedInduction, TLAPS

\* A non-empty set of naturals has a least member.
LEMMA LeastOf ==
  ASSUME NEW T, T \subseteq Nat, T # {}
  PROVE  \E n \in T : \A m \in T : n <= m
<1>1. PICK n \in T : \A m \in T : <<m, n>> \notin OpToRel(<, Nat)
  BY WFMin, NatLessThanWellFounded, Zenon
<1>2. \A m \in T : ~(m < n)
  BY <1>1 DEF OpToRel
<1> QED BY <1>2

\* A property of 0..n that holds of 0 fails first at a successor.
LEMMA FirstFailure ==
  ASSUME NEW n \in Nat, NEW T, T \subseteq 0..n, T # {}, 0 \notin T
  PROVE  \E i \in 1..n : i \in T /\ i - 1 \in 0..n /\ i - 1 \notin T
<1>1. T \subseteq Nat
  OBVIOUS
<1>2. PICK i \in T : \A j \in T : i <= j
  BY <1>1, LeastOf
<1>3. i \in 1..n /\ i - 1 \in 0..n
  OBVIOUS
<1>4. ~(i <= i - 1)
  BY <1>3
<1> QED BY <1>2, <1>3, <1>4

-----------------------------------------------------------------------------
(* Residues. *)

\* Multiplying by a natural keeps the order.
LEMMA Scale ==
  ASSUME NEW i \in Int, NEW j \in Int, NEW k \in Nat, i <= j
  PROVE  i * k <= j * k
OBVIOUS

\* Quotient and residue.
LEMMA Division ==
  ASSUME NEW v \in Int, NEW k \in Nat \ {0}
  PROVE  v \div k \in Int /\ v % k \in 0..(k - 1) /\ v = (v \div k) * k + (v % k)
OBVIOUS

\* The quotient of naturals is one.
LEMMA QuotientOfNat ==
  ASSUME NEW v \in Nat, NEW k \in Nat \ {0}
  PROVE  v \div k \in Nat
<1>1. PICK d \in Int, m \in 0..(k - 1) : d = v \div k /\ v = d * k + m
  BY Division
<1>2. d >= 0
  <2> SUFFICES ASSUME d <= -1 PROVE FALSE
    OBVIOUS
  <2>1. d * k <= (-1) * k
    BY Scale
  <2>2. (-1) * k = - k /\ d * k \in Int
    OBVIOUS
  <2> QED BY <1>1, <2>1, <2>2
<1> QED BY <1>1, <1>2

\* Quotient and residue are determined by the number they make up.
LEMMA DivisionIsUnique ==
  ASSUME NEW k \in Nat \ {0}, NEW q \in Int, NEW r \in 0..(k - 1)
  PROVE  (q * k + r) \div k = q /\ (q * k + r) % k = r
<1> DEFINE v == q * k + r
<1>1. v \in Int
  OBVIOUS
<1>2. PICK d \in Int, m \in 0..(k - 1) : d = v \div k /\ m = v % k /\ v = d * k + m
  BY <1>1, Division
<1>3. d <= q
  <2> SUFFICES ASSUME d >= q + 1 PROVE FALSE
    BY <1>2
  <2>1. (q + 1) * k <= d * k
    BY Scale
  <2>2. (q + 1) * k = q * k + k
    OBVIOUS
  <2> QED BY <1>2, <2>1, <2>2
<1>4. d >= q
  <2> SUFFICES ASSUME d + 1 <= q PROVE FALSE
    BY <1>2
  <2>1. (d + 1) * k <= q * k
    BY Scale
  <2>2. (d + 1) * k = d * k + k
    OBVIOUS
  <2> QED BY <1>2, <2>1, <2>2
<1>5. d = q
  BY <1>2, <1>3, <1>4
<1> QED BY <1>2, <1>5

\* Two numbers have the same residue when they are a multiple apart.
LEMMA SameResidue ==
  ASSUME NEW v \in Int, NEW w \in Int, NEW k \in Nat \ {0}
  PROVE  v % k = w % k <=> \E j \in Int : v = w + j * k
<1>1. PICK a \in Int, r \in 0..(k - 1) : r = v % k /\ v = a * k + r
  BY Division
<1>2. PICK b \in Int, s \in 0..(k - 1) : s = w % k /\ w = b * k + s
  BY Division
<1>3. ASSUME r = s PROVE \E j \in Int : v = w + j * k
  <2>1. v = w + (a - b) * k
    BY <1>1, <1>2, <1>3
  <2> QED BY <2>1
<1>4. ASSUME NEW j \in Int, v = w + j * k PROVE r = s
  <2>1. v = (b + j) * k + s
    BY <1>2, <1>4
  <2>2. b + j \in Int
    OBVIOUS
  <2>3. ((b + j) * k + s) % k = s
    BY <2>2, DivisionIsUnique
  <2> QED BY <1>1, <2>1, <2>3
<1> QED BY <1>1, <1>2, <1>3, <1>4

\* Rows and frames only matter up to the step.
LEMMA ResidueOfSum ==
  ASSUME NEW v \in Int, NEW w \in Int, NEW k \in Nat \ {0}
  PROVE  ((v % k) + w) % k = (v + w) % k /\ (v % k) % k = v % k
<1>1. PICK a \in Int, r \in 0..(k - 1) : r = v % k /\ v = a * k + r
  BY Division
<1>2. v + w = (r + w) + a * k /\ v = r + a * k
  BY <1>1
<1>3. (v + w) % k = (r + w) % k
  <2>1. v + w \in Int /\ r + w \in Int /\ \E j \in Int : v + w = (r + w) + j * k
    BY <1>2
  <2> QED BY <2>1, SameResidue
<1>4. v % k = r % k
  BY <1>2, SameResidue
<1> QED BY <1>1, <1>3, <1>4

-----------------------------------------------------------------------------
(* The positions on an axis. *)

Start(step, phase) == IF phase % step = 0 THEN step ELSE phase % step
Count(maximum, step, phase) ==
    IF Start(step, phase) < maximum
    THEN (maximum - 1 - Start(step, phase)) \div step + 1 ELSE 0

\* Between lists, in ascending order, the inner positions of the phase's residue.
LEMMA BetweenMembers ==
  ASSUME NEW maximum \in Nat, NEW step \in Nat \ {0}, NEW phase \in Nat
  PROVE  /\ Count(maximum, step, phase) \in Nat
         /\ Between(maximum, step, phase) \in [1..Count(maximum, step, phase) -> 1..(maximum - 1)]
         /\ \A v \in 1..(maximum - 1) :
               (\E k \in 1..Count(maximum, step, phase) : Between(maximum, step, phase)[k] = v)
                 <=> v % step = phase % step
         /\ \A j, k \in 1..Count(maximum, step, phase) :
               j < k => Between(maximum, step, phase)[j] < Between(maximum, step, phase)[k]
<1> DEFINE s == Start(step, phase)
           n == Count(maximum, step, phase)
           B == Between(maximum, step, phase)
<1>1. s \in 1..step /\ s % step = phase % step
  <2>1. phase % step \in 0..(step - 1) /\ (phase % step) % step = phase % step
    <3>1. phase \in Int /\ 0 \in Int
      OBVIOUS
    <3>2. phase % step \in 0..(step - 1)
      BY <3>1, Division
    <3>3. (phase % step) % step = phase % step
      BY <3>1, ResidueOfSum
    <3> QED BY <3>2, <3>3
  <2>2. step % step = 0
    <3>1. 1 * step + 0 = step
      OBVIOUS
    <3> QED BY <3>1, DivisionIsUnique
  <2> QED BY <2>1, <2>2 DEF Start
<1>2. /\ n = IF s < maximum THEN (maximum - 1 - s) \div step + 1 ELSE 0
      /\ B = [k \in 1..n |-> s + (k - 1) * step]
  BY DEF Between, Count, Start
<1> HIDE DEF s, n, B
<1>3. n \in Nat /\ \A k \in Int : k >= 1 => (k <= n <=> s + (k - 1) * step < maximum)
  <2>1. CASE s < maximum
    <3>0. maximum - 1 - s \in Int
      BY <1>1
    <3>1. PICK d \in Int, m \in 0..(step - 1) :
             /\ d = (maximum - 1 - s) \div step /\ maximum - 1 - s = d * step + m
      BY <3>0, Division
    <3>2. n = d + 1
      BY <1>2, <2>1, <3>1
    <3>3. d >= 0
      <4> SUFFICES ASSUME d <= -1 PROVE FALSE
        BY <3>1
      <4>1. d * step <= (-1) * step
        BY Scale
      <4> QED BY <1>1, <2>1, <3>1, <4>1
    <3>4. ASSUME NEW k \in Int, k >= 1, k <= n PROVE s + (k - 1) * step < maximum
      <4>1. (k - 1) * step <= d * step
        BY <3>1, <3>2, <3>4, Scale
      <4>2. (k - 1) * step \in Int /\ d * step \in Int
        BY <3>1, <3>4
      <4> QED BY <1>1, <3>1, <4>1, <4>2
    <3>5. ASSUME NEW k \in Int, k >= 1, k > n PROVE s + (k - 1) * step >= maximum
      <4>1. (d + 1) * step <= (k - 1) * step
        BY <3>1, <3>2, <3>5, Scale
      <4>2. (d + 1) * step = d * step + step /\ (k - 1) * step \in Int /\ d * step \in Int
        BY <3>1, <3>5
      <4> QED BY <1>1, <3>1, <4>1, <4>2
    <3>6. n \in Nat
      BY <3>1, <3>2, <3>3
    <3>7. \A k \in Int : s + (k - 1) * step \in Int /\ (k <= n \/ k > n)
      BY <1>1, <3>6
    <3> HIDE DEF s, n
    <3> SUFFICES ASSUME NEW k \in Int, k >= 1 PROVE k <= n <=> s + (k - 1) * step < maximum
      BY <3>6
    <3>8. ~(s + (k - 1) * step < maximum) <=> s + (k - 1) * step >= maximum
      <4> DEFINE x == s + (k - 1) * step
      <4>1. x \in Int
        BY <3>7
      <4> HIDE DEF x
      <4>2. ~(x < maximum) <=> x >= maximum
        BY <4>1
      <4> QED BY <4>2 DEF x
    <3>9. k > n <=> ~(k <= n)
      BY <3>6
    <3> QED BY <3>4, <3>5, <3>7, <3>8, <3>9
  <2>2. CASE ~(s < maximum)
    <3>1. n = 0
      BY <1>2, <2>2
    <3>2. ASSUME NEW k \in Int, k >= 1 PROVE s + (k - 1) * step >= maximum
      <4>1. 0 * step <= (k - 1) * step
        BY <3>2, Scale
      <4>2. (k - 1) * step \in Int
        BY <3>2
      <4> QED BY <1>1, <2>2, <4>1, <4>2
    <3>3. \A k \in Int : s + (k - 1) * step \in Int
      BY <1>1
    <3> SUFFICES ASSUME NEW k \in Int, k >= 1 PROVE ~(k <= n) /\ ~(s + (k - 1) * step < maximum)
      BY <3>1
    <3>4. s + (k - 1) * step >= maximum /\ s + (k - 1) * step \in Int
      BY <3>2, <3>3
    <3> QED BY <3>1, <3>4
  <2> QED BY <2>1, <2>2
<1>4. \A k \in 1..n : /\ B[k] = s + (k - 1) * step
                      /\ B[k] \in 1..(maximum - 1)
  <2> SUFFICES ASSUME NEW k \in 1..n PROVE B[k] = s + (k - 1) * step /\ B[k] \in 1..(maximum - 1)
    OBVIOUS
  <2>1. B[k] = s + (k - 1) * step /\ k \in Int /\ k >= 1 /\ k <= n
    BY <1>2, <1>3
  <2>2. 0 * step <= (k - 1) * step /\ (k - 1) * step \in Int
    BY <2>1, Scale
  <2>3. s + (k - 1) * step < maximum
    BY <1>3, <2>1
  <2> QED BY <1>1, <2>1, <2>2, <2>3
<1>5. ASSUME NEW v \in 1..(maximum - 1), v % step = phase % step
      PROVE  \E k \in 1..n : B[k] = v
  <2>1. PICK j \in Int : v = s + j * step
    <3>1. v \in Int /\ s \in Int /\ v % step = s % step
      BY <1>1, <1>5
    <3> QED BY <3>1, SameResidue
  <2>2. j >= 0
    <3> SUFFICES ASSUME j <= -1 PROVE FALSE
      BY <2>1
    <3>1. j * step <= (-1) * step
      BY Scale
    <3>2. j * step \in Int /\ (-1) * step = - step
      OBVIOUS
    <3> QED BY <1>1, <2>1, <3>1, <3>2
  <2>3. PICK k \in Int : k - 1 = j /\ k >= 1
    <3>1. (j + 1) - 1 = j /\ j + 1 \in Int /\ j + 1 >= 1
      BY <2>2
    <3> QED BY <3>1
  <2>4. s + (k - 1) * step < maximum
    BY <2>1, <2>3
  <2>5. k \in 1..n
    <3>1. k <= n
      BY <1>3, <2>3, <2>4, Zenon
    <3> QED BY <1>3, <2>3, <3>1
  <2>6. B[k] = v
    BY <1>4, <2>1, <2>3, <2>5
  <2> QED BY <2>5, <2>6
<1>6. ASSUME NEW v \in 1..(maximum - 1), NEW k \in 1..n, B[k] = v
      PROVE  v % step = phase % step
  <2>1. v = s + (k - 1) * step /\ k - 1 \in Int
    BY <1>3, <1>4, <1>6
  <2> QED BY <1>1, <2>1, SameResidue
<1>7. ASSUME NEW j \in 1..n, NEW k \in 1..n, j < k PROVE B[j] < B[k]
  <2>1. ((j - 1) + 1) * step <= (k - 1) * step
    BY <1>3, <1>7, Scale
  <2>2. /\ ((j - 1) + 1) * step = (j - 1) * step + step
        /\ (j - 1) * step \in Int /\ (k - 1) * step \in Int
    BY <1>3
  <2> QED BY <1>1, <1>4, <2>1, <2>2
<1> QED BY <1>2, <1>3, <1>4, <1>5, <1>6, <1>7 DEF n, B

\* On an axis: its ends, and every step-th position from the phase on.
OnAxis(v, maximum, step, phase) == v = 0 \/ v = maximum \/ v % step = phase % step

\* P lists the positions of an axis in ascending order.
IsAxis(P, maximum, step, phase) ==
    /\ P \in Seq(0..maximum) /\ Len(P) \in Nat \ {0}
    /\ DOMAIN P = 1..Len(P) /\ \A i \in 1..Len(P) : P[i] \in 0..maximum
    /\ \A v \in 0..maximum : (\E i \in 1..Len(P) : P[i] = v) <=> OnAxis(v, maximum, step, phase)
    /\ \A i, j \in 1..Len(P) : i < j => P[i] < P[j]

\* An axis: its ends and what lies between.
LEMMA AxisIsSequence ==
  ASSUME NEW maximum \in Nat, NEW step \in Nat \ {0}, NEW phase \in Nat
  PROVE  IsAxis(AxisPositions(maximum, step, phase), maximum, step, phase)
<1> DEFINE P == AxisPositions(maximum, step, phase)
           n == Count(maximum, step, phase)
           B == Between(maximum, step, phase)
<1>1. CASE maximum = 0
  <2>1. P = <<0>>
    BY <1>1 DEF AxisPositions
  <2>2. P \in Seq(0..maximum) /\ Len(P) = 1 /\ P[1] = 0
    BY <2>1, <1>1
  <2> QED BY <1>1, <2>2 DEF OnAxis, IsAxis
<1>2. CASE maximum # 0
  <2>1. P = <<0>> \o B \o <<maximum>>
    BY <1>2 DEF AxisPositions
  <2>2. /\ n \in Nat /\ B \in [1..n -> 1..(maximum - 1)]
        /\ \A v \in 1..(maximum - 1) : (\E k \in 1..n : B[k] = v) <=> v % step = phase % step
        /\ \A j, k \in 1..n : j < k => B[j] < B[k]
    BY BetweenMembers
  <2> HIDE DEF B, n
  <2>3. B \in Seq(0..maximum) /\ Len(B) = n
    <3>1. B \in [1..n -> 0..maximum]
      BY <2>2
    <3> QED BY <2>2, <3>1, IsASeq, LenProperties
  <2>4. <<0>> \in Seq(0..maximum) /\ <<maximum>> \in Seq(0..maximum)
    BY <1>2
  <2>5. /\ P \in Seq(0..maximum) /\ Len(P) = n + 2
        /\ P[1] = 0 /\ P[n + 2] = maximum
        /\ \A k \in 1..n : P[k + 1] = B[k]
    BY <2>1, <2>2, <2>3, <2>4
  <2> HIDE DEF P
  <2>6. \A i \in 1..(n + 2) : \/ i = 1 /\ P[i] = 0
                              \/ i = n + 2 /\ P[i] = maximum
                              \/ i - 1 \in 1..n /\ P[i] = B[i - 1]
    <3> SUFFICES ASSUME NEW i \in 1..(n + 2), i # 1, i # n + 2
                 PROVE  i - 1 \in 1..n /\ P[i] = B[i - 1]
      BY <2>5
    <3>1. i - 1 \in 1..n /\ (i - 1) + 1 = i
      BY <2>2
    <3> QED BY <2>5, <3>1
  <2>7. ASSUME NEW i \in 1..(n + 2), NEW j \in 1..(n + 2), i < j PROVE P[i] < P[j]
    <3>1. j # 1 /\ i # n + 2 /\ 0 < maximum
      BY <1>2, <2>2, <2>7
    <3>2. CASE i = 1
      <4>1. P[j] = maximum \/ P[j] \in 1..(maximum - 1)
        BY <2>2, <2>6, <3>1
      <4> QED BY <2>5, <3>1, <3>2, <4>1
    <3>3. CASE i # 1 /\ j = n + 2
      BY <2>2, <2>6, <3>1, <3>3
    <3>4. CASE i # 1 /\ j # n + 2
      <4>1. i - 1 \in 1..n /\ j - 1 \in 1..n /\ i - 1 < j - 1 /\ P[i] = B[i - 1] /\ P[j] = B[j - 1]
        BY <2>2, <2>6, <2>7, <3>1, <3>4
      <4> QED BY <2>2, <4>1
    <3> QED BY <3>2, <3>3, <3>4
  <2>8. ASSUME NEW v \in 0..maximum
        PROVE  (\E i \in 1..(n + 2) : P[i] = v)
                 <=> v = 0 \/ v = maximum \/ v % step = phase % step
    <3>1. CASE v = 0
      <4>1. 1 \in 1..(n + 2)
        BY <2>2
      <4> QED BY <2>5, <3>1, <4>1
    <3>2. CASE v = maximum
      <4>1. n + 2 \in 1..(n + 2)
        BY <2>2
      <4> QED BY <2>5, <3>2, <4>1
    <3>3. CASE v # 0 /\ v # maximum
      <4>1. v \in 1..(maximum - 1)
        BY <3>3
      <4>2. (\E i \in 1..(n + 2) : P[i] = v) <=> \E k \in 1..n : B[k] = v
        <5>1. \A k \in 1..n : k + 1 \in 1..(n + 2)
          BY <2>2
        <5> QED BY <2>5, <2>6, <3>3, <5>1
      <4> QED BY <2>2, <3>3, <4>1, <4>2
    <3> QED BY <3>1, <3>2, <3>3
  <2>9. n + 2 \in Nat \ {0}
    BY <2>2
  <2>10. DOMAIN P = 1..(n + 2) /\ \A i \in 1..(n + 2) : P[i] \in 0..maximum
    BY <2>5
  <2> HIDE DEF P
  <2>11. IsAxis(P, maximum, step, phase)
    BY <2>5, <2>7, <2>8, <2>9, <2>10 DEF OnAxis, IsAxis
  <2> QED BY <2>11 DEF P
<1> QED BY <1>1, <1>2

\* While patches are at least as long as the step, they leave no gap.
LEMMA AxisIsCovered ==
  ASSUME NEW maximum \in Nat, NEW step \in Nat \ {0}, NEW phase \in Nat,
         NEW length \in Nat \ {0}, step <= length, NEW q \in 0..(maximum + length - 1)
  PROVE  \E v \in 0..maximum : /\ v = 0 \/ v = maximum \/ v % step = phase % step
                               /\ v <= q /\ q <= v + length - 1
<1>1. CASE q >= maximum
  <2> WITNESS maximum \in 0..maximum
  <2> QED BY <1>1
<1>2. CASE q < length
  <2> WITNESS 0 \in 0..maximum
  <2> QED BY <1>2
<1>3. CASE q < maximum /\ q >= length
  <2>1. PICK d \in Int, m \in 0..(step - 1) : q - phase = d * step + m
    <3>1. q - phase \in Int
      OBVIOUS
    <3> QED BY <3>1, Division
  <2>2. PICK v \in Int : v = phase + d * step
    <3>1. phase + d * step \in Int
      OBVIOUS
    <3> QED BY <3>1
  <2>3. v % step = phase % step
    <3>1. phase \in Int
      OBVIOUS
    <3> QED BY <2>2, <3>1, SameResidue
  <2>4. v = q - m
    BY <2>1, <2>2
  <2>5. v \in 0..maximum /\ v <= q /\ q <= v + length - 1
    BY <1>3, <2>4
  <2> QED BY <2>3, <2>5
<1> QED BY <1>1, <1>2, <1>3

-----------------------------------------------------------------------------
(* Rows, one after the other. *)

Stacks(R, n, f) == f = [i \in 0..n |-> IF i = 0 THEN <<>> ELSE f[i - 1] \o R[i]]

\* A stack of rows exists: its recursive definition has a solution.
LEMMA StackExists ==
  ASSUME NEW R, NEW n \in Nat
  PROVE  \E f : Stacks(R, n, f)
<1> DEFINE T == {m \in Nat : ~ \E f : Stacks(R, m, f)}
<1>1. SUFFICES ASSUME T # {} PROVE FALSE
  OBVIOUS
<1>2. PICK m \in T : \A k \in T : m <= k
  BY <1>1, LeastOf
<1>3. m # 0
  <2>1. Stacks(R, 0, [i \in 0..0 |-> <<>>])
    BY DEF Stacks
  <2> QED BY <2>1
<1>4. m \in Nat /\ m - 1 \in Nat /\ m - 1 \notin T
  BY <1>2, <1>3
<1>5. PICK f : Stacks(R, m - 1, f)
  BY <1>4
<1> DEFINE h == [i \in 0..m |-> IF i = m THEN f[m - 1] \o R[m] ELSE f[i]]
<1>6. Stacks(R, m, h)
  <2>1. \A i \in 0..(m - 1) : f[i] = IF i = 0 THEN <<>> ELSE f[i - 1] \o R[i]
    BY <1>5 DEF Stacks
  <2>2. /\ h[m] = f[m - 1] \o R[m]
        /\ \A i \in 0..(m - 1) : h[i] = f[i] /\ i \in 0..m
        /\ m \in 0..m /\ \A i \in 0..m : i = m \/ i \in 0..(m - 1)
    <3>1. /\ \A i \in 0..(m - 1) : i # m /\ i \in 0..m
          /\ m \in 0..m /\ \A i \in 0..m : i = m \/ i \in 0..(m - 1)
      BY <1>3, <1>4
    <3> HIDE DEF T
    <3> QED BY <3>1
  <2>3. h = [i \in 0..m |-> h[i]]
    OBVIOUS
  <2> HIDE DEF h
  <2>4. \A i \in 0..(m - 1) : h[i] = IF i = 0 THEN <<>> ELSE h[i - 1] \o R[i]
    <3> SUFFICES ASSUME NEW i \in 0..(m - 1)
                 PROVE  h[i] = IF i = 0 THEN <<>> ELSE h[i - 1] \o R[i]
      OBVIOUS
    <3>1. i # 0 => i - 1 \in 0..(m - 1)
      BY <1>4
    <3> QED BY <2>1, <2>2, <3>1
  <2>5. h[m] = IF m = 0 THEN <<>> ELSE h[m - 1] \o R[m]
    <3>1. m - 1 \in 0..(m - 1)
      BY <1>4
    <3> QED BY <1>3, <2>2, <3>1
  <2>6. \A i \in 0..m : h[i] = IF i = 0 THEN <<>> ELSE h[i - 1] \o R[i]
    BY <2>2, <2>4, <2>5
  <2>7. h = [i \in 0..m |-> IF i = 0 THEN <<>> ELSE h[i - 1] \o R[i]]
    BY <2>3, <2>6
  <2> QED BY <2>7 DEF Stacks
<1> QED BY <1>2, <1>6

\* The rows of a grid, and their origins in order: every origin of a row comes
\* before those of the next rows.
RowOf(g, phaseY, i) == RowOrigins(g, phaseY, AxisPositions(MaxY(g), g.step, phaseY)[i])
RowCount(g, phaseY) == Len(AxisPositions(MaxY(g), g.step, phaseY))
Rows(g, phaseY) == [i \in 1..RowCount(g, phaseY) |-> RowOf(g, phaseY, i)]

\* A grid is the stack of its rows.
LEMMA GridIsStack ==
  ASSUME NEW g, NEW phaseY, RowCount(g, phaseY) \in Nat
  PROVE  \E f : Stacks(Rows(g, phaseY), RowCount(g, phaseY), f)
                /\ Grid(g, phaseY) = f[RowCount(g, phaseY)]
<1> DEFINE ys == AxisPositions(MaxY(g), g.step, phaseY)
           n  == Len(ys)
           Is(f) == f = [i \in 0..n |->
                           IF i = 0 THEN <<>> ELSE f[i - 1] \o RowOrigins(g, phaseY, ys[i])]
           F == CHOOSE f : Is(f)
<1>1. Grid(g, phaseY) = F[n]
  BY DEF Grid
<1>2. \A f : Is(f) <=> Stacks(Rows(g, phaseY), n, f)
  <2> TAKE f
  <2>1. \A i \in 0..n : i = 0 \/ Rows(g, phaseY)[i] = RowOrigins(g, phaseY, ys[i])
    BY DEF Rows, RowOf, RowCount
  <2>2. [i \in 0..n |-> IF i = 0 THEN <<>> ELSE f[i - 1] \o RowOrigins(g, phaseY, ys[i])]
        = [i \in 0..n |-> IF i = 0 THEN <<>> ELSE f[i - 1] \o Rows(g, phaseY)[i]]
    BY <2>1
  <2> QED BY <2>2 DEF Stacks
<1>3. n = RowCount(g, phaseY)
  BY DEF RowCount
<1> HIDE DEF Is, n
<1>4. Is(F)
  BY <1>2, <1>3, StackExists
<1> QED BY <1>1, <1>2, <1>3, <1>4

\* The elements of a concatenation.
LEMMA Joined ==
  ASSUME NEW S, NEW s \in Seq(S), NEW t \in Seq(S)
  PROVE  /\ s \o t \in Seq(S) /\ Len(s \o t) = Len(s) + Len(t)
         /\ \A k \in 1..Len(s) : k \in 1..Len(s \o t) /\ (s \o t)[k] = s[k]
         /\ \A k \in 1..Len(t) : Len(s) + k \in 1..Len(s \o t) /\ (s \o t)[Len(s) + k] = t[k]
         /\ \A k \in 1..Len(s \o t) :
               \/ k \in 1..Len(s) /\ (s \o t)[k] = s[k]
               \/ k > Len(s) /\ k - Len(s) \in 1..Len(t) /\ (s \o t)[k] = t[k - Len(s)]
<1>1. /\ s \o t \in Seq(S) /\ Len(s \o t) = Len(s) + Len(t)
      /\ Len(s) \in Nat /\ Len(t) \in Nat
      /\ \A k \in 1..(Len(s) + Len(t)) :
            (s \o t)[k] = IF k <= Len(s) THEN s[k] ELSE t[k - Len(s)]
  BY ConcatProperties, LenProperties
<1>2. \A k \in 1..Len(t) : (Len(s) + k) - Len(s) = k
  BY <1>1
<1> QED BY <1>1, <1>2

\* What a stack of rows holds: what one of its rows does.
Holds(s, x) == \E k \in 1..Len(s) : s[k] = x

\* A concatenation holds what either part does.
LEMMA HoldsJoined ==
  ASSUME NEW S, NEW s \in Seq(S), NEW t \in Seq(S)
  PROVE  \A x : Holds(s \o t, x) <=> Holds(s, x) \/ Holds(t, x)
<1>1. ASSUME NEW x, Holds(s \o t, x) PROVE Holds(s, x) \/ Holds(t, x)
  <2>1. PICK k \in 1..Len(s \o t) : (s \o t)[k] = x
    BY <1>1 DEF Holds
  <2> QED BY <2>1, Joined DEF Holds
<1>2. ASSUME NEW x, Holds(s, x) PROVE Holds(s \o t, x)
  <2>1. PICK k \in 1..Len(s) : s[k] = x
    BY <1>2 DEF Holds
  <2> QED BY <2>1, Joined DEF Holds
<1>3. ASSUME NEW x, Holds(t, x) PROVE Holds(s \o t, x)
  <2>1. PICK k \in 1..Len(t) : t[k] = x
    BY <1>3 DEF Holds
  <2>2. Len(s) + k \in 1..Len(s \o t) /\ (s \o t)[Len(s) + k] = x
    BY <2>1, Joined
  <2> QED BY <2>2 DEF Holds
<1> QED BY <1>1, <1>2, <1>3

Pools(R, i, s, S) ==
    s \in Seq(S) /\ \A x : Holds(s, x) <=> \E j \in 1..i : Holds(R[j], x)

\* Each level of a stack holds what the rows so far hold.
LEMMA StackMembers ==
  ASSUME NEW S, NEW n \in Nat, NEW R, \A j \in 1..n : R[j] \in Seq(S),
         NEW f, Stacks(R, n, f)
  PROVE  \A i \in 0..n : Pools(R, i, f[i], S)
<1> DEFINE Right(i) == Pools(R, i, f[i], S)
           T == {i \in 0..n : ~Right(i)}
<1>1. SUFFICES ASSUME T # {} PROVE FALSE
  OBVIOUS
<1>3. f[0] = <<>> /\ \A j \in 1..n : f[j] = f[j - 1] \o R[j]
  <2>1. f = [j \in 0..n |-> IF j = 0 THEN <<>> ELSE f[j - 1] \o R[j]]
    BY DEF Stacks
  <2>2. 0 \in 0..n /\ \A j \in 1..n : j \in 0..n /\ j # 0
    OBVIOUS
  <2> QED BY <2>1, <2>2
<1>4. Right(0)
  <2>1. f[0] = <<>> /\ <<>> \in Seq(S) /\ Len(<<>>) = 0
    BY <1>3
  <2>2. \A x : ~Holds(<<>>, x)
    BY <2>1 DEF Holds
  <2>3. 1..0 = {}
    OBVIOUS
  <2> QED BY <2>1, <2>2, <2>3 DEF Pools
<1>5. PICK i \in 1..n : i - 1 \in 0..n /\ ~Right(i) /\ Right(i - 1)
  <2>1. T \subseteq 0..n /\ 0 \notin T
    BY <1>4
  <2>2. \A i \in 0..n : i \in T <=> ~Right(i)
    OBVIOUS
  <2>3. \A i \in 1..n : i \in 0..n
    OBVIOUS
  <2> HIDE DEF T, Right
  <2>4. \E i \in 1..n : i \in T /\ i - 1 \in 0..n /\ i - 1 \notin T
    BY <1>1, <2>1, FirstFailure
  <2> QED BY <2>2, <2>3, <2>4
<1> HIDE DEF T
<1>6. f[i] = f[i - 1] \o R[i] /\ f[i - 1] \in Seq(S) /\ R[i] \in Seq(S)
  BY <1>3, <1>5 DEF Pools
<1>7. f[i] \in Seq(S) /\ \A x : Holds(f[i], x) <=> Holds(f[i - 1], x) \/ Holds(R[i], x)
  BY <1>6, Joined, HoldsJoined
<1>8. \A x : Holds(f[i], x) <=> \E j \in 1..i : Holds(R[j], x)
  <2> TAKE x
  <2>1. \A j : j \in 1..i <=> j \in 1..(i - 1) \/ j = i
    BY <1>5
  <2> QED BY <1>5, <1>7, <2>1 DEF Pools
<1> QED BY <1>5, <1>7, <1>8 DEF Pools

\* Rows in raster order make a grid in raster order.
Sorted(s)   == \A i, j \in 1..Len(s) : i < j => Before(s[i], s[j])

\* Two sorted parts, the first before the second, make a sorted whole.
LEMMA SortedJoined ==
  ASSUME NEW S, NEW s \in Seq(S), NEW t \in Seq(S), Sorted(s), Sorted(t),
         \A x, y : Holds(s, x) /\ Holds(t, y) => Before(x, y)
  PROVE  Sorted(s \o t)
<1> DEFINE u == s \o t
<1>1. /\ Len(s) \in Nat /\ Len(t) \in Nat /\ Len(u) \in Nat
      /\ \A k \in 1..Len(u) : \/ k \in 1..Len(s) /\ u[k] = s[k]
                              \/ k > Len(s) /\ k - Len(s) \in 1..Len(t) /\ u[k] = t[k - Len(s)]
  BY Joined, LenProperties
<1> HIDE DEF u
<1>2. ASSUME NEW j \in 1..Len(u), NEW k \in 1..Len(u), j < k PROVE Before(u[j], u[k])
  <2>1. CASE j \in 1..Len(s) /\ u[j] = s[j] /\ k \in 1..Len(s) /\ u[k] = s[k]
    BY <1>2, <2>1 DEF Sorted
  <2>2. CASE j \in 1..Len(s) /\ u[j] = s[j] /\ k - Len(s) \in 1..Len(t) /\ u[k] = t[k - Len(s)]
    <3>1. Holds(s, u[j]) /\ Holds(t, u[k])
      BY <2>2 DEF Holds
    <3> QED BY <3>1
  <2>3. CASE /\ j > Len(s) /\ j - Len(s) \in 1..Len(t) /\ u[j] = t[j - Len(s)]
             /\ k - Len(s) \in 1..Len(t) /\ u[k] = t[k - Len(s)]
    <3>1. j - Len(s) < k - Len(s)
      BY <1>1, <1>2
    <3> QED BY <2>3, <3>1 DEF Sorted
  <2>4. ~(j > Len(s) /\ k \in 1..Len(s))
    BY <1>1, <1>2
  <2> QED BY <1>1, <2>1, <2>2, <2>3, <2>4
<1> QED BY <1>2 DEF Sorted, u

\* Each level of a stack of rows in order is in order.
LEMMA StackOrder ==
  ASSUME NEW S, NEW n \in Nat, NEW R, \A j \in 1..n : R[j] \in Seq(S) /\ Sorted(R[j]),
         \A j, k \in 1..n : j < k =>
            \A x, y : Holds(R[j], x) /\ Holds(R[k], y) => Before(x, y),
         NEW f, Stacks(R, n, f)
  PROVE  \A i \in 0..n : Sorted(f[i])
<1> DEFINE T == {i \in 0..n : ~Sorted(f[i])}
<1>1. SUFFICES ASSUME T # {} PROVE FALSE
  OBVIOUS
<1>3. f[0] = <<>> /\ \A j \in 1..n : f[j] = f[j - 1] \o R[j]
  <2>1. f = [j \in 0..n |-> IF j = 0 THEN <<>> ELSE f[j - 1] \o R[j]]
    BY DEF Stacks
  <2>2. 0 \in 0..n /\ \A j \in 1..n : j \in 0..n /\ j # 0
    OBVIOUS
  <2> QED BY <2>1, <2>2
<1>4. Sorted(f[0])
  <2>1. Len(<<>>) = 0 /\ 1..0 = {}
    OBVIOUS
  <2> QED BY <1>3, <2>1 DEF Sorted
<1>5. PICK i \in 1..n : i - 1 \in 0..n /\ ~Sorted(f[i]) /\ Sorted(f[i - 1])
  <2>1. T \subseteq 0..n /\ 0 \notin T
    BY <1>4
  <2>2. \A i \in 0..n : i \in T <=> ~Sorted(f[i])
    OBVIOUS
  <2>3. \A i \in 1..n : i \in 0..n
    OBVIOUS
  <2> HIDE DEF T
  <2>4. \E i \in 1..n : i \in T /\ i - 1 \in 0..n /\ i - 1 \notin T
    BY <1>1, <2>1, FirstFailure
  <2> QED BY <2>2, <2>3, <2>4
<1> HIDE DEF T
<1>6. /\ f[i] = f[i - 1] \o R[i] /\ f[i - 1] \in Seq(S) /\ R[i] \in Seq(S)
      /\ \A x : Holds(f[i - 1], x) => \E j \in 1..(i - 1) : Holds(R[j], x)
  <2>1. \A j \in 1..n : R[j] \in Seq(S)
    OBVIOUS
  <2>2. \A j \in 0..n : Pools(R, j, f[j], S)
    BY <2>1, StackMembers
  <2> QED BY <1>3, <1>5, <2>1, <2>2 DEF Pools
<1>7. \A x, y : Holds(f[i - 1], x) /\ Holds(R[i], y) => Before(x, y)
  <2>1. \A j \in 1..(i - 1) : j \in 1..n /\ j < i
    BY <1>5
  <2> QED BY <1>5, <1>6, <2>1
<1> QED BY <1>5, <1>6, <1>7, SortedJoined

-----------------------------------------------------------------------------
(* Grids. *)

Area(g) == (0..MaxX(g)) \X (0..MaxY(g))

\* The numbers a geometry is made of.
LEMMA GeometryFacts ==
  ASSUME NEW g, ValidGeometry(g)
  PROVE  /\ MaxX(g) \in Nat /\ MaxY(g) \in Nat
         /\ g.step \in Nat \ {0} /\ g.patch \in Nat \ {0} /\ g.anchors \in Nat \ {0}
         /\ g.width = MaxX(g) + g.patch /\ g.height = MaxY(g) + g.patch
<1>1. /\ g.width \in Nat \ {0} /\ g.height \in Nat \ {0} /\ g.patch \in Nat \ {0}
      /\ g.step \in Nat \ {0} /\ g.anchors \in Nat \ {0}
      /\ g.patch <= g.width /\ g.patch <= g.height
  <2>1. {g.width, g.height, g.patch, g.step, g.anchors} \subseteq Nat \ {0}
    BY DEF ValidGeometry
  <2> QED BY <2>1 DEF ValidGeometry
<1>2. /\ g.width - g.patch \in Nat /\ g.height - g.patch \in Nat
      /\ g.width = (g.width - g.patch) + g.patch /\ g.height = (g.height - g.patch) + g.patch
  BY <1>1
<1> QED BY <1>1, <1>2 DEF MaxX, MaxY

\* A row's phase is a natural.
LEMMA PhaseOfRow ==
  ASSUME NEW g, ValidGeometry(g), NEW phaseY \in Nat, NEW y \in 0..MaxY(g)
  PROVE  RowPhase(g, phaseY, y) \in Nat
<1>1. y \in Nat /\ g.step \in Nat \ {0}
  BY GeometryFacts
<1>2. y \div g.step \in Nat
  BY <1>1, QuotientOfNat
<1>3. phaseY + y \div g.step \in Nat /\ 0 \in Nat
  BY <1>2
<1> QED BY <1>3 DEF RowPhase

\* A row lists its own axis positions from left to right.
LEMMA RowMembers ==
  ASSUME NEW g, ValidGeometry(g), NEW phaseY \in Nat, NEW y \in 0..MaxY(g)
  PROVE  /\ RowOrigins(g, phaseY, y) \in Seq(Area(g))
         /\ Sorted(RowOrigins(g, phaseY, y))
         /\ \A o : Holds(RowOrigins(g, phaseY, y), o) <=>
               \E x \in 0..MaxX(g) : /\ OnAxis(x, MaxX(g), g.step, RowPhase(g, phaseY, y))
                                     /\ o = <<x, y>>
<1> DEFINE xs == AxisPositions(MaxX(g), g.step, RowPhase(g, phaseY, y))
           r  == RowOrigins(g, phaseY, y)
<1>1. /\ xs \in Seq(0..MaxX(g)) /\ Len(xs) \in Nat
      /\ DOMAIN xs = 1..Len(xs) /\ \A i \in 1..Len(xs) : xs[i] \in 0..MaxX(g)
      /\ \A v \in 0..MaxX(g) : (\E i \in 1..Len(xs) : xs[i] = v)
                                 <=> OnAxis(v, MaxX(g), g.step, RowPhase(g, phaseY, y))
      /\ \A i, j \in 1..Len(xs) : i < j => xs[i] < xs[j]
  <2>1. MaxX(g) \in Nat /\ g.step \in Nat \ {0} /\ RowPhase(g, phaseY, y) \in Nat
    BY GeometryFacts, PhaseOfRow
  <2>2. IsAxis(xs, MaxX(g), g.step, RowPhase(g, phaseY, y))
    BY <2>1, AxisIsSequence
  <2> QED BY <2>2 DEF IsAxis
<1>2. r = [i \in DOMAIN xs |-> <<xs[i], y>>]
  BY DEF RowOrigins
<1> HIDE DEF xs, r
<1>4. r \in [1..Len(xs) -> Area(g)] /\ \A i \in 1..Len(xs) : r[i] = <<xs[i], y>>
  BY <1>1, <1>2 DEF Area
<1>5. r \in Seq(Area(g)) /\ Len(r) = Len(xs)
  BY <1>1, <1>4, IsASeq, LenProperties
<1>6. Sorted(r)
  <2> SUFFICES ASSUME NEW i \in 1..Len(xs), NEW j \in 1..Len(xs), i < j
               PROVE  Before(r[i], r[j])
    BY <1>5 DEF Sorted
  <2>1. r[i] = <<xs[i], y>> /\ r[j] = <<xs[j], y>> /\ xs[i] < xs[j]
    BY <1>1, <1>4
  <2> QED BY <2>1 DEF Before
<1>7. ASSUME NEW o
      PROVE  Holds(r, o) <=> \E x \in 0..MaxX(g) :
                /\ OnAxis(x, MaxX(g), g.step, RowPhase(g, phaseY, y)) /\ o = <<x, y>>
  <2>1. Holds(r, o) <=> \E i \in 1..Len(xs) : o = <<xs[i], y>>
    BY <1>4, <1>5 DEF Holds
  <2> QED BY <1>1, <2>1
<1> QED BY <1>5, <1>6, <1>7 DEF r

\* A grid holds what lies on its rows, in raster order.
IsGrid(G, g, phaseY) ==
    /\ G \in Seq(Area(g)) /\ Sorted(G)
    /\ \A o : Holds(G, o) <=>
          \E x \in 0..MaxX(g), y \in 0..MaxY(g) :
             /\ OnAxis(y, MaxY(g), g.step, phaseY)
             /\ OnAxis(x, MaxX(g), g.step, RowPhase(g, phaseY, y))
             /\ o = <<x, y>>

\* The grid is in raster order and holds what lies on its rows.
LEMMA GridMembers ==
  ASSUME NEW g, ValidGeometry(g), NEW phaseY \in Nat
  PROVE  IsGrid(Grid(g, phaseY), g, phaseY)
<1> DEFINE ys == AxisPositions(MaxY(g), g.step, phaseY)
           n  == RowCount(g, phaseY)
           R  == Rows(g, phaseY)
<1>1. /\ n = Len(ys) /\ n \in Nat /\ \A i \in 1..n : ys[i] \in 0..MaxY(g)
      /\ \A v \in 0..MaxY(g) : (\E i \in 1..n : ys[i] = v) <=> OnAxis(v, MaxY(g), g.step, phaseY)
      /\ \A i, j \in 1..n : i < j => ys[i] < ys[j]
  <2>1. MaxY(g) \in Nat /\ g.step \in Nat \ {0}
    BY GeometryFacts
  <2>2. n = Len(ys)
    BY DEF RowCount
  <2>3. IsAxis(ys, MaxY(g), g.step, phaseY)
    BY <2>1, AxisIsSequence
  <2> QED BY <2>2, <2>3 DEF IsAxis
<1>2. \A i \in 1..n : R[i] = RowOrigins(g, phaseY, ys[i])
  BY DEF Rows, RowOf
<1>3. PICK f : Stacks(R, n, f) /\ Grid(g, phaseY) = f[n]
  BY <1>1, GridIsStack
<1> HIDE DEF ys, n, R
<1>4. n \in Nat /\ Stacks(R, n, f) /\ \A i \in 1..n : ys[i] \in 0..MaxY(g)
  BY <1>1, <1>3
<1>5. \A i \in 1..n : /\ R[i] \in Seq(Area(g)) /\ Sorted(R[i])
                      /\ \A o : Holds(R[i], o) <=>
                            \E x \in 0..MaxX(g) :
                               /\ OnAxis(x, MaxX(g), g.step, RowPhase(g, phaseY, ys[i]))
                               /\ o = <<x, ys[i]>>
  BY <1>2, <1>4, RowMembers
<1>6. ASSUME NEW i \in 1..n, NEW j \in 1..n, i < j, NEW o, NEW q, Holds(R[i], o), Holds(R[j], q)
      PROVE  Before(o, q)
  <2>1. o[2] = ys[i] /\ q[2] = ys[j] /\ ys[i] < ys[j]
    BY <1>1, <1>5, <1>6
  <2> QED BY <2>1 DEF Before
<1>7. n \in 0..n
  BY <1>1
<1>8. Sorted(f[n])
  <2>1. \A j \in 1..n : R[j] \in Seq(Area(g)) /\ Sorted(R[j])
    BY <1>5
  <2>2. \A i \in 0..n : Sorted(f[i])
    BY <1>4, <1>6, <2>1, StackOrder
  <2> QED BY <1>7, <2>2
<1>9. f[n] \in Seq(Area(g)) /\ \A o : Holds(f[n], o) <=> \E i \in 1..n : Holds(R[i], o)
  <2>1. \A j \in 1..n : R[j] \in Seq(Area(g))
    BY <1>5
  <2>2. \A i \in 0..n : Pools(R, i, f[i], Area(g))
    BY <1>4, <2>1, StackMembers
  <2> QED BY <1>7, <2>2 DEF Pools
<1>10. ASSUME NEW o
       PROVE  Holds(f[n], o) <=> \E x \in 0..MaxX(g), y \in 0..MaxY(g) :
                 /\ OnAxis(y, MaxY(g), g.step, phaseY)
                 /\ OnAxis(x, MaxX(g), g.step, RowPhase(g, phaseY, y))
                 /\ o = <<x, y>>
  <2>1. Holds(f[n], o) <=>
           \E i \in 1..n : \E x \in 0..MaxX(g) :
              /\ OnAxis(x, MaxX(g), g.step, RowPhase(g, phaseY, ys[i])) /\ o = <<x, ys[i]>>
    BY <1>5, <1>9
  <2> QED BY <1>1, <1>4, <2>1
<1> QED BY <1>3, <1>8, <1>9, <1>10 DEF IsGrid

\* So both implementations process the same origins of an anchor frame.
LEMMA GridIsMask ==
  ASSUME NEW g, ValidGeometry(g), NEW a \in 0..(g.anchors - 1)
  PROVE  /\ FramePhase(g, a) \in Nat
         /\ \A o : Holds(AnchorGrid(g, a), o) <=> o \in ProcessingMask(g, a)
<1> DEFINE phase == IF a = g.anchors - 1 THEN 0 ELSE a
<1>1. a \in Nat /\ a \in Int /\ phase \in Int /\ 0 \in Int
  BY GeometryFacts
<1>2. g.step \in Nat \ {0} /\ MaxX(g) \in Nat /\ MaxY(g) \in Nat
  BY GeometryFacts
<1>3. FramePhase(g, a) = phase % g.step
  <2>1. 0 % g.step = 0
    <3>1. 0 * g.step + 0 = 0 /\ 0 \in 0..(g.step - 1)
      BY <1>2
    <3> QED BY <1>2, <3>1, DivisionIsUnique
  <2> QED BY <2>1 DEF FramePhase
<1>4. phase % g.step \in Nat
  <2>1. phase % g.step \in 0..(g.step - 1)
    BY <1>1, <1>2, Division
  <2> QED BY <1>2, <2>1
<1> HIDE DEF phase
<1>5. \A y \in 0..MaxY(g) : /\ y \div g.step \in Int
                            /\ RowPhase(g, phase % g.step, y) % g.step =
                                  (IF y = MaxY(g) THEN 0 ELSE phase + y \div g.step) % g.step
  <2> TAKE y \in 0..MaxY(g)
  <2>1. y \in Int
    BY <1>2
  <2>2. y \div g.step \in Int
    BY <1>2, <2>1, Division
  <2>3. ((phase % g.step) + y \div g.step) % g.step = (phase + y \div g.step) % g.step
    BY <1>1, <1>2, <2>2, ResidueOfSum
  <2> QED BY <2>2, <2>3 DEF RowPhase
<1>6. (phase % g.step) % g.step = phase % g.step
  BY <1>1, <1>2, ResidueOfSum
<1>7. \A x \in 0..MaxX(g), y \in 0..MaxY(g) :
         MaskSelected(g, a, x, y) <=>
            /\ OnAxis(y, MaxY(g), g.step, phase % g.step)
            /\ OnAxis(x, MaxX(g), g.step, RowPhase(g, phase % g.step, y))
  BY <1>5, <1>6 DEF MaskSelected, OnAxis, phase
<1>8. \A o : Holds(AnchorGrid(g, a), o) <=>
               \E x \in 0..MaxX(g), y \in 0..MaxY(g) :
                  /\ OnAxis(y, MaxY(g), g.step, phase % g.step)
                  /\ OnAxis(x, MaxX(g), g.step, RowPhase(g, phase % g.step, y))
                  /\ o = <<x, y>>
  <2>1. AnchorGrid(g, a) = Grid(g, phase % g.step)
    BY <1>3 DEF AnchorGrid
  <2>2. IsGrid(Grid(g, phase % g.step), g, phase % g.step)
    BY <1>4, GridMembers
  <2> QED BY <2>1, <2>2 DEF IsGrid
<1>9. \A o : o \in ProcessingMask(g, a) <=>
               \E x \in 0..MaxX(g), y \in 0..MaxY(g) : MaskSelected(g, a, x, y) /\ o = <<x, y>>
  BY DEF ProcessingMask
<1> QED BY <1>3, <1>4, <1>7, <1>8, <1>9
-----------------------------------------------------------------------------
(* The reservation: the largest grid over all phases. *)

\* A row of numbers has a largest one.
LEMMA LargestExists ==
  ASSUME NEW n \in Nat, NEW h, \A i \in 0..n : h[i] \in Nat
  PROVE  \E i \in 0..n : \A j \in 0..n : h[i] >= h[j]
<1> DEFINE Top(i) == \E k \in 0..i : \A j \in 0..i : h[k] >= h[j]
           T == {i \in 0..n : ~Top(i)}
<1>1. SUFFICES ASSUME T # {} PROVE FALSE
  <2>1. n \in 0..n
    OBVIOUS
  <2> QED BY <2>1
<1>2. Top(0)
  <2>1. 0..0 = {0} /\ 0 \in 0..n
    OBVIOUS
  <2>2. h[0] >= h[0]
    BY <2>1
  <2> QED BY <2>1, <2>2
<1>3. PICK i \in 1..n : i - 1 \in 0..n /\ ~Top(i) /\ Top(i - 1)
  <2>1. T \subseteq 0..n /\ 0 \notin T
    BY <1>2
  <2>2. \A i \in 0..n : i \in T <=> ~Top(i)
    OBVIOUS
  <2>3. \A i \in 1..n : i \in 0..n
    OBVIOUS
  <2> HIDE DEF T, Top
  <2>4. \E i \in 1..n : i \in T /\ i - 1 \in 0..n /\ i - 1 \notin T
    BY <1>1, <2>1, FirstFailure
  <2> QED BY <2>2, <2>3, <2>4
<1> HIDE DEF T
<1>4. PICK k \in 0..(i - 1) : \A j \in 0..(i - 1) : h[k] >= h[j]
  BY <1>3
<1>5. h[k] \in Nat /\ h[i] \in Nat /\ k \in 0..i /\ i \in 0..i
      /\ \A j \in 0..i : h[j] \in Nat /\ (j \in 0..(i - 1) \/ j = i)
  BY <1>3
<1>6. CASE h[k] >= h[i]
  <2>1. \A j \in 0..i : h[k] >= h[j]
    BY <1>4, <1>5, <1>6
  <2> QED BY <1>3, <1>5, <2>1
<1>7. CASE h[i] >= h[k]
  <2>1. \A j \in 0..i : h[i] >= h[j]
    <3> SUFFICES ASSUME NEW j \in 0..i PROVE h[i] >= h[j]
      OBVIOUS
    <3>1. CASE j \in 0..(i - 1)
      <4>1. h[k] >= h[j] /\ h[j] \in Nat
        BY <1>4, <1>5, <3>1
      <4> QED BY <1>5, <1>7, <4>1
    <3>2. CASE j = i
      BY <1>5, <3>2
    <3> QED BY <1>5, <3>1, <3>2
  <2> QED BY <1>3, <1>5, <2>1
<1> QED BY <1>5, <1>6, <1>7

\* The larger and the smaller of two numbers.
LEMMA PairBounds ==
  ASSUME NEW i \in Int, NEW j \in Int
  PROVE  /\ Max({i, j}) = IF i >= j THEN i ELSE j
         /\ Min({i, j}) = IF i <= j THEN i ELSE j
<1>1. \E m \in {i, j} : \A v \in {i, j} : m >= v
  OBVIOUS
<1>2. \E m \in {i, j} : \A v \in {i, j} : m <= v
  OBVIOUS
<1>3. Max({i, j}) \in {i, j} /\ \A v \in {i, j} : Max({i, j}) >= v
  BY <1>1 DEF Max
<1>4. Min({i, j}) \in {i, j} /\ \A v \in {i, j} : Min({i, j}) <= v
  BY <1>2 DEF Min
<1> QED BY <1>3, <1>4

\* A frame's phase is one of those the reservation counts.
LEMMA PhaseIsCounted ==
  ASSUME NEW g, ValidGeometry(g), NEW a \in 0..(g.anchors - 1)
  PROVE  FramePhase(g, a) \in 0..Min({g.step - 1, Max({0, g.anchors - 2})})
<1>1. PICK step \in Nat \ {0} : step = g.step
  BY GeometryFacts
<1>2. PICK n \in Nat \ {0} : n = g.anchors
  BY GeometryFacts
<1>3. a \in 0..(n - 1)
  BY <1>2
<1>4. PICK t \in Nat : t = Max({0, n - 2}) /\ (a # n - 1 => a <= t)
  <2>1. n - 2 \in Int /\ 0 \in Int
    OBVIOUS
  <2>2. Max({0, n - 2}) = IF 0 >= n - 2 THEN 0 ELSE n - 2
    BY <2>1, PairBounds
  <2>3. Max({0, n - 2}) \in Nat /\ (a # n - 1 => a <= Max({0, n - 2}))
    BY <1>3, <2>2
  <2> QED BY <2>3
<1>5. PICK u \in Nat : u = Min({step - 1, t}) /\ (u = step - 1 \/ u = t)
  <2>1. step - 1 \in Int /\ t \in Int /\ step - 1 \in Nat
    OBVIOUS
  <2>2. Min({step - 1, t}) = IF step - 1 <= t THEN step - 1 ELSE t
    BY <2>1, PairBounds
  <2> QED BY <2>1, <2>2
<1>6. PICK r \in 0..(step - 1) : r = a % step /\ r <= a
  <2>1. a \in Nat /\ a \in Int
    BY <1>3
  <2>2. a % step \in 0..(step - 1) /\ a = (a \div step) * step + (a % step)
    BY <2>1, Division
  <2>3. PICK d \in Nat : d = a \div step
    BY <2>1, QuotientOfNat
  <2>4. 0 * step <= d * step /\ d * step \in Nat
    BY Scale
  <2>5. PICK r \in 0..(step - 1) : r = a % step /\ a = d * step + r
    BY <2>2, <2>3
  <2>6. r <= a
    BY <2>1, <2>4, <2>5
  <2> QED BY <2>5, <2>6
<1>7. (IF a = n - 1 THEN 0 ELSE r) \in 0..u
  BY <1>3, <1>4, <1>5, <1>6
<1> QED BY <1>1, <1>2, <1>4, <1>5, <1>6, <1>7 DEF FramePhase

\* No grid is larger than the reservation.
LEMMA GridFits ==
  ASSUME NEW g, ValidGeometry(g), NEW a \in 0..(g.anchors - 1)
  PROVE  Len(AnchorGrid(g, a)) <= TotalGroups(g)
<1> DEFINE last == Min({g.step - 1, Max({0, g.anchors - 2})})
           S    == {AnchorCountForPhase(g, phase) : phase \in 0..last}
           h    == [phase \in 0..last |-> AnchorCountForPhase(g, phase)]
           p    == FramePhase(g, a)
<1>1. p \in 0..last
  BY PhaseIsCounted
<1>2. \A phase \in 0..last : phase \in Nat
  OBVIOUS
<1>3. last \in Nat
  <2>1. \E i \in Int : i = last
    <3>1. PICK step \in Nat \ {0} : step = g.step
      BY GeometryFacts
    <3>2. PICK n \in Nat \ {0} : n = g.anchors
      BY GeometryFacts
    <3>3. PICK t \in Int : t = Max({0, n - 2})
      <4>1. 0 \in Int /\ n - 2 \in Int
        OBVIOUS
      <4>2. Max({0, n - 2}) = IF 0 >= n - 2 THEN 0 ELSE n - 2
        BY <4>1, PairBounds
      <4> QED BY <4>1, <4>2
    <3>4. Min({step - 1, t}) \in Int
      <4>1. step - 1 \in Int
        OBVIOUS
      <4>2. Min({step - 1, t}) = IF step - 1 <= t THEN step - 1 ELSE t
        BY <4>1, PairBounds
      <4> QED BY <4>1, <4>2
    <3> QED BY <3>1, <3>2, <3>3, <3>4
  <2> HIDE DEF last, p
  <2> QED BY <1>1, <2>1
<1> HIDE DEF last
<1>4. \A phase \in 0..last : AnchorCountForPhase(g, phase) \in Nat
  <2> TAKE phase \in 0..last
  <2>1. IsGrid(Grid(g, phase), g, phase)
    BY <1>2, GridMembers
  <2> QED BY <2>1, LenProperties DEF IsGrid, AnchorCountForPhase
<1>5. \E i \in 0..last : \A j \in 0..last : h[i] >= h[j]
  <2>1. \A i \in 0..last : h[i] \in Nat
    BY <1>4
  <2> HIDE DEF h
  <2> QED BY <1>3, <2>1, LargestExists
<1>6. \E m \in S : \A v \in S : m >= v
  BY <1>5
<1>7. \A v \in S : Max(S) >= v
  <2> HIDE DEF S
  <2> QED BY <1>6 DEF Max
<1>8. AnchorCountForPhase(g, p) \in S
  BY <1>1
<1>9. Max(S) = TotalGroups(g)
  BY DEF TotalGroups, last
<1>10. Len(AnchorGrid(g, a)) = AnchorCountForPhase(g, p)
  BY DEF AnchorGrid, AnchorCountForPhase
<1>11. AnchorCountForPhase(g, p) \in Nat /\ Max(S) \in Nat
  <2>1. Max(S) \in S
    <3> HIDE DEF S
    <3> QED BY <1>6 DEF Max
  <2> QED BY <1>1, <1>4, <2>1
<1> HIDE DEF S, p
<1> QED BY <1>7, <1>8, <1>9, <1>10, <1>11

-----------------------------------------------------------------------------
(* The grids of a filter instance. *)

GridInv ==
    /\ ValidGeometry(geometry) /\ anchor \in 0..(geometry.anchors - 1)
    /\ capacity = TotalGroups(geometry) /\ anchors = AnchorGrid(geometry, anchor)

\* Whatever frame was asked for last, the tables hold its grid.
LEMMA GridInvHolds == GridSpec => []GridInv
<1>1. GridInit => GridInv
  <2> SUFFICES ASSUME GridInit PROVE GridInv
    OBVIOUS
  <2>1. ValidGeometry(geometry)
    BY DEF GridInit
  <2>2. geometry.anchors \in Nat \ {0}
    BY <2>1, GeometryFacts
  <2>3. 0 \in 0..(geometry.anchors - 1)
    BY <2>2
  <2> QED BY <2>1, <2>3 DEF GridInit, GridInv
<1>2. GridInv /\ [GridNext]_gridVars => GridInv'
  <2> SUFFICES ASSUME GridInv, [GridNext]_gridVars PROVE GridInv'
    OBVIOUS
  <2>1. ASSUME NEW a \in 0..(geometry.anchors - 1), BuildAnchorGrid(a) PROVE GridInv'
    BY <2>1 DEF GridInv, BuildAnchorGrid
  <2>2. CASE UNCHANGED gridVars
    BY <2>2 DEF GridInv, gridVars
  <2> QED BY <2>1, <2>2 DEF GridNext
<1> QED BY <1>1, <1>2, PTL DEF GridSpec

\* What that says of the origins in the tables.
LEMMA AnchorsAreGrid ==
  ASSUME GridInv
  PROVE  /\ IsGrid(anchors, geometry, FramePhase(geometry, anchor))
         /\ FramePhase(geometry, anchor) \in Nat
         /\ \A o : o \in Origins <=> Holds(anchors, o)
         /\ DOMAIN anchors = 1..Len(anchors)
<1>1. ValidGeometry(geometry) /\ anchor \in 0..(geometry.anchors - 1)
      /\ anchors = Grid(geometry, FramePhase(geometry, anchor))
  BY DEF GridInv, AnchorGrid
<1>2. FramePhase(geometry, anchor) \in Nat
  BY <1>1, GridIsMask
<1>3. IsGrid(anchors, geometry, FramePhase(geometry, anchor))
  BY <1>1, <1>2, GridMembers
<1>4. DOMAIN anchors = 1..Len(anchors)
  BY <1>3 DEF IsGrid
<1> QED BY <1>2, <1>3, <1>4 DEF Origins, Holds

\* For every geometry and in whatever order its frames are asked for, the grid
\* of build_anchor_grid lists exactly the origins the CPU marks for the frame
\* (initialize_frame_processing_mask), each once, in raster order.
THEOREM GridsAreMasks == GridSpec => []GridIsProcessingMask
<1>1. ASSUME GridInv PROVE GridIsProcessingMask
  <2>1. ValidGeometry(geometry) /\ anchor \in 0..(geometry.anchors - 1)
        /\ anchors = AnchorGrid(geometry, anchor)
    BY <1>1 DEF GridInv
  <2>2. \A o : o \in Origins <=> Holds(anchors, o)
    BY <1>1, AnchorsAreGrid
  <2>3. \A o : Holds(anchors, o) <=> o \in ProcessingMask(geometry, anchor)
    BY <2>1, GridIsMask
  <2>4. Origins = ProcessingMask(geometry, anchor)
    BY <2>2, <2>3
  <2>5. Sorted(anchors) /\ DOMAIN anchors = 1..Len(anchors)
    BY <1>1, AnchorsAreGrid DEF IsGrid
  <2> QED BY <2>4, <2>5 DEF GridIsProcessingMask, Sorted
<1> QED BY <1>1, GridInvHolds, PTL

\* No grid overruns the tables reserved at creation: the phase of every frame
\* is among those whose grids derive_geometry measured, for every geometry.
THEOREM GridsFit == GridSpec => []GridFitsReservation
<1>1. ASSUME GridInv PROVE GridFitsReservation
  BY <1>1, GridFits DEF GridInv, GridFitsReservation
<1> QED BY <1>1, GridInvHolds, PTL

\* While patches are at least as large as the step, the patches of every anchor
\* frame cover every pixel of it, for every geometry.
THEOREM GridsCover == GridSpec => []PatchesCoverFrame
<1>1. ASSUME GridInv PROVE PatchesCoverFrame
  <2> DEFINE g     == geometry
             phase == FramePhase(geometry, anchor)
  <2>1. ValidGeometry(g) /\ phase \in Nat /\ IsGrid(anchors, g, phase)
        /\ \A o : o \in Origins <=> Holds(anchors, o)
    BY <1>1, AnchorsAreGrid DEF GridInv
  <2> HIDE DEF g, phase
  <2>2. PICK mx \in Nat, my \in Nat, step \in Nat \ {0}, patch \in Nat \ {0} :
           mx = MaxX(g) /\ my = MaxY(g) /\ step = g.step /\ patch = g.patch
    BY <2>1, GeometryFacts
  <2>3. /\ geometry.width = mx + patch /\ geometry.height = my + patch
        /\ geometry.step = step /\ geometry.patch = patch
    BY <2>1, <2>2, GeometryFacts DEF g
  <2> SUFFICES ASSUME step <= patch, NEW px \in 0..(mx + patch - 1), NEW py \in 0..(my + patch - 1)
               PROVE  \E o \in Origins : /\ px \in o[1] .. o[1] + patch - 1
                                         /\ py \in o[2] .. o[2] + patch - 1
    BY <2>3 DEF PatchesCoverFrame
  <2>4. PICK y \in 0..my : OnAxis(y, my, step, phase) /\ y <= py /\ py <= y + patch - 1
    BY <2>1, AxisIsCovered DEF OnAxis
  <2>5. PICK row \in Nat : row = RowPhase(g, phase, y)
    BY <2>1, <2>2, PhaseOfRow
  <2>6. PICK x \in 0..mx : OnAxis(x, mx, step, row) /\ x <= px /\ px <= x + patch - 1
    BY AxisIsCovered DEF OnAxis
  <2>7. Holds(anchors, <<x, y>>)
    BY <2>1, <2>2, <2>4, <2>5, <2>6 DEF IsGrid
  <2>8. px \in x .. x + patch - 1 /\ py \in y .. y + patch - 1
    BY <2>4, <2>6
  <2> QED BY <2>1, <2>7, <2>8
<1> QED BY <1>1, GridInvHolds, PTL

-----------------------------------------------------------------------------
(* The paste mask. *)

Turns == Len(grid)

\* The frame has patches, all of them origins in the CPU's mask.
LEMMA GridOfFrame ==
  /\ Turns \in Nat \ {0} /\ \A i \in 1..Turns : grid[i] \in Area(Geometry)
  /\ \A i \in 1..Turns : grid[i] \in ProcessingMask(Geometry, Frame)
<1>1. ValidGeometry(Geometry) /\ Frame \in 0..(Geometry.anchors - 1)
  BY MaskAssumption
<1>2. /\ FramePhase(Geometry, Frame) \in Nat
      /\ \A o : Holds(grid, o) <=> o \in ProcessingMask(Geometry, Frame)
  BY <1>1, GridIsMask DEF grid
<1>3. IsGrid(grid, Geometry, FramePhase(Geometry, Frame))
  BY <1>1, <1>2, GridMembers DEF grid, AnchorGrid
<1>4. grid \in Seq(Area(Geometry))
  BY <1>3 DEF IsGrid
<1>5. Turns \in Nat /\ \A i \in 1..Turns : grid[i] \in Area(Geometry)
  BY <1>4, ElementOfSeq, LenProperties DEF Turns
<1>6. \A i \in 1..Turns : grid[i] \in ProcessingMask(Geometry, Frame)
  BY <1>2 DEF Holds, Turns
<1>7. <<0, 0>> \in ProcessingMask(Geometry, Frame)
  <2>1. MaxX(Geometry) \in Nat /\ MaxY(Geometry) \in Nat
    BY <1>1, GeometryFacts
  <2> QED BY <2>1 DEF ProcessingMask, MaskSelected
<1>8. Turns # 0
  <2>1. Holds(grid, <<0, 0>>)
    BY <1>2, <1>7
  <2> QED BY <2>1 DEF Holds, Turns
<1> QED BY <1>5, <1>6, <1>8

\* A kernel's groups are groups of the grid.
LEMMA ChunkIsInGrid ==
  ASSUME NEW c \in 1..Turns
  PROVE  Min({c + ChunkGroups - 1, Len(grid)}) \in c..Turns
<1>1. ChunkGroups \in Nat \ {0} /\ Turns \in Nat
  BY MaskAssumption, GridOfFrame
<1>2. PICK e \in Int : e = c + ChunkGroups - 1 /\ e >= c
  BY <1>1
<1>3. Min({e, Turns}) = IF e <= Turns THEN e ELSE Turns
  BY <1>1, PairBounds
<1> QED BY <1>1, <1>2, <1>3 DEF Turns

\* Every match is cleared by one thread, which comes to it in its own time.
Mine(t, i) == i % BlockDim = (t + 1) % BlockDim

\* Every match is some thread's.
LEMMA EveryMatchHasAThread ==
  ASSUME NEW i \in Nat \ {0}
  PROVE  \E t \in Threads : Mine(t, i)
<1>1. BlockDim \in Nat \ {0}
  BY MaskAssumption
<1>2. PICK v \in Int : v + 1 = i
  <2>1. (i - 1) + 1 = i /\ i - 1 \in Int
    OBVIOUS
  <2> QED BY <2>1
<1>3. PICK t \in 0..(BlockDim - 1) : t = v % BlockDim
  BY <1>1, Division
<1>4. ((v % BlockDim) + 1) % BlockDim = (v + 1) % BlockDim
  <2>1. \A w \in Int : ((v % BlockDim) + w) % BlockDim = (v + w) % BlockDim
    BY <1>1, ResidueOfSum
  <2> QED BY <2>1
<1> QED BY <1>2, <1>3, <1>4 DEF Mine, Threads

\* A thread's first match is the one it starts at.
LEMMA FirstOfThread ==
  ASSUME NEW t \in Threads, NEW i \in Nat \ {0}, Mine(t, i)
  PROVE  i >= t + 1
<1>1. BlockDim \in Nat \ {0} /\ t \in 0..(BlockDim - 1)
  BY MaskAssumption DEF Threads
<1>2. PICK j \in Int : i = (t + 1) + j * BlockDim
  <2>1. i \in Int /\ t + 1 \in Int
    BY <1>1
  <2> QED BY <1>1, <2>1, SameResidue DEF Mine
<1> SUFFICES ASSUME i < t + 1 PROVE FALSE
  BY <1>1
<1>3. j <= -1
  <2> SUFFICES ASSUME j >= 0 PROVE FALSE
    OBVIOUS
  <2>1. 0 * BlockDim <= j * BlockDim /\ j * BlockDim \in Int
    BY <1>1, Scale
  <2> QED BY <1>1, <1>2, <2>1
<1>4. j * BlockDim <= (-1) * BlockDim /\ j * BlockDim \in Int /\ (-1) * BlockDim = - BlockDim
  BY <1>1, <1>3, Scale
<1> QED BY <1>1, <1>2, <1>4

\* Between two matches of a thread lies at least one stride.
LEMMA NextOfThread ==
  ASSUME NEW t \in Threads, NEW i \in Nat, NEW k \in Nat, Mine(t, i), Mine(t, k), i > k
  PROVE  i >= k + BlockDim
<1>1. BlockDim \in Nat \ {0} /\ t \in 0..(BlockDim - 1)
  BY MaskAssumption DEF Threads
<1>2. PICK j \in Int : i = k + j * BlockDim
  <2>1. i \in Int /\ k \in Int /\ i % BlockDim = k % BlockDim
    BY DEF Mine
  <2> QED BY <1>1, <2>1, SameResidue
<1>3. j >= 1
  <2> SUFFICES ASSUME j <= 0 PROVE FALSE
    OBVIOUS
  <2>1. j * BlockDim <= 0 * BlockDim /\ j * BlockDim \in Int
    BY <1>1, Scale
  <2> QED BY <1>1, <1>2, <2>1
<1>4. 1 * BlockDim <= j * BlockDim /\ j * BlockDim \in Int
  BY <1>1, <1>3, Scale
<1> QED BY <1>1, <1>2, <1>4

\* A stride leads from one match of a thread to another of its own.
LEMMA StrideStays ==
  ASSUME NEW t \in Threads, NEW k \in Nat, Mine(t, k)
  PROVE  Mine(t, k + BlockDim)
<1>1. BlockDim \in Nat \ {0} /\ k \in Int /\ k + BlockDim \in Int /\ 1 \in Int
  BY MaskAssumption
<1>2. k + BlockDim = k + 1 * BlockDim
  BY <1>1
<1> QED BY <1>1, <1>2, SameResidue DEF Mine

\* On the patches of a grid, the kernel clears for a list of matches what the
\* CPU clears for it.
Match == [x : 0..MaxX(Geometry), y : 0..MaxY(Geometry), frame : Nat]

\* For a match inside the frame both clear the same patches.
LEMMA ClearsAgree ==
  ASSUME NEW list \in Seq(Match), NEW o \in Area(Geometry)
  PROVE  o \in CpuClears(list) <=>
            \E i \in DOMAIN list : Inside(list[i]) /\ o \in ClearedBy(list[i])
<1>1. PICK mx \in Nat, my \in Nat, patch \in Nat \ {0} :
         /\ mx = MaxX(Geometry) /\ my = MaxY(Geometry) /\ patch = Geometry.patch
         /\ Geometry.width = mx + patch /\ Geometry.height = my + patch
  BY MaskAssumption, GeometryFacts
<1>2. /\ OriginWidth = mx + 1 /\ OriginHeight = my + 1
      /\ SourceWidth = mx + patch /\ SourceHeight = my + patch
  BY <1>1 DEF OriginWidth, OriginHeight, SourceWidth, SourceHeight
<1>3. PICK ox \in 0..mx, oy \in 0..my : o = <<ox, oy>>
  BY <1>1 DEF Area
<1>4. \A i \in DOMAIN list : list[i].x \in 0..mx /\ list[i].y \in 0..my
  <2>1. 0..MaxX(Geometry) = 0..mx /\ 0..MaxY(Geometry) = 0..my
    BY <1>1
  <2>2. \A i \in DOMAIN list : list[i] \in Match
    BY ElementOfSeq
  <2>3. \A m \in Match : m.x \in 0..mx /\ m.y \in 0..my
    BY <2>1 DEF Match
  <2> QED BY <2>2, <2>3
<1>5. \A i \in DOMAIN list : Inside(list[i]) <=> list[i].frame = Frame
  BY <1>2, <1>4 DEF Inside
<1> DEFINE Near(m) ==
      \/ o = <<m.x, m.y>>
      \/ o = <<m.x, m.y - 1>> /\ m.y > 2 * patch
      \/ o = <<m.x, m.y + 1>> /\ m.y < my + patch - 2 * patch
      \/ o = <<m.x - 1, m.y>> /\ m.x > 2 * patch
      \/ o = <<m.x + 1, m.y>> /\ m.x < mx + patch - 2 * patch
<1>6. ASSUME NEW m PROVE o \in ClearedBy(m) <=> Near(m)
  <2>0. Geometry.patch = patch /\ SourceHeight = my + patch /\ SourceWidth = mx + patch
    BY <1>1, <1>2
  <2>1. /\ Geometry.patch = patch
        /\ SourceHeight - 2 * Geometry.patch = my + patch - 2 * patch
        /\ SourceWidth - 2 * Geometry.patch = mx + patch - 2 * patch
    BY <2>0
  <2>2. \A c, q : o \in When(c, q) <=> c /\ o = q
    BY DEF When
  <2>3. o \in ClearedBy(m) <=>
           \/ o \in {<<m.x, m.y>>}
           \/ o \in When(m.y > 2 * patch, <<m.x, m.y - 1>>)
           \/ o \in When(m.y < my + patch - 2 * patch, <<m.x, m.y + 1>>)
           \/ o \in When(m.x > 2 * patch, <<m.x - 1, m.y>>)
           \/ o \in When(m.x < mx + patch - 2 * patch, <<m.x + 1, m.y>>)
    BY <2>1 DEF ClearedBy
  <2> QED BY <2>2, <2>3
<1>7. o \in CpuClears(list) <=>
         \E i \in DOMAIN list : list[i].frame = Frame /\ Near(list[i])
  <2>1. o \in (0..(Geometry.width - 1)) \X (0..(Geometry.height - 1))
    BY <1>1, <1>3
  <2>2. /\ Geometry.patch = patch
        /\ Geometry.height - 2 * Geometry.patch = my + patch - 2 * patch
        /\ Geometry.width - 2 * Geometry.patch = mx + patch - 2 * patch
    BY <1>1
  <2> QED BY <2>1, <2>2 DEF CpuClears
<1> QED BY <1>3, <1>5, <1>6, <1>7

Points == {"decide", "decided", "test", "clear", "cleared", "exit"}
MaskTypes ==
    /\ chunk \in 1..Turns /\ active \in BOOLEAN /\ matches \in Seq(Match)
    /\ pc \in [Threads -> Points] /\ sample \in [Threads -> Nat \ {0}]
    /\ group \in [Threads -> chunk..(ChunkEnd + 1)]
    /\ \A t \in Threads : pc[t] = "exit" <=> group[t] = ChunkEnd + 1

\* A thread is at most one barrier ahead of one that waits there.
Lockstep ==
    \A t, u \in Threads :
        Passed(u) > Passed(t) => Passed(u) = Passed(t) + 1 /\ AtBarrier(t)

\* Only groups that are processed are cleared, each match by its thread.
Shares == \A t \in Threads : pc[t] = "clear" => active /\ Mine(t, sample[t])

\* What the threads still have to clear in the turn of thread 0.
ToClear(t, i) ==
    /\ Mine(t, i)
    /\ \/ Passed(t) <= 2 * group[0]
       \/ pc[t] = "test"
       \/ pc[t] = "clear" /\ i >= sample[t]
Pending(o) ==
    /\ pc[0] \in {"decided", "test", "clear", "cleared"} /\ active
    /\ \E t \in Threads, i \in DOMAIN matches :
          ToClear(t, i) /\ Inside(matches[i]) /\ o \in ClearedBy(matches[i])

\* The mask of the device is that of the CPU but for what is still to clear.
Agreement ==
    \A i \in 1..Turns : grid[i] \in cpuMask <=> grid[i] \in mask /\ ~Pending(grid[i])

MaskInv == MaskTypes /\ Lockstep /\ Shares /\ Agreement /\ decided = cpuDecided

\* The block has a thread 0.
LEMMA ThreadZero == 0 \in Threads /\ Threads \subseteq Nat
<1>1. BlockDim \in Nat \ {0}
  BY MaskAssumption
<1> QED BY <1>1 DEF Threads

\* The barriers passed, by where a thread is.
LEMMA PassedIsNat ==
  ASSUME MaskTypes, NEW t \in Threads
  PROVE  /\ group[t] \in Nat /\ Passed(t) \in Nat
         /\ Passed(t) = IF pc[t] \in {"test", "clear", "cleared"} THEN 2 * group[t] + 1
                        ELSE 2 * group[t]
<1>1. group[t] \in chunk..(ChunkEnd + 1) /\ chunk \in 1..Turns /\ Turns \in Nat
  BY GridOfFrame DEF MaskTypes
<1>2. ChunkEnd \in chunk..Turns
  BY <1>1, ChunkIsInGrid DEF ChunkEnd
<1>3. group[t] \in Nat
  BY <1>1, <1>2
<1> QED BY <1>3 DEF Passed

\* Initially the device's mask is full and the CPU's holds the grid.
LEMMA MaskInvInit == MaskInit => MaskInv
<1> SUFFICES ASSUME MaskInit PROVE MaskInv
  OBVIOUS
<1>1. /\ chunk = 1 /\ active = FALSE /\ matches = <<>>
      /\ pc = [t \in Threads |-> "decide"] /\ group = [t \in Threads |-> 1]
      /\ sample = [t \in Threads |-> 1]
  BY DEF MaskInit
<1>2. Turns \in Nat \ {0} /\ 1 \in 1..Turns
  BY GridOfFrame
<1>3. ChunkEnd \in 1..Turns
  BY <1>1, <1>2, ChunkIsInGrid DEF ChunkEnd
<1>4. MaskTypes
  <2>1. group \in [Threads -> chunk..(ChunkEnd + 1)]
    BY <1>1, <1>2, <1>3
  <2>2. \A t \in Threads : pc[t] # "exit" /\ group[t] # ChunkEnd + 1
    BY <1>1, <1>2, <1>3
  <2>3. matches \in Seq(Match)
    BY <1>1
  <2>4. pc \in [Threads -> Points] /\ sample \in [Threads -> Nat \ {0}]
    BY <1>1 DEF Points
  <2> QED BY <1>1, <1>2, <2>1, <2>2, <2>3, <2>4 DEF MaskTypes
<1>5. \A t \in Threads : pc[t] = "decide" /\ Passed(t) = 2
  BY <1>1 DEF Passed
<1>6. Lockstep /\ Shares
  BY <1>5 DEF Lockstep, Shares
<1>7. Agreement
  <2>1. ASSUME NEW i \in 1..Turns PROVE grid[i] \in cpuMask /\ grid[i] \in mask
    <3>1. grid[i] \in ProcessingMask(Geometry, Frame) /\ grid[i] \in Area(Geometry)
      BY GridOfFrame
    <3>2. OriginWidth - 1 = MaxX(Geometry) /\ OriginHeight - 1 = MaxY(Geometry)
      <4>1. /\ MaxX(Geometry) \in Nat /\ MaxY(Geometry) \in Nat
            /\ OriginWidth = MaxX(Geometry) + 1 /\ OriginHeight = MaxY(Geometry) + 1
        BY MaskAssumption, GeometryFacts DEF OriginWidth, OriginHeight, MaxX, MaxY
      <4> QED BY <4>1
    <3> QED BY <3>1, <3>2 DEF MaskInit, Area
  <2>2. \A o : ~Pending(o)
    BY <1>5, ThreadZero DEF Pending
  <2> QED BY <2>1, <2>2 DEF Agreement
<1> QED BY <1>4, <1>6, <1>7 DEF MaskInv, MaskInit

\* While a thread clears, thread 0 is in the same turn.
LEMMA TurnOf ==
  ASSUME MaskTypes, Lockstep, NEW t \in Threads, pc[t] \in {"test", "clear"}
  PROVE  group[0] = group[t] /\ pc[0] \in {"decided", "test", "clear", "cleared"}
<1>1. 0 \in Threads /\ group[0] \in Nat /\ group[t] \in Nat
  BY ThreadZero, PassedIsNat
<1>2. Passed(t) = 2 * group[t] + 1 /\ ~AtBarrier(t)
  BY PassedIsNat DEF AtBarrier
<1>3. /\ Passed(0) > Passed(t) => AtBarrier(t)
      /\ Passed(t) > Passed(0) => Passed(t) = Passed(0) + 1 /\ AtBarrier(0)
  BY <1>1 DEF Lockstep
<1>4. CASE pc[0] \in {"test", "clear", "cleared"}
  <2>1. Passed(0) = 2 * group[0] + 1
    BY <1>1, <1>4, PassedIsNat
  <2> QED BY <1>1, <1>2, <1>3, <1>4, <2>1
<1>5. CASE pc[0] \notin {"test", "clear", "cleared"}
  <2>1. Passed(0) = 2 * group[0]
    BY <1>1, <1>5, PassedIsNat
  <2>2. 2 * group[t] + 1 = 2 * group[0] + 1 /\ AtBarrier(0)
    BY <1>1, <1>2, <1>3, <2>1
  <2> QED BY <1>1, <1>5, <2>2 DEF AtBarrier
<1> QED BY <1>4, <1>5

\* Every step keeps the types and the threads' groups within the kernel.
LEMMA TypesKept ==
  ASSUME MaskTypes, MaskNext
  PROVE  MaskTypes'
<1>0. /\ chunk \in 1..Turns /\ active \in BOOLEAN /\ matches \in Seq(Match)
      /\ pc \in [Threads -> Points] /\ sample \in [Threads -> Nat \ {0}]
      /\ group \in [Threads -> chunk..(ChunkEnd + 1)]
      /\ \A t \in Threads : pc[t] = "exit" <=> group[t] = ChunkEnd + 1
      /\ Turns \in Nat \ {0}
  BY GridOfFrame DEF MaskTypes
<1>1. ChunkEnd \in chunk..Turns
  BY <1>0, ChunkIsInGrid DEF ChunkEnd
<1>2. ASSUME NEW t \in Threads, NEW p \in Points \ {"exit"}, pc[t] # "exit", Goto(t, p),
             UNCHANGED <<group, chunk>>, active' \in BOOLEAN, matches' \in Seq(Match),
             sample' \in [Threads -> Nat \ {0}]
      PROVE  MaskTypes'
  <2>1. ChunkEnd' = ChunkEnd
    BY <1>2 DEF ChunkEnd
  <2>2. /\ pc' \in [Threads -> Points] /\ pc'[t] = p
        /\ \A u \in Threads : u # t => pc'[u] = pc[u]
    BY <1>0, <1>2 DEF Goto
  <2> QED BY <1>0, <1>2, <2>1, <2>2 DEF MaskTypes
<1>3. ASSUME NEW t \in Threads, Decide(t) PROVE MaskTypes'
  <2>1. /\ pc[t] # "exit" /\ Goto(t, "decided") /\ UNCHANGED <<group, chunk>>
        /\ active' \in BOOLEAN /\ sample' = sample /\ matches' \in MatchLists
    BY <1>3 DEF Decide
  <2>2. matches' \in Seq(Match)
    BY <2>1, MaskAssumption DEF Match
  <2> QED BY <1>0, <1>2, <2>1, <2>2 DEF Points
<1>4. ASSUME NEW t \in Threads, SkipDecision(t) PROVE MaskTypes'
  BY <1>0, <1>2, <1>4 DEF SkipDecision, Points
<1>5. ASSUME NEW t \in Threads, PassFirst(t) PROVE MaskTypes'
  BY <1>0, <1>2, <1>5 DEF PassFirst, Points
<1>6. ASSUME NEW t \in Threads, Test(t) PROVE MaskTypes'
  <2>1. t + 1 \in Nat \ {0}
    BY ThreadZero
  <2>2. sample' \in [Threads -> Nat \ {0}]
    BY <1>0, <1>6, <2>1 DEF Test
  <2>3. PICK p \in Points \ {"exit"} : Goto(t, p)
    BY <1>6 DEF Test, Points
  <2> QED BY <1>0, <1>2, <1>6, <2>2, <2>3 DEF Test
<1>7. ASSUME NEW t \in Threads, ClearSample(t) PROVE MaskTypes'
  <2>1. \A k \in Nat \ {0} : k + BlockDim \in Nat \ {0}
    BY MaskAssumption
  <2>2. sample' \in [Threads -> Nat \ {0}]
    BY <1>0, <1>7, <2>1 DEF ClearSample
  <2>3. UNCHANGED <<pc, matches, group, active, chunk>>
    BY <1>7 DEF ClearSample
  <2>4. ChunkEnd' = ChunkEnd
    BY <2>3 DEF ChunkEnd
  <2> QED BY <1>0, <2>2, <2>3, <2>4 DEF MaskTypes
<1>8. ASSUME NEW t \in Threads, ClearDone(t) PROVE MaskTypes'
  BY <1>0, <1>2, <1>8 DEF ClearDone, Points
<1>9. ASSUME NEW t \in Threads, PassSecond(t) PROVE MaskTypes'
  <2>1. /\ pc[t] = "cleared" /\ group' = [group EXCEPT ![t] = @ + 1]
        /\ Goto(t, IF group[t] = ChunkEnd THEN "exit" ELSE "decide")
        /\ UNCHANGED <<mask, matches, sample, active, chunk, decided, cpuMask, cpuDecided>>
    BY <1>9 DEF PassSecond
  <2>2. ChunkEnd' = ChunkEnd
    BY <2>1 DEF ChunkEnd
  <2>3. group[t] \in chunk..ChunkEnd
    <3>1. group[t] # ChunkEnd + 1 /\ group[t] \in chunk..(ChunkEnd + 1)
      BY <1>0, <2>1
    <3> QED BY <1>0, <1>1, <3>1
  <2>4. /\ group[t] + 1 \in chunk..(ChunkEnd + 1)
        /\ group[t] + 1 = ChunkEnd + 1 <=> group[t] = ChunkEnd
    <3>1. \A c \in 1..Turns : \A e \in c..Turns : \A k \in c..e :
             k + 1 \in c..(e + 1) /\ (k + 1 = e + 1 <=> k = e)
      BY <1>0
    <3> QED BY <1>0, <1>1, <2>3, <3>1
  <2>5. /\ group' \in [Threads -> chunk..(ChunkEnd + 1)] /\ group'[t] = group[t] + 1
        /\ \A u \in Threads : u # t => group'[u] = group[u]
    BY <1>0, <2>1, <2>4
  <2>6. /\ pc' \in [Threads -> Points] /\ pc'[t] = IF group[t] = ChunkEnd THEN "exit" ELSE "decide"
        /\ \A u \in Threads : u # t => pc'[u] = pc[u]
    BY <1>0, <2>1 DEF Goto, Points
  <2>7. \A u \in Threads : pc'[u] = "exit" <=> group'[u] = ChunkEnd + 1
    <3>1. pc'[t] = "exit" <=> group'[t] = ChunkEnd + 1
      BY <2>4, <2>5, <2>6
    <3> QED BY <1>0, <2>5, <2>6, <3>1
  <2> QED BY <1>0, <2>1, <2>2, <2>5, <2>6, <2>7 DEF MaskTypes
<1>10. ASSUME LaunchKernel PROVE MaskTypes'
  <2>1. /\ \A t \in Threads : pc[t] = "exit"
        /\ ChunkEnd < Turns /\ chunk' = ChunkEnd + 1
        /\ pc' = [t \in Threads |-> "decide"]
        /\ UNCHANGED <<mask, matches, group, sample, active, decided, cpuMask, cpuDecided>>
    BY <1>10 DEF LaunchKernel, Turns
  <2>2. chunk' \in 1..Turns
    BY <1>0, <1>1, <2>1
  <2>3. ChunkEnd' \in chunk'..Turns
    BY <2>2, ChunkIsInGrid DEF ChunkEnd, Turns
  <2>4. \A t \in Threads : group[t] = chunk'
    BY <1>0, <2>1
  <2>5. chunk' \in chunk'..(ChunkEnd' + 1) /\ chunk' # ChunkEnd' + 1
    <3>1. \A c \in 1..Turns : \A e \in c..Turns : c \in c..(e + 1) /\ c # e + 1
      BY <1>0
    <3> QED BY <2>2, <2>3, <3>1
  <2>6. group' \in [Threads -> chunk'..(ChunkEnd' + 1)]
    BY <1>0, <2>1, <2>4, <2>5
  <2>7. \A t \in Threads : pc'[t] # "exit" /\ group'[t] # ChunkEnd' + 1
    BY <2>1, <2>4, <2>5
  <2>8. pc' \in [Threads -> Points]
    BY <2>1 DEF Points
  <2> QED BY <1>0, <2>1, <2>2, <2>6, <2>7, <2>8 DEF MaskTypes
<1>11. ASSUME Ended PROVE MaskTypes'
  BY <1>0, <1>11 DEF Ended, maskVars, MaskTypes, ChunkEnd
<1> QED BY <1>3, <1>4, <1>5, <1>6, <1>7, <1>8, <1>9, <1>10, <1>11 DEF MaskNext, Step

\* A thread moves on alone, and passes a barrier only when all have come to it.
LEMMA Movement ==
  ASSUME MaskTypes, NEW t \in Threads, Step(t)
  PROVE  /\ \A u \in Threads : u # t =>
               /\ pc'[u] = pc[u] /\ group'[u] = group[u] /\ sample'[u] = sample[u]
               /\ Passed(u)' = Passed(u) /\ AtBarrier(u)' = AtBarrier(u)
         /\ \/ /\ ~AtBarrier(t) /\ group'[t] = group[t] /\ Passed(t)' = Passed(t)
            \/ /\ pc[t] = "decided" /\ pc'[t] = "test" /\ Gathered(t)
               /\ group'[t] = group[t] /\ Passed(t)' = Passed(t) + 1
            \/ /\ pc[t] = "cleared" /\ pc'[t] \in {"exit", "decide"} /\ Gathered(t)
               /\ group'[t] = group[t] + 1 /\ Passed(t)' = Passed(t) + 1
<1>0. /\ pc \in [Threads -> Points] /\ group \in [Threads -> chunk..(ChunkEnd + 1)]
      /\ sample \in [Threads -> Nat \ {0}]
  BY DEF MaskTypes
<1>1. \A u \in Threads : u # t => pc'[u] = pc[u] /\ group'[u] = group[u] /\ sample'[u] = sample[u]
  BY <1>0 DEF Step, Decide, SkipDecision, PassFirst, Test, ClearSample, ClearDone, PassSecond, Goto
<1>2. \A u \in Threads : u # t => Passed(u)' = Passed(u) /\ AtBarrier(u)' = AtBarrier(u)
  BY <1>1 DEF Passed, AtBarrier
<1>3. group[t] \in Nat
  BY PassedIsNat
<1>4. CASE Decide(t) \/ SkipDecision(t) \/ Test(t) \/ ClearSample(t) \/ ClearDone(t)
  <2>1. /\ group' = group /\ ~AtBarrier(t)
        /\ pc[t] \in {"test", "clear", "cleared"} <=> pc'[t] \in {"test", "clear", "cleared"}
    BY <1>0, <1>4 DEF Decide, SkipDecision, Test, ClearSample, ClearDone, Goto, AtBarrier
  <2>2. Passed(t)' = Passed(t)
    BY <2>1 DEF Passed
  <2> QED BY <1>1, <1>2, <2>1, <2>2
<1>5. CASE PassFirst(t)
  <2>1. group' = group /\ pc[t] = "decided" /\ pc'[t] = "test" /\ Gathered(t)
    BY <1>0, <1>5 DEF PassFirst, Goto
  <2>2. Passed(t)' = Passed(t) + 1
    BY <1>3, <2>1 DEF Passed
  <2> QED BY <1>1, <1>2, <2>1, <2>2
<1>6. CASE PassSecond(t)
  <2>1. /\ group'[t] = group[t] + 1 /\ pc[t] = "cleared" /\ pc'[t] \in {"exit", "decide"}
        /\ Gathered(t)
    BY <1>0, <1>6 DEF PassSecond, Goto
  <2>2. Passed(t)' = Passed(t) + 1
    BY <1>3, <2>1 DEF Passed
  <2> QED BY <1>1, <1>2, <2>1, <2>2
<1> QED BY <1>4, <1>5, <1>6 DEF Step

\* Every step keeps the threads within one barrier of each other.
LEMMA LockstepKept ==
  ASSUME MaskTypes, Lockstep, MaskNext
  PROVE  Lockstep'
<1>1. ASSUME NEW t \in Threads, Step(t) PROVE Lockstep'
  <2>1. \A u \in Threads : /\ Passed(u) \in Nat
                           /\ u # t => Passed(u)' = Passed(u) /\ AtBarrier(u)' = AtBarrier(u)
    BY <1>1, Movement, PassedIsNat
  <2>2. CASE ~AtBarrier(t) /\ Passed(t)' = Passed(t)
    <3>1. \A u \in Threads : Passed(u) <= Passed(t)
      BY <2>1, <2>2 DEF Lockstep
    <3>2. \A u \in Threads : Passed(u)' = Passed(u)
      BY <2>1, <2>2
    <3> SUFFICES ASSUME NEW a \in Threads, NEW b \in Threads, Passed(b)' > Passed(a)'
                 PROVE  Passed(b)' = Passed(a)' + 1 /\ AtBarrier(a)'
      BY DEF Lockstep
    <3>3. Passed(b) > Passed(a)
      BY <3>2
    <3>4. a # t
      BY <2>1, <3>1, <3>3
    <3> QED BY <2>1, <3>2, <3>3, <3>4 DEF Lockstep
  <2>3. CASE AtBarrier(t) /\ Gathered(t) /\ Passed(t)' = Passed(t) + 1
    <3> SUFFICES ASSUME NEW a \in Threads, NEW b \in Threads, Passed(b)' > Passed(a)'
                 PROVE  Passed(b)' = Passed(a)' + 1 /\ AtBarrier(a)'
      BY DEF Lockstep
    <3>1. CASE a = t
      <4>1. b # t
        BY <2>1, <2>3, <3>1
      <4>2. Passed(b) > Passed(t) + 1
        BY <2>1, <2>3, <3>1, <4>1
      <4> QED BY <2>1, <4>2 DEF Lockstep
    <3>2. CASE a # t /\ b = t
      <4>1. Arrived(a, t) /\ Passed(a) < Passed(t) + 1
        BY <2>1, <2>3, <3>2 DEF Gathered
      <4>2. Passed(a) = Passed(t) /\ AtBarrier(a)
        BY <2>1, <4>1 DEF Arrived
      <4> QED BY <2>1, <2>3, <3>2, <4>2
    <3>3. CASE a # t /\ b # t
      <4>1. Passed(b) > Passed(a) /\ Passed(b)' = Passed(b) /\ Passed(a)' = Passed(a)
            /\ AtBarrier(a)' = AtBarrier(a)
        BY <2>1, <3>3
      <4> QED BY <4>1 DEF Lockstep
    <3> QED BY <3>1, <3>2, <3>3
  <2> QED BY <1>1, <2>2, <2>3, Movement DEF AtBarrier
<1>2. ASSUME LaunchKernel PROVE Lockstep'
  <2>1. \A u \in Threads : /\ pc[u] = "exit" /\ pc'[u] = "decide" /\ group'[u] = group[u]
    BY <1>2 DEF LaunchKernel
  <2>2. \A u \in Threads : Passed(u)' = Passed(u) /\ AtBarrier(u)' = AtBarrier(u)
    BY <2>1 DEF Passed, AtBarrier
  <2> QED BY <2>2 DEF Lockstep
<1>3. ASSUME Ended PROVE Lockstep'
  BY <1>3 DEF Ended, maskVars, Lockstep, Passed, AtBarrier
<1> QED BY <1>1, <1>2, <1>3 DEF MaskNext

\* Every step keeps clearing threads at matches of their own.
LEMMA SharesKept ==
  ASSUME MaskTypes, Lockstep, Shares, MaskNext
  PROVE  Shares'
<1>0. /\ pc \in [Threads -> Points] /\ sample \in [Threads -> Nat \ {0}]
      /\ \A t \in Threads : pc[t] = "clear" => active /\ Mine(t, sample[t])
  BY DEF MaskTypes, Shares
<1>1. ASSUME NEW t \in Threads, Decide(t) PROVE Shares'
  <2>1. t = 0 /\ pc[0] = "decide"
    BY <1>1 DEF Decide
  <2>2. \A u \in Threads : pc[u] # "clear"
    BY <2>1, TurnOf
  <2>3. \A u \in Threads : pc'[u] # "clear"
    BY <1>0, <1>1, <2>2 DEF Decide, Goto
  <2> QED BY <2>3 DEF Shares
<1>2. ASSUME NEW t \in Threads, SkipDecision(t) \/ PassFirst(t) \/ ClearDone(t) \/ PassSecond(t)
      PROVE  Shares'
  <2>1. /\ active' = active /\ sample' = sample
        /\ \A u \in Threads : pc'[u] = "clear" => pc[u] = "clear"
    BY <1>0, <1>2 DEF SkipDecision, PassFirst, ClearDone, PassSecond, Goto
  <2> QED BY <1>0, <2>1 DEF Shares, Mine
<1>3. ASSUME NEW t \in Threads, Test(t) PROVE Shares'
  <2>1. /\ active' = active /\ sample'[t] = t + 1 /\ (pc'[t] = "clear" => active)
        /\ \A u \in Threads : u # t => pc'[u] = pc[u] /\ sample'[u] = sample[u]
    BY <1>0, <1>3 DEF Test, Goto
  <2>2. Mine(t, t + 1)
    BY DEF Mine
  <2> QED BY <1>0, <2>1, <2>2 DEF Shares, Mine
<1>4. ASSUME NEW t \in Threads, ClearSample(t) PROVE Shares'
  <2>1. /\ active' = active /\ sample'[t] = sample[t] + BlockDim /\ pc' = pc /\ pc[t] = "clear"
        /\ \A u \in Threads : u # t => sample'[u] = sample[u]
    BY <1>0, <1>4 DEF ClearSample
  <2>2. Mine(t, sample[t] + BlockDim)
    BY <1>0, <2>1, StrideStays
  <2> QED BY <1>0, <2>1, <2>2 DEF Shares, Mine
<1>5. ASSUME LaunchKernel PROVE Shares'
  BY <1>5 DEF LaunchKernel, Shares
<1>6. ASSUME Ended PROVE Shares'
  BY <1>6 DEF Ended, maskVars, Shares, Mine
<1> QED BY <1>1, <1>2, <1>3, <1>4, <1>5, <1>6 DEF MaskNext, Step


\* A step that leaves the masks and what is left to clear leaves the agreement.
LEMMA SamePending ==
  ASSUME Agreement, UNCHANGED <<mask, cpuMask, matches, active>>,
         pc[0] \in {"decided", "test", "clear", "cleared"}
            <=> pc'[0] \in {"decided", "test", "clear", "cleared"},
         \A t \in Threads, i \in DOMAIN matches : ToClear(t, i)' <=> ToClear(t, i)
  PROVE  Agreement'
<1>1. \A m : Inside(m)' <=> Inside(m)
  BY DEF Inside
<1>2. \A o : Pending(o)' <=> Pending(o)
  BY <1>1 DEF Pending
<1> QED BY <1>2 DEF Agreement

\* Every step keeps the masks in agreement and the decisions equal.
LEMMA AgreementKept ==
  ASSUME MaskInv, MaskTypes', MaskNext
  PROVE  Agreement' /\ decided' = cpuDecided'
<1>0. /\ MaskTypes /\ Lockstep /\ Shares /\ Agreement /\ decided = cpuDecided
      /\ pc \in [Threads -> Points] /\ sample \in [Threads -> Nat \ {0}]
      /\ 0 \in Threads /\ matches \in Seq(Match) /\ active \in BOOLEAN
  BY ThreadZero DEF MaskInv, MaskTypes
<1>1. \A i \in DOMAIN matches : i \in Nat \ {0} /\ i <= Len(matches)
  BY <1>0
<1>2. \A t \in Threads : group[t] \in Nat /\ Passed(t) \in Nat
  BY <1>0, PassedIsNat
<1>3. ASSUME Decide(0) PROVE Agreement' /\ decided' = cpuDecided'
  <2>1. PICK list \in MatchLists :
           /\ matches' = list
           /\ cpuMask' = IF grid[group[0]] \in cpuMask THEN cpuMask \ CpuClears(list) ELSE cpuMask
    BY <1>3 DEF Decide
  <2>2. /\ pc[0] = "decide" /\ active' = (grid[group[0]] \in mask)
        /\ decided' = Append(decided, grid[group[0]] \in mask)
        /\ cpuDecided' = Append(cpuDecided, grid[group[0]] \in cpuMask)
        /\ pc' = [pc EXCEPT ![0] = "decided"] /\ mask' = mask /\ group' = group /\ sample' = sample
    BY <1>3 DEF Decide, Goto
  <2>3. list \in Seq(Match)
    BY MaskAssumption DEF Match
  <2>4. group[0] \in 1..Turns
    <3>1. group[0] \in chunk..(ChunkEnd + 1) /\ group[0] # ChunkEnd + 1 /\ chunk \in 1..Turns
      BY <1>0, <2>2 DEF MaskTypes
    <3>2. ChunkEnd \in chunk..Turns /\ Turns \in Nat
      BY <3>1, ChunkIsInGrid, GridOfFrame DEF ChunkEnd
    <3> QED BY <3>1, <3>2
  <2>5. \A i \in 1..Turns : grid[i] \in cpuMask <=> grid[i] \in mask
    BY <1>0, <2>2 DEF Agreement, Pending
  <2>6. decided' = cpuDecided' /\ (active' <=> grid[group[0]] \in cpuMask)
    <3>0. grid[group[0]] \in mask <=> grid[group[0]] \in cpuMask
      BY <2>4, <2>5
    <3>1. (grid[group[0]] \in mask) = (grid[group[0]] \in cpuMask)
      BY <3>0
    <3>2. decided' = cpuDecided'
      BY <1>0, <2>2, <3>1, Zenon
    <3> QED BY <2>2, <2>4, <2>5, <3>2, Zenon
  <2>7. \A t \in Threads : Passed(t)' = Passed(t) /\ Passed(t) <= 2 * group[0]
    <3> TAKE t \in Threads
    <3>1. Passed(t)' = Passed(t)
      BY <1>0, <2>2 DEF Passed
    <3>2. Passed(0) = 2 * group[0] /\ ~AtBarrier(0)
      BY <1>0, <2>2, PassedIsNat DEF AtBarrier
    <3> QED BY <1>0, <1>2, <3>1, <3>2 DEF Lockstep
  <2>8. \A t \in Threads : \A i : ToClear(t, i)' <=> Mine(t, i)
    BY <2>2, <2>7 DEF ToClear, Mine
  <2>9. \A o : Pending(o)' <=>
           active' /\ \E i \in DOMAIN list : Inside(list[i]) /\ o \in ClearedBy(list[i])
    <3>1. pc'[0] = "decided"
      BY <1>0, <2>2
    <3>2. \A i \in DOMAIN list : \E t \in Threads : Mine(t, i)
      <4>1. \A i \in DOMAIN list : i \in Nat \ {0}
        BY <2>3
      <4> QED BY <4>1, EveryMatchHasAThread
    <3>3. \A m : Inside(m)' <=> Inside(m)
      BY DEF Inside
    <3> QED BY <2>1, <2>8, <3>1, <3>2, <3>3 DEF Pending
  <2>10. ASSUME NEW i \in 1..Turns
         PROVE  grid[i] \in cpuMask' <=> grid[i] \in mask /\ ~Pending(grid[i])'
    <3>1. grid[i] \in Area(Geometry)
      BY GridOfFrame
    <3>2. grid[i] \in CpuClears(list) <=>
             \E k \in DOMAIN list : Inside(list[k]) /\ grid[i] \in ClearedBy(list[k])
      BY <2>3, <3>1, ClearsAgree
    <3> QED BY <2>1, <2>5, <2>6, <2>9, <3>2
  <2>11. Agreement'
    BY <2>2, <2>10 DEF Agreement
  <2> QED BY <2>6, <2>11
<1>4. ASSUME NEW t \in Threads, SkipDecision(t) PROVE Agreement' /\ decided' = cpuDecided'
  <2>1. /\ t # 0 /\ pc[t] = "decide" /\ pc'[t] = "decided"
        /\ \A u \in Threads : u # t => pc'[u] = pc[u]
        /\ UNCHANGED <<mask, matches, group, sample, active, decided, cpuMask, cpuDecided>>
    BY <1>0, <1>4 DEF SkipDecision, Goto
  <2>2. \A u \in Threads : Passed(u)' = Passed(u)
    BY <2>1 DEF Passed
  <2>3. \A u \in Threads, i \in DOMAIN matches : ToClear(u, i)' <=> ToClear(u, i)
    BY <2>1, <2>2 DEF ToClear, Mine
  <2> QED BY <1>0, <2>1, <2>3, SamePending
<1>5. ASSUME NEW t \in Threads, PassFirst(t) PROVE Agreement' /\ decided' = cpuDecided'
  <2>1. /\ pc[t] = "decided" /\ pc'[t] = "test" /\ \A u \in Threads : u # t => pc'[u] = pc[u]
        /\ Gathered(t)
        /\ UNCHANGED <<mask, matches, group, sample, active, decided, cpuMask, cpuDecided>>
    BY <1>0, <1>5 DEF PassFirst, Goto
  <2>2. Passed(t) = 2 * group[t] /\ \A u \in Threads : u # t => Passed(u)' = Passed(u)
    BY <1>0, <2>1, PassedIsNat DEF Passed
  <2>3. Passed(t) <= 2 * group[0]
    <3>1. CASE t = 0
      BY <1>0, <1>2, <2>2, <3>1
    <3>2. CASE t # 0
      <4>1. Passed(0) >= Passed(t)
        BY <1>0, <1>2, <2>1 DEF Gathered, Arrived
      <4>2. Passed(0) = 2 * group[0] \/ Passed(0) = 2 * group[0] + 1
        BY <1>0, PassedIsNat
      <4> QED BY <1>0, <1>2, <2>2, <4>1, <4>2
    <3> QED BY <3>1, <3>2
  <2>4. \A u \in Threads, i \in DOMAIN matches : ToClear(u, i)' <=> ToClear(u, i)
    <3> TAKE u \in Threads, i \in DOMAIN matches
    <3>1. CASE u = t
      BY <2>1, <2>3, <3>1 DEF ToClear, Mine
    <3>2. CASE u # t
      BY <2>1, <2>2, <3>2 DEF ToClear, Mine
    <3> QED BY <3>1, <3>2
  <2>5. pc[0] \in {"decided", "test", "clear", "cleared"}
           <=> pc'[0] \in {"decided", "test", "clear", "cleared"}
    BY <1>0, <2>1
  <2> QED BY <1>0, <2>1, <2>4, <2>5, SamePending
<1>6. ASSUME NEW t \in Threads, Test(t) PROVE Agreement' /\ decided' = cpuDecided'
  <2>1. /\ pc[t] = "test" /\ pc'[t] = IF active THEN "clear" ELSE "cleared"
        /\ sample'[t] = t + 1
        /\ \A u \in Threads : u # t => pc'[u] = pc[u] /\ sample'[u] = sample[u]
        /\ UNCHANGED <<mask, matches, group, active, decided, cpuMask, cpuDecided>>
    BY <1>0, <1>6 DEF Test, Goto
  <2>2. \A u \in Threads : Passed(u)' = Passed(u)
    BY <2>1 DEF Passed
  <2>3. pc[0] \in {"decided", "test", "clear", "cleared"}
           <=> pc'[0] \in {"decided", "test", "clear", "cleared"}
    BY <1>0, <2>1
  <2>4. CASE active
    <3>1. \A u \in Threads, i \in DOMAIN matches : ToClear(u, i)' <=> ToClear(u, i)
      <4> TAKE u \in Threads, i \in DOMAIN matches
      <4>1. CASE u = t
        <5>1. Mine(t, i) => i >= t + 1
          BY <1>1, FirstOfThread
        <5> QED BY <2>1, <2>2, <2>4, <4>1, <5>1 DEF ToClear, Mine
      <4>2. CASE u # t
        BY <2>1, <2>2, <4>2 DEF ToClear, Mine
      <4> QED BY <4>1, <4>2
    <3> QED BY <1>0, <2>1, <2>3, <3>1, SamePending
  <2>5. CASE ~active
    <3>1. \A o : ~Pending(o) /\ ~Pending(o)'
      BY <2>1, <2>5 DEF Pending
    <3> QED BY <1>0, <2>1, <3>1 DEF Agreement
  <2> QED BY <1>0, <2>4, <2>5
<1>7. ASSUME NEW t \in Threads, ClearSample(t) PROVE Agreement' /\ decided' = cpuDecided'
  <2> DEFINE s == sample[t]
             m == matches[s]
  <2>1. /\ pc[t] = "clear" /\ s <= Len(matches)
        /\ mask' = IF Inside(m) THEN mask \ ClearedBy(m) ELSE mask
        /\ sample'[t] = s + BlockDim /\ \A u \in Threads : u # t => sample'[u] = sample[u]
        /\ UNCHANGED <<pc, matches, group, active, decided, cpuMask, cpuDecided>>
    BY <1>0, <1>7 DEF ClearSample
  <2>2. s \in Nat \ {0} /\ s \in DOMAIN matches
    BY <1>0, <2>1
  <2>3. active /\ Mine(t, s)
    BY <1>0, <2>1 DEF Shares
  <2>4. group[0] = group[t] /\ pc[0] \in {"decided", "test", "clear", "cleared"}
    BY <1>0, <2>1, TurnOf
  <2>5. Passed(t) > 2 * group[0] /\ \A u \in Threads : Passed(u)' = Passed(u)
    <3>1. Passed(t) = 2 * group[t] + 1
      BY <1>0, <2>1, PassedIsNat
    <3> QED BY <1>2, <2>1, <2>4, <3>1 DEF Passed
  <2>6. BlockDim \in Nat \ {0}
    BY MaskAssumption
  <2> HIDE DEF s, m
  <2>7. ASSUME NEW i \in DOMAIN matches
        PROVE  ToClear(t, i) <=> ToClear(t, i)' \/ i = s
    <3>1. /\ Passed(t)' > 2 * group'[0]
          /\ ~(Passed(t) <= 2 * group[0]) /\ ~(Passed(t)' <= 2 * group'[0])
      BY <1>0, <1>2, <2>1, <2>5
    <3>2. ToClear(t, i) <=> Mine(t, i) /\ i >= s
      BY <2>1, <3>1 DEF ToClear, s
    <3>3. ToClear(t, i)' <=> Mine(t, i) /\ i >= s + BlockDim
      BY <2>1, <3>1 DEF ToClear, Mine
    <3>4. i \in Nat /\ (Mine(t, i) /\ i > s => i >= s + BlockDim)
      BY <1>1, <2>2, <2>3, NextOfThread
    <3> QED BY <2>2, <2>3, <2>6, <3>2, <3>3, <3>4
  <2>8. \A u \in Threads, i \in DOMAIN matches : u # t => (ToClear(u, i)' <=> ToClear(u, i))
    BY <2>1, <2>5 DEF ToClear, Mine
  <2>9. \A n : Inside(n)' <=> Inside(n)
    BY DEF Inside
  <2>10. ASSUME NEW o
         PROVE  Pending(o) <=> Pending(o)' \/ (Inside(m) /\ o \in ClearedBy(m))
    <3>1. Pending(o) <=> \E u \in Threads, i \in DOMAIN matches :
             ToClear(u, i) /\ Inside(matches[i]) /\ o \in ClearedBy(matches[i])
      BY <2>3, <2>4 DEF Pending
    <3>2. Pending(o)' <=> \E u \in Threads, i \in DOMAIN matches :
             ToClear(u, i)' /\ Inside(matches[i]) /\ o \in ClearedBy(matches[i])
      BY <2>1, <2>3, <2>4, <2>9 DEF Pending
    <3>3. \A u \in Threads, i \in DOMAIN matches :
             ToClear(u, i) <=> ToClear(u, i)' \/ (u = t /\ i = s)
      <4> TAKE u \in Threads, i \in DOMAIN matches
      <4>1. CASE u = t
        BY <2>7, <4>1
      <4>2. CASE u # t
        BY <2>8, <4>2
      <4> QED BY <4>1, <4>2
    <3>4. m = matches[s]
      BY DEF m
    <3> QED BY <2>2, <3>1, <3>2, <3>3, <3>4
  <2>11. Agreement'
    <3>1. \A i \in 1..Turns : grid[i] \in cpuMask' <=> grid[i] \in mask' /\ ~Pending(grid[i])'
      <4> TAKE i \in 1..Turns
      <4>1. grid[i] \in mask' <=> grid[i] \in mask /\ ~(Inside(m) /\ grid[i] \in ClearedBy(m))
        BY <2>1
      <4>2. Pending(grid[i]) <=> Pending(grid[i])' \/ (Inside(m) /\ grid[i] \in ClearedBy(m))
        BY <2>10
      <4>3. grid[i] \in cpuMask <=> grid[i] \in mask /\ ~Pending(grid[i])
        BY <1>0 DEF Agreement
      <4> QED BY <2>1, <4>1, <4>2, <4>3
    <3> QED BY <3>1 DEF Agreement
  <2> QED BY <1>0, <2>1, <2>11
<1>8. ASSUME NEW t \in Threads, ClearDone(t) PROVE Agreement' /\ decided' = cpuDecided'
  <2>1. /\ pc[t] = "clear" /\ pc'[t] = "cleared" /\ sample[t] > Len(matches)
        /\ \A u \in Threads : u # t => pc'[u] = pc[u]
        /\ UNCHANGED <<mask, matches, group, sample, active, decided, cpuMask, cpuDecided>>
    BY <1>0, <1>8 DEF ClearDone, Goto
  <2>2. \A u \in Threads : Passed(u)' = Passed(u)
    BY <2>1 DEF Passed
  <2>3. \A u \in Threads, i \in DOMAIN matches : ToClear(u, i)' <=> ToClear(u, i)
    <3> TAKE u \in Threads, i \in DOMAIN matches
    <3>1. CASE u = t
      <4>1. ~(i >= sample[t])
        <5>1. i \in Nat /\ i <= Len(matches) /\ Len(matches) \in Nat /\ sample[t] \in Nat
          BY <1>0, <1>1
        <5> QED BY <2>1, <5>1
      <4> QED BY <2>1, <2>2, <3>1, <4>1 DEF ToClear, Mine
    <3>2. CASE u # t
      BY <2>1, <2>2, <3>2 DEF ToClear, Mine
    <3> QED BY <3>1, <3>2
  <2>4. pc[0] \in {"decided", "test", "clear", "cleared"}
           <=> pc'[0] \in {"decided", "test", "clear", "cleared"}
    BY <1>0, <2>1
  <2> QED BY <1>0, <2>1, <2>3, <2>4, SamePending
<1>9. ASSUME PassSecond(0) PROVE Agreement' /\ decided' = cpuDecided'
  <2>1. /\ pc[0] = "cleared" /\ pc'[0] \in {"exit", "decide"} /\ Gathered(0)
        /\ UNCHANGED <<mask, matches, sample, active, decided, cpuMask, cpuDecided>>
    BY <1>0, <1>9 DEF PassSecond, Goto
  <2>2. Passed(0) = 2 * group[0] + 1
    BY <1>0, <2>1, PassedIsNat
  <2>3. ASSUME NEW t \in Threads, NEW i PROVE ~ToClear(t, i)
    <3>1. Arrived(t, 0)
      BY <2>1, <2>3 DEF Gathered
    <3>2. Passed(t) >= Passed(0)
      BY <1>0, <1>2, <3>1 DEF Arrived
    <3>3. pc[t] \notin {"test", "clear"}
      <4> SUFFICES ASSUME pc[t] \in {"test", "clear"} PROVE FALSE
        OBVIOUS
      <4>1. group[0] = group[t]
        BY <1>0, TurnOf
      <4>2. Passed(t) = 2 * group[t] + 1 /\ ~AtBarrier(t)
        BY <1>0, PassedIsNat DEF AtBarrier
      <4> QED BY <1>0, <1>2, <2>2, <3>1, <4>1, <4>2 DEF Arrived
    <3> QED BY <1>0, <1>2, <2>2, <3>2, <3>3 DEF ToClear
  <2>4. \A o : ~Pending(o) /\ ~Pending(o)'
    BY <2>1, <2>3 DEF Pending
  <2> QED BY <1>0, <2>1, <2>4 DEF Agreement
<1>10. ASSUME NEW t \in Threads, t # 0, PassSecond(t) PROVE Agreement' /\ decided' = cpuDecided'
  <2>1. /\ pc[t] = "cleared" /\ pc'[t] \in {"exit", "decide"} /\ Gathered(t)
        /\ \A u \in Threads : u # t =>
              pc'[u] = pc[u] /\ group'[u] = group[u] /\ Passed(u)' = Passed(u)
        /\ Passed(t)' = Passed(t) + 1
        /\ UNCHANGED <<mask, matches, sample, active, decided, cpuMask, cpuDecided>>
    <3>1. /\ pc[t] = "cleared" /\ Step(t)
          /\ UNCHANGED <<mask, matches, sample, active, decided, cpuMask, cpuDecided>>
      BY <1>10 DEF PassSecond, Step
    <3> QED BY <1>0, <3>1, Movement DEF AtBarrier
  <2>2. Passed(t) = 2 * group[t] + 1 /\ Passed(t) <= Passed(0)
    <3>1. Arrived(0, t)
      BY <1>0, <2>1 DEF Gathered
    <3> QED BY <1>0, <1>2, <2>1, <3>1, PassedIsNat DEF Arrived
  <2>3. Passed(t) <= 2 * group[0] <=> Passed(t) + 1 <= 2 * group[0]
    BY <1>0, <1>2, <2>2
  <2>4. \A u \in Threads, i \in DOMAIN matches : ToClear(u, i)' <=> ToClear(u, i)
    <3> TAKE u \in Threads, i \in DOMAIN matches
    <3>0. group'[0] = group[0]
      BY <1>0, <1>10, <2>1
    <3>1. CASE u = t
      <4>1. pc[t] \notin {"test", "clear"} /\ pc'[t] \notin {"test", "clear"}
        BY <2>1
      <4> QED BY <2>1, <2>3, <3>0, <3>1, <4>1 DEF ToClear, Mine
    <3>2. CASE u # t
      BY <2>1, <3>0, <3>2 DEF ToClear, Mine
    <3> QED BY <3>1, <3>2
  <2>5. pc'[0] = pc[0]
    BY <1>0, <1>10, <2>1
  <2> QED BY <1>0, <2>1, <2>4, <2>5, SamePending
<1>11. ASSUME LaunchKernel PROVE Agreement' /\ decided' = cpuDecided'
  <2>1. /\ pc[0] = "exit" /\ pc'[0] = "decide"
        /\ UNCHANGED <<mask, matches, active, decided, cpuMask, cpuDecided>>
    BY <1>0, <1>11 DEF LaunchKernel
  <2>2. \A o : ~Pending(o) /\ ~Pending(o)'
    BY <2>1 DEF Pending
  <2> QED BY <1>0, <2>1, <2>2 DEF Agreement
<1>12. ASSUME UNCHANGED maskVars PROVE Agreement' /\ decided' = cpuDecided'
  <2>1. \A t \in Threads : Passed(t)' = Passed(t)
    BY <1>12 DEF maskVars, Passed
  <2>2. \A t \in Threads, i \in DOMAIN matches : ToClear(t, i)' <=> ToClear(t, i)
    BY <1>12, <2>1 DEF maskVars, ToClear, Mine
  <2> QED BY <1>0, <1>12, <2>2, SamePending DEF maskVars
<1>13. \A t \in Threads : Decide(t) => t = 0
  BY DEF Decide
<1> QED BY <1>3, <1>4, <1>5, <1>6, <1>7, <1>8, <1>9, <1>10, <1>11, <1>12, <1>13
        DEF MaskNext, Step, Ended

\* The decisions of the block are those of the CPU, for every geometry, frame,
\* list of matches, number of threads and size of the kernels: the barriers
\* keep each decision after what the one before it cleared
\* (apply_paste_mask_kernel, process_anchor_impl).
THEOREM MasksAgree == MaskSpec => []SameGroupsAsCpu
<1>1. MaskInv /\ [MaskNext]_maskVars => MaskInv'
  <2> SUFFICES ASSUME MaskInv, [MaskNext]_maskVars PROVE MaskInv'
    OBVIOUS
  <2>1. CASE MaskNext
    <3>1. MaskTypes'
      BY <2>1, TypesKept DEF MaskInv
    <3>2. Lockstep' /\ Shares'
      BY <2>1, LockstepKept, SharesKept DEF MaskInv
    <3>3. Agreement' /\ decided' = cpuDecided'
      BY <2>1, <3>1, AgreementKept
    <3> QED BY <3>1, <3>2, <3>3 DEF MaskInv
  <2>2. CASE UNCHANGED maskVars
    BY <2>2 DEF maskVars, MaskInv, MaskTypes, Lockstep, Shares, Agreement, ChunkEnd, Passed,
                AtBarrier, Mine, Pending, ToClear, Inside
  <2> QED BY <2>1, <2>2
<1>2. MaskInv => SameGroupsAsCpu
  BY DEF MaskInv, SameGroupsAsCpu
<1> QED BY <1>1, <1>2, MaskInvInit, PTL DEF MaskSpec
=============================================================================
