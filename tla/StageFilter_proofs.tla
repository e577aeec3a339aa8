-------------------------- MODULE StageFilter_proofs --------------------------
(***************************************************************************)
(* Theorems about StageFilter, for any filter with any number of threads   *)
(* on any clips: its references to frames and nodes are exact, its fetches *)
(* were requested, and its motion follows the vectors of its own frames.   *)
(*                                                                         *)
(* StageInv is the invariant of a filter's life.  MotionInv, on top of it, *)
(* is that of the thread buffers: what they cache, list and index.  The    *)
(* functions the model defines by recursion are handled by StepsExist (the *)
(* definition has a solution) and StepByStep (induction over its steps).   *)
(***************************************************************************)
EXTENDS StageFilter, FiniteSetTheorems, SequenceTheorems, WellFoundedInduction, TLAPS

Phases == {"creating", "live", "refused", "freed"}

\* The arguments read so far, in order, are the nodes owned, each once.
Ownership ==
    /\ instance \in [phase : Phases, owned : SUBSET AllNodes]
    /\ instance.phase \in {"refused", "freed"} => instance.owned = {}
    /\ instance.phase \in {"creating", "live"} =>
          /\ Cardinality(instance.owned) \in 0..Len(NodeOrder)
          /\ instance.owned = {NodeOrder[i] : i \in 1..Cardinality(instance.owned)}
    /\ instance.phase = "live" => /\ Cardinality(instance.owned) = Len(NodeOrder)
                                  /\ ValidParameters(filter.p)
    /\ nodes = [n \in AllNodes |-> IF n \in instance.owned THEN 1 ELSE 0]

\* What a frame in flight has requested.
Asked(f) == [open |-> TRUE, requested |-> RequestedFrames(f)]

\* Only a live filter has frames in flight, and renders are of different ones.
Flights ==
    /\ DOMAIN context = Frames
    /\ \A f \in Frames : context[f] \in {Closed, Asked(f)}
    /\ render \in [Threads -> {Idle} \cup [frame : Frames, taken : Nat, built : Nat]]
    /\ \A f \in Frames : context[f].open => instance.phase = "live"
    /\ \A t \in Threads : Rendering(t) =>
          /\ context[render[t].frame] = Asked(render[t].frame)
          /\ render[t].taken <= TakenCount(render[t].frame)
          /\ \A u \in Threads \ {t} : Rendering(u) => render[u].frame # render[t].frame

\* A thread's lists hold what its render took.
Lists ==
    /\ DOMAIN data = Threads
    /\ \A t \in Threads :
          /\ DOMAIN data[t] = {"lists", "cache", "grids"}
          /\ data[t].lists \in [AllNodes -> Seq(Int)]
          /\ \A n \in AllNodes : Len(data[t].lists[n]) = Cardinality(TakenFrom(t, n))

\* References are those of the renders under way.
Counts ==
    /\ references = [n \in AllNodes |-> Cardinality(Holders(n))]
    /\ outputs = Cardinality(Holders("out"))

StageInv == scenario \in DOMAIN Scenarios /\ Ownership /\ Flights /\ Lists /\ Counts

-----------------------------------------------------------------------------
\* What the assumption says of the filter at hand.
LEMMA FilterIs ==
  ASSUME scenario \in DOMAIN Scenarios
  PROVE  /\ filter.threads \in Nat
         /\ filter.kind \in {"Basic", "Final", "Aggregate"}
         /\ filter.motion \subseteq {"mvfw", "mvbw"}
         /\ filter.kind = "Aggregate" => filter.motion = {}
  BY ScenariosAssumption DEF filter, Filters

\* The directions given, each once.
LEMMA MotionIs ==
  /\ Motion \in Seq({"mvfw", "mvbw"}) /\ Len(Motion) \in 0..2
  /\ \A i \in 1..Len(Motion) : Motion[i] \in filter.motion \cap {"mvfw", "mvbw"}
  /\ \A d \in filter.motion \cap {"mvfw", "mvbw"} : \E i \in 1..Len(Motion) : Motion[i] = d
  /\ \A i, k \in 1..Len(Motion) : Motion[i] = Motion[k] => i = k
<1>1. CASE "mvfw" \in filter.motion /\ "mvbw" \in filter.motion
  <2>1. Given("mvfw") = <<"mvfw">> /\ Given("mvbw") = <<"mvbw">>
    BY <1>1 DEF Given
  <2>0. Motion = <<"mvfw">> \o <<"mvbw">>
    BY <2>1 DEF Motion
  <2>3. /\ <<"mvfw">> \in Seq({"mvfw", "mvbw"}) /\ Len(<<"mvfw">>) = 1 /\ <<"mvfw">>[1] = "mvfw"
        /\ <<"mvbw">> \in Seq({"mvfw", "mvbw"}) /\ Len(<<"mvbw">>) = 1 /\ <<"mvbw">>[1] = "mvbw"
    OBVIOUS
  <2>2. Motion \in Seq({"mvfw", "mvbw"}) /\ Len(Motion) = 2
        /\ Motion[1] = "mvfw" /\ Motion[2] = "mvbw"
    BY <2>0, <2>3, ConcatProperties
  <2> QED BY <1>1, <2>2
<1>2. CASE "mvfw" \in filter.motion /\ "mvbw" \notin filter.motion
  <2>1. Motion = <<"mvfw">>
    BY <1>2 DEF Motion, Given
  <2> QED BY <1>2, <2>1
<1>3. CASE "mvfw" \notin filter.motion /\ "mvbw" \in filter.motion
  <2>1. Motion = <<"mvbw">>
    BY <1>3 DEF Motion, Given
  <2> QED BY <1>3, <2>1
<1>4. CASE "mvfw" \notin filter.motion /\ "mvbw" \notin filter.motion
  <2>1. Motion = <<>>
    BY <1>4 DEF Motion, Given
  <2> QED BY <1>4, <2>1
<1> QED BY <1>1, <1>2, <1>3, <1>4

\* A filter reads one to four different nodes.
LEMMA NodeOrderIs ==
  ASSUME scenario \in DOMAIN Scenarios
  PROVE  /\ NodeOrder \in Seq(AllNodes) /\ Len(NodeOrder) \in 1..4
         /\ \A i, k \in 1..Len(NodeOrder) : NodeOrder[i] = NodeOrder[k] => i = k
         /\ filter.kind # "Aggregate" =>
               \A i \in 1..Len(NodeOrder) :
                  NodeOrder[i] \in {"clip"} \cup (IF filter.kind = "Final" THEN {"ref"} ELSE {})
                                   \cup filter.motion
<1>1. CASE filter.kind = "Basic"
  <2> DEFINE order == <<"clip">> \o Motion
  <2>1. NodeOrder = order
    BY <1>1 DEF NodeOrder
  <2>2. Len(order) = 1 + Len(Motion) /\ order[1] = "clip"
        /\ \A i \in 2..Len(order) : order[i] = Motion[i - 1] /\ i - 1 \in 1..Len(Motion)
    BY MotionIs
  <2>3. order \in Seq(AllNodes)
    BY MotionIs DEF AllNodes
  <2>4. \A i, k \in 1..Len(order) : order[i] = order[k] => i = k
    <3> SUFFICES ASSUME NEW i \in 1..Len(order), NEW k \in 1..Len(order), order[i] = order[k]
                 PROVE  i = k
      OBVIOUS
    <3>1. CASE i = 1 \/ k = 1
      BY <2>2, <3>1, MotionIs
    <3>2. CASE i # 1 /\ k # 1
      <4>1. i \in 2..Len(order) /\ k \in 2..Len(order)
        BY <2>2, <3>2, MotionIs
      <4>2. Motion[i - 1] = Motion[k - 1] /\ i - 1 \in 1..Len(Motion) /\ k - 1 \in 1..Len(Motion)
        BY <2>2, <4>1
      <4>3. i - 1 = k - 1
        BY <4>2, MotionIs
      <4> QED BY <4>1, <4>3
    <3> QED BY <3>1, <3>2
  <2>5. \A i \in 1..Len(order) : order[i] \in {"clip"} \cup filter.motion
    BY <2>2, MotionIs
  <2>6. Len(order) \in 1..4
    BY <2>2, MotionIs
  <2> HIDE DEF order
  <2> QED BY <1>1, <2>1, <2>3, <2>4, <2>5, <2>6
<1>2. CASE filter.kind = "Final"
  <2> DEFINE order == <<"clip", "ref">> \o Motion
  <2>1. NodeOrder = order
    BY <1>2 DEF NodeOrder
  <2>2. Len(order) = 2 + Len(Motion) /\ order[1] = "clip" /\ order[2] = "ref"
        /\ \A i \in 3..Len(order) : order[i] = Motion[i - 2] /\ i - 2 \in 1..Len(Motion)
    BY MotionIs
  <2>3. order \in Seq(AllNodes)
    BY MotionIs DEF AllNodes
  <2> QED BY <1>2, <2>1, <2>2, <2>3, MotionIs
<1>3. CASE filter.kind = "Aggregate"
  <2>1. NodeOrder = <<"clip", "src">>
    BY <1>3 DEF NodeOrder
  <2> QED BY <1>3, <2>1 DEF AllNodes
<1> QED BY <1>1, <1>2, <1>3, FilterIs

\* The frames a render takes from each node lie in the clip.
LEMMA RangeOfFrame ==
  ASSUME ValidParameters(filter.p), NEW f \in Frames
  PROVE  LET range == RequiredFrames(f)
         IN  /\ range.first \in Nat /\ range.last \in Int
             /\ range.first <= range.last + 1 /\ range.last < filter.p.frames
<1>1. f \in Int /\ 0 <= f /\ f < filter.p.frames
  BY DEF Frames, ValidParameters
<1>2. CASE f > filter.p.frames - filter.p.pt
  BY <1>1, <1>2 DEF RequiredFrames, ValidParameters
<1>3. CASE f <= filter.p.frames - filter.p.pt
  <2> DEFINE p == filter.p
  <2>1. RequiredFrames(f) = AnchorSourceRange(p, f)
    BY <1>1, <1>3 DEF RequiredFrames, ValidParameters
  <2>2. /\ SearchWindow(p, f).low \in Nat /\ SearchWindow(p, f).high \in Int
        /\ SearchWindow(p, f).low <= SearchWindow(p, f).high
        /\ SearchWindow(p, f).high <= p.frames - p.pt
    BY <1>1, <1>3 DEF SearchWindow, Shift, ValidAnchorFrames, Least, Greatest, ValidParameters
  <2> QED BY <2>1, <2>2 DEF AnchorSourceRange, ValidParameters
<1> QED BY <1>1, <1>2, <1>3 DEF ValidParameters

\* Where a place of the input order falls, for the 1 to 4 nodes there are.
LEMMA Places ==
  ASSUME NEW n \in 1..4, NEW k \in Nat
  PROVE  /\ k % n \in 0..(n - 1) /\ k \div n \in Nat
         /\ \A rows \in Nat : k < n * rows => k \div n < rows
<1>1. CASE n = 1 BY <1>1
<1>2. CASE n = 2 BY <1>2
<1>3. CASE n = 3 BY <1>3
<1>4. CASE n = 4 BY <1>4
<1> QED BY <1>1, <1>2, <1>3, <1>4

\* Where the output frame is among the frames taken.
OutPlace == IF filter.kind = "Aggregate" THEN 2 ELSE 1

\* A render takes at least its output frame.
LEMMA CountIs ==
  ASSUME scenario \in DOMAIN Scenarios, ValidParameters(filter.p), NEW f \in Frames
  PROVE  TakenCount(f) \in Nat /\ OutPlace <= TakenCount(f)
<1>1. CASE filter.kind = "Aggregate"
  <2>1. f \in Int /\ 0 <= f /\ f < filter.p.frames
    BY DEF Frames, ValidParameters
  <2> QED BY <1>1, <2>1 DEF TakenCount, OutPlace, AggregateLastAnchor, AggregateFirstAnchor, Least,
             Greatest, ValidParameters
<1>2. CASE filter.kind # "Aggregate"
  <2> DEFINE n == Len(NodeOrder)
             rows == RequiredFrames(f).last - RequiredFrames(f).first + 1
  <2>1. n \in Nat /\ rows \in Nat
    BY NodeOrderIs, RangeOfFrame
  <2>2. n * rows \in Nat
    BY <2>1
  <2>3. TakenCount(f) = 1 + n * rows
    BY <1>2 DEF TakenCount
  <2> QED BY <1>2, <2>2, <2>3 DEF OutPlace
<1> QED BY <1>1, <1>2

\* Every frame a render takes was requested, but for its output frame.
LEMMA ItemIs ==
  ASSUME scenario \in DOMAIN Scenarios, ValidParameters(filter.p),
         NEW f \in Frames, NEW i \in 1..TakenCount(f)
  PROVE  /\ i = OutPlace => TakenFrame(f, i) = Out
         /\ i # OutPlace => /\ TakenFrame(f, i) \in RequestedFrames(f)
                            /\ TakenFrame(f, i)[1] \in AllNodes
                            /\ TakenFrame(f, i)[2] \in Int
                            /\ TakenFrame(f, i) # Out
<1>0. TakenCount(f) \in Nat /\ i \in Nat /\ 1 <= i /\ i <= TakenCount(f)
  BY CountIs
<1>1. CASE filter.kind = "Aggregate"
  <2>1. i = 1 \/ i = 2 \/ i \in 3..TakenCount(f)
    BY <1>0
  <2>2. CASE i = 1
    <3>1. TakenFrame(f, i) = <<"src", f>>
      BY <1>1, <2>2 DEF TakenFrame
    <3> QED BY <1>1, <2>2, <3>1 DEF RequestedFrames, OutPlace, AllNodes, Out, Frames
  <2>3. CASE i = 2
    BY <1>1, <2>3 DEF TakenFrame, OutPlace
  <2>4. CASE i \in 3..TakenCount(f)
    <3> DEFINE a == AggregateFirstAnchor(filter.p, f) + i - 3
    <3>1. TakenFrame(f, i) = <<"clip", a>>
      BY <1>1, <2>4 DEF TakenFrame
    <3>2. a \in AggregateFirstAnchor(filter.p, f)..AggregateLastAnchor(filter.p, f)
      <4>1. f \in Int /\ 0 <= f /\ f < filter.p.frames
        BY DEF Frames, ValidParameters
      <4> QED BY <1>1, <2>4, <4>1 DEF TakenCount, AggregateLastAnchor, AggregateFirstAnchor,
                 Least, Greatest, ValidParameters
    <3>3. <<"clip", a>> \in RequestedFrames(f)
      BY <1>1, <3>2 DEF RequestedFrames
    <3> QED BY <1>1, <2>4, <3>1, <3>2, <3>3 DEF OutPlace, AllNodes, Out
  <2> QED BY <2>1, <2>2, <2>3, <2>4
<1>2. CASE filter.kind # "Aggregate"
  <2> DEFINE n == Len(NodeOrder)
             range == RequiredFrames(f)
             rows == range.last - range.first + 1
             k == i - 2
  <2>1. CASE i = 1
    BY <1>2, <2>1 DEF TakenFrame, OutPlace
  <2>2. CASE i # 1
    <3>1. n \in 1..4 /\ rows \in Nat /\ range.first \in Nat /\ range.last \in Int
      BY NodeOrderIs, RangeOfFrame
    <3>2. n * rows \in Nat /\ TakenCount(f) = 1 + n * rows
      BY <1>2, <3>1 DEF TakenCount
    <3>3. k \in Nat /\ k < n * rows
      BY <1>0, <2>2, <3>2
    <3> HIDE DEF n, rows
    <3>4. k % n \in 0..(n - 1) /\ k \div n \in Nat /\ k \div n < rows
      BY <3>1, <3>3, Places
    <3>5. TakenFrame(f, i) = <<NodeOrder[(k % n) + 1], range.first + (k \div n)>>
      BY <1>2, <2>2 DEF TakenFrame, n
    <3>6. (k % n) + 1 \in 1..n
      BY <3>1, <3>4
    <3>7. range.first + (k \div n) \in range.first..range.last
      BY <3>1, <3>4 DEF rows
    <3>8. NodeOrder[(k % n) + 1] \in AllNodes
          /\ NodeOrder[(k % n) + 1] \in {"clip"} \cup (IF filter.kind = "Final" THEN {"ref"} ELSE {})
                                   \cup filter.motion
      BY <1>2, <3>6, NodeOrderIs DEF n
    <3>9. TakenFrame(f, i) \in RequestedFrames(f)
      BY <1>2, <3>5, <3>7, <3>8 DEF RequestedFrames
    <3>10. i # OutPlace
      BY <1>2, <2>2 DEF OutPlace
    <3>11. TakenFrame(f, i)[1] = NodeOrder[(k % n) + 1]
           /\ TakenFrame(f, i)[2] = range.first + (k \div n)
      BY <3>5
    <3>12. range.first + (k \div n) \in Int
      BY <3>1, <3>4
    <3>13. Out[1] \notin AllNodes
      BY DEF AllNodes, Out
    <3> QED BY <3>8, <3>9, <3>10, <3>11, <3>12, <3>13
  <2> QED BY <2>1, <2>2
<1> QED BY <1>1, <1>2

-----------------------------------------------------------------------------
(* What the filter is made of does not change. *)

LEMMA SameFilter ==
  ASSUME scenario' = scenario
  PROVE  /\ filter' = filter /\ Threads' = Threads /\ Frames' = Frames
         /\ NodeOrder' = NodeOrder /\ EmptyData' = EmptyData /\ OutPlace' = OutPlace
         /\ \A f : /\ RequestedFrames(f)' = RequestedFrames(f)
                   /\ Asked(f)' = Asked(f)
                   /\ TakenCount(f)' = TakenCount(f)
                   /\ \A i : TakenFrame(f, i)' = TakenFrame(f, i)
<1>1. filter' = filter
  BY DEF filter, Filters
<1>2. Threads' = Threads /\ Frames' = Frames /\ Motion' = Motion /\ EmptyData' = EmptyData
      /\ OutPlace' = OutPlace
  BY <1>1 DEF Threads, Frames, Motion, Given, EmptyData, OutPlace, AllNodes
<1>3. NodeOrder' = NodeOrder
  BY <1>1, <1>2 DEF NodeOrder
<1>4. ASSUME NEW f
      PROVE  /\ RequiredFrames(f)' = RequiredFrames(f)
             /\ AggregateFirstAnchor(filter.p, f)' = AggregateFirstAnchor(filter.p, f)
             /\ AggregateLastAnchor(filter.p, f)' = AggregateLastAnchor(filter.p, f)
  BY <1>1 DEF RequiredFrames, AnchorSourceRange, SearchWindow, Shift, ValidAnchorFrames, Least, Greatest,
              AggregateFirstAnchor, AggregateLastAnchor
<1>5. ASSUME NEW f
      PROVE  RequestedFrames(f)' = RequestedFrames(f)
  BY <1>1, <1>4 DEF RequestedFrames
<1>6. ASSUME NEW f
      PROVE  TakenCount(f)' = TakenCount(f)
  BY <1>1, <1>3, <1>4 DEF TakenCount
<1>7. ASSUME NEW f, NEW i
      PROVE  TakenFrame(f, i)' = TakenFrame(f, i)
  BY <1>1, <1>3, <1>4 DEF TakenFrame, Out
<1>8. ASSUME NEW f
      PROVE  Asked(f)' = Asked(f)
  BY <1>5 DEF Asked
<1> QED BY <1>1, <1>2, <1>3, <1>5, <1>6, <1>7, <1>8

\* A step of other threads leaves what a render has taken.
LEMMA TakenFromStays ==
  ASSUME scenario' = scenario, NEW t, NEW n, render'[t] = render[t]
  PROVE  TakenFrom(t, n)' = TakenFrom(t, n)
  BY SameFilter DEF TakenFrom, Rendering, Idle

-----------------------------------------------------------------------------
(* Pairs of a thread and a place. *)

Pairs(T, g) == UNION {{t} \X g[t] : t \in T}

\* The pairs, one by one.
LEMMA InPairs ==
  ASSUME NEW T, NEW g
  PROVE  \A e : e \in Pairs(T, g) <=> \E t \in T : \E i \in g[t] : e = <<t, i>>
  BY DEF Pairs

\* Finitely many places of finitely many threads.
LEMMA PairsFinite ==
  ASSUME NEW T, IsFiniteSet(T), NEW g, \A t \in T : IsFiniteSet(g[t])
  PROVE  IsFiniteSet(Pairs(T, g)) /\ Cardinality(Pairs(T, g)) \in Nat
<1> DEFINE S == {{t} \X g[t] : t \in T}
<1>1. IsFiniteSet(S)
  <2> DEFINE f == [t \in T |-> {t} \X g[t]]
  <2>1. S = {f[t] : t \in T}
    OBVIOUS
  <2>2. f \in [T -> S]
    OBVIOUS
  <2>3. f \in Surjection(T, S)
    BY <2>2 DEF Surjection
  <2> QED BY <2>3, FS_Surjection
<1>2. \A x \in S : IsFiniteSet(x)
  <2> SUFFICES ASSUME NEW t \in T PROVE IsFiniteSet({t} \X g[t])
    OBVIOUS
  <2> QED BY FS_Singleton, FS_Product
<1>3. IsFiniteSet(UNION S)
  BY <1>1, <1>2, FS_UNION
<1> QED BY <1>3, FS_CardinalityType DEF Pairs

\* One place more.
LEMMA PairsGrow ==
  ASSUME NEW T, IsFiniteSet(T), NEW g, NEW h, \A u \in T : IsFiniteSet(g[u]),
         NEW t \in T, NEW i, i \notin g[t], h[t] = g[t] \cup {i}, \A u \in T \ {t} : h[u] = g[u]
  PROVE  Cardinality(Pairs(T, h)) = Cardinality(Pairs(T, g)) + 1
<1>1. <<t, i>> \notin Pairs(T, g)
  BY InPairs
<1>2. \A e : e \in Pairs(T, h) <=> e \in Pairs(T, g) \/ e = <<t, i>>
  <2>1. \A e : e \in Pairs(T, g) => e \in Pairs(T, h)
    BY InPairs
  <2>2. <<t, i>> \in Pairs(T, h)
    BY InPairs
  <2>3. ASSUME NEW e \in Pairs(T, h), e # <<t, i>>
        PROVE  e \in Pairs(T, g)
    <3>1. PICK u \in T : \E k \in h[u] : e = <<u, k>>
      BY InPairs
    <3>2. \E k \in g[u] : e = <<u, k>>
      BY <2>3, <3>1
    <3> QED BY <3>1, <3>2, InPairs
  <2> QED BY <2>1, <2>2, <2>3
<1>3. Pairs(T, h) = Pairs(T, g) \cup {<<t, i>>}
  BY <1>2
<1> QED BY <1>1, <1>3, PairsFinite, FS_AddElement

\* All places of one thread fewer.
LEMMA PairsEnd ==
  ASSUME NEW T, IsFiniteSet(T), NEW g, NEW h, \A u \in T : IsFiniteSet(g[u]),
         NEW t \in T, h[t] = {}, \A u \in T \ {t} : h[u] = g[u]
  PROVE  Cardinality(Pairs(T, h)) = Cardinality(Pairs(T, g)) - Cardinality(g[t])
<1> DEFINE own == {t} \X g[t]
<1>1. IsFiniteSet(own) /\ Cardinality(own) = Cardinality(g[t])
  <2>1. IsFiniteSet({t}) /\ Cardinality({t}) = 1
    BY FS_Singleton
  <2>2. Cardinality(g[t]) \in Nat
    BY FS_CardinalityType
  <2>3. IsFiniteSet(own) /\ Cardinality(own) = Cardinality({t}) * Cardinality(g[t])
    BY <2>1, FS_Product
  <2> HIDE DEF own
  <2> QED BY <2>1, <2>2, <2>3
<1>2. own \subseteq Pairs(T, g)
  BY DEF Pairs
<1>3. \A e : e \in Pairs(T, h) <=> e \in Pairs(T, g) /\ e \notin own
  <2>1. ASSUME NEW e \in Pairs(T, h)
        PROVE  e \in Pairs(T, g) /\ e \notin own
    <3>1. PICK u \in T : \E k \in h[u] : e = <<u, k>>
      BY <2>1, InPairs
    <3>2. u # t /\ g[u] = h[u]
      BY <3>1
    <3> QED BY <3>1, <3>2, InPairs
  <2>2. ASSUME NEW e \in Pairs(T, g), e \notin own
        PROVE  e \in Pairs(T, h)
    <3>1. PICK u \in T : \E k \in g[u] : e = <<u, k>>
      BY <2>2, InPairs
    <3>2. u # t
      BY <2>2, <3>1
    <3> QED BY <3>1, <3>2, InPairs
  <2> QED BY <2>1, <2>2
<1>4. Pairs(T, h) = Pairs(T, g) \ own
  BY <1>3
<1>5. Pairs(T, g) \cap own = own
  BY <1>2
<1> HIDE DEF own
<1>6. IsFiniteSet(Pairs(T, g))
  BY PairsFinite
<1>7. Cardinality(Pairs(T, g) \ own) = Cardinality(Pairs(T, g)) - Cardinality(Pairs(T, g) \cap own)
  BY <1>6, FS_Difference
<1> QED BY <1>1, <1>4, <1>5, <1>7

\* References held to a node, before and after a step.
LEMMA HoldersArePairs ==
  ASSUME NEW n
  PROVE  /\ Holders(n) = Pairs(Threads, [t \in Threads |-> TakenFrom(t, n)])
         /\ Holders(n)' = Pairs(Threads', [t \in Threads' |-> TakenFrom(t, n)'])
<1>1. Holders(n) = Pairs(Threads, [t \in Threads |-> TakenFrom(t, n)])
  BY DEF Holders, Pairs
<1>2. Holders(n)' = Pairs(Threads', [t \in Threads' |-> TakenFrom(t, n)'])
  BY DEF Holders, Pairs
<1> QED BY <1>1, <1>2

\* A core has finitely many threads.
LEMMA ThreadsFinite ==
  ASSUME scenario \in DOMAIN Scenarios
  PROVE  IsFiniteSet(Threads)
  BY FilterIs, FS_Interval DEF Threads

\* What a render has taken from a node is finite.
LEMMA TakenFromIs ==
  ASSUME Flights, NEW t \in Threads, NEW n
  PROVE  /\ IsFiniteSet(TakenFrom(t, n)) /\ Cardinality(TakenFrom(t, n)) \in Nat
         /\ ~Rendering(t) => TakenFrom(t, n) = {}
         /\ Rendering(t) => TakenFrom(t, n) \subseteq 1..render[t].taken
<1>1. CASE ~Rendering(t)
  <2>1. TakenFrom(t, n) = {}
    BY <1>1 DEF TakenFrom
  <2> QED BY <1>1, <2>1, FS_EmptySet
<1>2. CASE Rendering(t)
  <2>1. render[t].taken \in Nat
    BY <1>2 DEF Flights, Rendering
  <2>2. TakenFrom(t, n) \subseteq 1..render[t].taken
    BY <1>2 DEF TakenFrom
  <2>3. IsFiniteSet(1..render[t].taken)
    BY <2>1, FS_Interval
  <2>4. IsFiniteSet(TakenFrom(t, n))
    BY <2>2, <2>3, FS_Subset
  <2> QED BY <1>2, <2>2, <2>4, FS_CardinalityType
<1> QED BY <1>1, <1>2

\* What a step of the renders does to the references held to one node.
LEMMA HoldersChange ==
  ASSUME Flights, scenario \in DOMAIN Scenarios, scenario' = scenario,
         NEW t \in Threads, \A u \in Threads \ {t} : render'[u] = render[u], NEW n
  PROVE  /\ Cardinality(Holders(n)) \in Nat
         /\ TakenFrom(t, n)' = TakenFrom(t, n) => Holders(n)' = Holders(n)
         /\ \A i : i \notin TakenFrom(t, n) /\ TakenFrom(t, n)' = TakenFrom(t, n) \cup {i}
               => Cardinality(Holders(n)') = Cardinality(Holders(n)) + 1
         /\ TakenFrom(t, n)' = {}
               => Cardinality(Holders(n)') = Cardinality(Holders(n)) - Cardinality(TakenFrom(t, n))
<1> DEFINE g == [u \in Threads |-> TakenFrom(u, n)]
           h == [u \in Threads |-> TakenFrom(u, n)']
<1>1. Holders(n) = Pairs(Threads, g) /\ Holders(n)' = Pairs(Threads, h)
  BY HoldersArePairs, SameFilter
<1>2. IsFiniteSet(Threads) /\ \A u \in Threads : IsFiniteSet(g[u])
  BY ThreadsFinite, TakenFromIs
<1>3. \A u \in Threads \ {t} : h[u] = g[u]
  BY TakenFromStays
<1>4. g[t] = TakenFrom(t, n) /\ h[t] = TakenFrom(t, n)'
      /\ g = [u \in Threads |-> g[u]] /\ h = [u \in Threads |-> h[u]]
  OBVIOUS
<1> HIDE DEF g, h
<1>5. Cardinality(Holders(n)) \in Nat
  BY <1>1, <1>2, PairsFinite
<1>6. ASSUME TakenFrom(t, n)' = TakenFrom(t, n)
      PROVE  Holders(n)' = Holders(n)
  <2>1. h = g
    BY <1>3, <1>4, <1>6
  <2> QED BY <1>1, <2>1
<1>7. ASSUME NEW i, i \notin TakenFrom(t, n), TakenFrom(t, n)' = TakenFrom(t, n) \cup {i}
      PROVE  Cardinality(Holders(n)') = Cardinality(Holders(n)) + 1
  BY <1>1, <1>2, <1>3, <1>4, <1>7, PairsGrow
<1>8. ASSUME TakenFrom(t, n)' = {}
      PROVE  Cardinality(Holders(n)') = Cardinality(Holders(n)) - Cardinality(TakenFrom(t, n))
  BY <1>1, <1>2, <1>3, <1>4, <1>8, PairsEnd
<1> QED BY <1>5, <1>6, <1>7, <1>8

\* A render has its output frame or not, and has it when it is done taking.
LEMMA OutTaken ==
  ASSUME StageInv, NEW t \in Threads, Rendering(t)
  PROVE  /\ render[t].frame \in Frames /\ render[t].taken \in Nat
         /\ render[t].taken <= TakenCount(render[t].frame) /\ TakenCount(render[t].frame) \in Nat
         /\ ValidParameters(filter.p)
         /\ TakenFrom(t, "out") = IF OutPlace <= render[t].taken THEN {OutPlace} ELSE {}
         /\ Cardinality(TakenFrom(t, "out")) = IF HasOutput(t) THEN 1 ELSE 0
         /\ Done(t) => HasOutput(t)
<1> DEFINE f == render[t].frame
<1>1. f \in Frames /\ render[t].taken \in Nat /\ render[t].taken <= TakenCount(f)
      /\ context[f].open
  <2>1. render[t] \in [frame : Frames, taken : Nat, built : Nat]
    BY DEF StageInv, Flights, Rendering
  <2>2. context[f] = Asked(f) /\ render[t].taken <= TakenCount(f)
    BY DEF StageInv, Flights
  <2>3. Asked(f).open
    BY DEF Asked
  <2> QED BY <2>1, <2>2, <2>3
<1>2. scenario \in DOMAIN Scenarios /\ ValidParameters(filter.p)
  BY <1>1 DEF StageInv, Flights, Ownership
<1>3. TakenCount(f) \in Nat /\ OutPlace <= TakenCount(f) /\ OutPlace \in 1..2
  BY <1>1, <1>2, CountIs DEF OutPlace
<1>4. \A i \in 1..render[t].taken : TakenFrame(f, i)[1] = "out" <=> i = OutPlace
  <2> SUFFICES ASSUME NEW i \in 1..render[t].taken
               PROVE  TakenFrame(f, i)[1] = "out" <=> i = OutPlace
    OBVIOUS
  <2>1. i \in 1..TakenCount(f)
    BY <1>1, <1>3
  <2>2. Out[1] = "out" /\ "out" \notin AllNodes
    BY DEF Out, AllNodes
  <2> QED BY <1>1, <1>2, <2>1, <2>2, ItemIs
<1>5. TakenFrom(t, "out") = IF OutPlace <= render[t].taken THEN {OutPlace} ELSE {}
  BY <1>1, <1>3, <1>4 DEF TakenFrom
<1>6. HasOutput(t) <=> OutPlace <= render[t].taken
  BY <1>1, <1>3 DEF HasOutput, OutPlace
<1>7. Done(t) => HasOutput(t)
  BY <1>3, <1>6 DEF Done
<1>8. Cardinality(TakenFrom(t, "out")) = IF HasOutput(t) THEN 1 ELSE 0
  BY <1>5, <1>6, FS_EmptySet, FS_Singleton
<1> QED BY <1>1, <1>2, <1>3, <1>5, <1>7, <1>8

-----------------------------------------------------------------------------
\* The lists a render begins with.
LEMMA EmptyLists ==
  /\ DOMAIN EmptyData = {"lists", "cache", "grids"}
  /\ EmptyData.lists \in [AllNodes -> Seq(Int)]
  /\ \A n \in AllNodes : EmptyData.lists[n] = <<>> /\ Len(EmptyData.lists[n]) = 0
  BY EmptySeq DEF EmptyData

\* A filter that is being created satisfies the invariant.
LEMMA InitInv == StageInit => StageInv
<1> SUFFICES ASSUME StageInit PROVE StageInv
  OBVIOUS
<1>1. Ownership
  <2>1. Len(NodeOrder) \in 1..4
    BY NodeOrderIs DEF StageInit
  <2> QED BY <2>1, FS_EmptySet DEF StageInit, Ownership, Phases
<1>2. Flights
  BY DEF StageInit, Flights, Closed, Rendering
<1>3. \A t \in Threads : \A n : TakenFrom(t, n) = {}
  BY <1>2, TakenFromIs DEF StageInit, Rendering
<1>4. Lists
  BY <1>3, FS_EmptySet, EmptyLists DEF StageInit, Lists
<1>5. \A n : Holders(n) = {}
  BY <1>3 DEF Holders
<1>6. Counts
  BY <1>5, FS_EmptySet DEF StageInit, Counts
<1> QED BY <1>1, <1>2, <1>4, <1>6 DEF StageInit, StageInv

\* Before it is live and after its end a filter has no frame in flight.
LEMMA NothingInFlight ==
  ASSUME Flights, instance.phase # "live"
  PROVE  \A f \in Frames : context[f] = Closed
  BY DEF Flights, Asked

\* A step of the instance while nothing is in flight.
LEMMA IdleStep ==
  ASSUME StageInv, scenario' = scenario, context' = context, render' = render,
         references' = references, outputs' = outputs,
         data' = data \/ (data' = [t \in Threads |-> EmptyData] /\ \A t \in Threads : render[t] = Idle),
         \A f \in Frames : ~context[f].open
  PROVE  Flights' /\ Lists' /\ Counts'
<1>1. Flights'
  BY SameFilter DEF StageInv, Flights, Rendering, Idle, Closed
<1>2. \A t, n : TakenFrom(t, n)' = TakenFrom(t, n)
  BY TakenFromStays
<1>3. Lists'
  <2>1. CASE data' = data
    BY <1>2, <2>1, SameFilter DEF StageInv, Lists, AllNodes
  <2>2. CASE data' = [t \in Threads |-> EmptyData] /\ \A t \in Threads : render[t] = Idle
    <3>1. \A t \in Threads : \A n : TakenFrom(t, n)' = {}
      BY <1>2, <2>2, TakenFromIs DEF StageInv, Rendering
    <3>2. AllNodes' = AllNodes
      BY DEF AllNodes
    <3> QED BY <2>2, <3>1, <3>2, SameFilter, EmptyLists, FS_EmptySet DEF Lists
  <2> QED BY <2>1, <2>2
<1>4. \A n : Holders(n)' = Holders(n)
  BY <1>2, SameFilter DEF Holders
<1>5. Counts'
  BY <1>4 DEF StageInv, Counts, AllNodes
<1> QED BY <1>1, <1>3, <1>5

-----------------------------------------------------------------------------
(* Creation and end. *)

\* Freeing the nodes owned leaves no reference.
LEMMA FreedNodesAreNone ==
  ASSUME Ownership
  PROVE  FreedNodes(instance.owned) = [n \in AllNodes |-> 0]
  BY DEF Ownership, FreedNodes

\* Once created, a filter keeps its nodes.
LEMMA OwnershipStays ==
  ASSUME StageInv, scenario' = scenario, instance' = instance, nodes' = nodes
  PROVE  Ownership'
  BY SameFilter DEF StageInv, Ownership, Phases, AllNodes, ValidParameters

\* Reading one argument.
LEMMA TakeNodeKeeps == StageInv /\ TakeNode => StageInv'
<1> SUFFICES ASSUME StageInv, TakeNode PROVE StageInv'
  OBVIOUS
<1> DEFINE c == Cardinality(instance.owned)
           node == NodeOrder[c + 1]
<1>1. instance.phase = "creating" /\ scenario' = scenario /\ c < Len(NodeOrder)
  BY DEF TakeNode, inputVars
<1>2. Flights' /\ Lists' /\ Counts'
  <2>1. \A f \in Frames : ~context[f].open
    BY <1>1, NothingInFlight DEF StageInv, Closed
  <2> QED BY <1>1, <2>1, IdleStep DEF TakeNode, inputVars
<1>3. /\ c \in Nat /\ c + 1 \in 1..Len(NodeOrder) /\ instance.owned = {NodeOrder[i] : i \in 1..c}
      /\ instance \in [phase : Phases, owned : SUBSET AllNodes]
  BY <1>1 DEF StageInv, Ownership
<1>4. node \in AllNodes /\ node \notin instance.owned
  BY <1>3, NodeOrderIs DEF StageInv
<1>5. Cardinality(instance.owned \cup {node}) = c + 1
  <2>1. IsFiniteSet(instance.owned)
    <3> DEFINE order == [i \in 1..c |-> NodeOrder[i]]
    <3>1. order \in Surjection(1..c, instance.owned)
      BY <1>3 DEF Surjection
    <3>2. IsFiniteSet(1..c)
      BY <1>3, FS_Interval
    <3> QED BY <3>1, <3>2, FS_Surjection
  <2> QED BY <1>4, <2>1, FS_AddElement
<1>6. instance.owned \cup {node} = {NodeOrder[i] : i \in 1..(c + 1)}
  BY <1>3
<1>7. instance' = [phase |-> "creating", owned |-> instance.owned \cup {node}]
      /\ nodes' = [nodes EXCEPT ![node] = @ + 1]
  BY <1>1, <1>3 DEF TakeNode
<1>8. Ownership'
  <2>1. nodes' = [n \in AllNodes |-> IF n \in instance'.owned THEN 1 ELSE 0]
    BY <1>3, <1>4, <1>7 DEF StageInv, Ownership
  <2>2. NodeOrder' = NodeOrder /\ AllNodes' = AllNodes
    BY <1>1, SameFilter DEF AllNodes
  <2>3. instance'.phase = "creating" /\ instance'.owned = instance.owned \cup {node}
        /\ instance' \in [phase : Phases, owned : SUBSET AllNodes]
    BY <1>3, <1>4, <1>7 DEF Phases
  <2>4. /\ Cardinality(instance'.owned) = c + 1
        /\ instance'.owned = {NodeOrder'[i] : i \in 1..Cardinality(instance'.owned)}
        /\ Cardinality(instance'.owned) \in 0..Len(NodeOrder')
    <3>1. Cardinality(instance'.owned) = c + 1
      BY <1>5, <2>3
    <3>2. instance'.owned = {NodeOrder'[i] : i \in 1..(c + 1)}
      BY <1>6, <2>2, <2>3
    <3>3. c + 1 \in 0..Len(NodeOrder')
      BY <1>3, <2>2
    <3> HIDE DEF c, node
    <3> QED BY <3>1, <3>2, <3>3
  <2> HIDE DEF node, c
  <2> QED BY <2>1, <2>2, <2>3, <2>4 DEF Ownership, Phases
<1> QED BY <1>1, <1>2, <1>8 DEF StageInv

\* Refusing an argument.
LEMMA RefuseKeeps == StageInv /\ RefuseCreation => StageInv'
<1> SUFFICES ASSUME StageInv, RefuseCreation PROVE StageInv'
  OBVIOUS
<1>1. instance.phase = "creating" /\ scenario' = scenario
  BY DEF RefuseCreation, inputVars
<1>2. \A f \in Frames : ~context[f].open
  BY <1>1, NothingInFlight DEF StageInv, Closed
<1>3. Flights' /\ Lists' /\ Counts'
  BY <1>1, <1>2, IdleStep DEF RefuseCreation, inputVars
<1>4. Ownership'
  BY FreedNodesAreNone DEF StageInv, RefuseCreation, Ownership, Phases, AllNodes
<1> QED BY <1>1, <1>3, <1>4 DEF StageInv

\* The creation succeeds.
LEMMA CreateKeeps == StageInv /\ CreateFilter => StageInv'
<1> SUFFICES ASSUME StageInv, CreateFilter PROVE StageInv'
  OBVIOUS
<1>1. instance.phase = "creating" /\ scenario' = scenario
  BY DEF CreateFilter, inputVars
<1>2. \A f \in Frames : ~context[f].open
  BY <1>1, NothingInFlight DEF StageInv, Closed
<1>3. Flights' /\ Lists' /\ Counts'
  BY <1>1, <1>2, IdleStep DEF CreateFilter, inputVars
<1>4. Ownership'
  <2>1. instance' = [phase |-> "live", owned |-> instance.owned] /\ nodes' = nodes
    BY DEF StageInv, Ownership, CreateFilter
  <2>2. ValidParameters(filter.p)' <=> ValidParameters(filter.p)
    BY <1>1, SameFilter DEF ValidParameters
  <2>3. Cardinality(instance.owned) = Len(NodeOrder) /\ ValidParameters(filter.p)
    BY DEF CreateFilter
  <2> QED BY <1>1, <2>1, <2>2, <2>3, SameFilter DEF StageInv, Ownership, Phases, AllNodes
<1> QED BY <1>1, <1>3, <1>4 DEF StageInv

\* The end of a filter.
LEMMA FreeKeeps == StageInv /\ FreeFilter => StageInv'
<1> SUFFICES ASSUME StageInv, FreeFilter PROVE StageInv'
  OBVIOUS
<1>1. scenario' = scenario
  BY DEF FreeFilter
<1>2. Flights' /\ Lists' /\ Counts'
  BY <1>1, IdleStep DEF FreeFilter
<1>3. Ownership'
  BY FreedNodesAreNone DEF StageInv, FreeFilter, Ownership, Phases, AllNodes
<1> QED BY <1>1, <1>2, <1>3 DEF StageInv

-----------------------------------------------------------------------------
(* Requests and renders. *)

\* A step that neither begins, advances nor ends a render.
LEMMA RequestStep ==
  ASSUME StageInv, UNCHANGED <<scenario, instance, nodes, references, outputs, render, data>>,
         NEW f \in Frames, NEW value \in {Closed, Asked(f)},
         context' = [context EXCEPT ![f] = value],
         \A t \in Threads : Rendering(t) => render[t].frame # f,
         instance.phase = "live"
  PROVE  StageInv'
<1>1. Ownership'
  BY OwnershipStays
<1>2. Flights'
  <2>1. DOMAIN context' = Frames /\ \A e \in Frames : context'[e] \in {Closed, Asked(e)}
    BY DEF StageInv, Flights
  <2>2. \A t \in Threads : Rendering(t) => context'[render[t].frame] = Asked(render[t].frame)
    BY OutTaken DEF StageInv, Flights
  <2> QED BY <2>1, <2>2, SameFilter DEF StageInv, Flights, Rendering, Idle, Closed
<1>3. \A t, n : TakenFrom(t, n)' = TakenFrom(t, n)
  BY TakenFromStays
<1>4. Lists'
  BY <1>3, SameFilter DEF StageInv, Lists, AllNodes
<1>5. \A n : Holders(n)' = Holders(n)
  BY <1>3, SameFilter DEF Holders
<1>6. Counts'
  BY <1>5 DEF StageInv, Counts, AllNodes
<1> QED BY <1>1, <1>2, <1>4, <1>6 DEF StageInv

\* A frame is requested, or its inputs fail.
LEMMA RequestKeeps ==
  ASSUME StageInv, NEW f \in Frames, RequestFrames(f) \/ InputFailed(f)
  PROVE  StageInv'
<1>1. CASE RequestFrames(f)
  <2>1. ASSUME NEW t \in Threads, Rendering(t) PROVE render[t].frame # f
    BY <1>1, <2>1 DEF StageInv, Flights, RequestFrames, Asked
  <2> QED BY <1>1, <2>1, RequestStep DEF RequestFrames, Asked
<1>2. CASE InputFailed(f)
  <2>1. context[f] = Asked(f)
    BY <1>2 DEF StageInv, Flights, InputFailed, Closed
  <2>2. instance.phase = "live"
    BY <2>1 DEF StageInv, Flights, Asked
  <2> QED BY <1>2, <2>2, RequestStep DEF InputFailed
<1> QED BY <1>1, <1>2

-----------------------------------------------------------------------------
\* A render begins.
LEMMA BeginKeeps ==
  ASSUME StageInv, NEW t \in Threads, NEW f \in Frames, Begin(t, f), ~Rendering(t),
         UNCHANGED <<scenario, instance, nodes, references, outputs>>,
         instance.phase = "live",
         DOMAIN context' = Frames, context'[f] = Asked(f),
         \A e \in Frames \ {f} : context'[e] = context[e],
         \A u \in Threads : Rendering(u) => render[u].frame # f
  PROVE  StageInv'
<1> DEFINE begun == [frame |-> f, taken |-> 0, built |-> 0]
<1>1. Ownership'
  BY OwnershipStays
<1>2. /\ DOMAIN render = Threads /\ render' = [render EXCEPT ![t] = begun]
      /\ render'[t] = begun /\ \A u \in Threads \ {t} : render'[u] = render[u]
  BY DEF StageInv, Flights, Begin
<1>3. begun # Idle /\ begun \in [frame : Frames, taken : Nat, built : Nat]
      /\ begun.frame = f /\ begun.taken = 0
  <2>1. f >= 0
    BY DEF Frames
  <2>2. begun.frame = f /\ begun.taken = 0
    OBVIOUS
  <2>3. Idle.frame = -1 /\ f # -1
    BY <2>1 DEF Idle
  <2>4. begun \in [frame : Frames, taken : Nat, built : Nat]
    OBVIOUS
  <2> HIDE DEF begun
  <2> QED BY <2>2, <2>3, <2>4
<1> HIDE DEF begun
<1>4. Rendering(t)' /\ \A u \in Threads \ {t} : Rendering(u)' <=> Rendering(u)
  BY <1>2, <1>3 DEF Rendering, Idle
<1>5. Flights'
  <2>1. DOMAIN context' = Frames /\ \A e \in Frames : context'[e] \in {Closed, Asked(e)}
    BY DEF StageInv, Flights
  <2>2. ValidParameters(filter.p) /\ TakenCount(f) \in Nat
    BY CountIs DEF StageInv, Ownership
  <2>3. \A u \in Threads \ {t} : Rendering(u) =>
           /\ context'[render[u].frame] = Asked(render[u].frame)
           /\ render[u].frame # f
           /\ render[u].taken <= TakenCount(render[u].frame)
           /\ \A v \in Threads \ {u} : Rendering(v) => render[v].frame # render[u].frame
    BY OutTaken DEF StageInv, Flights
  <2>4. context'[f] = Asked(f)
    BY DEF StageInv, Flights
  <2>5. render' \in [Threads -> {Idle} \cup [frame : Frames, taken : Nat, built : Nat]]
    BY <1>2, <1>3 DEF StageInv, Flights
  <2>6. ASSUME NEW u \in Threads, Rendering(u)'
        PROVE  /\ context'[render'[u].frame] = Asked(render'[u].frame)
               /\ render'[u].taken <= TakenCount(render'[u].frame)
               /\ \A v \in Threads \ {u} : Rendering(v)' => render'[v].frame # render'[u].frame
    <3>1. CASE u = t
      BY <1>2, <1>3, <1>4, <2>2, <2>3, <2>4, <3>1
    <3>2. CASE u # t
      BY <1>2, <1>3, <1>4, <2>3, <2>6, <3>2
    <3> QED BY <3>1, <3>2
  <2>7. Idle' = Idle /\ Closed' = Closed
    BY DEF Idle, Closed
  <2> QED BY <2>1, <2>5, <2>6, <2>7, SameFilter DEF Flights
<1>6. \A n : TakenFrom(t, n) = {} /\ TakenFrom(t, n)' = {}
  <2>1. \A n : TakenFrom(t, n) = {}
    BY TakenFromIs DEF StageInv
  <2>2. \A n : TakenFrom(t, n)' = {}
    BY <1>2, <1>3, <1>4 DEF TakenFrom
  <2> QED BY <2>1, <2>2
<1>7. Lists'
  <2>1. \A u \in Threads : \A n : u # t => TakenFrom(u, n)' = TakenFrom(u, n)
    BY <1>2, TakenFromStays
  <2>2. data' = [data EXCEPT ![t].lists = EmptyData.lists] /\ DOMAIN data = Threads
    BY DEF Begin, DataOf, StageInv, Lists
  <2>3. /\ data'[t].lists = EmptyData.lists
        /\ DOMAIN data'[t] = {"lists", "cache", "grids"}
        /\ \A u \in Threads \ {t} : data'[u] = data[u]
        /\ DOMAIN data' = Threads
    BY <2>2 DEF StageInv, Lists
  <2>4. Threads' = Threads /\ AllNodes' = AllNodes
    BY SameFilter DEF AllNodes
  <2>5. ASSUME NEW u \in Threads
        PROVE  /\ DOMAIN data'[u] = {"lists", "cache", "grids"}
               /\ data'[u].lists \in [AllNodes -> Seq(Int)]
               /\ \A n \in AllNodes : Len(data'[u].lists[n]) = Cardinality(TakenFrom(u, n)')
    <3>1. CASE u = t
      BY <1>6, <2>3, <3>1, EmptyLists, FS_EmptySet
    <3>2. CASE u # t
      BY <2>1, <2>3, <3>2 DEF StageInv, Lists
    <3> QED BY <3>1, <3>2
  <2> QED BY <2>3, <2>4, <2>5 DEF Lists
<1>8. \A n : Holders(n)' = Holders(n)
  BY <1>2, <1>6, HoldersChange DEF StageInv
<1>9. Counts'
  BY <1>8 DEF StageInv, Counts, AllNodes
<1> QED BY <1>1, <1>5, <1>7, <1>9 DEF StageInv

\* A render begins, with inputs or without.
LEMMA RenderKeeps ==
  ASSUME StageInv, NEW t \in Threads, NEW f \in Frames, RenderWithoutInput(t, f) \/ RenderFrame(t, f)
  PROVE  StageInv'
<1>1. CASE RenderWithoutInput(t, f)
  <2>1. ASSUME NEW u \in Threads, Rendering(u) PROVE render[u].frame # f
    <3>1. context[render[u].frame].open
      <4>1. context[render[u].frame] = Asked(render[u].frame)
        BY <2>1 DEF StageInv, Flights
      <4> QED BY <4>1 DEF Asked
    <3> QED BY <1>1, <3>1 DEF RenderWithoutInput
  <2>2. context' = [context EXCEPT ![f] = Asked(f)] /\ DOMAIN context = Frames
    BY <1>1 DEF RenderWithoutInput, Asked, StageInv, Flights
  <2>3. DOMAIN context' = Frames /\ context'[f] = Asked(f)
        /\ \A e \in Frames \ {f} : context'[e] = context[e]
    BY <2>2
  <2> QED BY <1>1, <2>1, <2>3, BeginKeeps DEF RenderWithoutInput
<1>2. CASE RenderFrame(t, f)
  <2>1. context[f] = Asked(f)
    BY <1>2 DEF StageInv, Flights, RenderFrame, Closed
  <2>2. instance.phase = "live"
    BY <2>1 DEF StageInv, Flights, Asked
  <2>3. DOMAIN context' = Frames /\ context' = context
    BY <1>2 DEF RenderFrame, StageInv, Flights
  <2> QED BY <1>2, <2>1, <2>2, <2>3, BeginKeeps DEF RenderFrame
<1> QED BY <1>1, <1>2

\* A render ends: by its delivery or by a failure, wherever it stands.
LEMMA LeaveKeeps ==
  ASSUME StageInv, NEW t \in Threads, Rendering(t), NEW own, NEW out,
         DOMAIN own = {"lists", "cache", "grids"}, own.lists = data[t].lists,
         out = IF HasOutput(t) THEN 1 ELSE 0,
         Leave(t, own, out)
  PROVE  StageInv'
<1>0. scenario' = scenario /\ instance' = instance /\ nodes' = nodes
  BY DEF Leave
<1>1. Ownership'
  BY <1>0, OwnershipStays
<1>2. /\ DOMAIN render = Threads /\ render' = [render EXCEPT ![t] = Idle]
      /\ render'[t] = Idle /\ \A u \in Threads \ {t} : render'[u] = render[u]
  BY DEF StageInv, Flights, Leave
<1>3. ~Rendering(t)' /\ \A u \in Threads \ {t} : Rendering(u)' <=> Rendering(u)
  BY <1>2 DEF Rendering, Idle
<1>4. Flights'
  <2>1. /\ DOMAIN context' = Frames
        /\ \A e \in Frames : context'[e] \in {Closed, Asked(e)}
        /\ \A e \in Frames : context'[e] # Closed => context'[e] = context[e]
    BY DEF StageInv, Flights, Leave
  <2>2. \A u \in Threads \ {t} : Rendering(u) =>
           /\ context'[render[u].frame] = Asked(render[u].frame)
           /\ render[u].taken <= TakenCount(render[u].frame)
           /\ \A v \in Threads \ {u} : Rendering(v) => render[v].frame # render[u].frame
    BY OutTaken DEF StageInv, Flights, Leave
  <2>3. render' \in [Threads -> {Idle} \cup [frame : Frames, taken : Nat, built : Nat]]
    BY <1>2 DEF StageInv, Flights
  <2>4. Idle' = Idle /\ Closed' = Closed /\ ~Closed.open
    BY DEF Idle, Closed
  <2>5. \A e \in Frames : context'[e].open => instance.phase = "live"
    BY <2>1, <2>4 DEF StageInv, Flights
  <2> QED BY <1>0, <1>2, <1>3, <2>1, <2>2, <2>3, <2>4, <2>5, SameFilter DEF Flights
<1>5. \A n : TakenFrom(t, n)' = {}
  BY <1>3 DEF TakenFrom
<1>6. Lists'
  <2>1. \A u \in Threads : \A n : u # t => TakenFrom(u, n)' = TakenFrom(u, n)
    BY <1>0, <1>2, TakenFromStays
  <2>2. data' = [data EXCEPT ![t] = [own EXCEPT !.lists = EmptyData.lists]] /\ DOMAIN data = Threads
    BY DEF Leave, DataOf, StageInv, Lists
  <2>3. /\ data'[t].lists = EmptyData.lists
        /\ DOMAIN data'[t] = {"lists", "cache", "grids"}
        /\ \A u \in Threads \ {t} : data'[u] = data[u]
        /\ DOMAIN data' = Threads
    BY <2>2
  <2>4. Threads' = Threads /\ AllNodes' = AllNodes
    BY <1>0, SameFilter DEF AllNodes
  <2>5. ASSUME NEW u \in Threads
        PROVE  /\ DOMAIN data'[u] = {"lists", "cache", "grids"}
               /\ data'[u].lists \in [AllNodes -> Seq(Int)]
               /\ \A n \in AllNodes : Len(data'[u].lists[n]) = Cardinality(TakenFrom(u, n)')
    <3>1. CASE u = t
      BY <1>5, <2>3, <3>1, EmptyLists, FS_EmptySet
    <3>2. CASE u # t
      BY <2>1, <2>3, <3>2 DEF StageInv, Lists
    <3> QED BY <3>1, <3>2
  <2> QED BY <2>3, <2>4, <2>5 DEF Lists
<1>7. \A n : Cardinality(Holders(n)') = Cardinality(Holders(n)) - Cardinality(TakenFrom(t, n))
  BY <1>0, <1>2, <1>5, HoldersChange DEF StageInv
<1>8. Counts'
  <2>1. \A n \in AllNodes : Len(own.lists[n]) = Cardinality(TakenFrom(t, n))
    BY DEF StageInv, Lists
  <2>2. out = Cardinality(TakenFrom(t, "out"))
    BY OutTaken
  <2>3. references' = [n \in AllNodes |-> references[n] - Len(own.lists[n])] /\ outputs' = outputs - out
    BY DEF Leave
  <2>4. references' = [n \in AllNodes |-> Cardinality(Holders(n)')]
    BY <1>7, <2>1, <2>3 DEF StageInv, Counts
  <2>5. outputs' = Cardinality(Holders("out")')
    BY <1>7, <2>2, <2>3 DEF StageInv, Counts
  <2> QED BY <2>4, <2>5 DEF Counts, AllNodes
<1> QED BY <1>0, <1>1, <1>4, <1>6, <1>8 DEF StageInv

\* A step of a render that goes on: the next frame or the next grids.
LEMMA AdvanceFlights ==
  ASSUME StageInv, NEW t \in Threads, Rendering(t), UNCHANGED <<scenario, instance, context>>,
         NEW now \in [frame : Frames, taken : Nat, built : Nat],
         now.frame = render[t].frame, now.taken <= TakenCount(render[t].frame),
         render' = [render EXCEPT ![t] = now]
  PROVE  /\ Flights' /\ Rendering(t)' /\ render'[t] = now
         /\ \A u \in Threads \ {t} : render'[u] = render[u]
<1>1. DOMAIN render = Threads /\ render'[t] = now /\ \A u \in Threads \ {t} : render'[u] = render[u]
  BY DEF StageInv, Flights
<1>3. now # Idle
  BY DEF Frames, Idle
<1>4. Rendering(t)' /\ \A u \in Threads \ {t} : Rendering(u)' <=> Rendering(u)
  BY <1>1, <1>3 DEF Rendering, Idle
<1>5. render' \in [Threads -> {Idle} \cup [frame : Frames, taken : Nat, built : Nat]]
  BY <1>1 DEF StageInv, Flights
<1>6. ASSUME NEW u \in Threads, Rendering(u)'
      PROVE  /\ context'[render'[u].frame] = Asked(render'[u].frame)
             /\ render'[u].taken <= TakenCount(render'[u].frame)
             /\ \A v \in Threads \ {u} : Rendering(v)' => render'[v].frame # render'[u].frame
  <2>1. Rendering(u) /\ render'[u].frame = render[u].frame
        /\ render'[u].taken <= TakenCount(render[u].frame)
    BY <1>1, <1>4, <1>6 DEF StageInv, Flights
  <2>2. /\ context[render[u].frame] = Asked(render[u].frame)
        /\ \A v \in Threads \ {u} : Rendering(v) => render[v].frame # render[u].frame
    BY <2>1 DEF StageInv, Flights
  <2>3. \A v \in Threads \ {u} : Rendering(v)' => Rendering(v) /\ render'[v].frame = render[v].frame
    BY <1>1, <1>4
  <2> QED BY <2>1, <2>2, <2>3
<1>7. Idle' = Idle /\ Closed' = Closed
  BY DEF Idle, Closed
<1>8. Flights'
  BY <1>5, <1>6, <1>7, SameFilter DEF StageInv, Flights
<1> QED BY <1>1, <1>4, <1>8

\* One frame handed over makes the list of its node one longer and leaves the others.
LEMMA AppendToOne ==
  ASSUME NEW S, NEW lists \in [S -> Seq(Int)], NEW s \in S, NEW value \in Int
  PROVE  /\ [lists EXCEPT ![s] = Append(@, value)] \in [S -> Seq(Int)]
         /\ \A n \in S : Len([lists EXCEPT ![s] = Append(@, value)][n])
                           = IF n = s THEN Len(lists[n]) + 1 ELSE Len(lists[n])
<1>1. lists[s] \in Seq(Int)
  OBVIOUS
<1>2. Append(lists[s], value) \in Seq(Int) /\ Len(Append(lists[s], value)) = Len(lists[s]) + 1
  BY <1>1
<1> QED BY <1>2

\* A frame is taken.
LEMMA TakeFrameKeeps ==
  ASSUME StageInv, NEW t \in Threads, TakeFrame(t)
  PROVE  StageInv'
<1> DEFINE f == render[t].frame
           i == render[t].taken + 1
           item == TakenFrame(f, i)
<1>1. Rendering(t) /\ ~Done(t) /\ UNCHANGED <<scenario, instance, nodes, context>>
  BY DEF TakeFrame
<1>2. /\ f \in Frames /\ render[t].taken \in Nat /\ i \in 1..TakenCount(f)
      /\ ValidParameters(filter.p) /\ scenario \in DOMAIN Scenarios
      /\ render[t] \in [frame : Frames, taken : Nat, built : Nat]
  BY <1>1, OutTaken DEF Done, StageInv, Flights, Rendering
<1> DEFINE now == [render[t] EXCEPT !.taken = @ + 1]
<1>3. render' = [render EXCEPT ![t] = now]
      /\ now \in [frame : Frames, taken : Nat, built : Nat] /\ now.frame = f /\ now.taken = i
  BY <1>2 DEF TakeFrame
<1> HIDE DEF now
<1>4. Ownership'
  BY <1>1, OwnershipStays DEF StageInv
<1>5. /\ Flights' /\ Rendering(t)' /\ render'[t].frame = f /\ render'[t].taken = i
      /\ \A u \in Threads \ {t} : render'[u] = render[u]
  <2>1. TakenCount(f) \in Nat /\ i <= TakenCount(f)
    BY <1>1, <1>2, OutTaken
  <2>2. Flights' /\ Rendering(t)' /\ render'[t] = now
        /\ \A u \in Threads \ {t} : render'[u] = render[u]
    BY <1>1, <1>3, <2>1, AdvanceFlights
  <2> QED BY <1>3, <2>2
<1>6. \A n : /\ i \notin TakenFrom(t, n)
             /\ TakenFrom(t, n)' = IF item[1] = n THEN TakenFrom(t, n) \cup {i} ELSE TakenFrom(t, n)
  <2>1. \A k : TakenFrame(render[t].frame, k)' = TakenFrame(f, k)
    BY <1>1, <1>5, SameFilter
  <2> QED BY <1>1, <1>2, <1>5, <2>1 DEF TakenFrom
<1>7. \A n : /\ Cardinality(Holders(n)) \in Nat
             /\ item[1] = n => Cardinality(Holders(n)') = Cardinality(Holders(n)) + 1
             /\ item[1] # n => Cardinality(Holders(n)') = Cardinality(Holders(n))
  BY <1>1, <1>5, <1>6, HoldersChange DEF StageInv
<1>8. item[1] = "out" <=> item = Out
  BY <1>2, ItemIs DEF Out, AllNodes
<1>9. item # Out => item[1] \in AllNodes /\ item[2] \in Int
  BY <1>2, ItemIs
<1>10. Threads' = Threads /\ AllNodes' = AllNodes
  BY <1>1, SameFilter DEF AllNodes
<1>11. \A n : Cardinality(TakenFrom(t, n)') =
                 IF item[1] = n THEN Cardinality(TakenFrom(t, n)) + 1 ELSE Cardinality(TakenFrom(t, n))
  BY <1>6, TakenFromIs, FS_AddElement DEF StageInv
<1>12. \A u \in Threads : \A n : u # t => TakenFrom(u, n)' = TakenFrom(u, n)
  BY <1>1, <1>5, TakenFromStays
<1>13. CASE item = Out
  <2>1. outputs' = outputs + 1 /\ references' = references /\ data' = data
    BY <1>13 DEF TakeFrame
  <2>2. Counts'
    BY <1>7, <1>8, <1>10, <1>13, <2>1 DEF StageInv, Counts, AllNodes
  <2>3. Lists'
    <3>1. \A n \in AllNodes : item[1] # n
      BY <1>8, <1>13 DEF AllNodes
    <3>2. \A u \in Threads, n \in AllNodes : Cardinality(TakenFrom(u, n)') = Cardinality(TakenFrom(u, n))
      BY <1>11, <1>12, <3>1
    <3> QED BY <1>10, <2>1, <3>2 DEF StageInv, Lists
  <2> QED BY <1>1, <1>4, <1>5, <2>2, <2>3 DEF StageInv
<1>14. CASE item # Out
  <2>1. /\ references' = [references EXCEPT ![item[1]] = @ + 1] /\ outputs' = outputs
        /\ data' = [data EXCEPT ![t].lists[item[1]] = Append(@, item[2])]
    BY <1>14 DEF TakeFrame, DataOf
  <2>2. Counts'
    <3>1. references' = [n \in AllNodes |-> Cardinality(Holders(n)')]
      BY <1>7, <1>9, <1>14, <2>1 DEF StageInv, Counts
    <3>2. outputs' = Cardinality(Holders("out")')
      BY <1>7, <1>8, <1>14, <2>1 DEF StageInv, Counts
    <3> QED BY <1>10, <3>1, <3>2 DEF Counts
  <2>3. Lists'
    <3>1. /\ DOMAIN data' = Threads /\ \A u \in Threads \ {t} : data'[u] = data[u]
          /\ DOMAIN data'[t] = {"lists", "cache", "grids"}
          /\ data'[t].lists = [data[t].lists EXCEPT ![item[1]] = Append(@, item[2])]
      BY <2>1 DEF StageInv, Lists
    <3>2. data[t].lists \in [AllNodes -> Seq(Int)]
          /\ \A n \in AllNodes : Len(data[t].lists[n]) = Cardinality(TakenFrom(t, n))
      BY DEF StageInv, Lists
    <3>3. /\ data'[t].lists \in [AllNodes -> Seq(Int)]
          /\ \A n \in AllNodes : Len(data'[t].lists[n])
                                   = IF n = item[1] THEN Len(data[t].lists[n]) + 1 ELSE Len(data[t].lists[n])
      <4>1. item[1] \in AllNodes /\ item[2] \in Int
        BY <1>9, <1>14
      <4>2. data'[t].lists = [data[t].lists EXCEPT ![item[1]] = Append(@, item[2])]
        BY <3>1
      <4>3. data[t].lists \in [AllNodes -> Seq(Int)]
        BY <3>2
      <4> HIDE DEF item
      <4>4. /\ [data[t].lists EXCEPT ![item[1]] = Append(@, item[2])] \in [AllNodes -> Seq(Int)]
            /\ \A n \in AllNodes : Len([data[t].lists EXCEPT ![item[1]] = Append(@, item[2])][n])
                                     = IF n = item[1] THEN Len(data[t].lists[n]) + 1 ELSE Len(data[t].lists[n])
        BY <4>1, <4>3, AppendToOne
      <4> QED BY <4>2, <4>4
    <3>4. ASSUME NEW n \in AllNodes PROVE Len(data'[t].lists[n]) = Cardinality(TakenFrom(t, n)')
      <4>1. Cardinality(TakenFrom(t, n)') = IF item[1] = n THEN Cardinality(TakenFrom(t, n)) + 1
                                                           ELSE Cardinality(TakenFrom(t, n))
        BY <1>11
      <4>2. Len(data[t].lists[n]) = Cardinality(TakenFrom(t, n))
        BY <3>2
      <4>3. Len(data'[t].lists[n]) = IF n = item[1] THEN Len(data[t].lists[n]) + 1 ELSE Len(data[t].lists[n])
        BY <3>3
      <4> HIDE DEF item
      <4> QED BY <4>1, <4>2, <4>3
    <3>5. ASSUME NEW u \in Threads
          PROVE  /\ DOMAIN data'[u] = {"lists", "cache", "grids"}
                 /\ data'[u].lists \in [AllNodes -> Seq(Int)]
                 /\ \A n \in AllNodes : Len(data'[u].lists[n]) = Cardinality(TakenFrom(u, n)')
      <4>1. CASE u = t
        BY <3>1, <3>3, <3>4, <4>1
      <4>2. CASE u # t
        BY <1>12, <3>1, <4>2 DEF StageInv, Lists
      <4> QED BY <4>1, <4>2
    <3> QED BY <1>10, <3>1, <3>5 DEF Lists
  <2> QED BY <1>1, <1>4, <1>5, <2>2, <2>3 DEF StageInv
<1> QED BY <1>13, <1>14

\* BuildGrids reads and writes only the thread's cache and grids.
LEMMA BuildGridsKeeps ==
  ASSUME StageInv, NEW t \in Threads, BuildGrids(t)
  PROVE  StageInv'
<1> DEFINE d      == Motion[render[t].built + 1]
           own    == data[t]
           range  == RequiredFrames(render[t].frame)
           result == Extended(d, own.lists, range, Pruned(own.cache[d], range))
           parsed == [own EXCEPT !.cache[d] = result.cache]
           ready  == [parsed EXCEPT !.grids[d] = CurrentGrids(result.cache, range)]
<1>1. Rendering(t) /\ Done(t)
  BY DEF BuildGrids
<1>2. DOMAIN own = {"lists", "cache", "grids"}
  BY DEF StageInv, Lists
<1>3. DOMAIN parsed = {"lists", "cache", "grids"} /\ parsed.lists = own.lists
  BY <1>2
<1>4. DOMAIN ready = {"lists", "cache", "grids"} /\ ready.lists = own.lists
  BY <1>3
<1>5. \/ Leave(t, parsed, 1)
      \/ /\ data' = [data EXCEPT ![t] = ready]
         /\ render' = [render EXCEPT ![t].built = @ + 1]
         /\ UNCHANGED <<scenario, instance, nodes, references, outputs, context>>
  BY DEF BuildGrids, DataOf
<1> HIDE DEF parsed, ready
<1>6. CASE Leave(t, parsed, 1)
  BY <1>1, <1>3, <1>6, OutTaken, LeaveKeeps
<1>7. CASE /\ data' = [data EXCEPT ![t] = ready]
           /\ render' = [render EXCEPT ![t].built = @ + 1]
           /\ UNCHANGED <<scenario, instance, nodes, references, outputs, context>>
  <2>1. render[t] \in [frame : Frames, taken : Nat, built : Nat]
        /\ render[t].taken <= TakenCount(render[t].frame)
    BY <1>1 DEF StageInv, Flights, Rendering
  <2> DEFINE now == [render[t] EXCEPT !.built = @ + 1]
  <2>2. render' = [render EXCEPT ![t] = now]
        /\ now \in [frame : Frames, taken : Nat, built : Nat]
        /\ now.frame = render[t].frame /\ now.taken = render[t].taken
    BY <1>7, <2>1
  <2> HIDE DEF now
  <2>3. Ownership'
    BY <1>7, OwnershipStays
  <2>4. /\ Flights' /\ Rendering(t)'
        /\ render'[t].frame = render[t].frame /\ render'[t].taken = render[t].taken
        /\ \A u \in Threads \ {t} : render'[u] = render[u]
    BY <1>1, <1>7, <2>1, <2>2, AdvanceFlights
  <2>5. \A u \in Threads : \A n : TakenFrom(u, n)' = TakenFrom(u, n)
    <3>1. \A n : TakenFrom(t, n)' = TakenFrom(t, n)
      BY <1>1, <1>7, <2>4, SameFilter DEF TakenFrom
    <3> QED BY <1>7, <2>4, <3>1, TakenFromStays
  <2>6. \A n : Holders(n)' = Holders(n)
    BY <1>7, <2>4, <2>5, HoldersChange DEF StageInv
  <2>7. Counts'
    BY <1>7, <2>6 DEF StageInv, Counts, AllNodes
  <2>8. Lists'
    <3>1. Threads' = Threads /\ AllNodes' = AllNodes
      BY <1>7, SameFilter DEF AllNodes
    <3>2. DOMAIN data' = Threads /\ data'[t] = ready /\ \A u \in Threads \ {t} : data'[u] = data[u]
      BY <1>7 DEF StageInv, Lists
    <3>3. ASSUME NEW u \in Threads
          PROVE  DOMAIN data'[u] = {"lists", "cache", "grids"} /\ data'[u].lists = data[u].lists
      BY <1>4, <3>2 DEF StageInv, Lists
    <3> QED BY <2>5, <3>1, <3>2, <3>3 DEF StageInv, Lists
  <2> QED BY <1>7, <2>3, <2>4, <2>7, <2>8 DEF StageInv
<1> QED BY <1>5, <1>6, <1>7

\* A render fails.
LEMMA FailKeeps ==
  ASSUME StageInv, NEW t \in Threads, Rendering(t), Fail(t)
  PROVE  StageInv'
<1>1. Leave(t, data[t], IF HasOutput(t) THEN 1 ELSE 0)
  BY DEF Fail, DataOf
<1>2. DOMAIN data[t] = {"lists", "cache", "grids"}
  BY DEF StageInv, Lists
<1> QED BY <1>1, <1>2, LeaveKeeps

\* Every step keeps the invariant.
LEMMA StageStep == StageInv /\ [StageNext]_stageVars => StageInv'
<1> SUFFICES ASSUME StageInv, [StageNext]_stageVars PROVE StageInv'
  OBVIOUS
<1>1. CASE TakeNode \/ RefuseCreation \/ CreateFilter \/ FreeFilter
  BY <1>1, TakeNodeKeeps, RefuseKeeps, CreateKeeps, FreeKeeps
<1>2. ASSUME NEW f \in Frames, RequestFrames(f) \/ InputFailed(f) PROVE StageInv'
  BY <1>2, RequestKeeps
<1>3. ASSUME NEW t \in Threads, NEW f \in Frames, RenderWithoutInput(t, f) \/ RenderFrame(t, f)
      PROVE  StageInv'
  BY <1>3, RenderKeeps
<1>4. ASSUME NEW t \in Threads, TakeFrame(t) PROVE StageInv'
  BY <1>4, TakeFrameKeeps
<1>5. ASSUME NEW t \in Threads, TakeFails(t) \/ StrideRefused(t) PROVE StageInv'
  BY <1>5, FailKeeps DEF TakeFails, StrideRefused
<1>6. ASSUME NEW t \in Threads, BuildGrids(t) PROVE StageInv'
  BY <1>6, BuildGridsKeeps
<1>7. ASSUME NEW t \in Threads, Deliver(t) PROVE StageInv'
  <2>1. Rendering(t) /\ HasOutput(t)
    BY <1>7, OutTaken DEF Deliver, Ready
  <2>2. Leave(t, data[t], 1) /\ DOMAIN data[t] = {"lists", "cache", "grids"}
    BY <1>7 DEF Deliver, DataOf, StageInv, Lists
  <2> QED BY <2>1, <2>2, LeaveKeeps
<1>8. ASSUME NEW t \in Threads, ComputeFails(t) PROVE StageInv'
  BY <1>8, FailKeeps DEF ComputeFails, Ready
<1>9. CASE UNCHANGED stageVars
  <2>1. scenario' = scenario /\ instance' = instance /\ nodes' = nodes /\ references' = references
        /\ outputs' = outputs /\ context' = context /\ render' = render /\ data' = data
    BY <1>9 DEF stageVars
  <2>2. Ownership'
    BY <2>1, OwnershipStays
  <2>3. Flights'
    BY <2>1, SameFilter DEF StageInv, Flights, Rendering, Idle, Closed
  <2>4. \A t, n : TakenFrom(t, n)' = TakenFrom(t, n)
    BY <2>1, TakenFromStays
  <2>5. Lists'
    BY <2>1, <2>4, SameFilter DEF StageInv, Lists, AllNodes
  <2>6. \A n : Holders(n)' = Holders(n)
    BY <2>1, <2>4, SameFilter DEF Holders
  <2> QED BY <2>1, <2>2, <2>3, <2>5, <2>6 DEF StageInv, Counts, AllNodes
<1> QED BY <1>1, <1>2, <1>3, <1>4, <1>5, <1>6, <1>7, <1>8, <1>9 DEF StageNext

\* The inductive invariant of a filter's life: arguments, frames in flight,
\* lists and reference counts.
THEOREM StageInvariant == StageSpec => []StageInv
  BY InitInv, StageStep, PTL DEF StageSpec

\* The counts are exact.
LEMMA InvGivesReferences == StageInv => ReferencesEndWithTheirRender
  BY DEF StageInv, Counts, ReferencesEndWithTheirRender

\* The frames taken were asked for.
LEMMA InvGivesFetches == StageInv => FetchesWereRequested
<1> SUFFICES ASSUME StageInv, NEW t \in Threads, Rendering(t), NEW i \in 1..render[t].taken
             PROVE  TakenFrame(render[t].frame, i) \in context[render[t].frame].requested \cup {Out}
  BY DEF FetchesWereRequested
<1>1. /\ render[t].frame \in Frames /\ i \in 1..TakenCount(render[t].frame)
      /\ ValidParameters(filter.p) /\ scenario \in DOMAIN Scenarios
  BY OutTaken DEF StageInv
<1>2. context[render[t].frame] = Asked(render[t].frame)
  BY DEF StageInv, Flights
<1>3. context[render[t].frame].requested = RequestedFrames(render[t].frame)
  BY <1>2 DEF Asked
<1> QED BY <1>1, <1>3, ItemIs

\* The nodes owned are those referenced.
LEMMA InvGivesNodes == StageInv => NodesFreedOnce
<1> SUFFICES ASSUME StageInv, NEW n \in AllNodes
             PROVE  nodes[n] = IF instance.phase \in {"refused", "freed"} THEN 0
                               ELSE IF instance.phase = "live" /\ n \in Range(NodeOrder) THEN 1
                               ELSE IF n \in instance.owned THEN 1 ELSE 0
  BY DEF NodesFreedOnce
<1>1. nodes[n] = IF n \in instance.owned THEN 1 ELSE 0
  BY DEF StageInv, Ownership
<1>2. instance.phase \in {"refused", "freed"} => n \notin instance.owned
  BY DEF StageInv, Ownership
<1>3. instance.phase = "live" /\ n \in Range(NodeOrder) => n \in instance.owned
  <2> SUFFICES ASSUME instance.phase = "live", n \in Range(NodeOrder) PROVE n \in instance.owned
    OBVIOUS
  <2>1. NodeOrder \in Seq(AllNodes)
    BY NodeOrderIs DEF StageInv
  <2>2. PICK i \in 1..Len(NodeOrder) : n = NodeOrder[i]
    BY <2>1 DEF Range
  <2> QED BY <2>2 DEF StageInv, Ownership
<1> QED BY <1>1, <1>2, <1>3

\* However renders overlap and wherever they fail, a frame reference is held
\* exactly while the render that took it runs, and so is an output frame.
THEOREM ReferencesAreExact == StageSpec => []ReferencesEndWithTheirRender
  BY StageInvariant, InvGivesReferences, PTL

\* What rendering fetches was requested before, for both kinds of filters and
\* frames at the borders of the clip.
THEOREM FetchesAreRequested == StageSpec => []FetchesWereRequested
  BY StageInvariant, InvGivesFetches, PTL

\* A refused or freed filter has freed every node it took, once.
THEOREM NodesAreFreedOnce == StageSpec => []NodesFreedOnce
  BY StageInvariant, InvGivesNodes, PTL

-----------------------------------------------------------------------------
(* The motion vectors.  Threads keep only parsings of the clip's own       *)
(* frames, a render's lists are in the order of the frames, and the grids  *)
(* it has built point to the parsings of the frames of its window.         *)

Rows(f) == RequiredFrames(f).last - RequiredFrames(f).first + 1

\* What parsing frame f of a vector clip gives, for the frames that can be parsed.
Parsing(d, f) == [frame |-> f, from |-> f,
                  valid |-> filter.vectors[d][f].flag = 1 /\ ~SceneChange(d, f)]
Parsings(d) ==
    {Parsing(d, f) : f \in {g \in Frames : ~Malformed(filter.vectors[d][g], filter.analysis[d])}}

VectorsFit == instance.phase = "live" => \A d \in filter.motion : VectorsAccepted(d)

\* A thread keeps only parsings of the clip's own frames.
CachesOf(t) ==
    /\ DOMAIN data[t].cache = filter.motion /\ DOMAIN data[t].grids = filter.motion
    /\ \A d \in filter.motion : data[t].cache[d] \in Seq(Parsings(d))

\* How many frames of the j-th node are among the first frames taken.
TakenOf(j, taken) ==
    IF taken = 0 THEN 0 ELSE (taken + Len(NodeOrder) - 1 - j) \div Len(NodeOrder)

\* The frames taken of each node are in order, from the first of the window.
ListsOf(t) ==
    Rendering(t) /\ filter.kind # "Aggregate" =>
        \A j \in 1..Len(NodeOrder) :
            LET list == data[t].lists[NodeOrder[j]]
            IN  /\ Len(list) = TakenOf(j, render[t].taken)
                /\ \A k \in 1..Len(list) :
                      list[k] = RequiredFrames(render[t].frame).first + k - 1

\* A grid of the window from first points to its frames' entries in the cache.
PointsTo(grid, cache, first, rows) ==
    /\ DOMAIN grid = 1..rows
    /\ \A i \in 1..rows : grid[i] \in 1..Len(cache) /\ cache[grid[i]].frame = first + i - 1

GridsOf(t) ==
    Rendering(t) =>
        /\ render[t].built <= Len(Built(t))
        /\ render[t].built > 0 => Done(t)
        /\ \A k \in 1..render[t].built :
              PointsTo(data[t].grids[Motion[k]], data[t].cache[Motion[k]],
                       RequiredFrames(render[t].frame).first, Rows(render[t].frame))

MotionOf(t) == CachesOf(t) /\ ListsOf(t) /\ GridsOf(t)
MotionInv   == VectorsFit /\ \A t \in Threads : MotionOf(t)
-----------------------------------------------------------------------------
(* Least counterexamples and functions defined step by step. *)

\* A set of naturals has a least member.
LEMMA LeastMember ==
  ASSUME NEW S, S \subseteq Nat, S # {}
  PROVE  \E k \in S : k - 1 \notin S /\ \A m \in S : k <= m
<1>1. PICK k \in S : \A m \in S : <<m, k>> \notin OpToRel(<, Nat)
  BY WFMin, NatLessThanWellFounded, Zenon
<1>2. \A m \in S : ~(m < k)
  BY <1>1 DEF OpToRel
<1>3. k - 1 < k
  OBVIOUS
<1> QED BY <1>2, <1>3

\* h[i] is the value reached after i steps from base.
Iterates(h, S, base, n, step) ==
    h \in [0..n -> S] /\ h[0] = base /\ \A i \in 1..n : h[i] = step[<<i, h[i - 1]>>]

\* The values reached step by step exist.
LEMMA StepsExist ==
  ASSUME NEW S, NEW base \in S, NEW n \in Nat, NEW step \in [(1..n) \X S -> S]
  PROVE  \E h : Iterates(h, S, base, n, step)
<1> DEFINE Solved(k) == \E h \in [0..k -> S] :
                           h = [i \in 0..k |-> IF i = 0 THEN base ELSE step[<<i, h[i - 1]>>]]
           Unsolved == {k \in 0..n : ~Solved(k)}
<1>1. Solved(0)
  <2> DEFINE h == [i \in 0..0 |-> base]
  <2>1. h \in [0..0 -> S] /\ h = [i \in 0..0 |-> IF i = 0 THEN base ELSE step[<<i, h[i - 1]>>]]
    OBVIOUS
  <2> QED BY <2>1
<1>2. ASSUME NEW k \in 1..n, Solved(k - 1) PROVE Solved(k)
  <2>1. PICK g \in [0..(k - 1) -> S] :
           g = [i \in 0..(k - 1) |-> IF i = 0 THEN base ELSE step[<<i, g[i - 1]>>]]
    BY <1>2
  <2> DEFINE h == [i \in 0..k |-> IF i = k THEN step[<<k, g[k - 1]>>] ELSE g[i]]
  <2>2. g[k - 1] \in S /\ step[<<k, g[k - 1]>>] \in S
    BY <2>1
  <2>3. h \in [0..k -> S]
    BY <2>1, <2>2
  <2>4. ASSUME NEW i \in 0..k
        PROVE  h[i] = IF i = 0 THEN base ELSE step[<<i, h[i - 1]>>]
    <3>1. CASE i = k
      <4>1. h[i] = step[<<k, g[k - 1]>>] /\ h[k - 1] = g[k - 1] /\ i # 0
        BY <1>2, <3>1
      <4> HIDE DEF h
      <4> QED BY <3>1, <4>1
    <3>2. CASE i # k
      <4>1. i \in 0..(k - 1) /\ h[i] = g[i] /\ (i # 0 => h[i - 1] = g[i - 1])
        BY <1>2, <2>4, <3>2
      <4>2. g[i] = IF i = 0 THEN base ELSE step[<<i, g[i - 1]>>]
        BY <2>1, <4>1
      <4> HIDE DEF h
      <4> QED BY <4>1, <4>2
    <3> QED BY <3>1, <3>2
  <2> HIDE DEF h
  <2> QED BY <2>3, <2>4
<1>3. Unsolved = {}
  <2> SUFFICES ASSUME Unsolved # {} PROVE FALSE
    OBVIOUS
  <2> HIDE DEF Solved
  <2>1. Unsolved \subseteq Nat /\ \A k : k \in Unsolved <=> k \in 0..n /\ ~Solved(k)
    OBVIOUS
  <2> HIDE DEF Unsolved
  <2>2. PICK k \in Unsolved : k - 1 \notin Unsolved
    BY <2>1, LeastMember
  <2>3. k \in 1..n /\ Solved(k - 1)
    BY <1>1, <2>1, <2>2
  <2> QED BY <1>2, <2>1, <2>2, <2>3
<1>4. PICK h \in [0..n -> S] :
         h = [i \in 0..n |-> IF i = 0 THEN base ELSE step[<<i, h[i - 1]>>]]
  BY <1>3
<1>5. Iterates(h, S, base, n, step)
  BY <1>4 DEF Iterates
<1> QED BY <1>5

\* What holds at 0 and passes from each step to the next holds after n steps.
LEMMA StepByStep ==
  ASSUME NEW n \in Nat, NEW T, 0 \in T, \A i \in 1..n : i - 1 \in T => i \in T
  PROVE  \A i \in 0..n : i \in T
<1> DEFINE Left == {i \in 0..n : i \notin T}
<1> SUFFICES ASSUME Left # {} PROVE FALSE
  OBVIOUS
<1>1. Left \subseteq Nat /\ \A i : i \in Left <=> i \in 0..n /\ i \notin T
  OBVIOUS
<1> HIDE DEF Left
<1>2. PICK i \in Left : i - 1 \notin Left
  BY <1>1, LeastMember
<1>3. i \in 1..n /\ i - 1 \in T
  BY <1>1, <1>2
<1> QED BY <1>1, <1>2, <1>3

-----------------------------------------------------------------------------
(* The arithmetic of a step of the motion. *)

\* The nearest multiple is at most half a divisor away, and not beyond the value.
LEMMA RoundedIsNear ==
  ASSUME NEW v \in Int, NEW k \in Nat \ {0}
  PROVE  LET q == RoundedQuotient(v, k)
         IN  /\ q \in Int
             /\ -k <= 2 * (q * k - v) /\ 2 * (q * k - v) <= k
             /\ q \in -Distance(v, 0)..Distance(v, 0)
<1> DEFINE Magnitude(w) == (w + k \div 2) \div k
<1>1. k \div 2 \in Nat /\ 2 * (k \div 2) <= k /\ k <= 2 * (k \div 2) + 1
  OBVIOUS
<1>2. ASSUME NEW w \in Nat
      PROVE  /\ Magnitude(w) \in Nat /\ Magnitude(w) <= w
             /\ -k <= 2 * (Magnitude(w) * k - w) /\ 2 * (Magnitude(w) * k - w) <= k
  <2> DEFINE x == w + k \div 2
             q == x \div k
             r == x % k
  <2>1. x \in Nat /\ q \in Int /\ r \in 0..(k - 1) /\ x = q * k + r
    BY <1>1
  <2> HIDE DEF q, r
  <2>2. q * k \in Int /\ q * k = w + k \div 2 - r
    BY <1>1, <2>1
  <2>3. q >= 0
    <3> SUFFICES ASSUME q <= -1 PROVE FALSE
      BY <2>1
    <3>1. q * k <= (-1) * k
      BY <2>1
    <3> QED BY <2>1, <3>1
  <2>4. q <= w
    <3> SUFFICES ASSUME w + 1 <= q PROVE FALSE
      BY <2>1
    <3>1. (w + 1) * k <= q * k
      BY <2>1
    <3>2. (w + 1) * k = w * k + k /\ w * k \in Nat /\ w <= w * k
      OBVIOUS
    <3> QED BY <1>1, <2>1, <2>2, <3>1, <3>2
  <2>5. Magnitude(w) = q
    BY DEF q
  <2> QED BY <1>1, <2>1, <2>2, <2>3, <2>4, <2>5
<1>3. CASE v >= 0
  <2>1. RoundedQuotient(v, k) = Magnitude(v) /\ Distance(v, 0) = v /\ v \in Nat
    BY <1>3 DEF RoundedQuotient, Distance, Greatest
  <2> HIDE DEF Magnitude
  <2> QED BY <1>2, <2>1
<1>4. CASE v < 0
  <2>1. RoundedQuotient(v, k) = -Magnitude(-v) /\ Distance(v, 0) = -v /\ -v \in Nat
    BY <1>4 DEF RoundedQuotient, Distance, Greatest
  <2> HIDE DEF Magnitude
  <2>2. PICK m \in Nat : /\ m = Magnitude(-v) /\ m <= -v
                         /\ -k <= 2 * (m * k - (-v)) /\ 2 * (m * k - (-v)) <= k
    BY <1>2, <2>1
  <2>3. (-m) * k = -(m * k) /\ m * k \in Int
    OBVIOUS
  <2> QED BY <2>1, <2>2, <2>3
<1> QED BY <1>3, <1>4
\* Among multiples of a step the clamped rounded quotient is a nearest one.
LEMMA ClampedIsNearest ==
  ASSUME NEW x \in Int, NEW s \in Nat \ {0}, NEW n \in Nat \ {0}, NEW c \in 0..(n - 1)
  PROVE  LET b == Clamped(RoundedQuotient(x, s), 0, n - 1)
         IN  b \in 0..(n - 1) /\ Distance(x, b * s) <= Distance(x, c * s)
<1> DEFINE q == RoundedQuotient(x, s)
           b == Clamped(q, 0, n - 1)
<1> SUFFICES b \in 0..(n - 1) /\ Distance(x, b * s) <= Distance(x, c * s)
  OBVIOUS
<1>1. q \in Int /\ q * s \in Int /\ -s <= 2 * (q * s - x) /\ 2 * (q * s - x) <= s
  BY RoundedIsNear
<1> HIDE DEF q
<1>2. /\ b \in 0..(n - 1)
      /\ \/ b = q
         \/ b = 0 /\ q <= -1
         \/ b = n - 1 /\ n <= q
  BY <1>1 DEF Clamped, Least, Greatest
<1> HIDE DEF b
<1>3. ASSUME NEW i \in Int, NEW j \in Int, i + 1 <= j PROVE i * s + s <= j * s
  <2>1. (i + 1) * s <= j * s
    BY <1>3
  <2> QED BY <2>1
<1>4. PICK B \in Int, C \in Int, Q \in Int : B = b * s /\ C = c * s /\ Q = q * s
  BY <1>1, <1>2
<1>5. -s <= 2 * (Q - x) /\ 2 * (Q - x) <= s
  BY <1>1, <1>4
<1>6. /\ c + 1 <= b => C + s <= B
      /\ b + 1 <= c => B + s <= C
      /\ b = q => B = Q
      /\ q <= -1 /\ b = 0 => Q + s <= B
      /\ n <= q /\ b = n - 1 => B + s <= Q
  <2>1. c \in Int /\ b \in Int /\ q \in Int
    BY <1>1, <1>2
  <2> QED BY <1>3, <1>4, <2>1
<1>7. c = b \/ c + 1 <= b \/ b + 1 <= c
  BY <1>2
<1>8. c = b => B = C
  BY <1>4
<1>9. Distance(x, B) <= Distance(x, C)
  BY <1>2, <1>5, <1>6, <1>7, <1>8 DEF Distance, Greatest
<1> QED BY <1>2, <1>4, <1>9

\* An analysis as a vector clip carries it, accepted at creation.
Analyses == [pel : Int, size : [Axes -> Int], overlap : [Axes -> Int], count : [Axes -> Int],
             frame : [Axes -> Int], delta : Int, backwards : BOOLEAN]

\* The block the search looks up is one whose middle is nearest.
LEMMA BlockIsNearest ==
  ASSUME NEW a \in Analyses, AcceptedAnalysis(a), NEW i \in Axes, NEW x \in Int
  PROVE  NearestBlock(a, i, x) \in NearestBlocks(a, i, x)
<1> DEFINE s == a.size[i] - a.overlap[i]
           n == a.count[i]
           half == a.size[i] \div 2
           b == NearestBlock(a, i, x)
<1>1. /\ a.size[i] \in Int /\ a.overlap[i] \in Int /\ n \in Nat \ {0} /\ half \in Int
      /\ s \in Nat \ {0} /\ BlockStep(a, i) = s
  BY DEF Analyses, AcceptedAnalysis, BlockStep, Greatest
<1>2. b = Clamped(RoundedQuotient(x - half, s), 0, n - 1)
  BY <1>1 DEF NearestBlock
<1>3. \A m : BlockMiddle(a, i, m) = m * s + half
  BY DEF BlockMiddle
<1> HIDE DEF s, n, half, b
<1>4. b \in 0..(n - 1) /\ \A c \in 0..(n - 1) : Distance(x - half, b * s) <= Distance(x - half, c * s)
  <2>1. x - half \in Int /\ 0 \in 0..(n - 1)
    BY <1>1
  <2> QED BY <1>1, <1>2, <2>1, ClampedIsNearest
<1>5. ASSUME NEW m \in Int PROVE Distance(x, m * s + half) = Distance(x - half, m * s)
  BY <1>1 DEF Distance, Greatest
<1>6. \A c \in 0..(n - 1) : Distance(x, BlockMiddle(a, i, b)) <= Distance(x, BlockMiddle(a, i, c))
  BY <1>3, <1>4, <1>5
<1> QED BY <1>4, <1>6 DEF NearestBlocks, n, b

\* Rounding a vector to pixels takes a closest pixel.
LEMMA PixelIsClosest ==
  ASSUME NEW v \in Int, NEW pel \in Nat \ {0}
  PROVE  RoundedToPixel(v, pel) \in Int /\ RoundedToPixel(v, pel) \in ClosestPixels(v, pel)
<1>1. CASE pel = 1
  BY <1>1 DEF RoundedToPixel, ClosestPixels, Distance, Greatest
<1>2. CASE pel # 1
  <2> DEFINE q == RoundedQuotient(v, pel)
  <2>1. /\ q \in Int /\ q * pel \in Int /\ -pel <= 2 * (q * pel - v) /\ 2 * (q * pel - v) <= pel
        /\ q \in -Distance(v, 0)..Distance(v, 0)
    BY RoundedIsNear
  <2>2. RoundedToPixel(v, pel) = q
    BY <1>2 DEF RoundedToPixel
  <2> HIDE DEF q
  <2>3. 2 * Distance(q * pel, v) <= pel
    BY <2>1 DEF Distance, Greatest
  <2> QED BY <2>1, <2>2, <2>3 DEF ClosestPixels
<1> QED BY <1>1, <1>2

\* Clamping a coordinate takes the closest one inside.
LEMMA ClampIsClosest ==
  ASSUME NEW v \in Int, NEW n \in Nat \ {0}
  PROVE  ClosestInside(v, n) = Clamped(v, 0, n - 1) /\ ClosestInside(v, n) \in 0..(n - 1)
<1> DEFINE b == Clamped(v, 0, n - 1)
<1>1. b \in 0..(n - 1) /\ \A q \in 0..(n - 1) : Distance(v, b) <= Distance(v, q)
  BY DEF Clamped, Distance, Least, Greatest
<1>2. ASSUME NEW p \in 0..(n - 1), Distance(v, p) <= Distance(v, b) PROVE p = b
  BY <1>2 DEF Clamped, Distance, Least, Greatest
<1> HIDE DEF b
<1>3. ClosestInside(v, n) = b
  BY <1>1, <1>2 DEF ClosestInside
<1> QED BY <1>1, <1>3 DEF b
-----------------------------------------------------------------------------
(* The centre of a search. *)

Fields == Seq([Axes -> Int])

\* The vectors of the blocks lie one row of blocks after the other.
LEMMA BlockPlace ==
  ASSUME NEW c1 \in Nat \ {0}, NEW c2 \in Nat \ {0}, NEW x \in 0..(c1 - 1), NEW y \in 0..(c2 - 1)
  PROVE  y * c1 + x + 1 \in 1..(c1 * c2)
<1>1. y * c1 <= (c2 - 1) * c1
  OBVIOUS
<1>2. (c2 - 1) * c1 = c1 * c2 - c1 /\ c1 * c2 \in Nat
  OBVIOUS
<1>3. y * c1 \in Nat
  OBVIOUS
<1> QED BY <1>1, <1>2, <1>3

\* What a step needs of an analysis.
LEMMA AnalysisIs ==
  ASSUME NEW a \in Analyses, AcceptedAnalysis(a)
  PROVE  a.pel \in Nat \ {0} /\ a.count[1] \in Nat \ {0} /\ a.count[2] \in Nat \ {0}
  BY DEF Axes, Analyses, AcceptedAnalysis

\* One step of the motion follows a nearest block to a closest pixel.
LEMMA FollowIsStep ==
  ASSUME NEW a \in Analyses, AcceptedAnalysis(a), NEW vectors \in Fields,
         Len(vectors) = a.count[1] * a.count[2],
         NEW grid, grid.analysis = a, grid.vectors = vectors,
         NEW request, request.patch \in Nat, request.size \in [Axes -> Nat \ {0}],
         NEW centre \in [Axes -> Int]
  PROVE  /\ Follow(request, grid, centre) \in [Axes -> Int]
         /\ Follow(request, grid, centre)
               \in StepsFrom(a, vectors, centre, request.patch, request.size)
<1>0. Axes = {1, 2}
  BY DEF Axes
<1>1. PICK half \in Int : half = request.patch \div 2
  OBVIOUS
<1>2. PICK m1 \in Int, m2 \in Int : m1 = centre[1] + half /\ m2 = centre[2] + half
  BY <1>0
<1>3. PICK bx \in NearestBlocks(a, 1, m1), by \in NearestBlocks(a, 2, m2) :
         bx = NearestBlock(a, 1, m1) /\ by = NearestBlock(a, 2, m2)
  BY <1>0, BlockIsNearest
<1>4. bx \in 0..(a.count[1] - 1) /\ by \in 0..(a.count[2] - 1)
  BY <1>3 DEF NearestBlocks
<1>5. PICK place \in 1..Len(vectors) : place = by * a.count[1] + bx + 1
  BY <1>4, AnalysisIs, BlockPlace
<1>6. NearestVector(grid, [i \in Axes |-> centre[i] + half]) = vectors[place]
  BY <1>0, <1>2, <1>3, <1>5 DEF NearestVector
<1>7. vectors[place] \in [Axes -> Int]
  BY DEF Fields
<1>8. PICK vector \in [Axes -> Int] : vector = vectors[place]
  BY <1>7
<1>9. \A i \in Axes : /\ RoundedToPixel(vector[i], a.pel) \in Int
                      /\ RoundedToPixel(vector[i], a.pel) \in ClosestPixels(vector[i], a.pel)
  BY AnalysisIs, PixelIsClosest
<1>10. PICK move \in ClosestPixels(vector[1], a.pel) \X ClosestPixels(vector[2], a.pel) :
          /\ move[1] \in Int /\ move[1] = RoundedToPixel(vector[1], a.pel)
          /\ move[2] \in Int /\ move[2] = RoundedToPixel(vector[2], a.pel)
  <2> DEFINE move == <<RoundedToPixel(vector[1], a.pel), RoundedToPixel(vector[2], a.pel)>>
  <2>1. move \in ClosestPixels(vector[1], a.pel) \X ClosestPixels(vector[2], a.pel)
    BY <1>0, <1>9
  <2> QED BY <1>0, <1>9, <2>1
<1>11. Follow(request, grid, centre)
         = [i \in Axes |-> Clamped(centre[i] + RoundedToPixel(vector[i], a.pel), 0, request.size[i] - 1)]
  BY <1>1, <1>6, <1>8 DEF Follow
<1>12. \A i \in Axes : /\ centre[i] + move[i] \in Int
                       /\ ClosestInside(centre[i] + move[i], request.size[i]) \in Int
                       /\ ClosestInside(centre[i] + move[i], request.size[i])
                            = Clamped(centre[i] + RoundedToPixel(vector[i], a.pel), 0, request.size[i] - 1)
  <2> SUFFICES ASSUME NEW i \in Axes
               PROVE  /\ centre[i] + move[i] \in Int
                      /\ ClosestInside(centre[i] + move[i], request.size[i]) \in Int
                      /\ ClosestInside(centre[i] + move[i], request.size[i])
                           = Clamped(centre[i] + RoundedToPixel(vector[i], a.pel), 0, request.size[i] - 1)
    OBVIOUS
  <2>1. move[i] = RoundedToPixel(vector[i], a.pel) /\ move[i] \in Int
    BY <1>0, <1>10
  <2>2. PICK v \in Int : v = centre[i] + move[i]
    BY <2>1
  <2>3. PICK n \in Nat \ {0} : n = request.size[i]
    OBVIOUS
  <2>4. ClosestInside(v, n) = Clamped(v, 0, n - 1) /\ ClosestInside(v, n) \in 0..(n - 1)
    BY ClampIsClosest, Zenon
  <2>5. centre[i] + move[i] = v /\ centre[i] + RoundedToPixel(vector[i], a.pel) = v
    BY <2>1, <2>2
  <2>6. ClosestInside(v, n) \in Int
    BY <2>4
  <2> QED BY <2>3, <2>4, <2>5, <2>6
<1>13. Follow(request, grid, centre)
         = [i \in 1..2 |-> ClosestInside(centre[i] + move[i], request.size[i])]
  BY <1>11, <1>12 DEF Axes
<1>14. Follow(request, grid, centre) \in [Axes -> Int]
  BY <1>12, <1>13 DEF Axes
<1>15. Follow(request, grid, centre)
         = <<ClosestInside(centre[1] + move[1], request.size[1]),
             ClosestInside(centre[2] + move[2], request.size[2])>>
  BY <1>13
<1> DEFINE Moves(x, y) == ClosestPixels(vectors[y * a.count[1] + x + 1][1], a.pel)
                          \X ClosestPixels(vectors[y * a.count[1] + x + 1][2], a.pel)
           AllMoves == {Moves(x, y) : x \in NearestBlocks(a, 1, m1), y \in NearestBlocks(a, 2, m2)}
<1>16. move \in Moves(bx, by)
  BY <1>5, <1>8
<1>17. StepsFrom(a, vectors, centre, request.patch, request.size)
         = {<<ClosestInside(centre[1] + m[1], request.size[1]),
              ClosestInside(centre[2] + m[2], request.size[2])>> : m \in UNION AllMoves}
  BY <1>1, <1>2 DEF StepsFrom
<1> HIDE DEF Moves
<1>18. Moves(bx, by) \in AllMoves
  OBVIOUS
<1> HIDE DEF AllMoves
<1> QED BY <1>14, <1>15, <1>16, <1>17, <1>18
\* What the assumption says of the clips of the filter at hand.
LEMMA ClipsAre ==
  ASSUME scenario \in DOMAIN Scenarios
  PROVE  /\ filter.size \in [Axes -> Nat \ {0}] /\ filter.patch \in Nat
         /\ \A point \in filter.anchors : point \in [Axes -> Int]
         /\ \A d \in filter.motion :
               /\ filter.analysis[d] \in Analyses
               /\ filter.vectors[d] \in [Frames -> [sized : BOOLEAN, flag : Int, levels : Seq(Fields)]]
<1>1. filter.size \in [Axes -> Nat \ {0}] /\ filter.patch \in Nat
  BY ClipsAssumption DEF filter, Filters
<1>2. \A point \in filter.anchors : point \in [Axes -> Int]
  BY ClipsAssumption DEF filter, Filters
<1>3. ASSUME NEW d \in filter.motion
      PROVE  /\ filter.analysis[d] \in Analyses
             /\ filter.vectors[d] \in [Frames -> [sized : BOOLEAN, flag : Int, levels : Seq(Fields)]]
  BY ClipsAssumption DEF filter, Filters, Analyses, Fields, Frames
<1> QED BY <1>1, <1>2, <1>3

\* The vectors a frame carries, when it is not malformed and says it has some.
LEMMA VectorsOfFrame ==
  ASSUME scenario \in DOMAIN Scenarios, NEW d \in filter.motion, VectorsAccepted(d), NEW f \in Frames,
         ~Malformed(filter.vectors[d][f], filter.analysis[d]), filter.vectors[d][f].flag = 1
  PROVE  LET vectors == Last(filter.vectors[d][f].levels)
         IN  /\ vectors \in Fields /\ vectors # <<>>
             /\ Len(vectors) = filter.analysis[d].count[1] * filter.analysis[d].count[2]
             /\ vectors = ParsedVectors(filter.vectors[d][f], filter.analysis[d]).vectors
<1> DEFINE raw == filter.vectors[d][f]
           a == filter.analysis[d]
<1>1. raw \in [sized : BOOLEAN, flag : Int, levels : Seq(Fields)] /\ a \in Analyses
  BY ClipsAre
<1>2. raw.levels \in Seq(Fields) /\ raw.levels # <<>>
      /\ Len(raw.levels[Len(raw.levels)]) = a.count[1] * a.count[2]
  BY <1>1 DEF Malformed
<1>3. PICK vectors \in Fields : vectors = raw.levels[Len(raw.levels)] /\ vectors = Last(raw.levels)
  <2>1. Len(raw.levels) \in 1..Len(raw.levels)
    BY <1>2
  <2>2. raw.levels[Len(raw.levels)] \in Fields
    BY <1>2, <2>1
  <2> QED BY <2>2 DEF Last
<1>4. a.count[1] \in Nat \ {0} /\ a.count[2] \in Nat \ {0}
  BY <1>1, AnalysisIs DEF VectorsAccepted
<1>5. a.count[1] * a.count[2] # 0
  BY <1>4
<1>6. vectors # <<>>
  BY <1>2, <1>3, <1>5
<1>7. ParsedVectors(raw, a).vectors = vectors
  BY <1>3 DEF ParsedVectors
<1> QED BY <1>2, <1>3, <1>6, <1>7

\* A step over given vectors leads to points.
LEMMA StepsArePoints ==
  ASSUME NEW a, NEW vectors, NEW centre \in [Axes -> Int], NEW patch, NEW size \in [Axes -> Nat \ {0}]
  PROVE  StepsFrom(a, vectors, centre, patch, size) \subseteq [Axes -> Int]
<1> SUFFICES ASSUME NEW point \in StepsFrom(a, vectors, centre, patch, size)
             PROVE  point \in [Axes -> Int]
  OBVIOUS
<1> DEFINE Moves(x, y) == ClosestPixels(vectors[y * a.count[1] + x + 1][1], a.pel)
                          \X ClosestPixels(vectors[y * a.count[1] + x + 1][2], a.pel)
           AllMoves == {Moves(x, y) : x \in NearestBlocks(a, 1, centre[1] + patch \div 2),
                                      y \in NearestBlocks(a, 2, centre[2] + patch \div 2)}
<1>1. StepsFrom(a, vectors, centre, patch, size)
        = {<<ClosestInside(centre[1] + m[1], size[1]), ClosestInside(centre[2] + m[2], size[2])>> :
             m \in UNION AllMoves}
  BY DEF StepsFrom
<1>2. \A v, pel : ClosestPixels(v, pel) \subseteq Int
  BY DEF ClosestPixels
<1>3. \A x, y : Moves(x, y) \subseteq Int \X Int
  BY <1>2
<1> HIDE DEF Moves
<1>4. UNION AllMoves \subseteq Int \X Int
  BY <1>3
<1> HIDE DEF AllMoves
<1>5. PICK m \in Int \X Int :
         point = <<ClosestInside(centre[1] + m[1], size[1]), ClosestInside(centre[2] + m[2], size[2])>>
  BY <1>1, <1>4
<1>6. centre[1] + m[1] \in Int /\ centre[2] + m[2] \in Int
      /\ size[1] \in Nat \ {0} /\ size[2] \in Nat \ {0}
  BY DEF Axes
<1>7. \A v \in Int, n \in Nat \ {0} : ClosestInside(v, n) \in Int
  <2> SUFFICES ASSUME NEW v \in Int, NEW n \in Nat \ {0} PROVE ClosestInside(v, n) \in Int
    OBVIOUS
  <2>1. ClosestInside(v, n) \in 0..(n - 1)
    BY ClampIsClosest, Zenon
  <2> QED BY <2>1
<1>8. PICK x \in Int, y \in Int : point = <<x, y>>
  BY <1>5, <1>6, <1>7
<1> QED BY <1>8 DEF Axes

\* A chain of steps stays in the chain of sets of steps.
LEMMA ChainInSets ==
  ASSUME NEW S, NEW base \in S, NEW n \in Nat, NEW one, NEW all, NEW step, NEW steps,
         Iterates(one, S, base, n, step), Iterates(all, SUBSET S, {base}, n, steps),
         \A k \in 1..n : \A c \in SUBSET S : \A p \in c : step[<<k, p>>] \in steps[<<k, c>>]
  PROVE  one[n] \in all[n]
<1> DEFINE T == {k \in 0..n : one[k] \in all[k]}
<1>1. 0 \in T
  BY DEF Iterates
<1>2. ASSUME NEW k \in 1..n, k - 1 \in T PROVE k \in T
  <2>1. k \in 0..n /\ k - 1 \in 0..n /\ k # 0
    OBVIOUS
  <2>2. one[k] = step[<<k, one[k - 1]>>] /\ all[k] = steps[<<k, all[k - 1]>>]
    BY DEF Iterates
  <2>3. all[k - 1] \in SUBSET S /\ one[k - 1] \in all[k - 1]
    BY <1>2, <2>1 DEF Iterates
  <2> QED BY <2>1, <2>2, <2>3
<1> HIDE DEF T
<1>3. n \in T
  <2>1. \A k \in 1..n : k - 1 \in T => k \in T
    BY <1>2
  <2>2. \A k \in 0..n : k \in T
    BY <1>1, <2>1, StepByStep, Zenon
  <2> QED BY <2>2
<1> QED BY <1>3 DEF T
\* What the provider of a render's flow finds along a chain of frames: the
\* frame's own vectors exactly where they may be followed.
FindsOwn(t, request) ==
    \A k \in 1..ChainLength(request) :
        LET d    == Towards(request)
            f    == Leaving(request, k)
            grid == GridOf(t, d, f)
        IN  /\ Usable(grid) <=> Follows(d, f)
            /\ Follows(d, f) => /\ grid.analysis = filter.analysis[d]
                                /\ grid.vectors = Last(filter.vectors[d][f].levels)
                                /\ grid.vectors \in Fields
                                /\ Len(grid.vectors) = filter.analysis[d].count[1] * filter.analysis[d].count[2]

\* With the frames' own vectors the centre is where the clips' vectors lead.
LEMMA CentreIsReachable ==
  ASSUME scenario \in DOMAIN Scenarios, \A d \in filter.motion : VectorsAccepted(d),
         NEW t, NEW request, request.anchor \in [Axes -> Int], request.patch \in Nat,
         request.size \in [Axes -> Nat \ {0}], request.frame \in Int, request.candidate \in Int,
         FindsOwn(t, request)
  PROVE  CentreOf(t, request) \in Reachable(request)
<1> DEFINE Grid(g) == GridOf(t, Towards(request), g)
           d == Towards(request)
           n == ChainLength(request)
           S == [Axes -> Int]
           from(k) == Grid(Leaving(request, k))
           From(k, point) == StepsFrom(filter.analysis[d], Last(filter.vectors[d][Leaving(request, k)].levels),
                                       point, request.patch, request.size)
           step == [x \in (1..n) \X S |->
                      IF Usable(from(x[1])) THEN Follow(request, from(x[1]), x[2]) ELSE x[2]]
           steps == [x \in (1..n) \X SUBSET S |->
                       IF ~Follows(d, Leaving(request, x[1])) THEN x[2]
                       ELSE UNION {From(x[1], point) : point \in x[2]}]
<1>1. n \in Nat /\ \A k \in 1..n : ChainFrame(request, k) = Leaving(request, k)
  BY DEF ChainLength, Greatest, ChainFrame, Leaving, Towards
<1>2. ASSUME NEW k \in 1..n, NEW p \in S
      PROVE  /\ Usable(from(k)) <=> Follows(d, Leaving(request, k))
             /\ Usable(from(k)) => Follow(request, from(k), p) \in S \cap From(k, p)
  <2>1. Usable(from(k)) <=> Follows(d, Leaving(request, k))
    BY DEF FindsOwn
  <2>2. ASSUME Usable(from(k)) PROVE Follow(request, from(k), p) \in S \cap From(k, p)
    <3> DEFINE a == filter.analysis[d]
               vectors == Last(filter.vectors[d][Leaving(request, k)].levels)
    <3>1. /\ from(k).analysis = a /\ from(k).vectors = vectors /\ vectors \in Fields
          /\ Len(vectors) = a.count[1] * a.count[2]
      BY <2>1, <2>2 DEF FindsOwn
    <3>2. d \in filter.motion
      BY <2>1, <2>2 DEF Follows
    <3>3. a \in Analyses /\ AcceptedAnalysis(a)
      BY <3>2, ClipsAre DEF VectorsAccepted
    <3> HIDE DEF a, vectors, from
    <3>4. /\ Follow(request, from(k), p) \in [Axes -> Int]
          /\ Follow(request, from(k), p) \in StepsFrom(a, vectors, p, request.patch, request.size)
      BY <3>1, <3>3, FollowIsStep
    <3> QED BY <3>4 DEF a, vectors
  <2> QED BY <2>1, <2>2
<1>3. ASSUME NEW k \in 1..n, NEW p \in S PROVE From(k, p) \subseteq S
  BY StepsArePoints
<1> HIDE DEF n, d, from, From
<1>4. step \in [(1..n) \X S -> S] /\ \A k \in 1..n, p \in S :
         step[<<k, p>>] = IF Usable(from(k)) THEN Follow(request, from(k), p) ELSE p
  BY <1>2
<1>5. steps \in [(1..n) \X SUBSET S -> SUBSET S] /\ \A k \in 1..n, c \in SUBSET S :
         steps[<<k, c>>] = IF ~Follows(d, Leaving(request, k)) THEN c
                           ELSE UNION {From(k, point) : point \in c}
  <2>1. ASSUME NEW x \in (1..n) \X SUBSET S
        PROVE  (IF ~Follows(d, Leaving(request, x[1])) THEN x[2]
                ELSE UNION {From(x[1], point) : point \in x[2]}) \in SUBSET S
    BY <1>3
  <2>2. steps \in [(1..n) \X SUBSET S -> SUBSET S]
    BY <2>1
  <2>3. ASSUME NEW k \in 1..n, NEW c \in SUBSET S
        PROVE  steps[<<k, c>>] = IF ~Follows(d, Leaving(request, k)) THEN c
                                 ELSE UNION {From(k, point) : point \in c}
    <3>1. <<k, c>> \in (1..n) \X SUBSET S
      OBVIOUS
    <3> QED BY <3>1
  <2> HIDE DEF steps
  <2> QED BY <2>2, <2>3
<1> HIDE DEF step, steps, S
<1>6. PICK one : Iterates(one, S, request.anchor, n, step)
  <2>1. request.anchor \in S
    BY DEF S
  <2> QED BY <1>1, <1>4, <2>1, StepsExist
<1>7. PICK all : Iterates(all, SUBSET S, {request.anchor}, n, steps)
  <2>1. {request.anchor} \in SUBSET S
    BY DEF S
  <2> QED BY <1>1, <1>5, <2>1, StepsExist
<1>8. one[n] \in all[n]
  <2>1. request.anchor \in S
    BY DEF S
  <2>2. ASSUME NEW k \in 1..n, NEW c \in SUBSET S, NEW p \in c PROVE step[<<k, p>>] \in steps[<<k, c>>]
    <3>1. p \in S
      OBVIOUS
    <3>2. /\ Usable(from(k)) <=> Follows(d, Leaving(request, k))
          /\ Usable(from(k)) => Follow(request, from(k), p) \in From(k, p)
      BY <1>2, <3>1
    <3>3. step[<<k, p>>] = IF Usable(from(k)) THEN Follow(request, from(k), p) ELSE p
      BY <1>4, <3>1
    <3>4. steps[<<k, c>>] = IF ~Follows(d, Leaving(request, k)) THEN c
                            ELSE UNION {From(k, point) : point \in c}
      BY <1>5
    <3> QED BY <3>2, <3>3, <3>4
  <2>3. \A k \in 1..n : \A c \in SUBSET S : \A p \in c : step[<<k, p>>] \in steps[<<k, c>>]
    BY <2>2
  <2> QED BY <1>1, <1>6, <1>7, <2>1, <2>3, ChainInSets
<1>9. CentreOf(t, request) = one[n]
  <2> DEFINE IsCentre(c) == c = [k \in 0..n |->
                 IF k = 0 THEN request.anchor
                 ELSE IF Usable(Grid(ChainFrame(request, k)))
                      THEN Follow(request, Grid(ChainFrame(request, k)), c[k - 1])
                      ELSE c[k - 1]]
             centre == CHOOSE c : IsCentre(c)
  <2>1. IsCentre(one)
    <3>1. ASSUME NEW k \in 0..n, k # 0
          PROVE  one[k] = IF Usable(Grid(ChainFrame(request, k)))
                          THEN Follow(request, Grid(ChainFrame(request, k)), one[k - 1])
                          ELSE one[k - 1]
      <4>1. k \in 1..n /\ k - 1 \in 0..n
        BY <1>1, <3>1
      <4>2. one[k - 1] \in S /\ one[k] = step[<<k, one[k - 1]>>]
        BY <1>6, <4>1 DEF Iterates
      <4>3. one[k] = IF Usable(from(k)) THEN Follow(request, from(k), one[k - 1]) ELSE one[k - 1]
        BY <1>4, <4>1, <4>2
      <4>4. from(k) = Grid(ChainFrame(request, k))
        BY <1>1, <4>1 DEF from
      <4> QED BY <4>3, <4>4
    <3>2. one[0] = request.anchor /\ one = [k \in 0..n |-> one[k]]
      BY <1>6 DEF Iterates
    <3> HIDE DEF Grid
    <3> QED BY <3>1, <3>2
  <2>2. IsCentre(centre)
    BY <2>1
  <2>3. CentreOf(t, request) = centre[n]
    BY DEF CentreOf, CenterFor, n
  <2> DEFINE T == {k \in 0..n : centre[k] = one[k]}
  <2> HIDE DEF Grid, centre
  <2>4. 0 \in T
    BY <1>1, <2>1, <2>2
  <2>5. \A k \in 1..n : k - 1 \in T => k \in T
    <3> SUFFICES ASSUME NEW k \in 1..n, k - 1 \in T PROVE centre[k] = one[k]
      BY <1>1
    <3>1. k \in 0..n /\ k # 0 /\ centre[k - 1] = one[k - 1]
      BY <1>1
    <3> QED BY <2>1, <2>2, <3>1
  <2> HIDE DEF T
  <2>6. n \in T
    <3>1. \A k \in 0..n : k \in T
      BY <1>1, <2>4, <2>5, StepByStep, Zenon
    <3> QED BY <1>1, <3>1
  <2> QED BY <2>3, <2>6 DEF T
<1>10. Reachable(request) = all[n]
  <2> DEFINE IsReached(c) == c = [k \in 0..n |->
                 IF k = 0 THEN {request.anchor}
                 ELSE IF ~Follows(d, Leaving(request, k)) THEN c[k - 1]
                 ELSE UNION {From(k, point) : point \in c[k - 1]}]
             centres == CHOOSE c : IsReached(c)
  <2>1. IsReached(all)
    <3>1. ASSUME NEW k \in 0..n, k # 0
          PROVE  all[k] = IF ~Follows(d, Leaving(request, k)) THEN all[k - 1]
                          ELSE UNION {From(k, point) : point \in all[k - 1]}
      <4>1. k \in 1..n /\ k - 1 \in 0..n
        BY <1>1, <3>1
      <4>2. all[k - 1] \in SUBSET S /\ all[k] = steps[<<k, all[k - 1]>>]
        BY <1>7, <4>1 DEF Iterates
      <4> QED BY <1>5, <4>1, <4>2
    <3>2. all[0] = {request.anchor} /\ all = [k \in 0..n |-> all[k]]
      BY <1>7 DEF Iterates
    <3> QED BY <3>1, <3>2
  <2>2. IsReached(centres)
    BY <2>1
  <2>3. Reachable(request) = centres[n]
    BY DEF Reachable, n, d, From
  <2> DEFINE T == {k \in 0..n : centres[k] = all[k]}
  <2> HIDE DEF centres
  <2>4. 0 \in T
    BY <1>1, <2>1, <2>2
  <2>5. \A k \in 1..n : k - 1 \in T => k \in T
    <3> SUFFICES ASSUME NEW k \in 1..n, k - 1 \in T PROVE centres[k] = all[k]
      BY <1>1
    <3>1. k \in 0..n /\ k # 0 /\ centres[k - 1] = all[k - 1]
      BY <1>1
    <3> QED BY <2>1, <2>2, <3>1
  <2> HIDE DEF T
  <2>6. n \in T
    <3>1. \A k \in 0..n : k \in T
      BY <1>1, <2>4, <2>5, StepByStep, Zenon
    <3> QED BY <1>1, <3>1
  <2> QED BY <2>3, <2>6 DEF T
<1> QED BY <1>8, <1>9, <1>10
-----------------------------------------------------------------------------
(* A render whose grids are built finds its frames' own vectors. *)

\* A render that builds grids is of an anchor's frame, inside its window.
LEMMA WindowOfRender ==
  ASSUME StageInv, NEW t \in Threads, Rendering(t), Built(t) # <<>>
  PROVE  LET f == render[t].frame
             window == SearchWindow(filter.p, f)
             range == RequiredFrames(f)
         IN  /\ Built(t) = Motion /\ filter.kind # "Aggregate"
             /\ f \in Nat /\ f \in window.low..window.high
             /\ window.low \in Nat /\ window.high \in Nat
             /\ range.first = window.low /\ window.high <= range.last
             /\ range.last \in Nat /\ range.last < filter.p.frames
<1> DEFINE f == render[t].frame
           p == filter.p
<1>1. /\ f \in Frames /\ ValidParameters(p) /\ scenario \in DOMAIN Scenarios
  BY OutTaken DEF StageInv
<1>2. Built(t) = Motion /\ RequestedFrames(f) # {}
  BY DEF Built
<1>3. filter.kind # "Aggregate"
  <2>1. Len(Motion) # 0
    BY <1>2, MotionIs
  <2>2. \E d : d \in filter.motion
    BY <2>1, MotionIs
  <2> QED BY <1>1, <2>2, FilterIs
<1>4. f \in Nat /\ f < p.frames /\ p.frames \in Nat /\ p.pt \in Nat /\ p.pt >= 1 /\ p.bwd \in Nat /\ p.fwd \in Nat
  BY <1>1 DEF Frames, ValidParameters
<1>5. f <= p.frames - p.pt
  <2> SUFFICES ASSUME f > p.frames - p.pt PROVE FALSE
    BY <1>4
  <2>1. RequiredFrames(f).first = 0 /\ RequiredFrames(f).last = -1
    BY DEF RequiredFrames
  <2>2. RequiredFrames(f).first..RequiredFrames(f).last = {}
    BY <2>1
  <2>3. RequestedFrames(f) = {}
    BY <1>3, <2>2 DEF RequestedFrames
  <2> QED BY <1>2, <2>3
<1>6. /\ RequiredFrames(f).first = SearchWindow(p, f).low
      /\ RequiredFrames(f).last = SearchWindow(p, f).high + p.pt - 1
  BY <1>4, <1>5 DEF RequiredFrames, AnchorSourceRange
<1>7. /\ SearchWindow(p, f).low \in Nat /\ SearchWindow(p, f).high \in Nat
      /\ f \in SearchWindow(p, f).low..SearchWindow(p, f).high
      /\ SearchWindow(p, f).high <= p.frames - p.pt
  <2> HIDE DEF f, p
  <2>1. PICK top \in Nat, b \in Nat, w \in Nat : top = p.frames - p.pt /\ b = p.bwd /\ w = p.fwd
    BY <1>4, <1>5
  <2>2. ValidAnchorFrames(p) - 1 = top /\ f <= top
    BY <1>4, <1>5, <2>1 DEF ValidAnchorFrames
  <2>3. Shift(p, f) = Least(0, f - b) + Greatest(0, f + w - top)
    BY <2>1, <2>2 DEF Shift
  <2>4. /\ SearchWindow(p, f).low = Greatest(0, f - b - Shift(p, f))
        /\ SearchWindow(p, f).high = Least(top, f + w - Shift(p, f))
    BY <2>1, <2>2 DEF SearchWindow
  <2>5. PICK s \in Int : s = Shift(p, f)
    BY <1>4, <2>3 DEF Least, Greatest
  <2>6. f - b <= f + w - s /\ f - b - s <= f + w - s /\ top \in Nat
        /\ (f - b - s <= f \/ s = f - b) /\ (f <= f + w - s \/ s = f + w - top)
        /\ f - b - s <= f /\ f <= f + w - s
    BY <1>4, <2>2, <2>3, <2>5 DEF Least, Greatest
  <2>7. PICK low \in Int, high \in Int : low = f - b - s /\ high = f + w - s
    BY <1>4, <2>5
  <2>8. low <= f /\ f <= high
    BY <2>6, <2>7
  <2>9. /\ Greatest(0, low) \in Nat /\ Greatest(0, low) <= f
        /\ Least(top, high) \in Nat /\ f <= Least(top, high) /\ Least(top, high) <= top
    BY <1>4, <2>2, <2>8 DEF Least, Greatest
  <2>10. SearchWindow(p, f).low = Greatest(0, low) /\ SearchWindow(p, f).high = Least(top, high)
    BY <2>4, <2>5, <2>7
  <2> QED BY <1>4, <2>1, <2>9, <2>10
<1> HIDE DEF f, p
<1>8. RequiredFrames(f).last \in Nat /\ SearchWindow(p, f).high <= RequiredFrames(f).last
      /\ RequiredFrames(f).last < p.frames
  BY <1>4, <1>6, <1>7
<1> QED BY <1>2, <1>3, <1>4, <1>6, <1>7, <1>8 DEF f, p

\* What a kept grid says of its frame.
LEMMA ParsingIs ==
  ASSUME NEW d, NEW entry \in Parsings(d)
  PROVE  LET f == entry.frame
         IN  /\ f \in Frames /\ entry.from = f
             /\ ~Malformed(filter.vectors[d][f], filter.analysis[d])
             /\ entry.valid <=> filter.vectors[d][f].flag = 1 /\ ~SceneChange(d, f)
<1>1. PICK f \in Frames : entry = Parsing(d, f) /\ ~Malformed(filter.vectors[d][f], filter.analysis[d])
  BY DEF Parsings
<1>2. entry.frame = f /\ entry.from = f
      /\ (entry.valid <=> filter.vectors[d][f].flag = 1 /\ ~SceneChange(d, f))
  BY <1>1 DEF Parsing
<1> QED BY <1>1, <1>2

\* What a render finds for a frame of its window.
LEMMA GridOfFrame ==
  ASSUME StageInv, MotionInv, NEW t \in Threads, Ready(t), Built(t) # <<>>,
         NEW d \in {"mvfw", "mvbw"},
         NEW f \in RequiredFrames(render[t].frame).first..RequiredFrames(render[t].frame).last
  PROVE  LET grid == GridOf(t, d, f)
         IN  /\ Usable(grid) <=> Follows(d, f)
             /\ Follows(d, f) => /\ grid.analysis = filter.analysis[d]
                                 /\ grid.vectors = Last(filter.vectors[d][f].levels)
                                 /\ grid.vectors \in Fields
                                 /\ Len(grid.vectors) = filter.analysis[d].count[1] * filter.analysis[d].count[2]
<1>1. scenario \in DOMAIN Scenarios /\ Rendering(t)
  BY DEF StageInv, Ready
<1>2. CASE d \notin filter.motion
  BY <1>2 DEF GridOf, UnusableGrid, Usable, Follows
<1>3. CASE d \in filter.motion
  <2> DEFINE first == RequiredFrames(render[t].frame).first
             last == RequiredFrames(render[t].frame).last
             rows == Rows(render[t].frame)
             grid == data[t].grids[d]
             cache == data[t].cache[d]
             local == f - first + 1
  <2>1. /\ first \in Nat /\ last \in Nat /\ rows = last - first + 1 /\ local \in 1..rows
        /\ Built(t) = Motion
    BY <1>1, WindowOfRender DEF Rows
  <2>2. PICK k \in 1..Len(Motion) : Motion[k] = d
    BY <1>3, MotionIs
  <2>3. k \in 1..render[t].built
    BY <2>1, <2>2 DEF Ready
  <2>4. PointsTo(grid, cache, first, rows)
    BY <1>1, <2>2, <2>3 DEF MotionInv, MotionOf, GridsOf
  <2>5. cache \in Seq(Parsings(d))
    BY <1>3 DEF MotionInv, MotionOf, CachesOf
  <2> HIDE DEF first, last, rows, grid, cache
  <2>6. DOMAIN grid = 1..rows /\ grid[local] \in 1..Len(cache) /\ cache[grid[local]].frame = f
    BY <2>1, <2>4 DEF PointsTo
  <2>7. grid[local] \in DOMAIN cache
    BY <2>5, <2>6
  <2>8. PICK entry \in Parsings(d) : entry = cache[grid[local]] /\ entry.frame = f
    BY <2>5, <2>6
  <2>9. /\ f \in Frames /\ entry.from = f
        /\ ~Malformed(filter.vectors[d][f], filter.analysis[d])
        /\ entry.valid <=> filter.vectors[d][f].flag = 1 /\ ~SceneChange(d, f)
    BY <2>8, ParsingIs
  <2>10. entry.valid <=> Follows(d, f)
    BY <1>3, <2>9 DEF Follows, SceneChange
  <2>11. GridOf(t, d, f) = [ParsedVectors(filter.vectors[d][f], filter.analysis[d]) EXCEPT !.valid = entry.valid]
    <3>1. d \in filter.motion /\ local \in DOMAIN grid /\ grid[local] \in DOMAIN cache
      BY <1>3, <2>1, <2>6, <2>7
    <3>2. GridOf(t, d, f) = [ParsedVectors(filter.vectors[d][cache[grid[local]].from], filter.analysis[d])
                               EXCEPT !.valid = cache[grid[local]].valid]
      BY <3>1 DEF GridOf, DataOf, first, grid, cache
    <3> QED BY <2>8, <2>9, <3>2
  <2>12. /\ GridOf(t, d, f).valid = entry.valid
         /\ GridOf(t, d, f).analysis = filter.analysis[d]
         /\ GridOf(t, d, f).vectors = ParsedVectors(filter.vectors[d][f], filter.analysis[d]).vectors
    BY <2>11 DEF ParsedVectors
  <2>13. instance.phase = "live"
    <3>1. context[render[t].frame] = Asked(render[t].frame) /\ render[t].frame \in Frames
      BY <1>1, OutTaken DEF StageInv, Flights
    <3> QED BY <3>1 DEF StageInv, Flights, Asked
  <2>14. VectorsAccepted(d)
    BY <1>3, <2>13 DEF MotionInv, VectorsFit
  <2>15. CASE ~Follows(d, f)
    BY <2>10, <2>12, <2>15 DEF Usable
  <2>16. CASE Follows(d, f)
    <3>1. filter.vectors[d][f].flag = 1
      BY <2>16 DEF Follows
    <3> DEFINE vectors == Last(filter.vectors[d][f].levels)
    <3>2. /\ vectors \in Fields /\ vectors # <<>>
          /\ Len(vectors) = filter.analysis[d].count[1] * filter.analysis[d].count[2]
          /\ vectors = ParsedVectors(filter.vectors[d][f], filter.analysis[d]).vectors
      BY <1>1, <1>3, <2>9, <2>14, <3>1, VectorsOfFrame
    <3> HIDE DEF vectors
    <3>3. GridOf(t, d, f).vectors = vectors
      BY <2>12, <3>2
    <3>4. Usable(GridOf(t, d, f))
      BY <2>10, <2>12, <2>16, <3>2, <3>3 DEF Usable
    <3> QED BY <2>12, <2>16, <3>2, <3>3, <3>4 DEF vectors
  <2> QED BY <2>15, <2>16
<1> QED BY <1>2, <1>3

\* The invariants give the property of the motion.
LEMMA InvGivesMotion == StageInv /\ MotionInv => MotionIsOfItsOwnFrames
<1> SUFFICES ASSUME StageInv, MotionInv, NEW t \in Threads, Ready(t), Built(t) # <<>>,
                    NEW candidate \in SearchWindow(filter.p, render[t].frame).low
                                      ..SearchWindow(filter.p, render[t].frame).high,
                    NEW anchor \in filter.anchors
             PROVE  LET request == [anchor |-> anchor, frame |-> render[t].frame, candidate |-> candidate,
                                    patch |-> filter.patch, size |-> filter.size]
                    IN  CentreOf(t, request) \in Reachable(request)
  BY DEF MotionIsOfItsOwnFrames
<1> DEFINE request == [anchor |-> anchor, frame |-> render[t].frame, candidate |-> candidate,
                       patch |-> filter.patch, size |-> filter.size]
<1>1. scenario \in DOMAIN Scenarios /\ Rendering(t)
  BY DEF StageInv, Ready
<1>2. instance.phase = "live"
  <2>1. context[render[t].frame] = Asked(render[t].frame) /\ render[t].frame \in Frames
    BY <1>1, OutTaken DEF StageInv, Flights
  <2> QED BY <2>1 DEF StageInv, Flights, Asked
<1>3. \A d \in filter.motion : VectorsAccepted(d)
  BY <1>2 DEF MotionInv, VectorsFit
<1>4. /\ request.anchor = anchor /\ request.frame = render[t].frame /\ request.candidate = candidate
      /\ request.patch = filter.patch /\ request.size = filter.size
  OBVIOUS
<1>5. PICK f \in Nat : f = render[t].frame
  BY <1>1, WindowOfRender
<1>6. /\ f \in RequiredFrames(f).first..RequiredFrames(f).last
      /\ candidate \in RequiredFrames(f).first..RequiredFrames(f).last
      /\ candidate \in Int /\ RequiredFrames(f).first \in Nat /\ RequiredFrames(f).last \in Nat
  BY <1>1, <1>5, WindowOfRender
<1> HIDE DEF request
<1>7. FindsOwn(t, request)
  <2> SUFFICES ASSUME NEW k \in 1..ChainLength(request)
               PROVE  /\ Towards(request) \in {"mvfw", "mvbw"}
                      /\ Leaving(request, k) \in RequiredFrames(f).first..RequiredFrames(f).last
    BY <1>5, GridOfFrame DEF FindsOwn
  <2>1. Leaving(request, k) \in RequiredFrames(f).first..RequiredFrames(f).last
    BY <1>4, <1>5, <1>6 DEF Leaving, Towards, ChainLength, Greatest
  <2> QED BY <2>1 DEF Towards
<1>8. /\ request.anchor \in [Axes -> Int] /\ request.patch \in Nat /\ request.size \in [Axes -> Nat \ {0}]
      /\ request.frame \in Int /\ request.candidate \in Int
  BY <1>1, <1>4, <1>5, <1>6, ClipsAre
<1>9. CentreOf(t, request) \in Reachable(request)
  BY <1>1, <1>3, <1>7, <1>8, CentreIsReachable
<1> QED BY <1>9 DEF request
-----------------------------------------------------------------------------
(* The order in which a render takes its frames. *)

\* How many of the frames taken fall to the j-th of n nodes.
LEMMA TakenInTurn ==
  ASSUME NEW n \in 1..4, NEW j \in 1..n, NEW m \in Nat \ {0}
  PROVE  /\ (m + n - 1 - j) \div n \in Nat
         /\ (1 + n - 1 - j) \div n = 0
         /\ j = ((m - 1) % n) + 1 => /\ (m - 1) \div n = (m + n - 1 - j) \div n
                                     /\ (m + 1 + n - 1 - j) \div n = (m + n - 1 - j) \div n + 1
         /\ j # ((m - 1) % n) + 1 => (m + 1 + n - 1 - j) \div n = (m + n - 1 - j) \div n
         /\ \A rows \in Nat : (1 + n * rows + n - 1 - j) \div n = rows
<1>1. CASE n = 1 BY <1>1
<1>2. CASE n = 2
  <2>1. j = 1 \/ j = 2 BY <1>2
  <2> QED BY <1>2, <2>1
<1>3. CASE n = 3
  <2>1. j = 1 \/ j = 2 \/ j = 3 BY <1>3
  <2> QED BY <1>3, <2>1
<1>4. CASE n = 4
  <2>1. j = 1 \/ j = 2 \/ j = 3 \/ j = 4 BY <1>4
  <2> QED BY <1>4, <2>1
<1> QED BY <1>1, <1>2, <1>3, <1>4

\* The clip is the first node, and each vector clip is one of them.
LEMMA NodesOfMotion ==
  ASSUME scenario \in DOMAIN Scenarios
  PROVE  /\ NodeOrder[1] = "clip" /\ 1 \in 1..Len(NodeOrder)
         /\ \A d \in filter.motion : \E j \in 1..Len(NodeOrder) : NodeOrder[j] = d
<1>0. Motion \in Seq({"mvfw", "mvbw"}) /\ Len(Motion) \in Nat
  BY MotionIs
<1>1. CASE filter.kind = "Basic"
  <2>1. NodeOrder = <<"clip">> \o Motion
    BY <1>1 DEF NodeOrder
  <2>2. /\ NodeOrder[1] = "clip" /\ Len(NodeOrder) = 1 + Len(Motion)
        /\ \A i \in 1..Len(Motion) : NodeOrder[i + 1] = Motion[i] /\ i + 1 \in 1..Len(NodeOrder)
    BY <1>0, <2>1
  <2> QED BY <1>0, <2>2, MotionIs, FilterIs
<1>2. CASE filter.kind = "Final"
  <2>1. NodeOrder = <<"clip", "ref">> \o Motion
    BY <1>2 DEF NodeOrder
  <2>2. /\ NodeOrder[1] = "clip" /\ Len(NodeOrder) = 2 + Len(Motion)
        /\ \A i \in 1..Len(Motion) : NodeOrder[i + 2] = Motion[i] /\ i + 2 \in 1..Len(NodeOrder)
    BY <1>0, <2>1
  <2> QED BY <1>0, <2>2, MotionIs, FilterIs
<1>3. CASE filter.kind = "Aggregate"
  <2>1. NodeOrder = <<"clip", "src">>
    BY <1>3 DEF NodeOrder
  <2> QED BY <1>3, <2>1, FilterIs
<1> QED BY <1>1, <1>2, <1>3, FilterIs

-----------------------------------------------------------------------------
(* Steps that leave a thread's buffers. *)

\* What the filter is made of does not change.
LEMMA SameMotion ==
  ASSUME scenario' = scenario
  PROVE  /\ filter' = filter /\ Motion' = Motion /\ NodeOrder' = NodeOrder
         /\ \A d : VectorsAccepted(d)' <=> VectorsAccepted(d)
         /\ \A d : Parsings(d)' = Parsings(d)
         /\ \A f : RequiredFrames(f)' = RequiredFrames(f) /\ Rows(f)' = Rows(f)
         /\ \A j, m : TakenOf(j, m)' = TakenOf(j, m)
<1>1. filter' = filter /\ NodeOrder' = NodeOrder /\ Frames' = Frames
  BY SameFilter
<1>2. Motion' = Motion
  BY <1>1 DEF Motion, Given
<1>3. \A d : VectorsAccepted(d)' <=> VectorsAccepted(d)
  BY <1>1 DEF VectorsAccepted, AcceptedAnalysis, FitsClip, Axes
<1>4. \A d, f : Parsing(d, f)' = Parsing(d, f)
  BY <1>1 DEF Parsing, SceneChange
<1>5. \A d, f : Malformed(filter.vectors[d][f], filter.analysis[d])'
                  <=> Malformed(filter.vectors[d][f], filter.analysis[d])
  BY <1>1 DEF Malformed
<1>6. ASSUME NEW d PROVE Parsings(d)' = Parsings(d)
  BY <1>1, <1>4, <1>5 DEF Parsings
<1>7. ASSUME NEW f PROVE RequiredFrames(f)' = RequiredFrames(f)
  BY <1>1 DEF RequiredFrames, AnchorSourceRange, SearchWindow, Shift, ValidAnchorFrames, Least, Greatest
<1>8. ASSUME NEW f PROVE Rows(f)' = Rows(f)
  BY <1>7 DEF Rows
<1>9. ASSUME NEW j, NEW m PROVE TakenOf(j, m)' = TakenOf(j, m)
  BY <1>1 DEF TakenOf
<1> QED BY <1>1, <1>2, <1>3, <1>6, <1>7, <1>8, <1>9

\* A step that does not touch a thread.
LEMMA ThreadStays ==
  ASSUME scenario' = scenario, NEW t, render'[t] = render[t], data'[t] = data[t], MotionOf(t)
  PROVE  MotionOf(t)'
<1>1. Rendering(t)' <=> Rendering(t)
  BY DEF Rendering, Idle
<1>2. CachesOf(t)'
  BY SameMotion DEF MotionOf, CachesOf
<1>3. ListsOf(t)'
  BY <1>1, SameMotion DEF MotionOf, ListsOf
<1>4. Built(t)' = Built(t) /\ (Done(t)' <=> Done(t))
  BY SameMotion, SameFilter DEF Built, Done
<1>5. GridsOf(t)'
  BY <1>1, <1>4, SameMotion DEF MotionOf, GridsOf, PointsTo
<1> QED BY <1>2, <1>3, <1>5 DEF MotionOf

\* The vector clips stay accepted.
LEMMA VectorsStayFit ==
  ASSUME scenario' = scenario, VectorsFit, instance'.phase = "live" => instance.phase = "live"
  PROVE  VectorsFit'
  BY SameMotion DEF VectorsFit

\* A step that only one thread takes.
LEMMA OneThreadMoves ==
  ASSUME StageInv, MotionInv, scenario' = scenario, instance' = instance, NEW t \in Threads,
         \A u \in Threads \ {t} : render'[u] = render[u] /\ data'[u] = data[u],
         MotionOf(t)'
  PROVE  MotionInv'
<1>1. VectorsFit'
  BY VectorsStayFit DEF MotionInv
<1>2. \A u \in Threads \ {t} : MotionOf(u)'
  BY ThreadStays DEF MotionInv
<1> QED BY <1>1, <1>2, SameFilter DEF MotionInv

\* A thread without render needs only its caches.
LEMMA IdleThread ==
  ASSUME NEW t, CachesOf(t), ~Rendering(t)
  PROVE  MotionOf(t)
  BY DEF MotionOf, ListsOf, GridsOf

\* Empty buffers.
LEMMA EmptyCaches ==
  ASSUME NEW t, data[t] = EmptyData
  PROVE  CachesOf(t)
  BY EmptySeq DEF EmptyData, CachesOf

\* At first every buffer is empty.
LEMMA InitMotion == StageInit => MotionInv
  BY IdleThread, EmptyCaches DEF StageInit, MotionInv, VectorsFit, Rendering
-----------------------------------------------------------------------------
(* Steps of the filter and of a render, but for its grids. *)

\* Creation, end, requests and failed inputs.
LEMMA InstanceKeepsMotion ==
  ASSUME StageInv, MotionInv,
         \/ TakeNode \/ RefuseCreation \/ CreateFilter \/ FreeFilter
         \/ \E f \in Frames : RequestFrames(f) \/ InputFailed(f)
  PROVE  MotionInv'
<1>1. scenario' = scenario /\ render' = render
  BY DEF TakeNode, RefuseCreation, CreateFilter, FreeFilter, inputVars, RequestFrames, InputFailed
<1>2. VectorsFit'
  <2>1. CASE CreateFilter
    BY <1>1, <2>1, SameMotion DEF CreateFilter, VectorsFit
  <2>2. CASE ~CreateFilter
    <3>1. instance'.phase = "live" => instance.phase = "live"
      BY <2>2 DEF TakeNode, RefuseCreation, FreeFilter, RequestFrames, InputFailed, StageInv, Ownership
    <3> QED BY <1>1, <3>1, VectorsStayFit DEF MotionInv
  <2> QED BY <2>1, <2>2
<1>3. Threads' = Threads
  BY <1>1, SameFilter
<1>4. CASE FreeFilter
  <2>1. ASSUME NEW t \in Threads PROVE MotionOf(t)'
    <3>1. data'[t] = EmptyData' /\ ~Rendering(t)'
      BY <1>1, <1>4, SameFilter DEF FreeFilter, Rendering, Idle
    <3>2. CachesOf(t)'
      BY <3>1, EmptySeq DEF EmptyData, CachesOf
    <3> QED BY <3>1, <3>2 DEF MotionOf, ListsOf, GridsOf
  <2> QED BY <1>2, <1>3, <2>1 DEF MotionInv
<1>5. CASE ~FreeFilter
  <2>1. data' = data
    BY <1>5 DEF TakeNode, RefuseCreation, CreateFilter, inputVars, RequestFrames, InputFailed
  <2>2. \A t \in Threads : MotionOf(t)'
    BY <1>1, <2>1, ThreadStays DEF MotionInv
  <2> QED BY <1>2, <1>3, <2>2 DEF MotionInv
<1> QED BY <1>4, <1>5

\* A render begins with empty lists and no grids.
LEMMA BeginKeepsMotion ==
  ASSUME StageInv, MotionInv, NEW t \in Threads, NEW f \in Frames,
         RenderWithoutInput(t, f) \/ RenderFrame(t, f)
  PROVE  MotionInv'
<1>1. scenario' = scenario /\ instance' = instance /\ Begin(t, f)
  BY DEF RenderWithoutInput, RenderFrame
<1>2. DOMAIN data = Threads /\ DOMAIN render = Threads /\ DOMAIN data[t] = {"lists", "cache", "grids"}
  BY DEF StageInv, Lists, Flights
<1>3. /\ render'[t] = [frame |-> f, taken |-> 0, built |-> 0]
      /\ data'[t] = [data[t] EXCEPT !.lists = EmptyData.lists]
      /\ \A u \in Threads \ {t} : render'[u] = render[u] /\ data'[u] = data[u]
  BY <1>1, <1>2 DEF Begin, DataOf
<1>4. data'[t].cache = data[t].cache /\ data'[t].grids = data[t].grids /\ data'[t].lists = EmptyData.lists
      /\ render'[t].taken = 0 /\ render'[t].built = 0
  BY <1>2, <1>3
<1>5. CachesOf(t)'
  BY <1>1, <1>4, SameMotion DEF MotionInv, MotionOf, CachesOf
<1>6. ListsOf(t)'
  <2> SUFFICES ASSUME NEW j \in 1..Len(NodeOrder)
               PROVE  Len(data'[t].lists[NodeOrder[j]]) = 0
    BY <1>1, <1>4, SameMotion DEF ListsOf, TakenOf
  <2>1. NodeOrder[j] \in AllNodes
    BY NodeOrderIs DEF StageInv
  <2> QED BY <1>4, <2>1, EmptyLists
<1>7. GridsOf(t)'
  <2>1. Len(Built(t)') \in Nat
    BY <1>1, SameMotion, MotionIs DEF Built
  <2> QED BY <1>4, <2>1 DEF GridsOf
<1> QED BY <1>1, <1>3, <1>5, <1>6, <1>7, OneThreadMoves DEF MotionOf

\* A render ends and leaves its caches.
LEMMA LeaveKeepsMotion ==
  ASSUME StageInv, MotionInv, NEW t \in Threads, NEW own, NEW out, Leave(t, own, out),
         DOMAIN own = {"lists", "cache", "grids"},
         DOMAIN own.cache = filter.motion, DOMAIN own.grids = filter.motion,
         \A d \in filter.motion : own.cache[d] \in Seq(Parsings(d))
  PROVE  MotionInv'
<1>1. scenario' = scenario /\ instance' = instance
  BY DEF Leave
<1>2. DOMAIN data = Threads /\ DOMAIN render = Threads
  BY DEF StageInv, Lists, Flights
<1>3. /\ render'[t] = Idle /\ data'[t] = [own EXCEPT !.lists = EmptyData.lists]
      /\ \A u \in Threads \ {t} : render'[u] = render[u] /\ data'[u] = data[u]
  BY <1>2 DEF Leave, DataOf
<1>4. data'[t].cache = own.cache /\ data'[t].grids = own.grids
  BY <1>3
<1>5. CachesOf(t)'
  BY <1>1, <1>4, SameMotion DEF CachesOf
<1>6. ~Rendering(t)'
  BY <1>3 DEF Rendering, Idle
<1>7. MotionOf(t)'
  BY <1>5, <1>6 DEF MotionOf, ListsOf, GridsOf
<1> QED BY <1>1, <1>3, <1>7, OneThreadMoves

\* A render that fails or delivers leaves the caches as they are.
LEMMA LeaveAsIs ==
  ASSUME StageInv, MotionInv, NEW t \in Threads, NEW out, Leave(t, data[t], out)
  PROVE  MotionInv'
<1>1. DOMAIN data[t] = {"lists", "cache", "grids"}
  BY DEF StageInv, Lists
<1>2. CachesOf(t)
  BY DEF MotionInv, MotionOf
<1> QED BY <1>1, <1>2, LeaveKeepsMotion DEF CachesOf

\* A frame is taken, in its turn.
LEMMA TakeKeepsMotion ==
  ASSUME StageInv, MotionInv, NEW t \in Threads, TakeFrame(t)
  PROVE  MotionInv'
<1> DEFINE f == render[t].frame
           m == render[t].taken
           item == TakenFrame(f, m + 1)
<1>1. Rendering(t) /\ ~Done(t) /\ scenario' = scenario /\ instance' = instance
  BY DEF TakeFrame
<1>2. /\ f \in Frames /\ m \in Nat /\ m + 1 \in 1..TakenCount(f)
      /\ ValidParameters(filter.p) /\ scenario \in DOMAIN Scenarios
      /\ DOMAIN render = Threads /\ DOMAIN data = Threads
      /\ render[t] \in [frame : Frames, taken : Nat, built : Nat]
      /\ DOMAIN data[t] = {"lists", "cache", "grids"} /\ data[t].lists \in [AllNodes -> Seq(Int)]
  BY <1>1, OutTaken DEF Done, StageInv, Flights, Lists, Rendering
<1>3. /\ render'[t] = [render[t] EXCEPT !.taken = @ + 1]
      /\ \A u \in Threads \ {t} : render'[u] = render[u] /\ data'[u] = data[u]
  BY <1>2 DEF TakeFrame, DataOf
<1>4. render'[t].frame = f /\ render'[t].taken = m + 1 /\ render'[t].built = render[t].built
  BY <1>2, <1>3
<1>5. render[t].built = 0
  BY <1>1, <1>2 DEF MotionInv, MotionOf, GridsOf
<1>6. IF item = Out THEN data'[t] = data[t]
      ELSE data'[t] = [data[t] EXCEPT !.lists[item[1]] = Append(@, item[2])]
  BY <1>2 DEF TakeFrame, DataOf
<1>7. /\ data'[t].cache = data[t].cache /\ data'[t].grids = data[t].grids
      /\ data'[t].lists = IF item = Out THEN data[t].lists
                          ELSE [data[t].lists EXCEPT ![item[1]] = Append(@, item[2])]
  BY <1>2, <1>6
<1>8. CachesOf(t)'
  BY <1>1, <1>7, SameMotion DEF MotionInv, MotionOf, CachesOf
<1>9. GridsOf(t)'
  <2>1. Len(Built(t)') \in Nat
    BY <1>1, SameMotion, MotionIs DEF Built
  <2> QED BY <1>4, <1>5, <2>1 DEF GridsOf
<1>10. ASSUME filter.kind # "Aggregate", NEW j \in 1..Len(NodeOrder)
       PROVE  /\ Len(data'[t].lists[NodeOrder[j]]) = TakenOf(j, m + 1)
              /\ \A k \in 1..Len(data'[t].lists[NodeOrder[j]]) :
                    data'[t].lists[NodeOrder[j]][k] = RequiredFrames(f).first + k - 1
  <2> DEFINE n == Len(NodeOrder)
             list == data[t].lists[NodeOrder[j]]
             first == RequiredFrames(f).first
  <2>1. n \in 1..4 /\ NodeOrder[j] \in AllNodes /\ \A i \in 1..n : NodeOrder[i] = NodeOrder[j] => i = j
    <3>1. /\ NodeOrder \in Seq(AllNodes) /\ Len(NodeOrder) \in 1..4
          /\ \A i, k \in 1..Len(NodeOrder) : NodeOrder[i] = NodeOrder[k] => i = k
      BY <1>2, NodeOrderIs
    <3>2. NodeOrder[j] \in AllNodes
      BY <3>1
    <3> QED BY <3>1, <3>2
  <2>2. /\ list \in Seq(Int) /\ Len(list) = TakenOf(j, m)
        /\ \A k \in 1..Len(list) : list[k] = first + k - 1
    BY <1>1, <1>2, <1>10, <2>1 DEF MotionInv, MotionOf, ListsOf
  <2>3. CASE m = 0
    <3>1. item = Out
      BY <1>10, <2>3 DEF TakenFrame
    <3>2. TakenOf(j, m) = 0 /\ TakenOf(j, m + 1) = 0
      <4>1. (1 + n - 1 - j) \div n = 0
        BY <2>1, TakenInTurn
      <4> QED BY <2>3, <4>1 DEF TakenOf
    <3> QED BY <1>7, <2>2, <3>1, <3>2
  <2>4. CASE m # 0
    <3> DEFINE p == ((m - 1) % n) + 1
               row == (m - 1) \div n
    <3>1. item = <<NodeOrder[p], first + row>>
      <4>1. m + 1 # 1 /\ (m + 1) - 2 = m - 1
        BY <1>2, <2>4
      <4> QED BY <1>10, <4>1 DEF TakenFrame
    <3>2. TakenOf(j, m) = (m + n - 1 - j) \div n /\ TakenOf(j, m + 1) = (m + 1 + n - 1 - j) \div n
      BY <1>2, <2>4 DEF TakenOf
    <3>3. p \in 1..n
      <4>1. m - 1 \in Nat
        BY <1>2, <2>4
      <4>2. (m - 1) % n \in 0..(n - 1)
        BY <2>1, <4>1, Places
      <4> QED BY <2>1, <4>2
    <3>4. m \in Nat \ {0}
      BY <1>2, <2>4
    <3>8. /\ j = p => row = TakenOf(j, m) /\ TakenOf(j, m + 1) = TakenOf(j, m) + 1
          /\ j # p => TakenOf(j, m + 1) = TakenOf(j, m)
      <4>1. j \in 1..n
        OBVIOUS
      <4> HIDE DEF n, m
      <4>2. /\ j = ((m - 1) % n) + 1 => /\ (m - 1) \div n = (m + n - 1 - j) \div n
                                        /\ (m + 1 + n - 1 - j) \div n = (m + n - 1 - j) \div n + 1
            /\ j # ((m - 1) % n) + 1 => (m + 1 + n - 1 - j) \div n = (m + n - 1 - j) \div n
        BY <2>1, <3>4, <4>1, TakenInTurn
      <4> QED BY <3>2, <4>2
    <3> HIDE DEF n, list, first, item, p, row
    <3>5. item # Out
      <4>1. NodeOrder[p] \in AllNodes
        BY <1>2, <3>3, NodeOrderIs DEF n
      <4> QED BY <3>1, <4>1 DEF Out, AllNodes
    <3>6. CASE p = j
      <4>1. row = TakenOf(j, m) /\ TakenOf(j, m + 1) = TakenOf(j, m) + 1
        BY <3>6, <3>8
      <4>2. data'[t].lists[NodeOrder[j]] = Append(list, first + row)
        BY <1>2, <1>7, <2>1, <3>1, <3>5, <3>6 DEF list
      <4>3. first + row \in Int /\ row = Len(list)
        <5>1. f \in Frames /\ first \in Nat
          BY <1>2, RangeOfFrame DEF first
        <5> QED BY <2>2, <4>1, <5>1
      <4>4. /\ Len(Append(list, first + row)) = Len(list) + 1
            /\ \A k \in 1..(Len(list) + 1) :
                  Append(list, first + row)[k] = IF k <= Len(list) THEN list[k] ELSE first + row
        BY <2>2, <4>3, AppendProperties
      <4>5. \A k \in 1..(Len(list) + 1) : Append(list, first + row)[k] = first + k - 1
        BY <2>2, <4>3, <4>4
      <4> QED BY <2>2, <4>1, <4>2, <4>4, <4>5 DEF first
    <3>7. CASE p # j
      <4>1. TakenOf(j, m + 1) = TakenOf(j, m)
        BY <3>7, <3>8
      <4>2. NodeOrder[p] # NodeOrder[j]
        BY <2>1, <3>3, <3>7
      <4>3. data'[t].lists[NodeOrder[j]] = list
        BY <1>2, <1>7, <2>1, <3>1, <3>5, <4>2 DEF list
      <4> QED BY <2>2, <4>1, <4>3 DEF first
    <3> QED BY <3>6, <3>7
  <2> QED BY <2>3, <2>4
<1>11. ListsOf(t)'
  BY <1>1, <1>4, <1>10, SameMotion DEF ListsOf
<1> QED BY <1>1, <1>3, <1>8, <1>9, <1>11, OneThreadMoves DEF MotionOf
-----------------------------------------------------------------------------
(* Building the grids of a direction. *)

\* Pruning keeps entries.
LEMMA PrunedIs ==
  ASSUME NEW E, NEW cache \in Seq(E), NEW range
  PROVE  Pruned(cache, range) \in Seq(E)
<1> DEFINE n == Len(cache)
           S == Seq(E)
           Kept(i, c) == IF cache[i].frame \in range.first..range.last THEN Append(c, cache[i]) ELSE c
           step == [x \in (1..n) \X S |-> Kept(x[1], x[2])]
           IsKept(k) == k = [i \in 0..n |-> IF i = 0 THEN <<>>
                                            ELSE IF cache[i].frame \in range.first..range.last
                                                 THEN Append(k[i - 1], cache[i])
                                                 ELSE k[i - 1]]
           kept == CHOOSE k : IsKept(k)
<1>1. n \in Nat /\ <<>> \in S
  OBVIOUS
<1>2. \A i \in 1..n, c \in S : Kept(i, c) \in S
  OBVIOUS
<1>3. step \in [(1..n) \X S -> S] /\ \A i \in 1..n, c \in S : step[<<i, c>>] = Kept(i, c)
  BY <1>2
<1> HIDE DEF n, S, step
<1>4. PICK h : Iterates(h, S, <<>>, n, step)
  BY <1>1, <1>3, StepsExist
<1>5. h \in [0..n -> S] /\ h[0] = <<>> /\ \A i \in 1..n : h[i] = step[<<i, h[i - 1]>>]
  BY <1>4 DEF Iterates
<1>6. IsKept(h)
  <2>1. ASSUME NEW i \in 0..n, i # 0 PROVE h[i] = Kept(i, h[i - 1])
    <3>1. i \in 1..n /\ i - 1 \in 0..n
      BY <1>1, <2>1
    <3>2. h[i - 1] \in S
      BY <1>5, <3>1
    <3> QED BY <1>3, <1>5, <3>1, <3>2
  <2>2. h = [i \in 0..n |-> h[i]]
    BY <1>5
  <2> QED BY <1>5, <2>1, <2>2
<1>7. IsKept(kept)
  BY <1>6
<1>8. Pruned(cache, range) = kept[n]
  BY DEF Pruned, n
<1> DEFINE T == {i \in 0..n : kept[i] \in S}
<1> HIDE DEF kept
<1>9. 0 \in T
  BY <1>1, <1>7
<1>10. \A i \in 1..n : i - 1 \in T => i \in T
  <2> SUFFICES ASSUME NEW i \in 1..n, i - 1 \in T PROVE i \in T
    OBVIOUS
  <2>1. i \in 0..n /\ i # 0
    BY <1>1
  <2>2. kept[i] = Kept(i, kept[i - 1])
    BY <1>7, <2>1
  <2>3. kept[i - 1] \in S
    OBVIOUS
  <2> HIDE DEF Kept
  <2> QED BY <1>2, <2>1, <2>2, <2>3
<1> HIDE DEF T
<1>11. n \in T
  <2>1. \A i \in 0..n : i \in T
    BY <1>1, <1>9, <1>10, StepByStep, Zenon
  <2> QED BY <1>1, <2>1
<1> QED BY <1>8, <1>11 DEF S, T

\* A grid of the window that is not in the cache is parsed into the cache.
LEMMA EntryIsParsing ==
  ASSUME NEW d, NEW lists, NEW range, NEW i, NEW f \in Frames, f = range.first + i - 1,
         lists[d][i] = f, lists["clip"][i] = f,
         ~Malformed(filter.vectors[d][lists[d][i]], filter.analysis[d])
  PROVE  GridEntry(d, lists, range, i) \in Parsings(d) /\ GridEntry(d, lists, range, i).frame = f
<1>1. GridEntry(d, lists, range, i) = Parsing(d, f)
  BY DEF GridEntry, Parsing, ParsedVectors
<1>2. Parsing(d, f).frame = f
  BY DEF Parsing
<1> QED BY <1>1, <1>2 DEF Parsings

\* Appending keeps what is cached.
LEMMA AppendCaches ==
  ASSUME NEW E, NEW cache \in Seq(E), NEW entry \in E
  PROVE  /\ Append(cache, entry) \in Seq(E) /\ Cached(Append(cache, entry), entry.frame)
         /\ \A f : Cached(cache, f) => Cached(Append(cache, entry), f)
<1>1. /\ Append(cache, entry) \in Seq(E)
      /\ DOMAIN Append(cache, entry) = 1..(Len(cache) + 1) /\ DOMAIN cache = 1..Len(cache)
      /\ Append(cache, entry)[Len(cache) + 1] = entry
      /\ \A i \in 1..Len(cache) : Append(cache, entry)[i] = cache[i]
  OBVIOUS
<1>2. Len(cache) \in Nat
  OBVIOUS
<1> QED BY <1>1, <1>2 DEF Cached

\* Extending keeps the cache sound, and without failure it has the whole window.
LEMMA ExtendedIs ==
  ASSUME NEW d, NEW lists, NEW range, NEW cache \in Seq(Parsings(d)), Len(lists[d]) \in Nat,
         \A i \in 1..Len(lists[d]) : /\ range.first + i - 1 \in Frames
                                     /\ lists[d][i] = range.first + i - 1
                                     /\ lists["clip"][i] = range.first + i - 1
  PROVE  LET result == Extended(d, lists, range, cache)
         IN  /\ result.cache \in Seq(Parsings(d))
             /\ ~result.failed => \A i \in 1..Len(lists[d]) : Cached(result.cache, range.first + i - 1)
<1> DEFINE n == Len(lists[d])
           S == [cache : Seq(Parsings(d)), failed : BOOLEAN]
           More(i, r) ==
              IF r.failed \/ Cached(r.cache, range.first + i - 1) THEN r
              ELSE IF Malformed(filter.vectors[d][lists[d][i]], filter.analysis[d])
              THEN [cache |-> r.cache, failed |-> TRUE]
              ELSE [cache |-> Append(r.cache, GridEntry(d, lists, range, i)), failed |-> FALSE]
           base == [cache |-> cache, failed |-> FALSE]
           step == [x \in (1..n) \X S |-> More(x[1], x[2])]
           IsAfter(k) == k = [i \in 0..n |->
              IF i = 0 THEN [cache |-> cache, failed |-> FALSE]
              ELSE IF k[i - 1].failed \/ Cached(k[i - 1].cache, range.first + i - 1) THEN k[i - 1]
              ELSE IF Malformed(filter.vectors[d][lists[d][i]], filter.analysis[d])
              THEN [cache |-> k[i - 1].cache, failed |-> TRUE]
              ELSE [cache |-> Append(k[i - 1].cache, GridEntry(d, lists, range, i)), failed |-> FALSE]]
           after == CHOOSE k : IsAfter(k)
<1>1. n \in Nat /\ base \in S /\ base.cache = cache
  OBVIOUS
<1>2. ASSUME NEW i \in 1..n, NEW r \in S
      PROVE  /\ More(i, r) \in S
             /\ ~More(i, r).failed => /\ ~r.failed /\ Cached(More(i, r).cache, range.first + i - 1)
                                      /\ \A f : Cached(r.cache, f) => Cached(More(i, r).cache, f)
  <2>1. CASE r.failed \/ Cached(r.cache, range.first + i - 1)
    <3>1. More(i, r) = r
      BY <2>1
    <3> HIDE DEF More
    <3> QED BY <2>1, <3>1
  <2>2. CASE ~r.failed /\ Malformed(filter.vectors[d][lists[d][i]], filter.analysis[d])
             /\ ~Cached(r.cache, range.first + i - 1)
    <3>1. More(i, r) = [cache |-> r.cache, failed |-> TRUE]
      BY <2>2
    <3> HIDE DEF More
    <3> QED BY <3>1
  <2>3. CASE ~r.failed /\ ~Malformed(filter.vectors[d][lists[d][i]], filter.analysis[d])
             /\ ~Cached(r.cache, range.first + i - 1)
    <3>1. More(i, r) = [cache |-> Append(r.cache, GridEntry(d, lists, range, i)), failed |-> FALSE]
      BY <2>3
    <3>2. GridEntry(d, lists, range, i) \in Parsings(d)
          /\ GridEntry(d, lists, range, i).frame = range.first + i - 1
      <4>1. PICK f \in Frames : f = range.first + i - 1 /\ lists[d][i] = f /\ lists["clip"][i] = f
        OBVIOUS
      <4>2. GridEntry(d, lists, range, i) \in Parsings(d) /\ GridEntry(d, lists, range, i).frame = f
        <5>1. ~Malformed(filter.vectors[d][lists[d][i]], filter.analysis[d])
          BY <2>3
        <5> HIDE DEF More, S, n, base
        <5> QED BY <4>1, <5>1, EntryIsParsing
      <4> QED BY <4>1, <4>2
    <3>3. r.cache \in Seq(Parsings(d))
      OBVIOUS
    <3> HIDE DEF More, S
    <3>4. /\ Append(r.cache, GridEntry(d, lists, range, i)) \in Seq(Parsings(d))
          /\ Cached(Append(r.cache, GridEntry(d, lists, range, i)), range.first + i - 1)
          /\ \A f : Cached(r.cache, f) => Cached(Append(r.cache, GridEntry(d, lists, range, i)), f)
      BY <3>2, <3>3, AppendCaches
    <3> QED BY <2>3, <3>1, <3>4 DEF S
  <2> QED BY <2>1, <2>2, <2>3
<1> HIDE DEF base
<1>3. step \in [(1..n) \X S -> S] /\ \A i \in 1..n, r \in S : step[<<i, r>>] = More(i, r)
  <2>1. \A i \in 1..n, r \in S : More(i, r) \in S
    BY <1>2
  <2> HIDE DEF More, S, n
  <2> QED BY <2>1
<1> HIDE DEF n, S, step
<1>4. PICK h : Iterates(h, S, base, n, step)
  BY <1>1, <1>3, StepsExist
<1>5. h \in [0..n -> S] /\ h[0] = base /\ \A i \in 1..n : h[i] = step[<<i, h[i - 1]>>]
  BY <1>4 DEF Iterates
<1>6. IsAfter(h)
  <2>1. ASSUME NEW i \in 0..n, i # 0 PROVE h[i] = More(i, h[i - 1])
    <3>1. i \in 1..n /\ i - 1 \in 0..n
      BY <1>1, <2>1
    <3>2. h[i - 1] \in S
      BY <1>5, <3>1
    <3> HIDE DEF More
    <3> QED BY <1>3, <1>5, <3>1, <3>2
  <2>2. h = [i \in 0..n |-> h[i]] /\ h[0] = [cache |-> cache, failed |-> FALSE]
    BY <1>5 DEF base
  <2> QED BY <2>1, <2>2
<1>7. IsAfter(after)
  BY <1>6
<1>8. Extended(d, lists, range, cache) = after[n]
  BY DEF Extended, n
<1>9. /\ after[0] = base
      /\ \A i \in 1..n : after[i] = More(i, after[i - 1])
  <2> HIDE DEF after
  <2>1. after[0] = base
    BY <1>1, <1>7 DEF base
  <2>2. ASSUME NEW i \in 1..n PROVE after[i] = More(i, after[i - 1])
    <3>1. i \in 0..n /\ i # 0
      BY <1>1
    <3> QED BY <1>7, <3>1
  <2> QED BY <2>1, <2>2
<1> HIDE DEF after, More
<1> DEFINE T == {i \in 0..n : /\ after[i] \in S
                              /\ ~after[i].failed => \A k \in 1..i : Cached(after[i].cache, range.first + k - 1)}
<1>10. 0 \in T
  BY <1>1, <1>9
<1>11. \A i \in 1..n : i - 1 \in T => i \in T
  <2> SUFFICES ASSUME NEW i \in 1..n, i - 1 \in T PROVE i \in T
    OBVIOUS
  <2>1. /\ after[i - 1] \in S
        /\ ~after[i - 1].failed => \A k \in 1..(i - 1) : Cached(after[i - 1].cache, range.first + k - 1)
        /\ after[i] = More(i, after[i - 1])
    BY <1>9
  <2>2. /\ after[i] \in S
        /\ ~after[i].failed => /\ ~after[i - 1].failed /\ Cached(after[i].cache, range.first + i - 1)
                               /\ \A f : Cached(after[i - 1].cache, f) => Cached(after[i].cache, f)
    BY <1>2, <2>1
  <2>3. ASSUME ~after[i].failed, NEW k \in 1..i PROVE Cached(after[i].cache, range.first + k - 1)
    <3>1. k = i \/ k \in 1..(i - 1)
      BY <1>1
    <3> QED BY <2>1, <2>2, <2>3, <3>1
  <2> QED BY <1>1, <2>2, <2>3
<1> HIDE DEF T
<1>12. n \in T
  <2>1. \A i \in 0..n : i \in T
    BY <1>1, <1>10, <1>11, StepByStep, Zenon
  <2> QED BY <1>1, <2>1
<1>13. /\ after[n] \in S
       /\ ~after[n].failed => \A k \in 1..n : Cached(after[n].cache, range.first + k - 1)
  BY <1>12 DEF T
<1> QED BY <1>8, <1>13 DEF S, n

\* Looking a frame up finds its entry, the first one.
LEMMA FindsCached ==
  ASSUME NEW E, NEW cache \in Seq(E), NEW f, Cached(cache, f)
  PROVE  FindCached(cache, f) \in 1..Len(cache) /\ cache[FindCached(cache, f)].frame = f
<1> DEFINE Entries == {i \in DOMAIN cache : cache[i].frame = f}
<1>1. Entries \subseteq Nat /\ Entries # {} /\ DOMAIN cache = 1..Len(cache)
  BY DEF Cached
<1> HIDE DEF Entries
<1>2. \E k \in Entries : \A m \in Entries : k <= m
  BY <1>1, LeastMember
<1>3. Lowest(Entries) \in Entries
  BY <1>2 DEF Lowest
<1> QED BY <1>1, <1>3 DEF Entries, FindCached
\* When all frames are taken, a render has those of its window from the clip
\* and from each vector clip, in order.
LEMMA ListsWhenDone ==
  ASSUME StageInv, MotionInv, NEW t \in Threads, Rendering(t), Done(t), Built(t) # <<>>,
         NEW d \in {"clip"} \cup filter.motion
  PROVE  LET f == render[t].frame
             list == data[t].lists[d]
         IN  /\ Len(list) = Rows(f) /\ Rows(f) \in Nat
             /\ \A i \in 1..Rows(f) : list[i] = RequiredFrames(f).first + i - 1
<1> DEFINE f == render[t].frame
           n == Len(NodeOrder)
           rows == Rows(f)
<1>1. scenario \in DOMAIN Scenarios /\ filter.kind # "Aggregate" /\ rows \in Nat
  <2>1. filter.kind # "Aggregate" /\ RequiredFrames(f).first \in Nat /\ RequiredFrames(f).last \in Nat
        /\ RequiredFrames(f).first <= RequiredFrames(f).last
    BY WindowOfRender
  <2> QED BY <2>1 DEF StageInv, Rows
<1>2. PICK j \in 1..n : NodeOrder[j] = d
  BY <1>1, NodesOfMotion
<1>3. n \in 1..4
  BY <1>1, NodeOrderIs
<1>4. render[t].taken = 1 + n * rows
  BY <1>1 DEF Done, TakenCount, Rows
<1>5. TakenOf(j, render[t].taken) = rows
  <2> HIDE DEF n, rows
  <2>1. n * rows \in Nat
    BY <1>1, <1>3
  <2>2. render[t].taken # 0
    BY <1>4, <2>1
  <2>3. (1 + n * rows + n - 1 - j) \div n = rows
    <3>1. 1 \in Nat \ {0}
      OBVIOUS
    <3> QED BY <1>1, <1>3, <3>1, TakenInTurn
  <2>4. TakenOf(j, render[t].taken) = (render[t].taken + n - 1 - j) \div n
    BY <2>2 DEF TakenOf, n
  <2> QED BY <1>4, <2>3, <2>4
<1>6. ListsOf(t)
  BY DEF MotionInv, MotionOf
<1>7. /\ Len(data[t].lists[d]) = rows
      /\ \A i \in 1..Len(data[t].lists[d]) : data[t].lists[d][i] = RequiredFrames(f).first + i - 1
  <2> HIDE DEF rows
  <2> QED BY <1>1, <1>2, <1>5, <1>6 DEF ListsOf
<1> QED BY <1>1, <1>7

\* The grids of a direction are built, or its vectors cannot be parsed.
LEMMA BuildKeepsMotion ==
  ASSUME StageInv, MotionInv, NEW t \in Threads, BuildGrids(t)
  PROVE  MotionInv'
<1> DEFINE f      == render[t].frame
           d      == Motion[render[t].built + 1]
           own    == data[t]
           range  == RequiredFrames(f)
           result == Extended(d, own.lists, range, Pruned(own.cache[d], range))
           parsed == [own EXCEPT !.cache[d] = result.cache]
           grids  == CurrentGrids(result.cache, range)
           ready  == [parsed EXCEPT !.grids[d] = grids]
<1>1. Rendering(t) /\ Done(t) /\ render[t].built < Len(Built(t))
  BY DEF BuildGrids
<1>2. /\ scenario \in DOMAIN Scenarios /\ DOMAIN render = Threads /\ DOMAIN data = Threads
      /\ render[t] \in [frame : Frames, taken : Nat, built : Nat]
      /\ DOMAIN own = {"lists", "cache", "grids"}
  BY <1>1 DEF StageInv, Flights, Lists, Rendering
<1>3. Built(t) # <<>>
  BY <1>1, <1>2
<1>4. /\ Built(t) = Motion
      /\ range.first \in Nat /\ range.last \in Nat /\ range.last < filter.p.frames
  BY <1>1, <1>3, WindowOfRender
<1>5. render[t].built + 1 \in 1..Len(Motion) /\ d \in filter.motion
  BY <1>1, <1>2, <1>4, MotionIs
<1>6. /\ Len(own.lists[d]) = Rows(f) /\ Rows(f) \in Nat
      /\ \A i \in 1..Rows(f) : own.lists[d][i] = range.first + i - 1 /\ own.lists["clip"][i] = range.first + i - 1
  <2>1. /\ Len(own.lists[d]) = Rows(f) /\ Rows(f) \in Nat
        /\ \A i \in 1..Rows(f) : own.lists[d][i] = range.first + i - 1
    BY <1>1, <1>3, <1>5, ListsWhenDone
  <2>2. \A i \in 1..Rows(f) : own.lists["clip"][i] = range.first + i - 1
    BY <1>1, <1>3, ListsWhenDone
  <2> QED BY <2>1, <2>2
<1>7. \A i \in 1..Rows(f) : range.first + i - 1 \in Frames
  <2>1. filter.p.frames \in Int
    BY OutTaken, <1>1 DEF StageInv, ValidParameters
  <2> QED BY <1>4, <2>1 DEF Rows, Frames
<1>8. /\ DOMAIN own.cache = filter.motion /\ DOMAIN own.grids = filter.motion
      /\ \A e \in filter.motion : own.cache[e] \in Seq(Parsings(e))
  BY DEF MotionInv, MotionOf, CachesOf
<1>9. Pruned(own.cache[d], range) \in Seq(Parsings(d))
  BY <1>5, <1>8, PrunedIs
<1>10. /\ result.cache \in Seq(Parsings(d))
       /\ ~result.failed => \A i \in 1..Rows(f) : Cached(result.cache, range.first + i - 1)
  <2> HIDE DEF d, own, range, f
  <2>1. /\ Len(own.lists[d]) \in Nat
        /\ \A i \in 1..Len(own.lists[d]) : /\ range.first + i - 1 \in Frames
                                           /\ own.lists[d][i] = range.first + i - 1
                                           /\ own.lists["clip"][i] = range.first + i - 1
    BY <1>6, <1>7
  <2> QED BY <1>6, <1>9, <2>1, ExtendedIs
<1>11. IF result.failed THEN Leave(t, parsed, 1)
       ELSE /\ data' = [data EXCEPT ![t] = ready]
            /\ render' = [render EXCEPT ![t].built = @ + 1]
            /\ UNCHANGED <<scenario, instance, nodes, references, outputs, context>>
  BY DEF BuildGrids, DataOf
<1> HIDE DEF result, d
<1>12. /\ DOMAIN parsed = {"lists", "cache", "grids"} /\ parsed.lists = own.lists /\ parsed.grids = own.grids
       /\ parsed.cache = [own.cache EXCEPT ![d] = result.cache]
  BY <1>2
<1>13. DOMAIN parsed.cache = filter.motion
       /\ \A e \in filter.motion : parsed.cache[e] \in Seq(Parsings(e))
  BY <1>5, <1>8, <1>10, <1>12
<1>14. /\ ready.lists = own.lists /\ ready.cache = parsed.cache
       /\ ready.grids = [own.grids EXCEPT ![d] = grids]
  BY <1>12
<1> HIDE DEF parsed, ready, grids
<1>15. CASE result.failed
  <2>1. Leave(t, parsed, 1)
    BY <1>11, <1>15
  <2> QED BY <1>8, <1>12, <1>13, <2>1, LeaveKeepsMotion
<1>16. CASE ~result.failed
  <2>1. scenario' = scenario /\ instance' = instance
    BY <1>11, <1>16
  <2>2. /\ data'[t] = ready /\ render'[t] = [render[t] EXCEPT !.built = @ + 1]
        /\ \A u \in Threads \ {t} : render'[u] = render[u] /\ data'[u] = data[u]
    BY <1>2, <1>11, <1>16
  <2>3. render'[t].frame = f /\ render'[t].taken = render[t].taken /\ render'[t].built = render[t].built + 1
        /\ Rendering(t)'
    BY <1>2, <2>2 DEF Rendering, Idle
  <2>4. CachesOf(t)'
    BY <1>8, <1>13, <1>14, <2>1, <2>2, SameMotion DEF CachesOf
  <2>5. ListsOf(t)'
    BY <1>1, <1>14, <2>1, <2>2, <2>3, SameMotion DEF MotionInv, MotionOf, ListsOf
  <2>6. PointsTo(grids, result.cache, range.first, Rows(f))
    <3>1. grids = [i \in 1..Rows(f) |-> FindCached(result.cache, range.first + i - 1)]
      BY DEF grids, CurrentGrids, Rows
    <3>2. ASSUME NEW i \in 1..Rows(f)
          PROVE  /\ FindCached(result.cache, range.first + i - 1) \in 1..Len(result.cache)
                 /\ result.cache[FindCached(result.cache, range.first + i - 1)].frame = range.first + i - 1
      BY <1>10, <1>16, FindsCached
    <3> QED BY <3>1, <3>2 DEF PointsTo
  <2>7. ASSUME NEW k \in 1..(render[t].built + 1)
        PROVE  PointsTo(ready.grids[Motion[k]], ready.cache[Motion[k]], range.first, Rows(f))
    <3>1. CASE k = render[t].built + 1
      <4>1. ready.grids[Motion[k]] = grids /\ ready.cache[Motion[k]] = result.cache
        BY <1>5, <1>8, <1>12, <1>14, <3>1 DEF d
      <4> QED BY <2>6, <4>1
    <3>2. CASE k # render[t].built + 1
      <4>1. k \in 1..render[t].built /\ k \in 1..Len(Motion)
        BY <1>2, <1>5, <3>2
      <4>2. Motion[k] # d
        BY <1>5, <3>2, <4>1, MotionIs DEF d
      <4>3. ready.grids[Motion[k]] = own.grids[Motion[k]] /\ ready.cache[Motion[k]] = own.cache[Motion[k]]
        BY <1>8, <1>12, <1>14, <4>2
      <4>4. PointsTo(own.grids[Motion[k]], own.cache[Motion[k]], range.first, Rows(f))
        BY <1>1, <4>1 DEF MotionInv, MotionOf, GridsOf
      <4> QED BY <4>3, <4>4
    <3> QED BY <3>1, <3>2
  <2>8. Built(t)' = Motion /\ Done(t)'
    BY <1>1, <1>3, <1>4, <2>1, <2>3, SameMotion, SameFilter DEF Built, Done
  <2>9. render[t].built + 1 <= Len(Motion)
    BY <1>5
  <2>10. GridsOf(t)'
    <3>1. \A k \in 1..(render[t].built + 1) :
             PointsTo(data'[t].grids[Motion[k]], data'[t].cache[Motion[k]], range.first, Rows(f))
      BY <2>2, <2>7
    <3> QED BY <2>1, <2>3, <2>8, <2>9, <3>1, SameMotion DEF GridsOf
  <2> QED BY <2>1, <2>2, <2>4, <2>5, <2>10, OneThreadMoves DEF MotionOf
<1> QED BY <1>15, <1>16

\* Every step keeps the vectors in order.
LEMMA MotionStep == StageInv /\ MotionInv /\ [StageNext]_stageVars => MotionInv'
<1> SUFFICES ASSUME StageInv, MotionInv, [StageNext]_stageVars PROVE MotionInv'
  OBVIOUS
<1>1. CASE TakeNode \/ RefuseCreation \/ CreateFilter \/ FreeFilter
  BY <1>1, InstanceKeepsMotion
<1>2. ASSUME NEW f \in Frames, RequestFrames(f) \/ InputFailed(f) PROVE MotionInv'
  BY <1>2, InstanceKeepsMotion
<1>3. ASSUME NEW t \in Threads, NEW f \in Frames, RenderWithoutInput(t, f) \/ RenderFrame(t, f)
      PROVE  MotionInv'
  BY <1>3, BeginKeepsMotion
<1>4. ASSUME NEW t \in Threads, TakeFrame(t) PROVE MotionInv'
  BY <1>4, TakeKeepsMotion
<1>5. ASSUME NEW t \in Threads, TakeFails(t) \/ StrideRefused(t) \/ Deliver(t) \/ ComputeFails(t)
      PROVE  MotionInv'
  BY <1>5, LeaveAsIs DEF TakeFails, StrideRefused, Deliver, ComputeFails, Fail, DataOf
<1>6. ASSUME NEW t \in Threads, BuildGrids(t) PROVE MotionInv'
  BY <1>6, BuildKeepsMotion
<1>7. CASE UNCHANGED stageVars
  <2>1. scenario' = scenario /\ instance' = instance /\ render' = render /\ data' = data
    BY <1>7 DEF stageVars
  <2>2. VectorsFit'
    BY <2>1, VectorsStayFit DEF MotionInv
  <2>3. \A t \in Threads : MotionOf(t)'
    BY <2>1, ThreadStays DEF MotionInv
  <2> QED BY <2>1, <2>2, <2>3, SameFilter DEF MotionInv
<1> QED BY <1>1, <1>2, <1>3, <1>4, <1>5, <1>6, <1>7 DEF StageNext

\* Whatever a thread rendered before, on whatever frames and with whatever
\* failures, the centres its render searches around are where the vectors of
\* the frames in between lead, to a nearest block and pixel at each step.
THEOREM MotionIsOwn == StageSpec => []MotionIsOfItsOwnFrames
<1>1. StageInit => StageInv /\ MotionInv
  BY InitInv, InitMotion
<1>2. StageInv /\ MotionInv /\ [StageNext]_stageVars => (StageInv /\ MotionInv)'
  BY StageStep, MotionStep
<1>3. StageInv /\ MotionInv => MotionIsOfItsOwnFrames
  BY InvGivesMotion
<1> QED BY <1>1, <1>2, <1>3, PTL DEF StageSpec
====
