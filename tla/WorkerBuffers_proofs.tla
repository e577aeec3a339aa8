------------------------- MODULE WorkerBuffers_proofs --------------------------
(***************************************************************************)
(* Theorems about WorkerBuffers, for every clip and search window, ring of *)
(* staging buffers, grid and chunk size, and any number of renders and     *)
(* faults.                                                                 *)
(*                                                                         *)
(* The invariant has five parts, each proved from the ones before it:      *)
(* Control (types, where the render is, which operations are queued),      *)
(* Order (they are queued in the order of the render's points, and what    *)
(* they copy from is untouched), Arrival (what device memory holds or will *)
(* hold), Count (which groups were filtered or will be) and Verdict (what  *)
(* the solver status says or will say).                                    *)
(***************************************************************************)
EXTENDS WorkerBuffers, FiniteSetTheorems, SequenceTheorems, TLAPS

-----------------------------------------------------------------------------
(* What may be queued *)

Span    == Window.first .. Window.last
Needed  == CacheNames \X Span
Turns   == 1..Len(missing)

\* How many chunks a grid takes, and where each starts.
ChunkCount(a) == (Groups[a] + ChunkGroups - 1) \div ChunkGroups
Chunk(m, j)   == Filter(m, missing[m], (j - 1) * ChunkGroups,
                        ChunkSize(missing[m], (j - 1) * ChunkGroups), WindowBase(missing[m]))

Loads   == {Upload(Staging(i), Slot(x[1], x[2]), x) : i \in 0..(UploadSlots - 1), x \in Needed}
Copies  == IF missing = <<>> THEN {}
           ELSE IF tables THEN {Upload(Tables(c), Tables(c), TablesOf(c)) : c \in CacheNames}
           ELSE {Move(Slot(c, f), Place(c, f - Assembly.first)) :
                    c \in CacheNames, f \in Assembly.first .. Assembly.last}
Clears  == {Clear(m, TotalGroups) : m \in Turns}
Grids   == {Upload(Anchored(m), <<"grid">>, <<missing[m]>>) : m \in Turns}
Chunked == UNION {{Chunk(m, j) : j \in 1..ChunkCount(missing[m])} : m \in Turns}
Ends    == {Collect(Len(missing)), Upload(Sources, Sources, Descriptors), Combine(Descriptors)}

Operations == Loads \cup Copies \cup Clears \cup Grids \cup Chunked \cup Ends

-----------------------------------------------------------------------------
(* Control *)

Points == {"idle", "upload", "tables", "compute", "collect", "descriptors", "sync",
           "check", "drain", "done"}

Types ==
    /\ pc \in Points /\ index \in Nat \ {0} /\ tables \in BOOLEAN
    /\ frame \in SourceFrames
    /\ uploads \in Seq(Needed)
    /\ missing \in Seq(Anchors(p, frame)) /\ Len(missing) <= MaxContributors(p)
    /\ cursor \in Nat /\ event \in [0..(UploadSlots - 1) -> Nat] /\ issued \in Nat
    /\ DOMAIN host = HostCells /\ DOMAIN dev = DeviceCells
    /\ queue \in Seq(Operations) /\ Len(queue) <= issued

Counters ==
    /\ pc = "upload" => index <= Len(uploads)
    /\ pc = "tables" => index <= Len(SourceCaches)
    /\ pc = "compute" => index <= Len(missing)
    /\ pc \in {"idle", "check", "done"} => queue = <<>>
    /\ \A i \in 0..(UploadSlots - 1) : event[i] <= issued

Control == Types /\ Counters

-----------------------------------------------------------------------------
(* Order *)

\* What an operation is, and its place among the operations of a render: the
\* uploads of frames, the copies of windows, anchor by anchor its clear, its
\* grid and its chunks, then the collection and the combination.
Tag(op) == IF op.op = "upload" THEN op.from[1] ELSE op.op
End     == 3 * (Len(missing) + 1)
Rank(op) ==
    CASE Tag(op) = "staging" -> 0
      [] Tag(op) \in {"tables", "move"} -> 1
      [] Tag(op) = "clear"   -> 3 * op.at
      [] Tag(op) = "anchors" -> 3 * op.from[2] + 1
      [] Tag(op) = "filter"  -> 3 * op.at + 2
      [] Tag(op) = "collect" -> End
      [] OTHER               -> End + 1

\* Below which everything is that has been queued.
Level ==
    CASE pc = "upload"  -> 1
      [] pc = "tables"  -> IF tables THEN 1 ELSE 2
      [] pc = "compute" -> 3 * index
      [] pc = "collect" -> End
      [] pc = "descriptors" -> End + 1
      [] OTHER          -> End + 2

InOrder ==
    /\ \A i, j \in 1..Len(queue) : i < j => Rank(queue[i]) <= Rank(queue[j])
    /\ \A i \in 1..Len(queue) : Rank(queue[i]) < Level

\* A staging buffer's copy is no later than its event, but after a failure.
EventsCoverCopies ==
    pc # "drain" =>
        \A i \in 1..Len(queue), b \in 0..(UploadSlots - 1) :
            queue[i].op = "upload" /\ queue[i].from = Staging(b) => Executed + i <= event[b]

Order == InOrder /\ EventsCoverCopies /\ PendingCopiesKeepTheirSource

-----------------------------------------------------------------------------
(* Arrival *)

Delivers(op, cell) == op.op \in {"upload", "move"} /\ op.to = cell
Coming(cell, value) ==
    dev[cell] = value \/ \E i \in 1..Len(queue) : Delivers(queue[i], cell)

SlotComing(x) == Coming(Slot(x[1], x[2]), x)
SlotsComing   == \A x \in Needed : SlotComing(x)
WindowComing(c) ==
    IF tables THEN Coming(Tables(c), TablesOf(c))
    ELSE \A f \in Assembly.first .. Assembly.last : Coming(Place(c, f - Assembly.first), <<c, f>>)

Pending(tag) == \E i \in 1..Len(queue) : Tag(queue[i]) = tag
GridOf(op, m) == Tag(op) = "anchors" /\ op.from[2] = m

FramesArrive ==
    /\ pc = "upload" => \A x \in Needed : SlotComing(x) \/ \E k \in index..Len(uploads) : uploads[k] = x
    /\ pc \in {"tables", "compute"} => SlotsComing
    /\ \A i \in 1..Len(queue) : Tag(queue[i]) \in {"tables", "move", "filter"} => SlotsComing

WindowsArrive ==
    /\ pc = "tables" /\ ~tables /\ missing # <<>> =>
          \A i \in 1..(index - 1) : WindowComing(SourceCaches[i])
    /\ pc = "compute" => missing # <<>> /\ \A c \in CacheNames : WindowComing(c)
    /\ Pending("filter") => \A c \in CacheNames : WindowComing(c)

GridsArrive ==
    \A n \in 1..Len(queue) : Tag(queue[n]) = "filter" =>
        \/ \E i \in 1..(n - 1) : GridOf(queue[i], queue[n].at)
        \/ /\ dev[<<"grid">>] = <<missing[queue[n].at]>>
           /\ \A i \in 1..(n - 1) : Tag(queue[i]) # "anchors"

Arrival == FramesArrive /\ WindowsArrive /\ GridsArrive

-----------------------------------------------------------------------------
(* Count *)

Owed(m) == {m} \X (0..(Groups[missing[m]] - 1))
\* The missing anchors whose work has been queued.
QueuedTurns == CASE pc \in {"upload", "tables"} -> {}
                 [] pc = "compute" -> 1..(index - 1)
                 [] OTHER -> Turns
Filtering(i) == Tag(queue[i]) = "filter"
Awaited == UNION {GroupsOf(queue[i]) : i \in {k \in 1..Len(queue) : Filtering(k)}}
Started == UNION {Owed(m) : m \in QueuedTurns}

NoneTwice ==
    /\ processed = SetToBag(DOMAIN processed)
    /\ \A i \in 1..Len(queue) : Filtering(i) => GroupsOf(queue[i]) \cap DOMAIN processed = {}
    /\ \A i, j \in 1..Len(queue) : i < j /\ Filtering(i) /\ Filtering(j)
                                     => GroupsOf(queue[i]) \cap GroupsOf(queue[j]) = {}

AllQueued ==
    pc \notin {"idle", "drain", "done"} => DOMAIN processed \cup Awaited = Started

Count == NoneTwice /\ AllQueued

-----------------------------------------------------------------------------
(* Verdict *)

Entries == 0..(TotalGroups - 1)
InfoRight(m) == \A g \in Entries : dev[Info(m, g)] = IF <<m, g>> \in broken THEN 1 ELSE 0
StatusRight  == \A m \in Turns, g \in Entries : status[m][g] # 0 <=> <<m, g>> \in broken

BrokenWereFiltered ==
    /\ broken \subseteq DOMAIN processed
    /\ \A i \in 1..Len(queue) : Tag(queue[i]) = "clear" =>
          \A g \in Entries : <<queue[i].at, g>> \notin broken

InfosArrive ==
    pc \notin {"idle", "drain", "done"} =>
        \A m \in QueuedTurns : InfoRight(m) \/ \E i \in 1..Len(queue) : queue[i] = Clear(m, TotalGroups)

StatusArrives ==
    pc \in {"descriptors", "sync", "check"} /\ missing # <<>> =>
        \/ Pending("collect")
        \/ StatusRight /\ ~Pending("filter")

ErrorIsOwn ==
    pc \in {"drain", "done"} /\ error # <<"call">> =>
        /\ queue = <<>>
        /\ IF broken = {} THEN error = <<>> ELSE error \in broken

Verdict == BrokenWereFiltered /\ InfosArrive /\ StatusArrives /\ ErrorIsOwn

-----------------------------------------------------------------------------
(* Geometry, caches and cells *)

\* The geometry of FrameGeometry, for the parameters of this filter.
Geometry == INSTANCE FrameRequests_proofs
            WITH filter <- Parameters, frame <- 0, Filters <- {Parameters}

LEMMA SameAnchors ==
  ASSUME NEW f
  PROVE  /\ Anchors(p, f) = Geometry!Anchors(p, f)
         /\ ContributingAnchors(p, f) = Geometry!ContributingAnchors(p, f)
  BY DEF Anchors, Geometry!Anchors, ContributingAnchors, Geometry!ContributingAnchors,
         ValidAnchorFrames, Geometry!ValidAnchorFrames, Least, Geometry!Least,
         Greatest, Geometry!Greatest

LEMMA SameRange ==
  ASSUME NEW a
  PROVE  AnchorSourceRange(p, a) = Geometry!AnchorSourceRange(p, a)
  BY DEF AnchorSourceRange, Geometry!AnchorSourceRange, SearchWindow, Geometry!SearchWindow,
         Shift, Geometry!Shift, ValidAnchorFrames, Geometry!ValidAnchorFrames,
         Least, Geometry!Least, Greatest, Geometry!Greatest

LEMMA SameExtremes ==
  ASSUME NEW S
  PROVE  Lowest(S) = Geometry!Lowest(S) /\ Highest(S) = Geometry!Highest(S)
  BY DEF Lowest, Geometry!Lowest, Highest, Geometry!Highest

LEMMA SameWindow ==
  ASSUME NEW f
  PROVE  RequiredSourceRange(p, f) = Geometry!RequiredSourceRange(p, f)
<1>1. {AnchorSourceRange(p, a).first : a \in Anchors(p, f)}
        = {Geometry!AnchorSourceRange(p, a).first : a \in Geometry!Anchors(p, f)}
  BY SameAnchors, SameRange
<1>2. {AnchorSourceRange(p, a).last : a \in Anchors(p, f)}
        = {Geometry!AnchorSourceRange(p, a).last : a \in Geometry!Anchors(p, f)}
  BY SameAnchors, SameRange
<1> QED BY <1>1, <1>2, SameExtremes DEF RequiredSourceRange, Geometry!RequiredSourceRange

LEMMA SameSizes ==
  /\ ValidAnchorFrames(p) = Geometry!ValidAnchorFrames(p)
  /\ CachedFrames(p) = Geometry!CachedFrames(p)
  /\ MaxContributors(p) = Geometry!MaxContributors(p)
  /\ MaxSourceWindow(p) = Geometry!MaxSourceWindow(p)
  /\ ValidParameters(p) = Geometry!ValidParameters(p)
  BY DEF ValidAnchorFrames, Geometry!ValidAnchorFrames, CachedFrames, Geometry!CachedFrames,
         TemporalCount, Geometry!TemporalCount, Least, Geometry!Least,
         MaxContributors, Geometry!MaxContributors, ContributionSlots, Geometry!ContributionSlots,
         MaxSourceWindow, Geometry!MaxSourceWindow, ValidParameters, Geometry!ValidParameters

LEMMA Sizes ==
  /\ ValidParameters(p) /\ p.frames \in Nat \ {0}
  /\ ValidAnchorFrames(p) \in Nat \ {0} /\ CachedFrames(p) \in Nat
  /\ MaxContributors(p) \in Nat /\ MaxSourceWindow(p) \in Nat
<1>1. ValidParameters(p)
  BY BuffersAssumption
<1>2. /\ p.frames \in Nat /\ p.pt \in Nat /\ p.bwd \in Nat /\ p.fwd \in Nat
      /\ 1 <= p.pt /\ p.pt <= p.frames
  BY <1>1 DEF ValidParameters
<1> HIDE DEF p
<1> QED BY <1>1, <1>2 DEF ValidAnchorFrames, CachedFrames, TemporalCount, MaxContributors,
          MaxSourceWindow, Least, ContributionSlots

\* What an output frame needs: a window inside the clip no longer than the copy,
\* and no more anchors than the worker has places, all reading from the window.
LEMMA FrameNeeds ==
  ASSUME NEW f \in SourceFrames
  PROVE  /\ RequiredSourceRange(p, f).first \in Nat /\ RequiredSourceRange(p, f).last \in Nat
         /\ RequiredSourceRange(p, f).first .. RequiredSourceRange(p, f).last \subseteq SourceFrames
         /\ RequiredSourceRange(p, f).last - RequiredSourceRange(p, f).first + 1 <= MaxSourceWindow(p)
         /\ IsFiniteSet(Anchors(p, f)) /\ Cardinality(Anchors(p, f)) <= MaxContributors(p)
         /\ \A a \in Anchors(p, f) :
               /\ a \in 0..(ValidAnchorFrames(p) - 1)
               /\ AnchorSourceRange(p, a).first \in Nat /\ AnchorSourceRange(p, a).last \in Nat
               /\ AnchorSourceRange(p, a).last = AnchorSourceRange(p, a).first + CachedFrames(p) - 1
               /\ AnchorSourceRange(p, a).first <= AnchorSourceRange(p, a).last
               /\ RequiredSourceRange(p, f).first <= AnchorSourceRange(p, a).first
               /\ AnchorSourceRange(p, a).last <= RequiredSourceRange(p, f).last
<1>1. Geometry!ValidParameters(p) /\ f \in 0..(p.frames - 1)
  BY Sizes, SameSizes DEF SourceFrames
<1>2. /\ RequiredSourceRange(p, f).first \in 0..f
      /\ RequiredSourceRange(p, f).last \in f..(p.frames - 1)
      /\ RequiredSourceRange(p, f).last - RequiredSourceRange(p, f).first + 1 <= MaxSourceWindow(p)
      /\ \A a \in Anchors(p, f) :
            /\ RequiredSourceRange(p, f).first <= AnchorSourceRange(p, a).first
            /\ AnchorSourceRange(p, a).last <= RequiredSourceRange(p, f).last
  BY <1>1, Geometry!WindowOfFrame, SameAnchors, SameRange, SameWindow, SameSizes
<1>3. /\ ContributingAnchors(p, f).first \in 0..(ValidAnchorFrames(p) - 1)
      /\ ContributingAnchors(p, f).last \in 0..(ValidAnchorFrames(p) - 1)
      /\ ContributingAnchors(p, f).last - ContributingAnchors(p, f).first + 1 \in 1..MaxContributors(p)
  BY <1>1, Geometry!AnchorsOfFrame, SameAnchors, SameSizes
<1>4. /\ IsFiniteSet(Anchors(p, f)) /\ Cardinality(Anchors(p, f)) <= MaxContributors(p)
      /\ \A a \in Anchors(p, f) : a \in 0..(ValidAnchorFrames(p) - 1)
  <2> DEFINE low == ContributingAnchors(p, f).first
             high == ContributingAnchors(p, f).last
  <2>1. Anchors(p, f) = low..high
    BY DEF Anchors
  <2>2. low \in Int /\ high \in Int /\ 0 <= low /\ high <= ValidAnchorFrames(p) - 1
        /\ high - low + 1 \in 1..MaxContributors(p)
    BY <1>3, Sizes
  <2> HIDE DEF low, high
  <2>3. IsFiniteSet(low..high) /\ Cardinality(low..high) = high - low + 1
    BY <2>2, FS_Interval
  <2> QED BY <2>1, <2>2, <2>3, Sizes
<1>5. \A a \in Anchors(p, f) :
         /\ AnchorSourceRange(p, a).first \in 0..a
         /\ AnchorSourceRange(p, a).last \in a..(p.frames - 1)
         /\ AnchorSourceRange(p, a).last - AnchorSourceRange(p, a).first + 1 = CachedFrames(p)
  BY <1>1, <1>4, Geometry!SourceRange, SameRange, SameSizes
<1> QED BY <1>1, <1>2, <1>4, <1>5, Sizes DEF SourceFrames

LEMMA CacheFacts ==
  /\ Len(SourceCaches) \in Nat \ {0} /\ DOMAIN SourceCaches = 1..Len(SourceCaches)
  /\ SourceCaches \in Seq(CacheNames)
  /\ \A c \in CacheNames : \E i \in 1..Len(SourceCaches) : c = SourceCaches[i]
<1>1. SourceCaches = <<"noisy">> \/ SourceCaches = <<"noisy", "basic">>
  BY BuffersAssumption
<1> QED BY <1>1 DEF CacheNames

-----------------------------------------------------------------------------
(* The operations: what each kind copies, and its rank. *)

LEMMA Load ==
  ASSUME NEW op \in Loads
  PROVE  /\ op.op = "upload" /\ Tag(op) = "staging" /\ Rank(op) = 0
         /\ \E i \in 0..(UploadSlots - 1), x \in Needed :
               op.from = Staging(i) /\ op.to = Slot(x[1], x[2]) /\ op.what = x
<1>1. PICK i \in 0..(UploadSlots - 1), x \in Needed : op = Upload(Staging(i), Slot(x[1], x[2]), x)
  BY DEF Loads
<1>2. op.op = "upload" /\ op.from = Staging(i) /\ op.to = Slot(x[1], x[2]) /\ op.what = x
  BY <1>1 DEF Upload
<1>3. Tag(op) = "staging"
  BY <1>2 DEF Tag, Staging
<1> QED BY <1>2, <1>3 DEF Rank

LEMMA Copy ==
  ASSUME NEW op \in Copies
  PROVE  /\ missing # <<>> /\ Rank(op) = 1
         /\ Tag(op) = IF tables THEN "tables" ELSE "move"
         /\ op.op = IF tables THEN "upload" ELSE "move"
         /\ tables => \E c \in CacheNames : /\ op.from = Tables(c) /\ op.to = Tables(c)
                                            /\ op.what = TablesOf(c)
         /\ ~tables => \E c \in CacheNames, f \in Assembly.first .. Assembly.last :
                          op.from = Slot(c, f) /\ op.to = Place(c, f - Assembly.first)
<1>1. missing # <<>>
  BY DEF Copies
<1>2. CASE tables
  <2>1. PICK c \in CacheNames : op = Upload(Tables(c), Tables(c), TablesOf(c))
    BY <1>1, <1>2 DEF Copies
  <2>2. /\ op.op = "upload" /\ op.from = Tables(c) /\ op.to = Tables(c) /\ op.what = TablesOf(c)
    BY <2>1 DEF Upload
  <2>3. Tag(op) = "tables"
    BY <2>2 DEF Tag, Tables
  <2>4. Rank(op) = 1
    BY <2>3 DEF Rank
  <2> QED BY <1>1, <1>2, <2>2, <2>3, <2>4
<1>3. CASE ~tables
  <2>1. PICK c \in CacheNames, f \in Assembly.first .. Assembly.last :
           op = Move(Slot(c, f), Place(c, f - Assembly.first))
    BY <1>1, <1>3 DEF Copies
  <2>2. op.op = "move" /\ op.from = Slot(c, f) /\ op.to = Place(c, f - Assembly.first)
    BY <2>1 DEF Move
  <2>3. Tag(op) = "move"
    BY <2>2 DEF Tag
  <2>4. Rank(op) = 1
    BY <2>3 DEF Rank
  <2> QED BY <1>1, <1>3, <2>2, <2>3, <2>4
<1> QED BY <1>2, <1>3

LEMMA Cleared ==
  ASSUME NEW op \in Clears
  PROVE  /\ op.op = "clear" /\ Tag(op) = "clear"
         /\ op.at \in Turns /\ op.count = TotalGroups /\ Rank(op) = 3 * op.at
         /\ op = Clear(op.at, TotalGroups)
<1>1. PICK m \in Turns : op = Clear(m, TotalGroups)
  BY DEF Clears
<1>2. op.op = "clear" /\ op.at = m /\ op.count = TotalGroups
  BY <1>1 DEF Clear
<1>3. Tag(op) = "clear"
  BY <1>2 DEF Tag
<1> QED BY <1>1, <1>2, <1>3 DEF Rank

LEMMA Grid ==
  ASSUME NEW op \in Grids
  PROVE  /\ op.op = "upload" /\ Tag(op) = "anchors" /\ op.to = <<"grid">>
         /\ \E m \in Turns : /\ op.from = Anchored(m) /\ op.from[2] = m
                             /\ op.what = <<missing[m]>> /\ Rank(op) = 3 * m + 1
<1>1. PICK m \in Turns : op = Upload(Anchored(m), <<"grid">>, <<missing[m]>>)
  BY DEF Grids
<1>2. op.op = "upload" /\ op.from = Anchored(m) /\ op.to = <<"grid">> /\ op.what = <<missing[m]>>
  BY <1>1 DEF Upload
<1>3. Tag(op) = "anchors" /\ op.from[2] = m
  BY <1>2 DEF Tag, Anchored
<1>4. Rank(op) = 3 * m + 1
  BY <1>3 DEF Rank
<1> QED BY <1>2, <1>3, <1>4

LEMMA ChunkFields ==
  ASSUME NEW op \in Chunked
  PROVE  /\ op.op = "filter" /\ Tag(op) = "filter"
         /\ op.at \in Turns /\ Rank(op) = 3 * op.at + 2
         /\ op.anchor = missing[op.at] /\ op.base = WindowBase(missing[op.at])
         /\ \E j \in 1..ChunkCount(missing[op.at]) : op = Chunk(op.at, j)
<1>1. PICK m \in Turns : \E j \in 1..ChunkCount(missing[m]) : op = Chunk(m, j)
  BY DEF Chunked
<1>2. PICK j \in 1..ChunkCount(missing[m]) : op = Chunk(m, j)
  BY <1>1
<1>3. op.op = "filter" /\ op.at = m /\ op.anchor = missing[m] /\ op.base = WindowBase(missing[m])
  BY <1>2 DEF Chunk, Filter
<1>4. Tag(op) = "filter"
  BY <1>3 DEF Tag
<1>5. Rank(op) = 3 * op.at + 2
  BY <1>4 DEF Rank
<1> QED BY <1>2, <1>3, <1>4, <1>5

LEMMA Ending ==
  ASSUME NEW op \in Ends
  PROVE  \/ /\ op.op = "collect" /\ Tag(op) = "collect" /\ Rank(op) = End
            /\ op.count = Len(missing)
         \/ /\ op.op = "upload" /\ Tag(op) = "sources" /\ Rank(op) = End + 1
            /\ op.from = Sources /\ op.to = Sources /\ op.what = Descriptors
         \/ op.op = "combine" /\ Tag(op) = "combine" /\ Rank(op) = End + 1
<1>1. CASE op = Collect(Len(missing))
  <2>1. op.op = "collect" /\ op.count = Len(missing)
    BY <1>1 DEF Collect
  <2>2. Tag(op) = "collect"
    BY <2>1 DEF Tag
  <2> QED BY <2>1, <2>2 DEF Rank
<1>2. CASE op = Upload(Sources, Sources, Descriptors)
  <2>1. op.op = "upload" /\ op.from = Sources /\ op.to = Sources /\ op.what = Descriptors
    BY <1>2 DEF Upload
  <2>2. Tag(op) = "sources"
    BY <2>1 DEF Tag, Sources
  <2> QED BY <2>1, <2>2 DEF Rank
<1>3. CASE op = Combine(Descriptors)
  <2>1. op.op = "combine"
    BY <1>3 DEF Combine
  <2>2. Tag(op) = "combine"
    BY <2>1 DEF Tag
  <2> QED BY <2>1, <2>2 DEF Rank
<1> QED BY <1>1, <1>2, <1>3 DEF Ends

\* The kinds are told apart by the tag.
LEMMA Kinds ==
  ASSUME NEW op \in Operations
  PROVE  /\ Tag(op) = "staging" => op \in Loads
         /\ Tag(op) \in {"tables", "move"} => op \in Copies
         /\ Tag(op) = "clear" => op \in Clears
         /\ Tag(op) = "anchors" => op \in Grids
         /\ Tag(op) = "filter" => op \in Chunked
         /\ Tag(op) \in {"collect", "sources", "combine"} => op \in Ends
         /\ Tag(op) \in {"staging", "tables", "move", "clear", "anchors", "filter",
                         "collect", "sources", "combine"}
<1>1. CASE op \in Loads
  BY <1>1, Load
<1>2. CASE op \in Copies
  <2>1. Tag(op) \in {"tables", "move"}
    BY <1>2, Copy
  <2> QED BY <1>2, <2>1
<1>3. CASE op \in Clears
  BY <1>3, Cleared
<1>4. CASE op \in Grids
  BY <1>4, Grid
<1>5. CASE op \in Chunked
  BY <1>5, ChunkFields
<1>6. CASE op \in Ends
  <2>1. Tag(op) \in {"collect", "sources", "combine"}
    BY <1>6, Ending
  <2> QED BY <1>6, <2>1
<1> QED BY <1>1, <1>2, <1>3, <1>4, <1>5, <1>6 DEF Operations

-----------------------------------------------------------------------------
(* Queues *)

LEMMA Extended ==
  ASSUME NEW S, NEW q \in Seq(S), NEW w \in Seq(S), NEW n \in 0..Len(w)
  PROVE  /\ q \o SubSeq(w, 1, n) \in Seq(S)
         /\ Len(q) \in Nat /\ Len(w) \in Nat
         /\ Len(q \o SubSeq(w, 1, n)) = Len(q) + n
         /\ \A i \in 1..Len(q) : (q \o SubSeq(w, 1, n))[i] = q[i]
         /\ \A i \in 1..n : (q \o SubSeq(w, 1, n))[Len(q) + i] = w[i]
<1>1. Len(q) \in Nat /\ Len(w) \in Nat /\ n \in Nat /\ n <= Len(w)
  OBVIOUS
<1>2. /\ SubSeq(w, 1, n) \in Seq(S) /\ Len(SubSeq(w, 1, n)) = n
      /\ \A i \in 1..n : SubSeq(w, 1, n)[i] = w[i]
  BY <1>1
<1> DEFINE s == SubSeq(w, 1, n)
<1> HIDE DEF s
<1> QED BY <1>1, <1>2 DEF s

LEMMA Joined ==
  ASSUME NEW S, NEW q \in Seq(S), NEW w \in Seq(S)
  PROVE  /\ q \o w \in Seq(S) /\ Len(q \o w) = Len(q) + Len(w)
         /\ \A i \in 1..Len(q) : (q \o w)[i] = q[i]
         /\ \A i \in 1..Len(w) : (q \o w)[Len(q) + i] = w[i]
  OBVIOUS

LEMMA Whole ==
  ASSUME NEW S, NEW w \in Seq(S)
  PROVE  SubSeq(w, 1, Len(w)) = w
  OBVIOUS

LEMMA Shortened ==
  ASSUME NEW S, NEW q \in Seq(S), q # <<>>
  PROVE  /\ Tail(q) \in Seq(S) /\ Len(q) \in Nat /\ Len(q) >= 1
         /\ Len(Tail(q)) = Len(q) - 1 /\ Head(q) = q[1] /\ Head(q) \in S
         /\ \A i \in 1..(Len(q) - 1) : Tail(q)[i] = q[i + 1]
  OBVIOUS

-----------------------------------------------------------------------------
(* What a point of the render queues *)

\* The groups of an anchor that is missing, and the chunks they take.
LEMMA MissingGrids ==
  ASSUME Types, NEW m \in Turns
  PROVE  /\ missing[m] \in Anchors(p, frame) /\ Groups[missing[m]] \in 1..TotalGroups
         /\ ChunkCount(missing[m]) \in Nat
  <1>1. missing[m] \in Anchors(p, frame)
    BY DEF Types, Turns
  <1>2. missing[m] \in 0..(ValidAnchorFrames(p) - 1)
    BY <1>1, FrameNeeds DEF Types
  <1>3. Groups[missing[m]] \in 1..TotalGroups
    BY <1>2, BuffersAssumption
  <1> DEFINE g == Groups[missing[m]]
  <1>4. g \in Nat /\ g >= 1 /\ ChunkGroups \in Nat /\ ChunkGroups >= 1
    BY <1>3, BuffersAssumption
  <1>5. (g + ChunkGroups - 1) \div ChunkGroups \in Nat
    <2> HIDE DEF g
    <2>1. g + ChunkGroups - 1 \in Nat
      BY <1>4
    <2> DEFINE s == g + ChunkGroups - 1
    <2> HIDE DEF s
    <2>2. s \in Nat
      BY <2>1 DEF s
    <2>3. s \div ChunkGroups \in Nat
      BY <2>2, <1>4
    <2> QED BY <2>3 DEF s
  <1> QED BY <1>1, <1>3, <1>5 DEF ChunkCount

\* The union of the missing anchors' windows lies in the leased window.
LEMMA Assembled ==
  ASSUME Types, missing # <<>>
  PROVE  /\ Assembly.first \in Nat /\ Assembly.last \in Nat /\ Assembly.first <= Assembly.last
         /\ Assembly.first .. Assembly.last \subseteq Span
         /\ \A f \in Assembly.first .. Assembly.last : f - Assembly.first \in 0..(MaxSourceWindow(p) - 1)
         /\ \A m \in Turns : /\ Assembly.first <= AnchorSourceRange(p, missing[m]).first
                             /\ AnchorSourceRange(p, missing[m]).last <= Assembly.last
<1> DEFINE F == {AnchorSourceRange(p, missing[m]).first : m \in DOMAIN missing}
           L == {AnchorSourceRange(p, missing[m]).last : m \in DOMAIN missing}
           low == Window.first
           high == Window.last
<1>1. DOMAIN missing = Turns /\ 1 \in Turns
  <2>1. Len(missing) \in Nat /\ DOMAIN missing = 1..Len(missing) /\ Len(missing) # 0
    BY DEF Types
  <2> QED BY <2>1 DEF Turns
<1>2. low \in Nat /\ high \in Nat /\ high - low + 1 <= MaxSourceWindow(p) /\ Span = low..high
  BY FrameNeeds DEF Types, Window, Span
<1>3. ASSUME NEW m \in Turns
      PROVE  LET r == AnchorSourceRange(p, missing[m])
             IN r.first \in Nat /\ r.last \in Nat /\ r.first <= r.last /\ low <= r.first /\ r.last <= high
  <2>1. missing[m] \in Anchors(p, frame)
    BY MissingGrids
  <2> QED BY <2>1, FrameNeeds DEF Types, Window
<1>4. F # {} /\ L # {} /\ F \subseteq 0..high /\ L \subseteq 0..high
  <2>1. AnchorSourceRange(p, missing[1]).first \in F /\ AnchorSourceRange(p, missing[1]).last \in L
    BY <1>1
  <2>2. \A m \in Turns : /\ AnchorSourceRange(p, missing[m]).first \in 0..high
                         /\ AnchorSourceRange(p, missing[m]).last \in 0..high
    BY <1>2, <1>3
  <2> QED BY <1>1, <2>1, <2>2
<1>5. /\ Lowest(F) \in F /\ \A x \in F : Lowest(F) <= x
      /\ Highest(L) \in L /\ \A x \in L : Highest(L) >= x
  <2> HIDE DEF F, L
  <2> QED BY <1>2, <1>4, Geometry!Extremes, SameExtremes
<1>6. Assembly.first = Lowest(F) /\ Assembly.last = Highest(L)
  BY DEF Assembly
<1>7. \A m \in Turns : /\ Lowest(F) <= AnchorSourceRange(p, missing[m]).first
                       /\ AnchorSourceRange(p, missing[m]).last <= Highest(L)
  BY <1>1, <1>5
<1>8. low <= Lowest(F) /\ Highest(L) <= high /\ Lowest(F) \in Nat /\ Highest(L) \in Nat
  BY <1>1, <1>3, <1>5
<1> HIDE DEF F, L
<1>9. Lowest(F) <= Highest(L)
  BY <1>1, <1>3, <1>7, <1>8
<1>10. Assembly.first .. Assembly.last \subseteq Span
  BY <1>2, <1>6, <1>8
<1>11. \A f \in Assembly.first .. Assembly.last : f - Assembly.first \in 0..(MaxSourceWindow(p) - 1)
  BY <1>2, <1>6, <1>8, Sizes
<1> QED BY <1>6, <1>7, <1>8, <1>9, <1>10, <1>11

LEMMA UploadWork ==
  ASSUME Control, pc = "upload"
  PROVE  /\ StagingIndex \in 0..(UploadSlots - 1) /\ uploads[index] \in Needed
         /\ Len(Work) = 1 /\ Work \in Seq(Loads)
         /\ Work[1] = Upload(Staging(StagingIndex), Slot(uploads[index][1], uploads[index][2]),
                             uploads[index])
<1>1. StagingIndex \in 0..(UploadSlots - 1)
  BY BuffersAssumption DEF Control, Types, StagingIndex
<1>2. uploads[index] \in Needed
  BY DEF Control, Types, Counters
<1> DEFINE u == Upload(Staging(StagingIndex), Slot(uploads[index][1], uploads[index][2]),
                       uploads[index])
<1>3. Work = <<u>>
  BY DEF Work
<1>4. u \in Loads
  BY <1>1, <1>2 DEF Loads
<1> HIDE DEF u
<1>5. <<u>> \in Seq(Loads) /\ Len(<<u>>) = 1 /\ <<u>>[1] = u
  BY <1>4
<1> QED BY <1>1, <1>2, <1>3, <1>5 DEF u

LEMMA TableWork ==
  ASSUME Control, pc = "tables", tables, missing # <<>>
  PROVE  /\ Len(Work) = Len(SourceCaches) /\ Work \in Seq(Copies)
         /\ \A i \in 1..Len(SourceCaches) :
               Work[i] = Upload(Tables(SourceCaches[i]), Tables(SourceCaches[i]),
                                TablesOf(SourceCaches[i]))
<1> DEFINE W == [i \in 1..Len(SourceCaches) |-> Upload(Tables(SourceCaches[i]),
                        Tables(SourceCaches[i]), TablesOf(SourceCaches[i]))]
<1>1. Work = W
  BY CacheFacts DEF Work
<1>2. \A i \in 1..Len(SourceCaches) : W[i] \in Copies
  BY CacheFacts DEF Copies
<1>3. Len(W) = Len(SourceCaches) /\ W \in Seq(Copies)
  BY <1>2, CacheFacts
<1> QED BY <1>1, <1>3

LEMMA MoveWork ==
  ASSUME Control, pc = "tables", ~tables, missing # <<>>
  PROVE  /\ Len(Work) = Assembly.last - Assembly.first + 1 /\ Work \in Seq(Copies)
         /\ SourceCaches[index] \in CacheNames
         /\ \A i \in 1..Len(Work) :
               Work[i] = Move(Slot(SourceCaches[index], Assembly.first + i - 1),
                              Place(SourceCaches[index], i - 1))
<1> DEFINE c == SourceCaches[index]
           n == Assembly.last - Assembly.first + 1
           W == [i \in 1..n |-> Move(Slot(c, Assembly.first + i - 1), Place(c, i - 1))]
<1>1. Work = W
  BY DEF Work, WindowMoves
<1>2. c \in CacheNames
  BY CacheFacts DEF Control, Types, Counters
<1>3. Assembly.first \in Nat /\ Assembly.last \in Nat /\ Assembly.first <= Assembly.last
  BY Assembled DEF Control
<1>4. n \in Nat
  BY <1>3
<1>5. \A i \in 1..n : W[i] \in Copies
  <2> SUFFICES ASSUME NEW i \in 1..n PROVE W[i] \in Copies
    OBVIOUS
  <2> DEFINE f == Assembly.first + i - 1
  <2>1. f \in Assembly.first .. Assembly.last /\ f - Assembly.first = i - 1
    BY <1>3
  <2>2. W[i] = Move(Slot(c, f), Place(c, f - Assembly.first))
    BY <2>1
  <2> HIDE DEF W, f, c, n
  <2> QED BY <2>1, <2>2, <1>2 DEF Copies
<1>6. Len(W) = n /\ W \in Seq(Copies) /\ \A i \in 1..n : W[i] = Move(Slot(c, Assembly.first + i - 1), Place(c, i - 1))
  BY <1>4, <1>5
<1> HIDE DEF W, n, c
<1> QED BY <1>1, <1>2, <1>6 DEF n, c

LEMMA ComputeWork ==
  ASSUME Control, pc = "compute"
  PROVE  /\ index \in Turns /\ Len(Work) = ChunkCount(missing[index]) + 2
         /\ Work \in Seq(Operations)
         /\ Work[1] = Clear(index, TotalGroups)
         /\ Work[2] = Upload(Anchored(index), <<"grid">>, <<missing[index]>>)
         /\ \A j \in 1..ChunkCount(missing[index]) : Work[j + 2] = Chunk(index, j)
<1>1. index \in Turns
  BY DEF Control, Types, Counters, Turns
<1> DEFINE n == ChunkCount(missing[index])
           a == Clear(index, TotalGroups)
           b == Upload(Anchored(index), <<"grid">>, <<missing[index]>>)
           W == Chunks(index, missing[index])
<1>2. n \in Nat
  BY <1>1, MissingGrids DEF Control
<1>3. W = [j \in 1..n |-> Chunk(index, j)]
  BY DEF Chunks, Chunk, ChunkCount
<1>4. Work = <<a, b>> \o W
  BY DEF Work, ClearedCount, GridPlace
<1>5. \A j \in 1..n : Chunk(index, j) \in Chunked
  BY <1>1 DEF Chunked
<1>6. a \in Operations /\ b \in Operations /\ Chunked \subseteq Operations
  BY <1>1 DEF Operations, Clears, Grids
<1> HIDE DEF n, a, b, W
<1>7. W \in Seq(Operations) /\ Len(W) = n /\ \A j \in 1..n : W[j] = Chunk(index, j)
  BY <1>2, <1>3, <1>5, <1>6
<1>8. /\ <<a, b>> \o W \in Seq(Operations) /\ Len(<<a, b>> \o W) = n + 2
      /\ (<<a, b>> \o W)[1] = a /\ (<<a, b>> \o W)[2] = b
      /\ \A j \in 1..n : (<<a, b>> \o W)[j + 2] = W[j]
  <2>1. <<a, b>> \in Seq(Operations) /\ Len(<<a, b>>) = 2 /\ <<a, b>>[1] = a /\ <<a, b>>[2] = b
    BY <1>6
  <2> DEFINE s == <<a, b>>
  <2> HIDE DEF s
  <2>2. s \in Seq(Operations) /\ Len(s) = 2 /\ s[1] = a /\ s[2] = b
    BY <2>1 DEF s
  <2>3. /\ s \o W \in Seq(Operations) /\ Len(s \o W) = n + 2
        /\ (s \o W)[1] = a /\ (s \o W)[2] = b
        /\ \A j \in 1..n : (s \o W)[j + 2] = W[j]
    <3>1. W \in Seq(Operations) /\ Len(W) = n
      BY <1>7
    <3>2. /\ s \o W \in Seq(Operations) /\ Len(s \o W) = Len(s) + Len(W)
          /\ \A i \in 1..Len(s) : (s \o W)[i] = s[i]
          /\ \A i \in 1..Len(W) : (s \o W)[Len(s) + i] = W[i]
      <4>1. s \in Seq(Operations) /\ W \in Seq(Operations)
        BY <2>2, <3>1
      <4> HIDE DEF Operations
      <4>2. s \o W \in Seq(Operations) /\ Len(s \o W) = Len(s) + Len(W)
        BY <4>1, Joined
      <4>3. \A i \in 1..Len(s) : (s \o W)[i] = s[i]
        BY <4>1, Joined
      <4>4. \A i \in 1..Len(W) : (s \o W)[Len(s) + i] = W[i]
        BY <4>1, Joined
      <4> QED BY <4>2, <4>3, <4>4
    <3>3. \A j \in 1..n : (s \o W)[2 + j] = W[j]
      BY <2>2, <3>1, <3>2
    <3>4. \A j \in 1..n : 2 + j = j + 2
      BY <1>2
    <3>5. 1 \in 1..Len(s) /\ 2 \in 1..Len(s) /\ Len(s) + Len(W) = n + 2
      BY <1>2, <2>2, <3>1
    <3> QED BY <2>2, <3>2, <3>3, <3>4, <3>5
  <2> QED BY <2>3 DEF s
<1> QED BY <1>1, <1>4, <1>7, <1>8 DEF n, a, b

LEMMA EndWork ==
  ASSUME Control
  PROVE  /\ pc = "collect" => /\ Len(Work) = 1 /\ Work \in Seq(Ends)
                              /\ Work[1] = Collect(Len(missing))
         /\ pc = "descriptors" => /\ Len(Work) = 2 /\ Work \in Seq(Ends)
                                  /\ Work[1] = Upload(Sources, Sources, Descriptors)
                                  /\ Work[2] = Combine(Descriptors)
         /\ pc \in {"idle", "sync", "check", "drain", "done"} \/ (pc = "tables" /\ missing = <<>>)
               => Work = <<>> /\ Len(Work) = 0
<1>1. CASE pc = "collect"
  <2>1. Work = <<Collect(Len(missing))>>
    BY <1>1 DEF Work
  <2>2. Collect(Len(missing)) \in Ends
    BY DEF Ends
  <2> QED BY <1>1, <2>1, <2>2
<1>2. CASE pc = "descriptors"
  <2> DEFINE a == Upload(Sources, Sources, Descriptors)
             b == Combine(Descriptors)
  <2>1. Work = <<a, b>>
    BY <1>2 DEF Work
  <2>2. a \in Ends /\ b \in Ends
    BY DEF Ends
  <2> HIDE DEF a, b
  <2>3. Len(Work) = 2 /\ Work \in Seq(Ends) /\ Work[1] = a /\ Work[2] = b
    BY <2>1, <2>2
  <2> QED BY <1>2, <2>3 DEF a, b
<1>3. CASE pc \in {"idle", "sync", "check", "drain", "done"} \/ (pc = "tables" /\ missing = <<>>)
  BY <1>3 DEF Work
<1> QED BY <1>1, <1>2, <1>3

LEMMA WorkTyped ==
  ASSUME Control
  PROVE  Work \in Seq(Operations)
<1>1. Loads \subseteq Operations /\ Copies \subseteq Operations /\ Ends \subseteq Operations
  BY DEF Operations
<1>2. /\ \A w \in Seq(Loads) : w \in Seq(Operations)
      /\ \A w \in Seq(Copies) : w \in Seq(Operations)
      /\ \A w \in Seq(Ends) : w \in Seq(Operations)
  BY <1>1
<1>3. CASE pc = "upload"
  BY <1>2, <1>3, UploadWork
<1>4. CASE pc = "tables" /\ missing # <<>>
  BY <1>2, <1>4, TableWork, MoveWork
<1>5. CASE pc = "compute"
  BY <1>5, ComputeWork
<1>6. CASE pc \in {"collect", "descriptors"}
  BY <1>2, <1>6, EndWork
<1>7. CASE pc \in {"idle", "sync", "check", "drain", "done"} \/ (pc = "tables" /\ missing = <<>>)
  <2>1. Work = <<>>
    BY <1>7, EndWork
  <2> QED BY <2>1
<1>8. pc \in Points
  BY DEF Control, Types
<1> QED BY <1>3, <1>4, <1>5, <1>6, <1>7, <1>8 DEF Points

-----------------------------------------------------------------------------
(* Control is kept *)

\* What a render's operations depend on.
fixedVars == <<tables, frame, missing>>

LEMMA SameWork ==
  ASSUME UNCHANGED fixedVars
  PROVE  /\ Operations' = Operations /\ Needed' = Needed /\ Turns' = Turns /\ Span' = Span
         /\ Assembly' = Assembly /\ Descriptors' = Descriptors /\ End' = End
         /\ \A c : TablesOf(c)' = TablesOf(c)
         /\ \A op : Rank(op)' = Rank(op)
<1>1. tables' = tables /\ frame' = frame /\ missing' = missing
  BY DEF fixedVars
<1>2. Needed' = Needed /\ Turns' = Turns /\ Span' = Span
  BY <1>1 DEF Needed, Turns, Span, Window
<1>3. Assembly' = Assembly /\ Descriptors' = Descriptors /\ End' = End
  BY <1>1 DEF Assembly, Descriptors, End
<1>4. \A c : TablesOf(c)' = TablesOf(c)
  BY <1>1 DEF TablesOf
<1>5. \A op : Rank(op)' = Rank(op)
  BY <1>3 DEF Rank
<1>6. Loads' = Loads
  BY <1>2 DEF Loads
<1>7. Copies' = Copies
  BY <1>1, <1>3, <1>4 DEF Copies
<1>8. Clears' = Clears /\ Grids' = Grids
  BY <1>1, <1>2 DEF Clears, Grids
<1>9. Chunked' = Chunked
  BY <1>1, <1>2, <1>3 DEF Chunked, Chunk, WindowBase
<1>10. Ends' = Ends
  BY <1>1, <1>3 DEF Ends
<1> QED BY <1>2, <1>3, <1>4, <1>5, <1>6, <1>7, <1>8, <1>9, <1>10 DEF Operations

\* The first count operations of this point are queued.
Issued(count) ==
    /\ host' = Filled /\ issued' = issued + count
    /\ queue' = queue \o SubSeq(Work, 1, count)

LEMMA IssueAll ==
  ASSUME Control, Issue(Work)
  PROVE  Len(Work) \in 0..Len(Work) /\ Issued(Len(Work))
<1>1. Len(Work) \in Nat /\ SubSeq(Work, 1, Len(Work)) = Work
  BY WorkTyped, Whole
<1> QED BY <1>1 DEF Issue, Issued

LEMMA IssueSome ==
  ASSUME Control, NEW count \in 0..Len(Work), Issue(SubSeq(Work, 1, count))
  PROVE  Issued(count)
<1>1. Len(SubSeq(Work, 1, count)) = count
  BY WorkTyped
<1> QED BY <1>1 DEF Issue, Issued

LEMMA QueueTyped ==
  ASSUME Control, UNCHANGED fixedVars, NEW count \in 0..Len(Work), Issued(count)
  PROVE  /\ queue' \in Seq(Operations)' /\ Len(queue') = Len(queue) + count
         /\ Len(queue) \in Nat /\ count \in Nat
         /\ \A i \in 1..Len(queue) : queue'[i] = queue[i]
         /\ \A i \in 1..count : queue'[Len(queue) + i] = Work[i]
         /\ issued' \in Nat /\ Len(queue') <= issued' /\ issued <= issued'
         /\ DOMAIN host' = HostCells
<1>1. queue \in Seq(Operations) /\ Work \in Seq(Operations)
  BY WorkTyped DEF Control, Types
<1>2. queue' \in Seq(Operations)
  BY <1>1, Extended DEF Issued
<1>3. Len(queue') = Len(queue) + count
  BY <1>1, Extended DEF Issued
<1>4. \A i \in 1..Len(queue) : queue'[i] = queue[i]
  BY <1>1, Extended DEF Issued
<1>5. \A i \in 1..count : queue'[Len(queue) + i] = Work[i]
  BY <1>1, Extended DEF Issued
<1>6. Len(queue) \in Nat /\ count \in Nat /\ issued \in Nat /\ Len(queue) <= issued
  BY <1>1 DEF Control, Types
<1>7. DOMAIN host' = HostCells
  BY DEF Issued, Filled, Control, Types
<1> QED BY <1>2, <1>3, <1>4, <1>5, <1>6, <1>7, SameWork DEF Issued

\* A step of a render that keeps its anchors and frames, and the types of what it
\* changes, keeps the types.
LEMMA TypesKept ==
  ASSUME Types, UNCHANGED <<tables, frame, uploads, missing>>,
         pc' \in Points, index' \in Nat \ {0},
         cursor' \in Nat, event' \in [0..(UploadSlots - 1) -> Nat], issued' \in Nat,
         DOMAIN host' = HostCells, DOMAIN dev' = DeviceCells,
         queue' \in Seq(Operations'), Len(queue') <= issued'
  PROVE  Types'
<1>1. Needed' = Needed
  BY SameWork DEF fixedVars
<1> QED BY <1>1 DEF Types

LEMMA ControlInit == WorkerInit => Control
<1> SUFFICES ASSUME WorkerInit PROVE Control
  OBVIOUS
<1>1. /\ pc = "idle" /\ index = 1 /\ tables \in BOOLEAN /\ frame = 0 /\ uploads = <<>>
      /\ missing = <<>> /\ cursor = 0 /\ event = [i \in 0..(UploadSlots - 1) |-> 0]
      /\ issued = 0 /\ queue = <<>>
      /\ DOMAIN host = HostCells /\ DOMAIN dev = DeviceCells
  BY DEF WorkerInit
<1>2. frame \in SourceFrames
  BY <1>1, Sizes DEF SourceFrames
<1>3. Len(missing) <= MaxContributors(p)
  BY <1>1, Sizes
<1> QED BY <1>1, <1>2, <1>3, BuffersAssumption DEF Control, Types, Counters, Points

LEMMA ListLength ==
  ASSUME NEW S, NEW T, S \subseteq T, IsFiniteSet(T), NEW s \in Listings(S)
  PROVE  s \in Seq(S) /\ Len(s) = Cardinality(S) /\ Len(s) <= Cardinality(T)
<1>1. IsFiniteSet(S) /\ Cardinality(S) <= Cardinality(T)
  BY FS_Subset
<1>2. Cardinality(S) \in Nat
  BY <1>1, FS_CardinalityType
<1>3. s \in [1..Cardinality(S) -> S]
  BY DEF Listings
<1>4. s \in Seq(S) /\ Len(s) = Cardinality(S)
  BY <1>2, <1>3
<1> QED BY <1>1, <1>4

LEMMA ControlStart ==
  ASSUME Control, NEW f \in Wanted,
         NEW misses \in SUBSET (CacheNames \X (RequiredSourceRange(p, f).first
                                               .. RequiredSourceRange(p, f).last)),
         NEW todo \in SUBSET Anchors(p, f), StartRender(f, misses, todo)
  PROVE  Control'
<1>1. f \in SourceFrames /\ frame' = f
  BY BuffersAssumption DEF StartRender
<1>2. Needed' = CacheNames \X (RequiredSourceRange(p, f).first .. RequiredSourceRange(p, f).last)
  BY <1>1 DEF Needed, Span, Window
<1>3. uploads' \in Seq(Needed') /\ (misses # {} => 1 <= Len(uploads'))
  <2>1. uploads' \in Listings(misses)
    BY DEF StartRender, UploadOrders
  <2> DEFINE W == RequiredSourceRange(p, f).first .. RequiredSourceRange(p, f).last
  <2>2. IsFiniteSet(CacheNames) /\ IsFiniteSet(W)
    <3>1. CacheNames \subseteq {"noisy", "basic"}
      BY BuffersAssumption DEF CacheNames
    <3>2. IsFiniteSet({"noisy", "basic"})
      <4>1. IsFiniteSet({"noisy"})
        BY FS_Singleton
      <4>2. IsFiniteSet({"noisy"} \cup {"basic"})
        BY <4>1, FS_AddElement
      <4>3. {"noisy", "basic"} = {"noisy"} \cup {"basic"}
        OBVIOUS
      <4> QED BY <4>2, <4>3
    <3>3. RequiredSourceRange(p, f).first \in Int /\ RequiredSourceRange(p, f).last \in Int
      BY <1>1, FrameNeeds
    <3> QED BY <3>1, <3>2, <3>3, FS_Subset, FS_Interval
  <2>3. IsFiniteSet(CacheNames \X W)
    BY <2>2, FS_Product
  <2>4. uploads' \in Seq(misses) /\ Len(uploads') = Cardinality(misses)
    BY <2>1, <2>3, ListLength
  <2>5. misses # {} => Cardinality(misses) # 0
    BY <2>3, FS_Subset, FS_EmptySet
  <2>6. misses \subseteq Needed' /\ Len(uploads') \in Nat
    BY <1>2, <2>4
  <2> QED BY <2>4, <2>5, <2>6
<1>4. missing' \in Seq(Anchors(p, f)) /\ Len(missing') <= MaxContributors(p)
  <2>1. missing' \in Listings(todo)
    BY DEF StartRender, Ascending
  <2>2. IsFiniteSet(Anchors(p, f)) /\ Cardinality(Anchors(p, f)) <= MaxContributors(p)
    BY <1>1, FrameNeeds
  <2>3. missing' \in Seq(todo) /\ Len(missing') <= Cardinality(Anchors(p, f))
    BY <2>1, <2>2, ListLength
  <2>4. Cardinality(Anchors(p, f)) \in Nat /\ MaxContributors(p) \in Nat /\ Len(missing') \in Nat
    BY <2>2, <2>3, FS_CardinalityType, Sizes
  <2>5. missing' \in Seq(Anchors(p, f))
    BY <2>3
  <2> QED BY <2>2, <2>3, <2>4, <2>5
<1>5. queue = <<>> /\ queue' = <<>> /\ issued' = issued /\ event' = event /\ host' = host
      /\ tables' = tables
  BY DEF StartRender, Control, Counters
<1>6. DOMAIN dev' = DeviceCells /\ cursor' = 0 /\ index' = 1
      /\ pc' = (IF misses = {} THEN "tables" ELSE "upload")
  BY DEF StartRender
<1>7. queue' \in Seq(Operations') /\ Len(queue') <= issued'
  BY <1>5 DEF Control, Types
<1>8. Types'
  BY <1>1, <1>3, <1>4, <1>5, <1>6, <1>7 DEF Control, Types, Points
<1>9. Counters'
  BY <1>3, <1>5, <1>6, CacheFacts DEF Control, Counters
<1> QED BY <1>8, <1>9 DEF Control

\* A point's work is queued, whole or in part.
LEMMA ControlIssue ==
  ASSUME Control, NEW count \in 0..Len(Work), Issued(count),
         UNCHANGED <<tables, frame, uploads, missing>>, dev' = dev,
         pc' \in Points \ {"idle", "check", "done"}, index' \in Nat \ {0},
         cursor' \in Nat, event' \in [0..(UploadSlots - 1) -> Nat],
         \A i \in 0..(UploadSlots - 1) : event'[i] <= issued',
         pc' = "upload" => index' <= Len(uploads),
         pc' = "tables" => index' <= Len(SourceCaches),
         pc' = "compute" => index' <= Len(missing)
  PROVE  Control'
<1>1. UNCHANGED fixedVars
  BY DEF fixedVars
<1>2. queue' \in Seq(Operations')
  BY <1>1, QueueTyped
<1>3. issued' \in Nat /\ Len(queue') <= issued'
  BY <1>1, QueueTyped
<1>4. DOMAIN host' = HostCells
  BY <1>1, QueueTyped
<1>5. Types'
  <2>1. Types /\ DOMAIN dev' = DeviceCells /\ pc' \in Points
    BY DEF Control, Types
  <2> QED BY <1>2, <1>3, <1>4, <2>1, TypesKept
<1>6. Counters'
  BY DEF Counters
<1> QED BY <1>5, <1>6 DEF Control

LEMMA ControlCalm ==
  ASSUME Control, UNCHANGED <<tables, frame, uploads, missing>>,
         UNCHANGED <<host, queue, issued, dev, cursor, event>>,
         pc' \in Points, index' \in Nat \ {0}, pc' \notin {"upload", "compute"},
         pc' = "tables" => index' <= Len(SourceCaches),
         pc' \in {"idle", "check", "done"} => queue = <<>>
  PROVE  Control'
<1>1. Operations' = Operations
  BY SameWork DEF fixedVars
<1>2. Types'
  BY <1>1, TypesKept DEF Control, Types
<1>3. Counters'
  BY DEF Control, Counters
<1> QED BY <1>2, <1>3 DEF Control

LEMMA ControlHost ==
  ASSUME Control,
         \/ StageUpload \/ UploadTables \/ AssembleWindow \/ NothingMissing
         \/ ComputeContribution \/ CollectStatus \/ CombineFrame \/ CallFails
         \/ Synchronize \/ CheckStatus \/ Drain \/ ReturnWorker
  PROVE  Control'
<1>1. /\ pc \in Points /\ index \in Nat \ {0} /\ cursor \in Nat /\ Len(missing) \in Nat
      /\ Len(uploads) \in Nat /\ issued \in Nat
      /\ event \in [0..(UploadSlots - 1) -> Nat] /\ \A i \in 0..(UploadSlots - 1) : event[i] <= issued
  BY DEF Control, Types, Counters
<1>2. \A count \in 0..Len(Work) : Issued(count) => issued' \in Nat /\ issued <= issued'
  BY <1>1, WorkTyped DEF Issued
<1>3. CASE StageUpload
  <2>1. Issued(Len(Work)) /\ Len(Work) = 1 /\ Len(Work) \in 0..Len(Work)
    BY <1>3, IssueAll, UploadWork DEF StageUpload
  <2>2. issued' = issued + 1
    BY <2>1 DEF Issued
  <2>3. /\ cursor' = cursor + 1 /\ event' = [event EXCEPT ![StagingIndex] = issued + 1] /\ dev' = dev
        /\ UNCHANGED <<tables, frame, uploads, missing>>
        /\ \/ index < Len(uploads) /\ pc' = "upload" /\ index' = index + 1
           \/ pc' = "tables" /\ index' = 1
    BY <1>3 DEF StageUpload, Advance, Goto
  <2>4. /\ event' \in [0..(UploadSlots - 1) -> Nat]
        /\ \A i \in 0..(UploadSlots - 1) : event'[i] <= issued'
    <3>1. issued + 1 \in Nat /\ \A i \in 0..(UploadSlots - 1) : event[i] \in Nat /\ event[i] <= issued + 1
      BY <1>1
    <3>2. \A i \in 0..(UploadSlots - 1) : event'[i] = IF i = StagingIndex THEN issued + 1 ELSE event[i]
      BY <1>1, <2>3
    <3>3. event' \in [0..(UploadSlots - 1) -> Nat]
      BY <1>1, <2>3, <3>1
    <3> QED BY <2>2, <3>1, <3>2, <3>3
  <2>5. /\ pc' \in Points \ {"idle", "check", "done"} /\ index' \in Nat \ {0} /\ cursor' \in Nat
        /\ pc' = "upload" => index' <= Len(uploads)
        /\ pc' = "tables" => index' <= Len(SourceCaches)
        /\ pc' = "compute" => index' <= Len(missing)
    BY <1>1, <2>3, CacheFacts DEF Points
  <2> QED BY <2>1, <2>3, <2>4, <2>5, ControlIssue
<1>4. CASE UploadTables \/ AssembleWindow \/ ComputeContribution \/ CollectStatus \/ CombineFrame
  <2>1. Issued(Len(Work)) /\ Len(Work) \in 0..Len(Work)
    BY <1>4, IssueAll
       DEF UploadTables, AssembleWindow, ComputeContribution, CollectStatus, CombineFrame
  <2>2. cursor' = cursor /\ event' = event /\ dev' = dev /\ UNCHANGED <<tables, frame, uploads, missing>>
    BY <1>4 DEF UploadTables, AssembleWindow, ComputeContribution, CollectStatus, CombineFrame,
                Advance, Goto
  <2>3. \A i \in 0..(UploadSlots - 1) : event'[i] <= issued'
    BY <1>1, <1>2, <2>1, <2>2
  <2>4. /\ pc' \in Points \ {"idle", "check", "done", "upload"} /\ index' \in Nat \ {0}
        /\ pc' = "tables" => index' <= Len(SourceCaches)
        /\ pc' = "compute" => index' <= Len(missing)
    <3>1. missing # <<>> => 1 <= Len(missing)
      BY DEF Control, Types
    <3>2. CASE UploadTables
      BY <3>1, <3>2 DEF UploadTables, Goto, Points
    <3>3. CASE AssembleWindow
      BY <1>1, <3>1, <3>3, CacheFacts DEF AssembleWindow, Advance, Goto, Points
    <3>4. CASE ComputeContribution
      BY <1>1, <3>4 DEF ComputeContribution, Advance, Goto, Points
    <3>5. CASE CollectStatus \/ CombineFrame
      BY <3>5 DEF CollectStatus, CombineFrame, Goto, Points
    <3> QED BY <1>4, <3>2, <3>3, <3>4, <3>5
  <2> QED BY <1>1, <2>1, <2>2, <2>3, <2>4, ControlIssue
<1>5. CASE CallFails
  <2>1. /\ cursor' = cursor /\ event' = event /\ dev' = dev
        /\ UNCHANGED <<tables, frame, uploads, missing>> /\ pc' = "drain" /\ index' = 1
    BY <1>5 DEF CallFails, Goto
  <2>2. CASE UNCHANGED <<host, queue, issued>>
    <3>1. pc' \in Points /\ index' \in Nat \ {0}
      BY <2>1 DEF Points
    <3> QED BY <2>1, <2>2, <3>1, ControlCalm
  <2>3. CASE \E count \in 0..Len(Work) : Issue(SubSeq(Work, 1, count))
    <3>1. PICK count \in 0..Len(Work) : Issued(count)
      BY <2>3, IssueSome
    <3>2. \A i \in 0..(UploadSlots - 1) : event'[i] <= issued'
      BY <1>1, <1>2, <2>1, <3>1
    <3>3. pc' \in Points \ {"idle", "check", "done"} /\ index' \in Nat \ {0}
      BY <2>1 DEF Points
    <3> QED BY <1>1, <2>1, <3>1, <3>2, <3>3, ControlIssue
  <2> QED BY <1>5, <2>2, <2>3 DEF CallFails
<1>6. CASE NothingMissing \/ Synchronize \/ CheckStatus \/ Drain \/ ReturnWorker
  <2>1. UNCHANGED <<tables, frame, uploads, missing>> /\ UNCHANGED <<host, queue, issued, dev, cursor, event>>
    BY <1>6 DEF NothingMissing, Synchronize, CheckStatus, Drain, ReturnWorker, Goto, bufferVars
  <2>2. /\ pc' \in {"descriptors", "check", "drain", "done", "idle"} /\ index' = 1
        /\ pc' \in {"idle", "check", "done"} => queue = <<>>
    BY <1>6 DEF NothingMissing, Synchronize, CheckStatus, Drain, ReturnWorker, Goto, Quiet,
                Control, Counters
  <2>3. pc' \in Points /\ index' \in Nat \ {0}
    BY <2>2 DEF Points
  <2> QED BY <2>1, <2>2, <2>3, ControlCalm
<1> QED BY <1>3, <1>4, <1>5, <1>6

-----------------------------------------------------------------------------
(* The stream runs its first operation *)

LEMMA Popped ==
  ASSUME Control, Execute
  PROVE  /\ queue # <<>> /\ Len(queue) \in Nat /\ Len(queue) >= 1
         /\ queue' = Tail(queue) /\ Len(queue') = Len(queue) - 1 /\ Head(queue) = queue[1]
         /\ queue[1] \in Operations /\ \A i \in 1..Len(queue') : queue'[i] = queue[i + 1]
         /\ UNCHANGED <<fixedVars, pc, index, uploads, cursor, event, host, issued, error>>
<1>1. /\ queue # <<>> /\ queue' = Tail(queue)
      /\ UNCHANGED <<fixedVars, pc, index, uploads, cursor, event, host, issued, error>>
  BY DEF Execute, controlVars, fixedVars
<1>2. queue \in Seq(Operations)
  BY DEF Control, Types
<1>3. /\ Len(queue) \in Nat /\ Len(queue) >= 1 /\ Len(queue') = Len(queue) - 1
      /\ Head(queue) = queue[1] /\ queue[1] \in Operations
  BY <1>1, <1>2, Shortened
<1>4. \A i \in 1..Len(queue') : queue'[i] = queue[i + 1]
  BY <1>1, <1>2, <1>3, Shortened
<1> QED BY <1>1, <1>3, <1>4

LEMMA QueuedKinds ==
  ASSUME Control
  PROVE  /\ Len(queue) \in Nat /\ \A i \in 1..Len(queue) : queue[i] \in Operations
  BY DEF Control, Types

\* What each kind of operation does to device memory and the status.
LEMMA Effects ==
  ASSUME Execute, NEW op, op = Head(queue)
  PROVE  /\ op.op = "upload" => /\ dev' = [dev EXCEPT ![op.to] = host[op.from]]
                                /\ UNCHANGED <<status, broken, processed>>
         /\ op.op = "move" => /\ dev' = [dev EXCEPT ![op.to] = dev[op.from]]
                              /\ UNCHANGED <<status, broken, processed>>
         /\ op.op = "clear" => /\ dev' = [c \in DeviceCells |->
                                    IF c[1] = "info" /\ c[2] = op.at /\ c[3] < op.count
                                    THEN 0 ELSE dev[c]]
                               /\ UNCHANGED <<status, broken, processed>>
         /\ op.op = "filter" => /\ processed' = processed (+) SetToBag(GroupsOf(op))
                                /\ \/ UNCHANGED <<dev, broken>>
                                   \/ \E x \in GroupsOf(op) : /\ broken' = broken \cup {x}
                                                              /\ dev' = [dev EXCEPT ![Info(x[1], x[2])] = 1]
                                /\ UNCHANGED status
         /\ op.op = "collect" => /\ status' = [m \in Places |-> IF m > op.count THEN status[m]
                                      ELSE [g \in 0..(TotalGroups - 1) |->
                                              IF dev[Info(m, g)] = 0 THEN 0 ELSE 1]]
                                 /\ UNCHANGED <<dev, broken, processed>>
         /\ op.op = "combine" => UNCHANGED <<dev, status, broken, processed>>
<1>1. CASE op.op = "upload"
  BY <1>1 DEF Execute
<1>2. CASE op.op = "move"
  BY <1>2 DEF Execute
<1>3. CASE op.op = "clear"
  BY <1>3 DEF Execute
<1>4. CASE op.op = "filter"
  BY <1>4 DEF Execute
<1>5. CASE op.op = "collect"
  BY <1>5 DEF Execute
<1>6. CASE op.op = "combine"
  BY <1>6 DEF Execute
<1> QED BY <1>1, <1>2, <1>3, <1>4, <1>5, <1>6

LEMMA ControlExecute ==
  ASSUME Control, Execute
  PROVE  Control'
<1> DEFINE op == queue[1]
<1>1. queue # <<>> /\ queue' = Tail(queue) /\ op = Head(queue) /\ op \in Operations
  BY Popped
<1>2. /\ UNCHANGED <<tables, frame, uploads, missing>> /\ UNCHANGED <<host, issued, cursor, event, pc, index>>
      /\ UNCHANGED fixedVars
  BY Popped DEF fixedVars
<1>3. queue \in Seq(Operations) /\ Len(queue) <= issued /\ issued \in Nat /\ DOMAIN dev = DeviceCells
  BY DEF Control, Types
<1>4. queue' \in Seq(Operations') /\ Len(queue') <= issued'
  <2>1. Operations' = Operations
    BY <1>2, SameWork
  <2>2. Tail(queue) \in Seq(Operations) /\ Len(Tail(queue)) = Len(queue) - 1 /\ Len(queue) \in Nat
    BY <1>1, <1>3, Shortened
  <2> QED BY <1>1, <1>2, <1>3, <2>1, <2>2
<1>5. DOMAIN dev' = DeviceCells
  <2>1. op.op \in {"upload", "move", "clear", "filter", "collect", "combine"}
    BY <1>1, Load, Copy, Cleared, Grid, ChunkFields, Ending DEF Operations
  <2> QED BY <1>1, <1>3, <2>1, Effects
<1>6. Types'
  BY <1>2, <1>3, <1>4, <1>5, TypesKept DEF Control, Types
<1>7. Counters'
  BY <1>1, <1>2 DEF Control, Counters
<1> QED BY <1>6, <1>7 DEF Control

LEMMA HostSteps ==
  ASSUME [WorkerNext]_workerVars
  PROVE  \/ \E f \in Wanted :
              \E misses \in SUBSET (CacheNames \X (RequiredSourceRange(p, f).first
                                                   .. RequiredSourceRange(p, f).last)),
                 todo \in SUBSET Anchors(p, f) : StartRender(f, misses, todo)
         \/ StageUpload \/ UploadTables \/ AssembleWindow \/ NothingMissing
         \/ ComputeContribution \/ CollectStatus \/ CombineFrame \/ CallFails
         \/ Synchronize \/ CheckStatus \/ Drain \/ ReturnWorker
         \/ Execute \/ UNCHANGED workerVars
  BY DEF WorkerNext, HostStep, Finished

LEMMA ControlUnchanged ==
  ASSUME Control, UNCHANGED workerVars
  PROVE  Control'
<1>1. Operations' = Operations /\ Needed' = Needed
  BY SameWork DEF fixedVars, workerVars
<1> QED BY <1>1 DEF Control, Types, Counters, workerVars

LEMMA ControlInvariant == WorkerSpec => []Control
<1>1. Control /\ [WorkerNext]_workerVars => Control'
  BY HostSteps, ControlStart, ControlHost, ControlExecute, ControlUnchanged
<1> QED BY <1>1, ControlInit, PTL DEF WorkerSpec

-----------------------------------------------------------------------------
(* Order is kept *)

LEMMA RankType ==
  ASSUME Control, NEW op \in Operations
  PROVE  /\ End \in Nat /\ Len(missing) \in Nat /\ Rank(op) \in Nat /\ Rank(op) < End + 2
         /\ Tag(op) \in {"clear", "anchors", "filter"} => Rank(op) < End
<1>1. Len(missing) \in Nat /\ End \in Nat /\ End = 3 * (Len(missing) + 1) /\ End >= 3
  BY DEF Control, Types, End
<1>2. CASE op \in Loads
  BY <1>1, <1>2, Load
<1>3. CASE op \in Copies
  <2>1. Rank(op) = 1 /\ Tag(op) \in {"tables", "move"}
    BY <1>3, Copy
  <2> QED BY <1>1, <2>1
<1>4. CASE op \in Clears
  <2>1. PICK m \in Turns : Rank(op) = 3 * m
    BY <1>4, Cleared
  <2> QED BY <1>1, <2>1 DEF Turns
<1>5. CASE op \in Grids
  <2>1. PICK m \in Turns : Rank(op) = 3 * m + 1
    BY <1>5, Grid
  <2> QED BY <1>1, <2>1 DEF Turns
<1>6. CASE op \in Chunked
  <2>1. PICK m \in Turns : Rank(op) = 3 * m + 2
    BY <1>6, ChunkFields
  <2> QED BY <1>1, <2>1 DEF Turns
<1>7. CASE op \in Ends
  <2>1. Rank(op) \in {End, End + 1} /\ Tag(op) \in {"collect", "sources", "combine"}
    BY <1>7, Ending
  <2> QED BY <1>1, <2>1
<1> QED BY <1>2, <1>3, <1>4, <1>5, <1>6, <1>7 DEF Operations

\* Where an upload copies from.
LEMMA UploadFrom ==
  ASSUME Control, NEW op \in Operations, op.op = "upload"
  PROVE  \/ Rank(op) = 0 /\ \E b \in 0..(UploadSlots - 1) : op.from = Staging(b)
         \/ Rank(op) = 1 /\ \E c \in CacheNames : op.from = Tables(c) /\ op.what = TablesOf(c)
         \/ \E m \in Turns : Rank(op) = 3 * m + 1 /\ op.from = Anchored(m)
         \/ Rank(op) = End + 1 /\ op.from = Sources
<1>1. CASE op \in Loads
  BY <1>1, Load
<1>2. CASE op \in Copies
  BY <1>2, Copy
<1>3. CASE op \in Grids
  BY <1>3, Grid
<1>4. CASE op \in Ends
  BY <1>4, Ending
<1>5. op \notin Clears /\ op \notin Chunked
  BY Cleared, ChunkFields
<1> QED BY <1>1, <1>2, <1>3, <1>4, <1>5 DEF Operations

\* Below which everything is that this point queues.
After == CASE pc = "upload"  -> 1
           [] pc = "tables"  -> 2
           [] pc = "compute" -> 3 * index + 3
           [] pc = "collect" -> End + 1
           [] OTHER          -> End + 2

LEMMA Levels ==
  ASSUME Control
  PROVE  Level \in Nat /\ After \in Nat /\ Level <= After /\ After <= End + 2
<1>1. Len(missing) \in Nat /\ End \in Nat /\ End = 3 * (Len(missing) + 1) /\ End >= 3
      /\ index \in Nat /\ (pc = "compute" => index <= Len(missing))
  BY DEF Control, Types, Counters, End
<1>2. CASE pc = "compute"
  <2>1. Level = 3 * index /\ After = 3 * index + 3
    BY <1>2 DEF Level, After
  <2> QED BY <1>1, <1>2, <2>1
<1>3. CASE pc # "compute"
  <2>1. /\ pc = "upload" => Level = 1 /\ After = 1
        /\ pc = "tables" => Level \in {1, 2} /\ After = 2
        /\ pc = "collect" => Level = End /\ After = End + 1
        /\ pc = "descriptors" => Level = End + 1 /\ After = End + 2
        /\ pc \notin {"upload", "tables", "collect", "descriptors"} => Level = End + 2 /\ After = End + 2
    BY <1>3 DEF Level, After
  <2> QED BY <1>1, <2>1
<1> QED BY <1>2, <1>3

LEMMA WorkRanks ==
  ASSUME Control
  PROVE  /\ \A i \in 1..Len(Work) : Level - 1 <= Rank(Work[i]) /\ Rank(Work[i]) < After
         /\ \A i, j \in 1..Len(Work) : i < j => Rank(Work[i]) <= Rank(Work[j])
<1>1. CASE pc = "upload"
  <2>1. Len(Work) = 1 /\ Work[1] \in Loads
    BY <1>1, UploadWork
  <2>2. Rank(Work[1]) = 0
    BY <2>1, Load
  <2>3. Level = 1 /\ After = 1
    BY <1>1 DEF Level, After
  <2> QED BY <2>1, <2>2, <2>3
<1>2. CASE pc = "tables" /\ missing # <<>>
  <2>1. Work \in Seq(Copies)
    BY <1>2, TableWork, MoveWork DEF Control, Types
  <2>2. \A i \in 1..Len(Work) : Rank(Work[i]) = 1
    <3>1. \A i \in 1..Len(Work) : Work[i] \in Copies
      BY <2>1
    <3> QED BY <3>1, Copy
  <2>3. Level \in {1, 2} /\ After = 2
    BY <1>2 DEF Level, After
  <2> QED BY <2>2, <2>3
<1>3. CASE pc = "compute"
  <2> DEFINE n == ChunkCount(missing[index])
  <2>1. index \in Turns /\ n \in Nat /\ Len(Work) = n + 2 /\ index \in Nat
    BY <1>3, ComputeWork, MissingGrids DEF Control, Turns
  <2>2. Rank(Work[1]) = 3 * index
    <3>1. Clear(index, TotalGroups) \in Clears /\ Clear(index, TotalGroups).at = index
      BY <2>1 DEF Clears, Clear
    <3> QED BY <1>3, <3>1, Cleared, ComputeWork
  <2>3. Rank(Work[2]) = 3 * index + 1
    <3> DEFINE op == Upload(Anchored(index), <<"grid">>, <<missing[index]>>)
    <3>1. op \in Grids /\ op.from = Anchored(index)
      BY <2>1 DEF Grids, Upload
    <3>2. op.from[2] = index
      BY <3>1 DEF Anchored
    <3>3. Rank(op) = 3 * index + 1
      BY <3>1, <3>2, Grid
    <3> QED BY <1>3, <3>3, ComputeWork
  <2>4. \A j \in 1..n : Rank(Work[j + 2]) = 3 * index + 2
    <3> SUFFICES ASSUME NEW j \in 1..n PROVE Rank(Work[j + 2]) = 3 * index + 2
      OBVIOUS
    <3>1. Chunk(index, j) \in Chunked
      BY <2>1 DEF Chunked
    <3>2. Chunk(index, j).at = index
      BY DEF Chunk, Filter
    <3>3. Rank(Chunk(index, j)) = 3 * index + 2
      BY <3>1, <3>2, ChunkFields
    <3> QED BY <1>3, <3>3, ComputeWork
  <2>5. \A i \in 1..Len(Work) : Rank(Work[i]) = IF i = 1 THEN 3 * index
                                  ELSE IF i = 2 THEN 3 * index + 1 ELSE 3 * index + 2
    <3> SUFFICES ASSUME NEW i \in 1..Len(Work), i # 1, i # 2 PROVE Rank(Work[i]) = 3 * index + 2
      BY <2>2, <2>3
    <3> DEFINE j == i - 2
    <3>1. j \in 1..n /\ j + 2 = i
      BY <2>1
    <3> HIDE DEF j
    <3> QED BY <2>4, <3>1
  <2>6. Level = 3 * index /\ After = 3 * index + 3
    BY <1>3 DEF Level, After
  <2> QED BY <2>1, <2>5, <2>6
<1>4. CASE pc = "collect"
  <2>1. Len(Work) = 1 /\ Work[1] = Collect(Len(missing))
    BY <1>4, EndWork
  <2>2. Work[1] \in Ends /\ Work[1].op = "collect"
    BY <2>1 DEF Ends, Collect
  <2>3. Rank(Work[1]) = End
    BY <2>2, Ending
  <2>4. Level = End /\ After = End + 1 /\ End \in Int
    BY <1>4 DEF Level, After, End, Control, Types
  <2> QED BY <2>1, <2>3, <2>4
<1>5. CASE pc = "descriptors"
  <2>1. Len(Work) = 2 /\ Work[1] = Upload(Sources, Sources, Descriptors) /\ Work[2] = Combine(Descriptors)
    BY <1>5, EndWork
  <2>2. /\ Work[1] \in Ends /\ Work[1].op = "upload"
        /\ Work[2] \in Ends /\ Work[2].op = "combine"
    BY <2>1 DEF Ends, Upload, Combine
  <2>3. Rank(Work[1]) = End + 1 /\ Rank(Work[2]) = End + 1
    BY <2>2, Ending
  <2>4. Level = End + 1 /\ After = End + 2 /\ End \in Int
    BY <1>5 DEF Level, After, End, Control, Types
  <2>5. \A i \in 1..Len(Work) : Rank(Work[i]) = End + 1
    BY <2>1, <2>3
  <2> QED BY <2>4, <2>5
<1>6. CASE pc \in {"idle", "sync", "check", "drain", "done"} \/ (pc = "tables" /\ missing = <<>>)
  BY <1>6, EndWork
<1>7. pc \in Points
  BY DEF Control, Types
<1> QED BY <1>1, <1>2, <1>3, <1>4, <1>5, <1>6, <1>7 DEF Points

\* What is queued at a point comes behind all that was queued before.
LEMMA InOrderIssue ==
  ASSUME Control, InOrder, Control', UNCHANGED fixedVars,
         NEW count \in 0..Len(Work), Issued(count), After <= Level'
  PROVE  InOrder'
<1> DEFINE n == Len(queue)
           R(i) == Rank(queue'[i])
<1>1. /\ Len(queue') = n + count /\ n \in Nat /\ count \in Nat /\ Len(Work) \in Nat
      /\ \A i \in 1..n : queue'[i] = queue[i]
      /\ \A i \in 1..count : queue'[n + i] = Work[i]
  BY QueueTyped, WorkTyped
<1>2. \A op : Rank(op)' = Rank(op)
  BY SameWork
<1>3. /\ \A i \in 1..n : Rank(queue[i]) \in Nat /\ Rank(queue[i]) < Level
      /\ \A i, j \in 1..n : i < j => Rank(queue[i]) <= Rank(queue[j])
  BY QueuedKinds, RankType DEF InOrder
<1>4. \A i \in 1..Len(Work) : Rank(Work[i]) \in Nat /\ Level - 1 <= Rank(Work[i]) /\ Rank(Work[i]) < After
  BY WorkTyped, RankType, WorkRanks
<1>5. \A i, j \in 1..Len(Work) : i < j => Rank(Work[i]) <= Rank(Work[j])
  BY WorkRanks
<1>6. Level \in Nat /\ After \in Nat /\ Level <= After /\ Level' \in Nat
  <2>1. Level' \in Nat
    <3>1. Len(missing') \in Nat /\ End' \in Nat /\ index' \in Nat
      BY DEF Control, Types, End
    <3> QED BY <3>1 DEF Level
  <2> QED BY <2>1, Levels
<1> HIDE DEF n
<1>7. ASSUME NEW i \in 1..(n + count)
      PROVE  \/ i \in 1..n /\ queue'[i] = queue[i]
             \/ i - n \in 1..count /\ queue'[i] = Work[i - n] /\ i - n \in 1..Len(Work)
  <2>1. CASE i <= n
    BY <1>1, <2>1
  <2>2. CASE i > n
    <3> DEFINE k == i - n
    <3>1. k \in 1..count /\ n + k = i /\ k \in 1..Len(Work)
      BY <1>1, <2>2
    <3> HIDE DEF k
    <3>2. queue'[i] = Work[k]
      BY <1>1, <3>1
    <3> QED BY <3>1, <3>2 DEF k
  <2> QED BY <1>1, <2>1, <2>2
<1>8. \A i \in 1..(n + count) : R(i) < Level' /\ R(i) \in Nat
  BY <1>3, <1>4, <1>6, <1>7
<1>9. ASSUME NEW i \in 1..(n + count), NEW j \in 1..(n + count), i < j
      PROVE  R(i) <= R(j)
  <2>1. CASE j \in 1..n
    BY <1>1, <1>3, <1>9, <2>1
  <2>2. CASE i \in 1..n /\ ~(j \in 1..n)
    <3>1. R(i) \in Nat /\ R(i) < Level
      BY <1>3, <1>1, <2>2
    <3>2. R(j) \in Nat /\ Level - 1 <= R(j)
      BY <1>4, <1>7, <2>2
    <3> QED BY <1>6, <3>1, <3>2
  <2>3. CASE ~(i \in 1..n)
    <3>1. ~(j \in 1..n)
      BY <1>1, <1>9, <2>3
    <3>2. /\ i - n \in 1..Len(Work) /\ j - n \in 1..Len(Work)
          /\ queue'[i] = Work[i - n] /\ queue'[j] = Work[j - n]
      BY <1>7, <2>3, <3>1
    <3>3. i - n < j - n
      BY <1>1, <1>9
    <3> QED BY <1>5, <3>2, <3>3
  <2> QED BY <2>1, <2>2, <2>3
<1> QED BY <1>1, <1>2, <1>8, <1>9 DEF InOrder

\* A step that queues nothing keeps the order, as long as the level is no lower.
LEMMA InOrderCalm ==
  ASSUME Control, InOrder, UNCHANGED fixedVars, queue' = queue, Control', Level <= Level'
  PROVE  InOrder'
<1>1. \A op : Rank(op)' = Rank(op)
  BY SameWork
<1>2. Level \in Nat /\ Level' \in Nat
  <2>1. Level' \in Nat
    <3>1. Len(missing') \in Nat /\ End' \in Nat /\ index' \in Nat
      BY DEF Control, Types, End
    <3> QED BY <3>1 DEF Level
  <2> QED BY <2>1, Levels
<1>3. \A i \in 1..Len(queue) : Rank(queue[i]) \in Nat
  BY QueuedKinds, RankType
<1> QED BY <1>1, <1>2, <1>3 DEF InOrder

LEMMA EmptyInOrder ==
  ASSUME queue = <<>>
  PROVE  InOrder /\ EventsCoverCopies /\ PendingCopiesKeepTheirSource
  BY DEF InOrder, EventsCoverCopies, PendingCopiesKeepTheirSource

\* The copies that are pending keep their source when this point fills its own.
LEMMA PendingIssue ==
  ASSUME Control, Order, Control', UNCHANGED fixedVars,
         NEW count \in 0..Len(Work), Issued(count), pc = "upload" => StagingFree(StagingIndex)
  PROVE  PendingCopiesKeepTheirSource'
<1> DEFINE n == Len(queue)
<1>1. /\ Len(queue') = n + count /\ n \in Nat /\ count \in Nat /\ Len(Work) \in Nat
      /\ \A i \in 1..n : queue'[i] = queue[i]
      /\ \A i \in 1..count : queue'[n + i] = Work[i]
  BY QueueTyped, WorkTyped
<1>2. host' = Filled /\ DOMAIN host = HostCells
  BY DEF Issued, Control, Types
<1>3. ASSUME NEW i \in 1..n, queue[i].op = "upload"
      PROVE  host'[queue[i].from] = queue[i].what
  <2> DEFINE op == queue[i]
  <2>1. op \in Operations /\ Rank(op) < Level /\ Level \in Nat /\ Rank(op) \in Nat
    BY QueuedKinds, Levels, RankType DEF Order, InOrder
  <2>2. host[op.from] = op.what
    BY <1>1, <1>3 DEF Order, PendingCopiesKeepTheirSource
  <2>3. \/ Rank(op) = 0 /\ \E b \in 0..(UploadSlots - 1) : op.from = Staging(b)
        \/ Rank(op) = 1 /\ \E c \in CacheNames : op.from = Tables(c) /\ op.what = TablesOf(c)
        \/ \E m \in Turns : Rank(op) = 3 * m + 1 /\ op.from = Anchored(m)
        \/ Rank(op) = End + 1 /\ op.from = Sources
    BY <1>3, <2>1, UploadFrom
  <2>4. End \in Nat /\ End >= 3
    BY DEF End, Control, Types
  <2>5. CASE pc = "upload"
    <3>1. Level = 1
      BY <2>5 DEF Level
    <3>2. PICK b \in 0..(UploadSlots - 1) : op.from = Staging(b)
      BY <2>1, <2>3, <2>4, <3>1 DEF Turns
    <3>3. Filled = [host EXCEPT ![Staging(StagingIndex)] = uploads[index]]
      BY <2>5 DEF Filled
    <3>4. Executed + i <= event[b]
      BY <1>3, <2>5, <3>2 DEF Order, EventsCoverCopies
    <3>5. event[StagingIndex] <= Executed
      BY <2>5 DEF StagingFree
    <3>6. Executed \in Int /\ event[b] \in Int /\ i \in Nat /\ i >= 1
      BY <1>1 DEF Executed, Control, Types
    <3>7. b # StagingIndex
      BY <3>4, <3>5, <3>6
    <3>8. Staging(b) # Staging(StagingIndex)
      BY <3>7 DEF Staging
    <3>9. Filled[op.from] = host[op.from]
      BY <3>2, <3>3, <3>8
    <3> QED BY <1>2, <2>2, <3>9
  <2>6. CASE pc = "tables" /\ tables /\ missing # <<>>
    <3>1. Level = 1
      BY <2>6 DEF Level
    <3>2. PICK b \in 0..(UploadSlots - 1) : op.from = Staging(b)
      BY <2>1, <2>3, <2>4, <3>1 DEF Turns
    <3>3. Filled = [c \in HostCells |-> IF c[1] = "tables" THEN TablesOf(c[2]) ELSE host[c]]
      BY <2>6 DEF Filled
    <3>4. op.from \in HostCells /\ op.from[1] # "tables"
      BY <3>2 DEF HostCells, Staging
    <3> QED BY <1>2, <2>2, <3>3, <3>4
  <2>7. CASE pc = "compute"
    <3>1. Level = 3 * index /\ index \in Nat /\ index <= Len(missing)
      BY <2>7 DEF Level, Control, Types, Counters
    <3>2. Filled = [host EXCEPT ![Anchored(index)] = <<missing[index]>>]
      BY <2>7 DEF Filled, GridPlace
    <3>3. op.from # Anchored(index)
      <4>1. CASE \E b \in 0..(UploadSlots - 1) : op.from = Staging(b)
        BY <4>1 DEF Staging, Anchored
      <4>2. CASE \E c \in CacheNames : op.from = Tables(c)
        BY <4>2 DEF Tables, Anchored
      <4>3. CASE \E m \in Turns : Rank(op) = 3 * m + 1 /\ op.from = Anchored(m)
        <5>1. PICK m \in Turns : Rank(op) = 3 * m + 1 /\ op.from = Anchored(m)
          BY <4>3
        <5>2. m # index
          BY <2>1, <3>1, <5>1 DEF Turns
        <5> QED BY <5>1, <5>2 DEF Anchored
      <4>4. CASE op.from = Sources
        BY <4>4 DEF Sources, Anchored
      <4> QED BY <2>3, <4>1, <4>2, <4>3, <4>4
    <3>4. Filled[op.from] = host[op.from]
      BY <3>2, <3>3
    <3> QED BY <1>2, <2>2, <3>4
  <2>8. CASE pc = "descriptors"
    <3>1. Level = End + 1
      BY <2>8 DEF Level
    <3>2. Filled = [host EXCEPT ![Sources] = Descriptors]
      BY <2>8 DEF Filled
    <3>3. op.from # Sources
      <4>1. ~(Rank(op) = End + 1)
        BY <2>1, <2>4, <3>1
      <4> QED BY <2>3, <4>1 DEF Sources, Staging, Tables, Anchored
    <3>4. Filled[op.from] = host[op.from]
      BY <3>2, <3>3
    <3> QED BY <1>2, <2>2, <3>4
  <2>9. CASE pc \notin {"upload", "compute", "descriptors"} /\ ~(pc = "tables" /\ tables /\ missing # <<>>)
    <3>1. Filled = host
      BY <2>9 DEF Filled
    <3> QED BY <1>2, <2>2, <3>1
  <2> QED BY <2>5, <2>6, <2>7, <2>8, <2>9
<1>4. ASSUME NEW i \in 1..Len(Work), Work[i].op = "upload"
      PROVE  host'[Work[i].from] = Work[i].what
  <2> DEFINE op == Work[i]
  <2>1. CASE pc = "upload"
    <3>1. /\ StagingIndex \in 0..(UploadSlots - 1) /\ Len(Work) = 1
          /\ Work[1] = Upload(Staging(StagingIndex), Slot(uploads[index][1], uploads[index][2]),
                              uploads[index])
      BY <2>1, UploadWork
    <3>2. i = 1
      BY <3>1
    <3>3. op.from = Staging(StagingIndex) /\ op.what = uploads[index]
      BY <3>1, <3>2 DEF Upload
    <3>4. Filled = [host EXCEPT ![Staging(StagingIndex)] = uploads[index]]
      BY <2>1 DEF Filled
    <3>5. Staging(StagingIndex) \in HostCells
      BY <3>1 DEF HostCells
    <3> QED BY <1>2, <3>3, <3>4, <3>5
  <2>2. CASE pc = "tables" /\ tables /\ missing # <<>>
    <3>1. Work \in Seq(Copies)
      BY <2>2, TableWork
    <3>2. op \in Copies
      BY <3>1
    <3>3. PICK c \in CacheNames : op.from = Tables(c) /\ op.what = TablesOf(c)
      BY <2>2, <3>2, Copy
    <3>4. Filled = [d \in HostCells |-> IF d[1] = "tables" THEN TablesOf(d[2]) ELSE host[d]]
      BY <2>2 DEF Filled
    <3>5. Tables(c) \in HostCells /\ Tables(c)[1] = "tables" /\ Tables(c)[2] = c
      BY DEF HostCells, Tables
    <3> QED BY <1>2, <3>3, <3>4, <3>5
  <2>3. CASE pc = "tables" /\ ~tables /\ missing # <<>>
    <3>1. Work \in Seq(Copies)
      BY <2>3, MoveWork
    <3>2. op \in Copies
      BY <3>1
    <3>3. op.op = "move"
      BY <2>3, <3>2, Copy
    <3> QED BY <1>4, <3>3
  <2>4. CASE pc = "compute"
    <3> DEFINE k == ChunkCount(missing[index])
    <3>1. /\ index \in Turns /\ Len(Work) = k + 2 /\ k \in Nat
          /\ Work[1] = Clear(index, TotalGroups)
          /\ Work[2] = Upload(Anchored(index), <<"grid">>, <<missing[index]>>)
      BY <2>4, ComputeWork, MissingGrids DEF Control
    <3>2. \A j \in 1..k : Work[j + 2] = Chunk(index, j)
      BY <2>4, ComputeWork
    <3>3. i # 1
      BY <1>4, <3>1 DEF Clear
    <3>4. i <= 2
      <4> SUFFICES ASSUME i > 2 PROVE FALSE
        BY <3>1
      <4> HIDE DEF k
      <4>1. i - 2 \in 1..k /\ (i - 2) + 2 = i
        BY <3>1
      <4>2. Work[i] = Chunk(index, i - 2)
        BY <3>2, <4>1
      <4> QED BY <1>4, <4>2 DEF Chunk, Filter
    <3>5. i = 2
      BY <3>1, <3>3, <3>4
    <3>6. op.from = Anchored(index) /\ op.what = <<missing[index]>>
      BY <3>1, <3>5 DEF Upload
    <3>7. Filled = [host EXCEPT ![Anchored(index)] = <<missing[index]>>]
      BY <2>4 DEF Filled, GridPlace
    <3>8. Anchored(index) \in HostCells
      <4>1. index \in Places
        <5>1. Len(missing) \in Nat /\ Len(missing) <= MaxContributors(p) /\ MaxContributors(p) \in Nat
          BY Sizes DEF Control, Types
        <5>2. index \in 1..Len(missing)
          BY <3>1 DEF Turns
        <5>3. index \in 1..MaxContributors(p)
          BY <5>1, <5>2
        <5> QED BY <5>3 DEF Places
      <4> QED BY <4>1 DEF HostCells
    <3> QED BY <1>2, <3>6, <3>7, <3>8
  <2>5. CASE pc = "descriptors"
    <3>1. Len(Work) = 2 /\ Work[1] = Upload(Sources, Sources, Descriptors) /\ Work[2] = Combine(Descriptors)
      BY <2>5, EndWork
    <3>2. i = 1
      BY <1>4, <3>1 DEF Combine
    <3>3. op.from = Sources /\ op.what = Descriptors
      BY <3>1, <3>2 DEF Upload
    <3>4. Filled = [host EXCEPT ![Sources] = Descriptors] /\ Sources \in HostCells
      BY <2>5 DEF Filled, HostCells
    <3> QED BY <1>2, <3>3, <3>4
  <2>6. CASE pc = "collect"
    <3>1. Len(Work) = 1 /\ Work[1] = Collect(Len(missing))
      BY <2>6, EndWork
    <3> QED BY <1>4, <3>1 DEF Collect
  <2>7. CASE pc \in {"idle", "sync", "check", "drain", "done"} \/ (pc = "tables" /\ missing = <<>>)
    BY <2>7, EndWork
  <2>8. pc \in Points
    BY DEF Control, Types
  <2> QED BY <2>1, <2>2, <2>3, <2>4, <2>5, <2>6, <2>7, <2>8 DEF Points
<1>5. DOMAIN queue' = 1..(n + count)
  BY <1>1 DEF Control, Types
<1> HIDE DEF n
<1>6. \A i \in 1..(n + count) : queue'[i].op = "upload" => host'[queue'[i].from] = queue'[i].what
  <2> SUFFICES ASSUME NEW i \in 1..(n + count), queue'[i].op = "upload"
               PROVE  host'[queue'[i].from] = queue'[i].what
    OBVIOUS
  <2>1. CASE i <= n
    <3>1. i \in 1..n /\ queue'[i] = queue[i]
      BY <1>1, <2>1
    <3> QED BY <1>3, <3>1
  <2>2. CASE i > n
    <3> DEFINE k == i - n
    <3>1. k \in 1..count /\ n + k = i /\ k \in 1..Len(Work)
      BY <1>1, <2>2
    <3> HIDE DEF k
    <3>2. queue'[i] = Work[k]
      BY <1>1, <3>1
    <3> QED BY <1>4, <3>1, <3>2
  <2> QED BY <1>1, <2>1, <2>2
<1> QED BY <1>5, <1>6 DEF PendingCopiesKeepTheirSource

\* Behind the uploads of frames nothing is copied from the staging buffers.
LEMMA EventsIssue ==
  ASSUME Control, Order, Control', UNCHANGED fixedVars,
         NEW count \in 0..Len(Work), Issued(count), pc # "upload", pc # "drain", event' = event
  PROVE  EventsCoverCopies'
<1> DEFINE n == Len(queue)
<1>1. /\ Len(queue') = n + count /\ n \in Nat /\ count \in Nat /\ Len(Work) \in Nat
      /\ \A i \in 1..n : queue'[i] = queue[i]
      /\ \A i \in 1..count : queue'[n + i] = Work[i]
  BY QueueTyped, WorkTyped
<1>2. issued' = issued + count /\ issued \in Nat
  BY DEF Issued, Control, Types
<1>3. Executed' = Executed
  BY <1>1, <1>2 DEF Executed
<1> HIDE DEF n
<1>4. \A k \in 1..Len(Work), b \in 0..(UploadSlots - 1) :
         ~(Work[k].op = "upload" /\ Work[k].from = Staging(b))
  <2> SUFFICES ASSUME NEW k \in 1..Len(Work), NEW b \in 0..(UploadSlots - 1),
                      Work[k].op = "upload", Work[k].from = Staging(b)
               PROVE  FALSE
    OBVIOUS
  <2>1. Work[k] \in Operations
    BY WorkTyped
  <2>2. Rank(Work[k]) = 0
    BY <2>1, UploadFrom DEF Staging, Tables, Anchored, Sources
  <2>3. /\ pc = "tables" => missing # <<>>
        /\ pc \notin {"idle", "sync", "check"}
    BY EndWork
  <2>4. CASE pc = "tables"
    <3>1. Work \in Seq(Copies)
      BY <2>3, <2>4, TableWork, MoveWork DEF Control, Types
    <3>2. Work[k] \in Copies
      BY <3>1
    <3>3. Rank(Work[k]) = 1
      BY <3>2, Copy
    <3> QED BY <2>2, <3>3
  <2>5. CASE pc # "tables"
    <3>1. Level >= 2 /\ Level \in Nat
      <4>1. End \in Nat /\ End >= 3 /\ (pc = "compute" => index \in Nat /\ index >= 1)
        BY DEF End, Control, Types
      <4> QED BY <2>5, <4>1 DEF Level
    <3>2. Level - 1 <= Rank(Work[k])
      BY WorkRanks
    <3> QED BY <2>2, <3>1, <3>2
  <2> QED BY <2>4, <2>5
<1>5. \A i \in 1..(n + count), b \in 0..(UploadSlots - 1) :
         queue'[i].op = "upload" /\ queue'[i].from = Staging(b) => Executed + i <= event[b]
  <2> SUFFICES ASSUME NEW i \in 1..(n + count), NEW b \in 0..(UploadSlots - 1),
                      queue'[i].op = "upload", queue'[i].from = Staging(b)
               PROVE  Executed + i <= event[b]
    OBVIOUS
  <2>1. CASE i <= n
    <3>1. i \in 1..n /\ queue'[i] = queue[i]
      BY <1>1, <2>1
    <3> QED BY <3>1 DEF Order, EventsCoverCopies, n
  <2>2. CASE i > n
    <3> DEFINE k == i - n
    <3>1. k \in 1..count /\ n + k = i /\ k \in 1..Len(Work)
      BY <1>1, <2>2
    <3> HIDE DEF k
    <3>2. queue'[i] = Work[k]
      BY <1>1, <3>1
    <3> QED BY <1>4, <3>1, <3>2
  <2> QED BY <1>1, <2>1, <2>2
<1> QED BY <1>1, <1>3, <1>5 DEF EventsCoverCopies

\* An upload is covered by the event recorded behind it.
LEMMA EventsUpload ==
  ASSUME Control, Order, StageUpload
  PROVE  EventsCoverCopies'
<1> DEFINE n == Len(queue)
<1>1. Issued(1) /\ 1 \in 0..Len(Work) /\ UNCHANGED fixedVars /\ pc = "upload"
  BY IssueAll, UploadWork DEF StageUpload, Advance, Goto, fixedVars
<1>2. /\ Len(queue') = n + 1 /\ n \in Nat
      /\ \A i \in 1..n : queue'[i] = queue[i]
      /\ queue'[n + 1] = Work[1]
  BY <1>1, QueueTyped
<1>3. issued' = issued + 1 /\ issued \in Nat /\ event \in [0..(UploadSlots - 1) -> Nat] /\ n <= issued
  BY <1>1 DEF Issued, Control, Types
<1>4. Executed' = Executed /\ Executed = issued - n
  BY <1>2, <1>3 DEF Executed
<1>5. /\ StagingIndex \in 0..(UploadSlots - 1) /\ Work[1].from = Staging(StagingIndex)
  BY <1>1, UploadWork DEF Upload
<1>6. event' = [event EXCEPT ![StagingIndex] = issued + 1]
  BY DEF StageUpload
<1>7. ASSUME NEW i \in 1..(n + 1), NEW b \in 0..(UploadSlots - 1),
             queue'[i].op = "upload", queue'[i].from = Staging(b)
      PROVE  Executed + i <= event'[b]
  <2>1. CASE b = StagingIndex
    <3>1. event'[b] = issued + 1
      BY <1>3, <1>5, <1>6, <2>1
    <3> QED BY <1>2, <1>3, <1>4, <3>1
  <2>2. CASE b # StagingIndex
    <3>1. event'[b] = event[b]
      BY <1>3, <1>6, <2>2
    <3>2. Staging(b) # Staging(StagingIndex)
      BY <2>2 DEF Staging
    <3>3. i # n + 1
      BY <1>2, <1>5, <1>7, <3>2
    <3>4. i \in 1..n /\ queue'[i] = queue[i]
      BY <1>2, <3>3
    <3>5. Executed + i <= event[b]
      BY <1>1, <1>7, <3>4 DEF Order, EventsCoverCopies
    <3> QED BY <3>1, <3>5
  <2> QED BY <2>1, <2>2
<1> QED BY <1>2, <1>4, <1>7 DEF EventsCoverCopies

\* The steps that queue a point's work, whole or up to the call that fails.
LEMMA Issuing ==
  ASSUME Control,
         StageUpload \/ UploadTables \/ AssembleWindow \/ ComputeContribution \/ CollectStatus
            \/ CombineFrame
  PROVE  /\ Len(Work) \in 0..Len(Work) /\ Issued(Len(Work))
         /\ UNCHANGED fixedVars /\ UNCHANGED <<dev, status, broken, processed, error, uploads>>
         /\ pc = "upload" => StagingFree(StagingIndex)
         /\ pc # "upload" => event' = event
         /\ pc \in {"upload", "tables", "compute", "collect", "descriptors"}
         /\ pc = "tables" => missing # <<>>
<1>1. Len(Work) \in 0..Len(Work) /\ Issued(Len(Work))
  BY IssueAll DEF StageUpload, UploadTables, AssembleWindow, ComputeContribution, CollectStatus,
                  CombineFrame
<1>2. CASE StageUpload
  BY <1>1, <1>2 DEF StageUpload, Advance, Goto, fixedVars
<1>3. CASE UploadTables
  BY <1>1, <1>3 DEF UploadTables, Goto, fixedVars
<1>4. CASE AssembleWindow
  BY <1>1, <1>4 DEF AssembleWindow, Advance, Goto, fixedVars
<1>5. CASE ComputeContribution
  BY <1>1, <1>5 DEF ComputeContribution, Advance, Goto, fixedVars
<1>6. CASE CollectStatus
  BY <1>1, <1>6 DEF CollectStatus, Goto, fixedVars
<1>7. CASE CombineFrame
  BY <1>1, <1>7 DEF CombineFrame, Goto, fixedVars
<1> QED BY <1>2, <1>3, <1>4, <1>5, <1>6, <1>7

\* The next point lies above all the work of this one.
LEMMA NextLevel ==
  ASSUME Control, Control',
         StageUpload \/ UploadTables \/ AssembleWindow \/ ComputeContribution \/ CollectStatus
            \/ CombineFrame
  PROVE  After <= Level'
<1>1. /\ Len(missing) \in Nat /\ End \in Nat /\ End = 3 * (Len(missing) + 1) /\ index \in Nat
      /\ UNCHANGED fixedVars /\ End' = End /\ missing' = missing /\ tables' = tables
  BY Issuing, SameWork DEF Control, Types, End, fixedVars
<1>2. CASE StageUpload
  <2>1. After = 1 /\ pc' \in {"upload", "tables"}
    BY <1>2 DEF StageUpload, Advance, Goto, After
  <2>2. Level' \in {1, 2}
    BY <2>1 DEF Level
  <2> QED BY <2>1, <2>2
<1>3. CASE UploadTables
  <2>1. After = 2 /\ pc' = "compute" /\ index' = 1
    BY <1>3 DEF UploadTables, Goto, After
  <2> QED BY <2>1 DEF Level
<1>4. CASE AssembleWindow
  <2>1. After = 2 /\ ~tables /\ (pc' = "tables" \/ (pc' = "compute" /\ index' = 1))
    BY <1>4 DEF AssembleWindow, Advance, Goto, After
  <2> QED BY <1>1, <2>1 DEF Level
<1>5. CASE ComputeContribution
  <2>1. After = 3 * index + 3 /\ pc = "compute"
    BY <1>5 DEF ComputeContribution, After
  <2>2. CASE index < Len(missing)
    <3>1. pc' = "compute" /\ index' = index + 1
      BY <1>5, <2>1, <2>2 DEF ComputeContribution, Advance, Goto
    <3>2. Level' = 3 * (index + 1)
      BY <3>1 DEF Level
    <3> QED BY <1>1, <2>1, <3>2
  <2>3. CASE ~(index < Len(missing))
    <3>1. pc' = "collect" /\ index <= Len(missing)
      BY <1>5, <2>1, <2>3 DEF ComputeContribution, Advance, Goto, Control, Counters
    <3>2. Level' = End
      BY <1>1, <3>1 DEF Level
    <3> QED BY <1>1, <2>1, <3>1, <3>2
  <2> QED BY <2>2, <2>3
<1>6. CASE CollectStatus
  <2>1. After = End + 1 /\ pc' = "descriptors"
    BY <1>6 DEF CollectStatus, Goto, After
  <2>2. Level' = End + 1
    BY <1>1, <2>1 DEF Level
  <2> QED BY <1>1, <2>1, <2>2
<1>7. CASE CombineFrame
  <2>1. After = End + 2 /\ pc' = "sync"
    BY <1>7 DEF CombineFrame, Goto, After
  <2>2. Level' = End + 2
    BY <1>1, <2>1 DEF Level
  <2> QED BY <1>1, <2>1, <2>2
<1> QED BY <1>2, <1>3, <1>4, <1>5, <1>6, <1>7

\* The steps that queue nothing.
Calm == /\ UNCHANGED fixedVars
        /\ UNCHANGED <<host, dev, queue, issued, event, status, broken, processed, uploads>>

LEMMA CalmSteps ==
  ASSUME Control, NothingMissing \/ Synchronize \/ CheckStatus \/ Drain \/ ReturnWorker
  PROVE  /\ Calm /\ (CheckStatus \/ error' = error)
         /\ pc' \in {"descriptors", "check", "drain", "done", "idle"}
         /\ pc = "drain" => queue = <<>>
         /\ pc' = "descriptors" => pc = "tables" /\ missing = <<>>
         /\ pc # "tables" => pc' \notin {"upload", "tables", "compute", "collect", "descriptors"}
                             /\ pc \in {"sync", "check", "drain", "done"}
  BY DEF NothingMissing, Synchronize, CheckStatus, Drain, ReturnWorker, Goto, bufferVars, Calm,
         fixedVars, Quiet

LEMMA FailingCall ==
  ASSUME Control, CallFails
  PROVE  /\ pc' = "drain" /\ error' = <<"call">> /\ UNCHANGED fixedVars
         /\ UNCHANGED <<dev, status, broken, processed, event, uploads>>
         /\ \/ UNCHANGED <<host, queue, issued>>
            \/ /\ pc = "upload" => StagingFree(StagingIndex)
               /\ \E count \in 0..Len(Work) : Issued(count)
  BY IssueSome DEF CallFails, Goto, fixedVars

LEMMA OrderHost ==
  ASSUME Control, Order, Control',
         \/ StageUpload \/ UploadTables \/ AssembleWindow \/ NothingMissing
         \/ ComputeContribution \/ CollectStatus \/ CombineFrame \/ CallFails
         \/ Synchronize \/ CheckStatus \/ Drain \/ ReturnWorker
  PROVE  Order'
<1>1. InOrder /\ EventsCoverCopies /\ PendingCopiesKeepTheirSource
  BY DEF Order
<1>2. CASE StageUpload \/ UploadTables \/ AssembleWindow \/ ComputeContribution \/ CollectStatus
            \/ CombineFrame
  <2>1. Len(Work) \in 0..Len(Work) /\ Issued(Len(Work)) /\ UNCHANGED fixedVars
    BY <1>2, Issuing
  <2>2. InOrder'
    BY <1>1, <1>2, <2>1, NextLevel, InOrderIssue
  <2>3. PendingCopiesKeepTheirSource'
    BY <1>2, <2>1, Issuing, PendingIssue
  <2>4. EventsCoverCopies'
    <3>1. CASE pc = "upload"
      BY <1>2, <3>1, EventsUpload
         DEF UploadTables, AssembleWindow, ComputeContribution, CollectStatus, CombineFrame
    <3>2. CASE pc # "upload"
      <4>1. pc # "drain" /\ event' = event
        BY <1>2, <3>2, Issuing
      <4> QED BY <2>1, <3>2, <4>1, EventsIssue
    <3> QED BY <3>1, <3>2
  <2> QED BY <2>2, <2>3, <2>4 DEF Order
<1>3. CASE CallFails
  <2>1. pc' = "drain" /\ UNCHANGED fixedVars
    BY <1>3, FailingCall
  <2>2. EventsCoverCopies'
    BY <2>1 DEF EventsCoverCopies
  <2>3. Level' = End + 2 /\ Level <= After /\ After <= End + 2 /\ Level \in Nat /\ End \in Nat
        /\ After \in Nat
    <3>1. Level' = End' + 2 /\ End' = End
      BY <2>1, SameWork DEF Level
    <3>2. End \in Nat
      <4>1. Len(missing) \in Nat
        BY DEF Control, Types
      <4> QED BY <4>1 DEF End
    <3>3. Level <= After /\ After <= End + 2 /\ Level \in Nat /\ After \in Nat
      BY Levels
    <3> QED BY <3>1, <3>2, <3>3
  <2>4. CASE UNCHANGED <<host, queue, issued>>
    <3>1. InOrder'
      BY <1>1, <2>1, <2>3, <2>4, InOrderCalm
    <3>2. PendingCopiesKeepTheirSource'
      BY <1>1, <2>4 DEF PendingCopiesKeepTheirSource
    <3> QED BY <2>2, <3>1, <3>2 DEF Order
  <2>5. CASE /\ pc = "upload" => StagingFree(StagingIndex)
             /\ \E count \in 0..Len(Work) : Issued(count)
    <3>1. PICK count \in 0..Len(Work) : Issued(count)
      BY <2>5
    <3>2. InOrder'
      BY <1>1, <2>1, <2>3, <3>1, InOrderIssue
    <3>3. PendingCopiesKeepTheirSource'
      BY <2>1, <2>5, <3>1, PendingIssue
    <3> QED BY <2>2, <3>2, <3>3 DEF Order
  <2> QED BY <1>3, <2>4, <2>5, FailingCall
<1>4. CASE NothingMissing \/ Synchronize \/ CheckStatus \/ Drain \/ ReturnWorker
  <2>1. Calm /\ UNCHANGED fixedVars /\ queue' = queue /\ host' = host /\ issued' = issued /\ event' = event
    BY <1>4, CalmSteps DEF Calm
  <2>2. InOrder'
    <3>1. Level <= Level'
      <4>1. /\ End' = End /\ End \in Nat /\ End >= 3 /\ Level \in Nat
        BY <2>1, SameWork, Levels DEF End, Control, Types
      <4>2. CASE pc = "tables"
        <5>1. Level \in {1, 2} /\ pc' \notin {"upload", "tables", "compute"}
          BY <1>4, <4>2, CalmSteps DEF Level
        <5>2. Level' \in {End, End + 1, End + 2}
          BY <4>1, <5>1 DEF Level
        <5> QED BY <4>1, <5>1, <5>2
      <4>3. CASE pc # "tables"
        <5>1. Level = End + 2
          BY <1>4, <4>3, CalmSteps DEF Level
        <5>2. Level' = End + 2
          BY <1>4, <4>1, <4>3, CalmSteps DEF Level
        <5> QED BY <4>1, <5>1, <5>2
      <4> QED BY <4>2, <4>3
    <3> QED BY <1>1, <2>1, <3>1, InOrderCalm
  <2>3. PendingCopiesKeepTheirSource'
    BY <1>1, <2>1 DEF PendingCopiesKeepTheirSource
  <2>4. EventsCoverCopies'
    <3>1. pc = "drain" => queue = <<>>
      BY <1>4, CalmSteps
    <3>2. Executed' = Executed
      BY <2>1 DEF Executed
    <3> QED BY <1>1, <2>1, <3>1, <3>2 DEF EventsCoverCopies
  <2> QED BY <2>2, <2>3, <2>4 DEF Order
<1> QED BY <1>2, <1>3, <1>4

LEMMA OrderExecute ==
  ASSUME Control, Order, Execute
  PROVE  Order'
<1>1. /\ Len(queue) \in Nat /\ Len(queue') = Len(queue) - 1 /\ queue' = Tail(queue) /\ queue # <<>>
      /\ \A i \in 1..Len(queue') : queue'[i] = queue[i + 1]
      /\ UNCHANGED <<fixedVars, pc, index, event, host, issued>>
  BY Popped
<1>2. \A i \in 1..Len(queue') : i \in Nat /\ i + 1 \in 1..Len(queue)
  BY <1>1
<1>3. InOrder'
  <2>1. Level' = Level
    <3>1. UNCHANGED fixedVars /\ tables' = tables
      BY <1>1 DEF fixedVars
    <3>2. End' = End
      BY <3>1, SameWork
    <3> QED BY <1>1, <3>1, <3>2 DEF Level
  <2>2. \A op : Rank(op)' = Rank(op)
    BY <1>1, SameWork
  <2>3. \A i \in 1..Len(queue') : Rank(queue'[i]) < Level
    BY <1>1, <1>2 DEF Order, InOrder
  <2>4. \A i, j \in 1..Len(queue') : i < j => Rank(queue'[i]) <= Rank(queue'[j])
    <3> SUFFICES ASSUME NEW i \in 1..Len(queue'), NEW j \in 1..Len(queue'), i < j
                 PROVE  Rank(queue'[i]) <= Rank(queue'[j])
      OBVIOUS
    <3>1. i + 1 < j + 1
      BY <1>2
    <3>2. Rank(queue[i + 1]) <= Rank(queue[j + 1])
      BY <1>2, <3>1 DEF Order, InOrder
    <3> QED BY <1>1, <3>2
  <2> QED BY <2>1, <2>2, <2>3, <2>4 DEF InOrder
<1>4. EventsCoverCopies'
  <2>1. Executed' = Executed + 1 /\ Executed \in Int
    BY <1>1 DEF Executed, Control, Types
  <2>2. ASSUME pc # "drain", NEW i \in 1..Len(queue'), NEW b \in 0..(UploadSlots - 1),
               queue'[i].op = "upload", queue'[i].from = Staging(b)
        PROVE  Executed' + i <= event[b]
    <3>1. Executed + (i + 1) <= event[b]
      BY <1>1, <1>2, <2>2 DEF Order, EventsCoverCopies
    <3>2. Executed + (i + 1) = Executed' + i
      BY <1>2, <2>1
    <3> QED BY <3>1, <3>2
  <2> QED BY <1>1, <2>2 DEF EventsCoverCopies
<1>5. PendingCopiesKeepTheirSource'
  <2>1. DOMAIN queue' = 1..Len(queue') /\ DOMAIN queue = 1..Len(queue)
    <3>1. queue \in Seq(Operations)
      BY DEF Control, Types
    <3> QED BY <1>1, <3>1
  <2> QED BY <1>1, <1>2, <2>1 DEF PendingCopiesKeepTheirSource, Order
<1> QED BY <1>3, <1>4, <1>5 DEF Order

LEMMA OrderInvariant == WorkerSpec => []Order
<1>1. WorkerInit => Order
  BY EmptyInOrder DEF WorkerInit, Order
<1>2. Control /\ Control' /\ Order /\ [WorkerNext]_workerVars => Order'
  <2> SUFFICES ASSUME Control, Control', Order, [WorkerNext]_workerVars PROVE Order'
    OBVIOUS
  <2>1. ASSUME NEW f \in Wanted,
               NEW misses \in SUBSET (CacheNames \X (RequiredSourceRange(p, f).first
                                                     .. RequiredSourceRange(p, f).last)),
               NEW todo \in SUBSET Anchors(p, f), StartRender(f, misses, todo)
        PROVE  Order'
    <3>1. queue' = <<>>
      BY <2>1 DEF StartRender, Control, Counters
    <3> QED BY <3>1 DEF Order, InOrder, EventsCoverCopies, PendingCopiesKeepTheirSource
  <2>2. ASSUME UNCHANGED workerVars PROVE Order'
    <3>1. \A op : Rank(op)' = Rank(op)
      BY <2>2, SameWork DEF fixedVars, workerVars
    <3>2. Level' = Level /\ Executed' = Executed
      BY <2>2 DEF Level, Executed, End, workerVars
    <3>3. UNCHANGED <<pc, queue, host, event>>
      BY <2>2 DEF workerVars
    <3> QED BY <3>1, <3>2, <3>3 DEF Order, InOrder, EventsCoverCopies, PendingCopiesKeepTheirSource
  <2> QED BY <2>1, <2>2, HostSteps, OrderHost, OrderExecute
<1> QED BY <1>1, <1>2, ControlInvariant, PTL DEF WorkerSpec

\* Pinned memory is not touched while a copy from it is pending, whatever the
\* ring's size, however far the host is ahead of the stream, and also when a
\* render fails and the next one starts over the buffers it leaves.
THEOREM CopiesKeepTheirSource == WorkerSpec => []PendingCopiesKeepTheirSource
<1>1. Order => PendingCopiesKeepTheirSource
  BY DEF Order
<1> QED BY <1>1, OrderInvariant, PTL

-----------------------------------------------------------------------------
(* Arrival is kept *)

LEMMA LoadTo ==
  ASSUME Control, NEW op \in Loads
  PROVE  /\ op.to \in DeviceCells /\ op.to[1] = "slot" /\ op.what \in Needed
         /\ op.to = Slot(op.what[1], op.what[2])
<1>1. PICK i \in 0..(UploadSlots - 1), x \in Needed :
         op.from = Staging(i) /\ op.to = Slot(x[1], x[2]) /\ op.what = x
  BY Load
<1>2. x[1] \in CacheNames /\ x[2] \in SourceFrames
  BY FrameNeeds DEF Needed, Span, Window, Control, Types
<1>3. Slot(x[1], x[2]) \in DeviceCells /\ Slot(x[1], x[2])[1] = "slot"
  BY <1>2 DEF DeviceCells, Slot
<1> QED BY <1>1, <1>3

LEMMA CopyTo ==
  ASSUME Control, NEW op \in Copies
  PROVE  /\ op.to \in DeviceCells
         /\ tables => \E c \in CacheNames : op.to = Tables(c) /\ op.what = TablesOf(c)
         /\ ~tables => \E c \in CacheNames, f \in Assembly.first .. Assembly.last :
                          /\ op.from = Slot(c, f) /\ op.to = Place(c, f - Assembly.first)
                          /\ <<c, f>> \in Needed
<1>1. missing # <<>>
  BY Copy
<1>2. CASE tables
  <2>1. PICK c \in CacheNames : op.to = Tables(c) /\ op.what = TablesOf(c)
    BY <1>2, Copy
  <2>2. Tables(c) \in DeviceCells
    BY DEF DeviceCells
  <2> QED BY <1>2, <2>1, <2>2
<1>3. CASE ~tables
  <2>1. PICK c \in CacheNames, f \in Assembly.first .. Assembly.last :
           op.from = Slot(c, f) /\ op.to = Place(c, f - Assembly.first)
    BY <1>3, Copy
  <2>2. f \in Span /\ f - Assembly.first \in 0..(MaxSourceWindow(p) - 1)
    BY <1>1, Assembled DEF Control
  <2>3. <<c, f>> \in Needed /\ Place(c, f - Assembly.first) \in DeviceCells
    BY <2>2 DEF Needed, DeviceCells
  <2> QED BY <1>3, <2>1, <2>3
<1> QED BY <1>2, <1>3

\* What a copy or move writes, by the cell it writes.
LEMMA Deliveries ==
  ASSUME Control, NEW op \in Operations, op.op \in {"upload", "move"}
  PROVE  /\ op.to \in DeviceCells /\ op.to[1] # "info"
         /\ op.to[1] = "slot" => op \in Loads
         /\ op.to[1] \in {"tables", "contiguous"} => op \in Copies
         /\ op.to = <<"grid">> => op \in Grids
<1>1. CASE op \in Loads
  <2>1. op.to \in DeviceCells /\ op.to[1] = "slot"
    BY <1>1, LoadTo
  <2>2. op.to # <<"grid">>
    BY <2>1
  <2> QED BY <1>1, <2>1, <2>2
<1>2. CASE op \in Copies
  <2>1. op.to \in DeviceCells
    BY <1>2, CopyTo
  <2>2. op.to[1] \in {"tables", "contiguous"}
    <3>1. \/ \E c : op.to = Tables(c)
          \/ \E c, k : op.to = Place(c, k)
      BY <1>2, CopyTo
    <3> QED BY <3>1 DEF Tables, Place
  <2>3. op.to # <<"grid">>
    BY <2>2
  <2> QED BY <1>2, <2>1, <2>2, <2>3
<1>3. CASE op \in Grids
  <2>1. op.to = <<"grid">>
    BY <1>3, Grid
  <2> QED BY <1>3, <2>1 DEF DeviceCells
<1>4. CASE op \in Ends
  <2>1. op.to = Sources
    BY <1>4, Ending
  <2> QED BY <2>1 DEF DeviceCells, Sources
<1>5. op \notin Clears /\ op \notin Chunked
  BY Cleared, ChunkFields
<1> QED BY <1>1, <1>2, <1>3, <1>4, <1>5 DEF Operations

\* What a slot or a window holds or will hold, read in the next state: the values
\* meant for it do not change, only the memory and the queue.
LEMMA SlotNext ==
  ASSUME UNCHANGED fixedVars, NEW x \in Needed
  PROVE  SlotComing(x)' <=> \/ dev'[Slot(x[1], x[2])] = x
                            \/ \E i \in 1..Len(queue') : Delivers(queue'[i], Slot(x[1], x[2]))
  BY DEF SlotComing, Coming

LEMMA WindowNext ==
  ASSUME UNCHANGED fixedVars, NEW c \in CacheNames
  PROVE  WindowComing(c)' <=>
           IF tables
           THEN \/ dev'[Tables(c)] = TablesOf(c)
                \/ \E i \in 1..Len(queue') : Delivers(queue'[i], Tables(c))
           ELSE \A f \in Assembly.first .. Assembly.last :
                   \/ dev'[Place(c, f - Assembly.first)] = <<c, f>>
                   \/ \E i \in 1..Len(queue') : Delivers(queue'[i], Place(c, f - Assembly.first))
<1>1. tables' = tables /\ TablesOf(c)' = TablesOf(c) /\ Assembly' = Assembly
  BY SameWork DEF fixedVars
<1> QED BY <1>1 DEF WindowComing, Coming

\* What was coming still is.
Kept == /\ \A x \in Needed : SlotComing(x) => SlotComing(x)'
        /\ missing # <<>> => \A c \in CacheNames : WindowComing(c) => WindowComing(c)'

LEMMA KeptIssue ==
  ASSUME Control, UNCHANGED fixedVars, dev' = dev, NEW count \in 0..Len(Work), Issued(count)
  PROVE  Kept
<1>1. /\ Len(queue') = Len(queue) + count /\ Len(queue) \in Nat /\ count \in Nat
      /\ \A i \in 1..Len(queue) : queue'[i] = queue[i]
  BY QueueTyped
<1>2. \A i \in 1..Len(queue) : i \in 1..Len(queue')
  BY <1>1
<1>3. \A cell : (\E i \in 1..Len(queue) : Delivers(queue[i], cell))
                  => \E i \in 1..Len(queue') : Delivers(queue'[i], cell)
  BY <1>1, <1>2
<1>4. \A x \in Needed : SlotComing(x) => SlotComing(x)'
  BY <1>3, SlotNext DEF SlotComing, Coming
<1>5. \A c \in CacheNames : WindowComing(c) => WindowComing(c)'
  BY <1>3, WindowNext DEF WindowComing, Coming
<1> QED BY <1>4, <1>5 DEF Kept

LEMMA KeptCalm ==
  ASSUME UNCHANGED fixedVars, dev' = dev, queue' = queue
  PROVE  Kept
<1>1. \A x \in Needed : SlotComing(x) => SlotComing(x)'
  BY SlotNext DEF SlotComing, Coming
<1>2. \A c \in CacheNames : WindowComing(c) => WindowComing(c)'
  BY WindowNext DEF WindowComing, Coming
<1> QED BY <1>1, <1>2 DEF Kept

\* Behind the uploads of frames the slots hold what they should.
LEMMA SlotsFilled ==
  ASSUME Control, Order, SlotsComing, queue # <<>>, Rank(queue[1]) >= 1,
         NEW x \in Needed
  PROVE  dev[Slot(x[1], x[2])] = x
<1>1. SUFFICES ASSUME NEW i \in 1..Len(queue), Delivers(queue[i], Slot(x[1], x[2])) PROVE FALSE
  BY DEF SlotsComing, SlotComing, Coming
<1>2. queue[i] \in Operations /\ queue[i].op \in {"upload", "move"} /\ queue[i].to[1] = "slot"
  BY <1>1, QueuedKinds DEF Delivers, Slot
<1>3. Rank(queue[i]) = 0
  BY <1>2, Deliveries, Load
<1>4. Len(queue) \in Nat /\ queue[1] \in Operations /\ 1 \in 1..Len(queue)
  <2>1. Len(queue) \in Nat /\ i \in 1..Len(queue)
    BY QueuedKinds
  <2>2. 1 \in 1..Len(queue)
    BY <2>1
  <2> QED BY <2>1, <2>2, QueuedKinds
<1>5. Rank(queue[1]) <= Rank(queue[i])
  <2>1. i = 1 \/ 1 < i
    BY <1>4
  <2>2. CASE i = 1
    BY <2>2, <1>3, <1>4
  <2>3. CASE 1 < i
    BY <1>4, <2>3 DEF Order, InOrder
  <2> QED BY <2>1, <2>2, <2>3
<1>6. Rank(queue[1]) \in Nat
  BY <1>4, RankType
<1> QED BY <1>3, <1>5, <1>6

\* The head of the stream, and what is left behind it.
LEMMA Behind ==
  ASSUME Control, Order, Execute
  PROVE  /\ \A i \in 1..Len(queue) : /\ Rank(queue[1]) <= Rank(queue[i])
                                     /\ Rank(queue[1]) \in Nat /\ Rank(queue[i]) \in Nat
         /\ \A i \in 1..Len(queue) : i = 1 \/ (i - 1 \in 1..Len(queue') /\ queue'[i - 1] = queue[i])
         /\ \A i \in 1..Len(queue') : i + 1 \in 1..Len(queue) /\ queue'[i] = queue[i + 1]
<1>1. /\ Len(queue) \in Nat /\ Len(queue) >= 1 /\ Len(queue') = Len(queue) - 1
      /\ \A i \in 1..Len(queue') : queue'[i] = queue[i + 1]
  BY Popped
<1>2. ASSUME NEW i \in 1..Len(queue)
      PROVE  /\ Rank(queue[1]) <= Rank(queue[i])
             /\ Rank(queue[1]) \in Nat /\ Rank(queue[i]) \in Nat
  <2>1. 1 \in 1..Len(queue)
    BY <1>1
  <2>2. Rank(queue[1]) \in Nat /\ Rank(queue[i]) \in Nat
    BY <2>1, QueuedKinds, RankType
  <2>3. CASE i = 1
    BY <2>2, <2>3
  <2>4. CASE i # 1
    <3>1. 1 < i
      BY <1>1, <2>4
    <3> QED BY <2>1, <2>2, <3>1 DEF Order, InOrder
  <2> QED BY <2>2, <2>3, <2>4
<1>3. ASSUME NEW i \in 1..Len(queue), i # 1
      PROVE  i - 1 \in 1..Len(queue') /\ queue'[i - 1] = queue[i]
  <2> DEFINE k == i - 1
  <2>1. k \in 1..Len(queue') /\ k + 1 = i
    BY <1>1, <1>3
  <2> HIDE DEF k
  <2>2. queue'[k] = queue[i]
    BY <1>1, <2>1
  <2> QED BY <2>1, <2>2 DEF k
<1>4. \A i \in 1..Len(queue') : i + 1 \in 1..Len(queue) /\ queue'[i] = queue[i + 1]
  BY <1>1
<1> QED BY <1>2, <1>3, <1>4

\* A copy or move writes its cell and nothing else; nothing else writes a cell
\* that is no solver status.
LEMMA HeadWrites ==
  ASSUME Control, Order, Execute, NEW cell \in DeviceCells, cell[1] # "info"
  PROVE  IF Delivers(queue[1], cell)
         THEN /\ queue[1].op = "upload" => dev'[cell] = queue[1].what
              /\ queue[1].op = "move" => dev'[cell] = dev[queue[1].from]
         ELSE dev'[cell] = dev[cell]
<1> DEFINE op == queue[1]
<1>1. /\ op = Head(queue) /\ op \in Operations /\ DOMAIN dev = DeviceCells
      /\ queue # <<>> /\ Len(queue) \in Nat /\ Len(queue) >= 1 /\ DOMAIN queue = 1..Len(queue)
  <2>1. queue \in Seq(Operations)
    BY DEF Control, Types
  <2> QED BY <2>1, Popped DEF Control, Types
<1>2. op.op \in {"upload", "move", "clear", "filter", "collect", "combine"}
  BY <1>1, Load, Copy, Cleared, Grid, ChunkFields, Ending DEF Operations
<1>3. CASE op.op = "upload"
  <2>1. dev' = [dev EXCEPT ![op.to] = host[op.from]] /\ op.to \in DeviceCells
    BY <1>1, <1>3, Effects, Deliveries
  <2>2. host[op.from] = op.what
    <3>1. 1 \in DOMAIN queue
      BY <1>1
    <3> QED BY <1>3, <3>1 DEF Order, PendingCopiesKeepTheirSource
  <2> QED BY <1>1, <1>3, <2>1, <2>2 DEF Delivers
<1>4. CASE op.op = "move"
  <2>1. dev' = [dev EXCEPT ![op.to] = dev[op.from]] /\ op.to \in DeviceCells
    BY <1>1, <1>4, Effects, Deliveries
  <2> QED BY <1>1, <1>4, <2>1 DEF Delivers
<1>5. CASE op.op = "clear"
  <2>1. dev'[cell] = dev[cell]
    BY <1>1, <1>5, Effects
  <2> QED BY <1>5, <2>1 DEF Delivers
<1>6. CASE op.op = "filter"
  <2>1. dev' = dev \/ \E x : dev' = [dev EXCEPT ![Info(x[1], x[2])] = 1]
    BY <1>1, <1>6, Effects
  <2>2. \A x : Info(x[1], x[2]) # cell
    BY DEF Info
  <2>3. dev'[cell] = dev[cell]
    BY <1>1, <2>1, <2>2
  <2> QED BY <1>6, <2>3 DEF Delivers
<1>7. CASE op.op \in {"collect", "combine"}
  BY <1>1, <1>7, Effects DEF Delivers
<1> QED BY <1>2, <1>3, <1>4, <1>5, <1>6, <1>7

LEMMA KeptExecute ==
  ASSUME Control, Order, FramesArrive, Execute
  PROVE  Kept
<1>1. UNCHANGED fixedVars /\ queue # <<>> /\ queue[1] \in Operations
      /\ 1 \in 1..Len(queue)
  BY Popped
<1>2. ASSUME NEW cell, ~Delivers(queue[1], cell), NEW i \in 1..Len(queue), Delivers(queue[i], cell)
      PROVE  \E j \in 1..Len(queue') : Delivers(queue'[j], cell)
  <2>1. i # 1
    BY <1>2
  <2> QED BY <1>2, <2>1, Behind
<1>3. ASSUME NEW x \in Needed, SlotComing(x)
      PROVE  SlotComing(x)'
  <2> DEFINE cell == Slot(x[1], x[2])
  <2>1. cell \in DeviceCells /\ cell[1] = "slot"
    <3>1. x[1] \in CacheNames /\ x[2] \in SourceFrames
      BY FrameNeeds DEF Needed, Span, Window, Control, Types
    <3> QED BY <3>1 DEF DeviceCells, Slot
  <2>2. CASE Delivers(queue[1], cell)
    <3>1. queue[1] \in Loads
      BY <1>1, <2>1, <2>2, Deliveries DEF Delivers
    <3>2. queue[1].op = "upload" /\ cell = Slot(queue[1].what[1], queue[1].what[2])
          /\ queue[1].what \in Needed
      BY <2>2, <3>1, LoadTo, Load DEF Delivers
    <3>3. queue[1].what = x
      <4>1. \A y, z \in Needed : Slot(y[1], y[2]) = Slot(z[1], z[2]) => y = z
        BY DEF Slot, Needed
      <4> QED BY <3>2, <4>1
    <3>4. dev'[cell] = x
      BY <2>1, <2>2, <3>2, <3>3, HeadWrites
    <3> QED BY <1>1, <3>4, SlotNext
  <2>3. CASE ~Delivers(queue[1], cell)
    <3>1. dev'[cell] = dev[cell]
      BY <2>1, <2>3, HeadWrites
    <3>2. dev[cell] = x \/ \E i \in 1..Len(queue) : Delivers(queue[i], cell)
      BY <1>3 DEF SlotComing, Coming
    <3> HIDE DEF cell
    <3>3. dev'[cell] = x \/ \E i \in 1..Len(queue') : Delivers(queue'[i], cell)
      BY <1>2, <2>3, <3>1, <3>2
    <3> QED BY <1>1, <3>3, SlotNext DEF cell
  <2> QED BY <2>2, <2>3
<1>4. ASSUME NEW c \in CacheNames, WindowComing(c), tables
      PROVE  WindowComing(c)'
  <2> DEFINE cell == Tables(c)
  <2>1. cell \in DeviceCells /\ cell[1] = "tables"
    BY DEF DeviceCells, Tables
  <2>2. CASE Delivers(queue[1], cell)
    <3>1. queue[1] \in Copies
      BY <1>1, <2>1, <2>2, Deliveries DEF Delivers
    <3>2. PICK d \in CacheNames : queue[1].to = Tables(d) /\ queue[1].what = TablesOf(d)
      BY <1>4, <3>1, CopyTo
    <3>3. d = c /\ queue[1].op = "upload"
      BY <1>4, <2>2, <3>1, <3>2, Copy DEF Delivers, Tables
    <3>4. dev'[cell] = TablesOf(c)
      BY <2>1, <2>2, <3>2, <3>3, HeadWrites
    <3> QED BY <1>1, <1>4, <3>4, WindowNext
  <2>3. CASE ~Delivers(queue[1], cell)
    <3>1. dev'[cell] = dev[cell]
      BY <2>1, <2>3, HeadWrites
    <3>2. dev[cell] = TablesOf(c) \/ \E i \in 1..Len(queue) : Delivers(queue[i], cell)
      BY <1>4 DEF WindowComing, Coming
    <3> HIDE DEF cell
    <3>3. dev'[cell] = TablesOf(c) \/ \E i \in 1..Len(queue') : Delivers(queue'[i], cell)
      BY <1>2, <2>3, <3>1, <3>2
    <3> QED BY <1>1, <1>4, <3>3, WindowNext DEF cell
  <2> QED BY <2>2, <2>3
<1>5. ASSUME NEW c \in CacheNames, WindowComing(c), ~tables, missing # <<>>,
             NEW f \in Assembly.first .. Assembly.last
      PROVE  \/ dev'[Place(c, f - Assembly.first)] = <<c, f>>
             \/ \E i \in 1..Len(queue') : Delivers(queue'[i], Place(c, f - Assembly.first))
  <2> DEFINE k == f - Assembly.first
             cell == Place(c, k)
  <2>1. dev[cell] = <<c, f>> \/ \E i \in 1..Len(queue) : Delivers(queue[i], cell)
    BY <1>5 DEF WindowComing, Coming
  <2>2. CASE ~Delivers(queue[1], cell)
    <3>1. CASE \E i \in 1..Len(queue) : Delivers(queue[i], cell)
      <4> HIDE DEF cell
      <4>1. \E i \in 1..Len(queue') : Delivers(queue'[i], cell)
        BY <1>2, <2>2, <3>1
      <4> QED BY <4>1 DEF cell
    <3>2. CASE dev[cell] = <<c, f>>
      <4>1. cell[1] = "contiguous"
        BY DEF Place
      <4>2. CASE cell \in DeviceCells
        BY <2>2, <3>2, <4>1, <4>2, HeadWrites
      <4>3. k \in 0..(MaxSourceWindow(p) - 1)
        BY <1>5, Assembled DEF Control
      <4>4. cell \in DeviceCells
        BY <4>3 DEF DeviceCells
      <4> QED BY <4>2, <4>4
    <3> QED BY <2>1, <3>1, <3>2
  <2>3. CASE Delivers(queue[1], cell)
    <3>1. queue[1] \in Copies
      BY <1>1, <2>3, Deliveries DEF Delivers, Place
    <3>2. PICK d \in CacheNames, g \in Assembly.first .. Assembly.last :
             /\ queue[1].from = Slot(d, g) /\ queue[1].to = Place(d, g - Assembly.first)
             /\ <<d, g>> \in Needed
      BY <1>5, <3>1, CopyTo
    <3>3. missing # <<>> /\ queue[1].op = "move" /\ Tag(queue[1]) = "move" /\ Rank(queue[1]) = 1
      BY <1>5, <3>1, Copy
    <3>4. Assembly.first \in Int /\ Assembly.last \in Int
      BY <3>3, Assembled DEF Control
    <3>5. d = c /\ g - Assembly.first = k
      BY <2>3, <3>2 DEF Delivers, Place
    <3>6. g = f
      BY <3>4, <3>5
    <3>7. SlotsComing
      BY <1>1, <3>3 DEF FramesArrive
    <3>8. dev[Slot(c, f)] = <<c, f>>
      BY <1>1, <3>2, <3>3, <3>5, <3>6, <3>7, SlotsFilled
    <3>9. cell \in DeviceCells /\ cell[1] = "contiguous"
      <4>1. k \in 0..(MaxSourceWindow(p) - 1)
        BY <3>3, Assembled DEF Control
      <4> QED BY <4>1 DEF DeviceCells, Place
    <3>10. dev'[cell] = dev[queue[1].from]
      BY <2>3, <3>3, <3>9, HeadWrites
    <3> QED BY <3>2, <3>5, <3>6, <3>8, <3>10
  <2> QED BY <2>2, <2>3
<1>6. missing # <<>> => \A c \in CacheNames : WindowComing(c) => WindowComing(c)'
  BY <1>1, <1>4, <1>5, WindowNext
<1> QED BY <1>3, <1>6 DEF Kept

LEMMA KeptAll ==
  ASSUME UNCHANGED fixedVars, Kept
  PROVE  /\ SlotsComing => SlotsComing'
         /\ \A x \in Needed : SlotComing(x) => SlotComing(x)'
         /\ missing # <<>> => \A c \in CacheNames : WindowComing(c) => WindowComing(c)'
<1>1. Needed' = Needed
  BY SameWork
<1> QED BY <1>1 DEF Kept, SlotsComing

LEMMA SomethingMissing ==
  ASSUME Control, NEW i \in 1..Len(queue), Tag(queue[i]) \in {"tables", "move", "filter"}
  PROVE  missing # <<>>
<1>1. queue[i] \in Copies \/ queue[i] \in Chunked
  BY QueuedKinds, Kinds
<1>2. CASE queue[i] \in Chunked
  <2>1. queue[i].at \in 1..Len(missing)
    BY <1>2, ChunkFields DEF Turns
  <2>2. Len(<<>>) = 0
    OBVIOUS
  <2> QED BY <2>1, <2>2
<1> QED BY <1>1, <1>2, Copy

\* Of the uploads of grids that lie before a filter none lies behind the head
\* unless it is for the same anchor.
LEMMA GridsExecute ==
  ASSUME Control, Order, GridsArrive, Execute
  PROVE  GridsArrive'
<1>1. UNCHANGED fixedVars /\ missing' = missing /\ queue[1] \in Operations
      /\ Len(queue) \in Nat /\ Len(queue) >= 1 /\ Len(queue') = Len(queue) - 1
      /\ \A i \in 1..Len(queue') : queue'[i] = queue[i + 1]
  BY Popped DEF fixedVars
<1>2. SUFFICES ASSUME NEW n \in 1..Len(queue'), Tag(queue'[n]) = "filter"
               PROVE  \/ \E i \in 1..(n - 1) : GridOf(queue'[i], queue'[n].at)
                      \/ /\ dev'[<<"grid">>] = <<missing[queue'[n].at]>>
                         /\ \A i \in 1..(n - 1) : Tag(queue'[i]) # "anchors"
  BY <1>1 DEF GridsArrive
<1> DEFINE m == queue'[n].at
<1>3. /\ n \in Nat /\ n >= 1 /\ n + 1 \in 1..Len(queue) /\ queue'[n] = queue[n + 1]
      /\ \A i \in 1..(n - 1) : i \in 1..Len(queue') /\ queue'[i] = queue[i + 1] /\ i + 1 \in 1..n
      /\ \A i \in 2..n : i - 1 \in 1..(n - 1)
  BY <1>1
<1>4. queue[n + 1] \in Chunked /\ Rank(queue[n + 1]) = 3 * m + 2 /\ m \in Turns /\ m \in Nat
  <2>1. queue[n + 1] \in Chunked
    BY <1>2, <1>3, QueuedKinds, Kinds
  <2> QED BY <1>3, <2>1, ChunkFields DEF Turns
<1>5. \A i \in 1..n : GridOf(queue[i], m) /\ i # 1 => GridOf(queue'[i - 1], m) /\ i - 1 \in 1..(n - 1)
  <2> SUFFICES ASSUME NEW i \in 1..n, GridOf(queue[i], m), i # 1
               PROVE  GridOf(queue'[i - 1], m) /\ i - 1 \in 1..(n - 1)
    OBVIOUS
  <2>1. i \in 1..Len(queue) /\ i - 1 \in 1..(n - 1)
    BY <1>3
  <2>2. queue'[i - 1] = queue[i]
    BY <1>2, <2>1, Behind
  <2> QED BY <1>2, <2>1, <2>2
<1>6. <<"grid">> \in DeviceCells /\ <<"grid">>[1] # "info"
  BY DEF DeviceCells
<1>7. CASE Tag(queue[1]) = "anchors" /\ \A i \in 1..(n - 1) : Tag(queue'[i]) # "anchors"
  <2>1. queue[1] \in Grids
    BY <1>1, <1>7, Kinds
  <2>2. queue[1].op = "upload" /\ queue[1].to = <<"grid">>
    BY <2>1, Grid
  <2>3. PICK k \in Turns : queue[1].from[2] = k /\ queue[1].what = <<missing[k]>>
    BY <2>1, Grid
  <2>4. dev'[<<"grid">>] = <<missing[k]>>
    BY <1>6, <2>2, <2>3, HeadWrites DEF Delivers
  <2>5. \E i \in 1..n : GridOf(queue[i], m)
    <3>1. 1 \in 1..n
      BY <1>3
    <3>2. \/ \E i \in 1..((n + 1) - 1) : GridOf(queue[i], queue[n + 1].at)
          \/ \A i \in 1..((n + 1) - 1) : Tag(queue[i]) # "anchors"
      BY <1>2, <1>3 DEF GridsArrive
    <3>3. (n + 1) - 1 = n
      BY <1>3
    <3> QED BY <1>3, <1>7, <3>1, <3>2, <3>3
  <2>6. PICK i \in 1..n : GridOf(queue[i], m)
    BY <2>5
  <2>7. i = 1
    <3>1. CASE i # 1
      <4>1. i - 1 \in 1..(n - 1) /\ GridOf(queue'[i - 1], m)
        BY <1>5, <2>6, <3>1
      <4> HIDE DEF m
      <4> QED BY <1>7, <4>1 DEF GridOf
    <3> QED BY <3>1
  <2>8. k = m
    BY <2>3, <2>6, <2>7 DEF GridOf
  <2> QED BY <1>7, <2>4, <2>8
<1>8. CASE Tag(queue[1]) = "anchors" /\ \E i \in 1..(n - 1) : Tag(queue'[i]) = "anchors"
  <2>1. PICK i \in 1..(n - 1) : Tag(queue'[i]) = "anchors"
    BY <1>8
  <2>2. queue'[i] = queue[i + 1] /\ i + 1 \in 1..Len(queue) /\ i + 1 < n + 1
    BY <1>1, <1>3
  <2>3. queue[1] \in Grids /\ queue'[i] \in Grids
    BY <1>1, <1>8, <2>1, <2>2, QueuedKinds, Kinds
  <2>4. PICK k \in Turns : queue[1].from[2] = k /\ Rank(queue[1]) = 3 * k + 1
    BY <2>3, Grid
  <2>5. PICK l \in Turns : queue'[i].from[2] = l /\ Rank(queue'[i]) = 3 * l + 1
    BY <2>3, Grid
  <2>6. Rank(queue[1]) <= Rank(queue[i + 1]) /\ Rank(queue[i + 1]) <= Rank(queue[n + 1])
    <3>1. Rank(queue[1]) <= Rank(queue[i + 1])
      BY <2>2, Behind
    <3>2. Rank(queue[i + 1]) <= Rank(queue[n + 1])
      BY <1>3, <2>2 DEF Order, InOrder
    <3> QED BY <3>1, <3>2
  <2>7. CASE l = m
    BY <2>1, <2>5, <2>7 DEF GridOf
  <2>8. CASE l # m
    <3>1. \A j \in 1..n : ~GridOf(queue[j], m) \/ \E h \in 1..(n - 1) : GridOf(queue'[h], m)
      <4> SUFFICES ASSUME NEW j \in 1..n, GridOf(queue[j], m)
                   PROVE  \E h \in 1..(n - 1) : GridOf(queue'[h], m)
        OBVIOUS
      <4>1. CASE j # 1
        BY <1>5, <4>1
      <4>2. CASE j = 1
        <5>1. k = m
          BY <2>4, <4>2 DEF GridOf
        <5>2. 3 * m + 1 <= 3 * l + 1 /\ 3 * l + 1 <= 3 * m + 2 /\ l \in Nat
          BY <1>4, <2>2, <2>4, <2>5, <2>6, <5>1 DEF Turns
        <5>3. l = m
          <6> HIDE DEF m
          <6> QED BY <1>4, <5>2
        <5> QED BY <2>8, <5>3
      <4> QED BY <4>1, <4>2
    <3>2. \/ \E j \in 1..((n + 1) - 1) : GridOf(queue[j], queue[n + 1].at)
          \/ \A j \in 1..((n + 1) - 1) : Tag(queue[j]) # "anchors"
      BY <1>2, <1>3 DEF GridsArrive
    <3>3. (n + 1) - 1 = n /\ 1 \in 1..n
      BY <1>3
    <3>4. \E j \in 1..n : GridOf(queue[j], m)
      BY <1>3, <1>8, <3>2, <3>3
    <3> QED BY <3>1, <3>4
  <2> QED BY <2>7, <2>8
<1>9. CASE Tag(queue[1]) # "anchors"
  <2>1. ~Delivers(queue[1], <<"grid">>)
    <3>1. queue[1] \in Grids => Tag(queue[1]) = "anchors"
      BY Grid
    <3> QED BY <1>1, <1>9, <3>1, Deliveries DEF Delivers
  <2>2. dev'[<<"grid">>] = dev[<<"grid">>]
    BY <1>6, <2>1, HeadWrites
  <2>3. \/ \E i \in 1..((n + 1) - 1) : GridOf(queue[i], queue[n + 1].at)
        \/ /\ dev[<<"grid">>] = <<missing[queue[n + 1].at]>>
           /\ \A i \in 1..((n + 1) - 1) : Tag(queue[i]) # "anchors"
    BY <1>2, <1>3 DEF GridsArrive
  <2>4. (n + 1) - 1 = n
    BY <1>3
  <2>5. CASE \E i \in 1..n : GridOf(queue[i], m)
    <3>1. PICK i \in 1..n : GridOf(queue[i], m)
      BY <2>5
    <3>2. i # 1
      BY <1>9, <3>1 DEF GridOf
    <3>3. i - 1 \in 1..(n - 1) /\ GridOf(queue'[i - 1], m)
      BY <1>5, <3>1, <3>2
    <3> QED BY <3>3
  <2>6. CASE /\ dev[<<"grid">>] = <<missing[m]>>
             /\ \A i \in 1..n : Tag(queue[i]) # "anchors"
    <3>1. \A i \in 1..(n - 1) : Tag(queue'[i]) # "anchors"
      BY <1>3, <2>6
    <3> QED BY <2>2, <2>6, <3>1
  <2> QED BY <1>3, <2>3, <2>4, <2>5, <2>6
<1> QED BY <1>7, <1>8, <1>9

LEMMA ArrivalExecute ==
  ASSUME Control, Order, Arrival, Execute
  PROVE  Arrival'
<1>1. FramesArrive /\ WindowsArrive /\ GridsArrive
  BY DEF Arrival
<1>2. Kept
  BY <1>1, KeptExecute
<1>3. UNCHANGED <<fixedVars, pc, index, uploads>> /\ missing' = missing /\ tables' = tables
      /\ Needed' = Needed
  BY Popped, SameWork DEF fixedVars
<1>4. \A i \in 1..Len(queue') : i + 1 \in 1..Len(queue) /\ queue'[i] = queue[i + 1]
  BY Behind
<1>5. FramesArrive'
  <2>1. pc = "upload" => \A x \in Needed : SlotComing(x)' \/ \E k \in index..Len(uploads) : uploads[k] = x
    BY <1>1, <1>2, <1>3, KeptAll DEF FramesArrive
  <2>2. pc \in {"tables", "compute"} => SlotsComing'
    BY <1>1, <1>2, <1>3, KeptAll DEF FramesArrive
  <2>3. \A i \in 1..Len(queue') : Tag(queue'[i]) \in {"tables", "move", "filter"} => SlotsComing'
    BY <1>1, <1>2, <1>3, <1>4, KeptAll DEF FramesArrive
  <2> QED BY <1>3, <2>1, <2>2, <2>3 DEF FramesArrive
<1>6. WindowsArrive'
  <2>1. pc = "tables" /\ ~tables /\ missing # <<>> =>
          \A i \in 1..(index - 1) : WindowComing(SourceCaches[i])'
    <3> SUFFICES ASSUME pc = "tables", ~tables, missing # <<>>, NEW i \in 1..(index - 1)
                 PROVE  WindowComing(SourceCaches[i])'
      OBVIOUS
    <3>1. SourceCaches[i] \in CacheNames
      BY CacheFacts DEF Control, Types, Counters
    <3>2. WindowComing(SourceCaches[i])
      BY <1>1 DEF WindowsArrive
    <3> QED BY <1>2, <1>3, <3>1, <3>2, KeptAll
  <2>2. pc = "compute" => missing # <<>> /\ \A c \in CacheNames : WindowComing(c)'
    BY <1>1, <1>2, <1>3, KeptAll DEF WindowsArrive
  <2>3. Pending("filter")' => \A c \in CacheNames : WindowComing(c)'
    <3> SUFFICES ASSUME NEW i \in 1..Len(queue'), Tag(queue'[i]) = "filter"
                 PROVE  \A c \in CacheNames : WindowComing(c)'
      BY DEF Pending
    <3>1. i + 1 \in 1..Len(queue) /\ Tag(queue[i + 1]) = "filter"
      BY <1>4
    <3>2. Pending("filter")
      BY <3>1 DEF Pending
    <3>3. missing # <<>>
      BY <3>1, SomethingMissing
    <3> QED BY <1>1, <1>2, <1>3, <3>2, <3>3, KeptAll DEF WindowsArrive
  <2> QED BY <1>3, <2>1, <2>2, <2>3 DEF WindowsArrive
<1>7. GridsArrive'
  BY <1>1, GridsExecute
<1> QED BY <1>5, <1>6, <1>7 DEF Arrival

\* What a point queues last is behind what it needs.
LEMMA FramesIssue ==
  ASSUME Control, Order, Arrival, UNCHANGED fixedVars, dev' = dev,
         NEW count \in 0..Len(Work), Issued(count)
  PROVE  /\ Kept
         /\ \A i \in 1..Len(queue') :
               Tag(queue'[i]) \in {"tables", "move", "filter"} => SlotsComing'
         /\ pc \in {"tables", "compute"} => SlotsComing'
<1>1. Kept
  BY KeptIssue
<1>2. SlotsComing => SlotsComing'
  BY <1>1, KeptAll
<1>3. pc \in {"tables", "compute"} => SlotsComing'
  BY <1>2 DEF Arrival, FramesArrive
<1>4. /\ Len(queue') = Len(queue) + count /\ Len(queue) \in Nat /\ count \in Nat
      /\ \A i \in 1..Len(queue) : queue'[i] = queue[i]
      /\ \A i \in 1..count : queue'[Len(queue) + i] = Work[i]
      /\ Len(Work) \in Nat
  BY QueueTyped, WorkTyped
<1>5. ASSUME NEW i \in 1..Len(queue'), Tag(queue'[i]) \in {"tables", "move", "filter"}
      PROVE  SlotsComing'
  <2>1. CASE i <= Len(queue)
    <3>1. i \in 1..Len(queue) /\ queue'[i] = queue[i]
      BY <1>4, <2>1
    <3> QED BY <1>2, <1>5, <3>1 DEF Arrival, FramesArrive
  <2>2. CASE i > Len(queue)
    <3> DEFINE k == i - Len(queue)
    <3>1. k \in 1..count /\ Len(queue) + k = i /\ k \in 1..Len(Work)
      BY <1>4, <2>2
    <3> HIDE DEF k
    <3>2. queue'[i] = Work[k]
      BY <1>4, <3>1
    <3>3. pc \in {"tables", "compute"}
      <4>1. CASE pc = "upload"
        <5>1. Work[k] \in Loads
          <6>1. Len(Work) = 1 /\ Work \in Seq(Loads)
            BY <4>1, UploadWork
          <6> QED BY <3>1, <6>1
        <5> QED BY <1>5, <3>2, <5>1, Load
      <4>2. CASE pc \in {"collect", "descriptors"}
        <5>1. Work \in Seq(Ends)
          BY <4>2, EndWork
        <5>2. Work[k] \in Ends
          BY <3>1, <5>1
        <5>3. Tag(Work[k]) \in {"collect", "sources", "combine"}
          BY <5>2, Ending
        <5> QED BY <1>5, <3>2, <5>3
      <4>3. CASE pc \in {"idle", "sync", "check", "drain", "done"}
        <5>1. Len(Work) = 0
          BY <4>3, EndWork
        <5> QED BY <3>1, <5>1
      <4>4. pc \in Points
        BY DEF Control, Types
      <4> QED BY <4>1, <4>2, <4>3, <4>4 DEF Points
    <3> QED BY <1>3, <3>3
  <2> QED BY <1>4, <2>1, <2>2
<1> QED BY <1>1, <1>3, <1>5

\* Filters are queued only by compute_contribution, behind the clear and the grid.
LEMMA FilterWork ==
  ASSUME Control, NEW k \in 1..Len(Work), Tag(Work[k]) = "filter"
  PROVE  /\ pc = "compute" /\ k > 2 /\ Work[k].at = index /\ index \in Turns
         /\ k - 2 \in 1..ChunkCount(missing[index]) /\ Work[k] = Chunk(index, k - 2)
<1>1. Len(Work) \in Nat
  BY WorkTyped
<1>2. Work[k] \in Chunked
  BY WorkTyped, Kinds
<1>3. pc = "compute"
  <2>1. CASE pc = "upload"
    <3>1. Work[k] \in Loads
      <4>1. Len(Work) = 1 /\ Work \in Seq(Loads)
        BY <2>1, UploadWork
      <4> QED BY <4>1
    <3> QED BY <3>1, Load
  <2>2. CASE pc \in {"collect", "descriptors"}
    <3>1. Work \in Seq(Ends)
      BY <2>2, EndWork
    <3>2. Work[k] \in Ends
      BY <3>1
    <3>3. Tag(Work[k]) \in {"collect", "sources", "combine"}
      BY <3>2, Ending
    <3> QED BY <3>3
  <2>3. CASE pc \in {"idle", "sync", "check", "drain", "done"} \/ (pc = "tables" /\ missing = <<>>)
    <3>1. Len(Work) = 0
      BY <2>3, EndWork
    <3> QED BY <3>1
  <2>4. CASE pc = "tables" /\ missing # <<>>
    <3>1. Work \in Seq(Copies)
      BY <2>4, TableWork, MoveWork DEF Control, Types
    <3>2. Work[k] \in Copies
      BY <3>1
    <3>3. Tag(Work[k]) \in {"tables", "move"}
      BY <3>2, Copy
    <3> QED BY <3>3
  <2>5. pc \in Points
    BY DEF Control, Types
  <2> QED BY <2>1, <2>2, <2>3, <2>4, <2>5 DEF Points
<1>4. /\ index \in Turns /\ Work[1] = Clear(index, TotalGroups)
      /\ Work[2] = Upload(Anchored(index), <<"grid">>, <<missing[index]>>)
  BY <1>3, ComputeWork
<1>5. k > 2
  <2>1. Work[1].op = "clear" /\ Work[2].op = "upload"
    BY <1>4 DEF Clear, Upload
  <2>2. Work[k].op = "filter"
    BY <1>2, ChunkFields
  <2>3. k # 1 /\ k # 2
    BY <2>1, <2>2
  <2> QED BY <1>1, <2>3
<1>6. k - 2 \in 1..ChunkCount(missing[index])
  <2>1. Len(Work) = ChunkCount(missing[index]) + 2 /\ ChunkCount(missing[index]) \in Nat
    BY <1>3, <1>4, ComputeWork, MissingGrids DEF Control
  <2> HIDE DEF ChunkCount
  <2> QED BY <1>1, <1>5, <2>1
<1>7. Work[k] = Chunk(index, k - 2)
  <2> DEFINE j == k - 2
  <2>1. j \in 1..ChunkCount(missing[index]) /\ j + 2 = k
    BY <1>1, <1>6
  <2> HIDE DEF j
  <2>2. Work[k] = Chunk(index, j)
    BY <1>3, <2>1, ComputeWork
  <2> QED BY <2>2 DEF j
<1>8. Work[k].at = index
  BY <1>7 DEF Chunk, Filter
<1> QED BY <1>3, <1>4, <1>5, <1>6, <1>7, <1>8

\* Filters are queued behind the windows they read, and right behind their grid.
LEMMA FiltersIssue ==
  ASSUME Control, Order, Arrival, UNCHANGED fixedVars, dev' = dev,
         NEW count \in 0..Len(Work), Issued(count)
  PROVE  /\ Pending("filter")' => \A c \in CacheNames : WindowComing(c)'
         /\ GridsArrive'
<1>1. Kept
  BY KeptIssue
<1>2. missing # <<>> => \A c \in CacheNames : WindowComing(c) => WindowComing(c)'
  BY <1>1, KeptAll
<1> DEFINE n == Len(queue)
<1>3. /\ Len(queue') = n + count /\ n \in Nat /\ count \in Nat
      /\ \A i \in 1..n : queue'[i] = queue[i]
      /\ \A i \in 1..count : queue'[n + i] = Work[i]
      /\ Len(Work) \in Nat /\ count <= Len(Work)
  BY QueueTyped, WorkTyped
<1>4. ASSUME NEW k \in 1..Len(Work), Tag(Work[k]) = "filter"
      PROVE  pc = "compute" /\ k > 2 /\ Work[k].at = index
  BY <1>4, FilterWork
<1> HIDE DEF n
<1>5. ASSUME NEW i \in 1..(n + count)
      PROVE  \/ i \in 1..n /\ queue'[i] = queue[i]
             \/ \E k \in 1..count : k \in 1..Len(Work) /\ i = n + k /\ queue'[i] = Work[k]
  <2>1. CASE i <= n
    BY <1>3, <2>1
  <2>2. CASE i > n
    <3> DEFINE k == i - n
    <3>1. k \in 1..count /\ n + k = i /\ k \in 1..Len(Work)
      BY <1>3, <2>2
    <3> HIDE DEF k
    <3>2. queue'[i] = Work[k]
      BY <1>3, <3>1
    <3> QED BY <3>1, <3>2
  <2> QED BY <1>3, <2>1, <2>2
<1>6. ASSUME NEW i \in 1..(n + count), Tag(queue'[i]) = "filter"
      PROVE  \A c \in CacheNames : WindowComing(c)'
  <2>1. CASE i \in 1..n /\ queue'[i] = queue[i]
    <3>1. Pending("filter") /\ missing # <<>>
      BY <1>6, <2>1, SomethingMissing DEF Pending, n
    <3> QED BY <1>2, <3>1 DEF Arrival, WindowsArrive
  <2>2. CASE \E k \in 1..Len(Work) : queue'[i] = Work[k]
    <3>1. pc = "compute"
      BY <1>4, <1>6, <2>2
    <3> QED BY <1>2, <3>1 DEF Arrival, WindowsArrive
  <2> QED BY <1>5, <2>1, <2>2
<1>7. ASSUME NEW i \in 1..(n + count), Tag(queue'[i]) = "filter"
      PROVE  \/ \E h \in 1..(i - 1) : GridOf(queue'[h], queue'[i].at)
             \/ /\ dev[<<"grid">>] = <<missing[queue'[i].at]>>
                /\ \A h \in 1..(i - 1) : Tag(queue'[h]) # "anchors"
  <2>1. CASE i \in 1..n /\ queue'[i] = queue[i]
    <3>1. \A h \in 1..(i - 1) : h \in 1..n /\ queue'[h] = queue[h]
      BY <1>3, <2>1
    <3>2. \/ \E h \in 1..(i - 1) : GridOf(queue[h], queue[i].at)
          \/ /\ dev[<<"grid">>] = <<missing[queue[i].at]>>
             /\ \A h \in 1..(i - 1) : Tag(queue[h]) # "anchors"
      BY <1>7, <2>1 DEF Arrival, GridsArrive, n
    <3> QED BY <2>1, <3>1, <3>2
  <2>2. CASE \E k \in 1..count : k \in 1..Len(Work) /\ i = n + k /\ queue'[i] = Work[k]
    <3>1. PICK k \in 1..count : k \in 1..Len(Work) /\ i = n + k /\ queue'[i] = Work[k]
      BY <2>2
    <3>2. pc = "compute" /\ k > 2 /\ queue'[i].at = index
      BY <1>4, <1>7, <3>1
    <3>3. 2 \in 1..count /\ n + 2 \in 1..(i - 1)
      BY <1>3, <3>1, <3>2
    <3>4. queue'[n + 2] = Upload(Anchored(index), <<"grid">>, <<missing[index]>>)
      BY <1>3, <3>2, <3>3, ComputeWork
    <3>5. queue'[n + 2].op = "upload" /\ queue'[n + 2].from = Anchored(index)
      BY <3>4 DEF Upload
    <3>6. GridOf(queue'[n + 2], index)
      BY <3>5 DEF GridOf, Tag, Anchored
    <3> QED BY <3>2, <3>3, <3>6
  <2> QED BY <1>5, <2>1, <2>2
<1>8. GridsArrive'
  BY <1>3, <1>7 DEF GridsArrive, fixedVars
<1>9. Pending("filter")' => \A c \in CacheNames : WindowComing(c)'
  BY <1>3, <1>6 DEF Pending
<1> QED BY <1>8, <1>9

LEMMA ArrivalIssuing ==
  ASSUME Control, Order, Arrival, Control',
         StageUpload \/ UploadTables \/ AssembleWindow \/ ComputeContribution \/ CollectStatus
            \/ CombineFrame
  PROVE  Arrival'
<1>1. /\ Len(Work) \in 0..Len(Work) /\ Issued(Len(Work)) /\ UNCHANGED fixedVars
      /\ dev' = dev /\ uploads' = uploads /\ missing' = missing /\ tables' = tables
      /\ Needed' = Needed
  BY Issuing, SameWork DEF fixedVars
<1>2. Kept /\ (pc \in {"tables", "compute"} => SlotsComing')
  BY <1>1, FramesIssue
<1>3. \A i \in 1..Len(queue') : Tag(queue'[i]) \in {"tables", "move", "filter"} => SlotsComing'
  BY <1>1, FramesIssue
<1>4. Pending("filter")' => \A c \in CacheNames : WindowComing(c)'
  BY <1>1, FiltersIssue
<1>5. GridsArrive'
  BY <1>1, FiltersIssue
<1>6. /\ SlotsComing => SlotsComing'
      /\ \A x \in Needed : SlotComing(x) => SlotComing(x)'
      /\ missing # <<>> => \A c \in CacheNames : WindowComing(c) => WindowComing(c)'
  BY <1>1, <1>2, KeptAll
<1>7. /\ Len(queue') = Len(queue) + Len(Work) /\ Len(queue) \in Nat /\ Len(Work) \in Nat
      /\ \A i \in 1..Len(Work) : queue'[Len(queue) + i] = Work[i]
  BY <1>1, QueueTyped
<1>8. \A i \in 1..Len(Work) : Len(queue) + i \in 1..Len(queue')
  BY <1>7
<1>9. CASE StageUpload
  <2>1. pc = "upload" /\ (\/ index < Len(uploads) /\ pc' = "upload" /\ index' = index + 1
                          \/ index = Len(uploads) /\ pc' = "tables" /\ index' = 1)
    <3>1. pc = "upload" /\ index <= Len(uploads) /\ index \in Nat /\ Len(uploads) \in Nat
      BY <1>9 DEF StageUpload, Control, Types, Counters
    <3> QED BY <1>9, <3>1 DEF StageUpload, Advance, Goto
  <2>2. index \in Nat /\ Len(uploads) \in Nat /\ uploads[index] \in Needed
    BY <2>1, UploadWork DEF Control, Types
  <2>3. ASSUME NEW x \in Needed, x = uploads[index]
        PROVE  SlotComing(x)'
    <3>1. /\ Len(Work) = 1
          /\ Work[1] = Upload(Staging(StagingIndex), Slot(uploads[index][1], uploads[index][2]),
                              uploads[index])
      BY <2>1, UploadWork
    <3>2. Work[1].op = "upload" /\ Work[1].to = Slot(uploads[index][1], uploads[index][2])
      BY <3>1 DEF Upload
    <3>3. \E i \in 1..Len(queue') : Delivers(queue'[i], Slot(uploads[index][1], uploads[index][2]))
      <4>1. Len(queue) + 1 \in 1..Len(queue') /\ queue'[Len(queue) + 1] = Work[1]
        BY <1>7, <1>8, <3>1
      <4> QED BY <3>2, <4>1 DEF Delivers
    <3> QED BY <1>1, <2>3, <3>3, SlotNext
  <2>4. ASSUME NEW x \in Needed
        PROVE  SlotComing(x)' \/ \E k \in (index + 1)..Len(uploads) : uploads[k] = x
    <3>1. CASE SlotComing(x)
      BY <1>6, <3>1
    <3>2. CASE \E k \in index..Len(uploads) : uploads[k] = x
      <4>1. PICK k \in index..Len(uploads) : uploads[k] = x
        BY <3>2
      <4>2. CASE k = index
        BY <2>3, <4>1, <4>2
      <4>3. CASE k # index
        <5>1. k \in (index + 1)..Len(uploads)
          BY <2>2, <4>3
        <5> QED BY <4>1, <5>1
      <4> QED BY <4>2, <4>3
    <3> QED BY <2>1, <3>1, <3>2 DEF Arrival, FramesArrive
  <2>5. pc' = "upload" => \A x \in Needed : SlotComing(x)' \/ \E k \in index'..Len(uploads) : uploads[k] = x
    BY <2>1, <2>4
  <2>6. pc' # "upload" => SlotsComing'
    <3>1. pc' # "upload" => \A x \in Needed : SlotComing(x)'
      BY <2>1, <2>2, <2>4
    <3> QED BY <1>1, <3>1 DEF SlotsComing
  <2>7. FramesArrive'
    BY <1>1, <1>3, <2>1, <2>5, <2>6 DEF FramesArrive
  <2>8. WindowsArrive'
    BY <1>4, <2>1 DEF WindowsArrive
  <2> QED BY <1>5, <2>7, <2>8 DEF Arrival
<1>10. CASE UploadTables
  <2>1. pc = "tables" /\ tables /\ missing # <<>> /\ pc' = "compute"
    BY <1>10 DEF UploadTables, Goto
  <2>2. \A c \in CacheNames : WindowComing(c)'
    <3> SUFFICES ASSUME NEW c \in CacheNames PROVE WindowComing(c)'
      OBVIOUS
    <3>1. PICK i \in 1..Len(SourceCaches) : c = SourceCaches[i]
      BY CacheFacts
    <3>2. Work[i] = Upload(Tables(c), Tables(c), TablesOf(c)) /\ i \in 1..Len(Work)
      BY <2>1, <3>1, TableWork
    <3>3. Work[i].op = "upload" /\ Work[i].to = Tables(c)
      BY <3>2 DEF Upload
    <3>4. \E j \in 1..Len(queue') : Delivers(queue'[j], Tables(c))
      BY <1>7, <1>8, <3>2, <3>3 DEF Delivers
    <3> QED BY <1>1, <2>1, <3>4, WindowNext
  <2>3. FramesArrive'
    BY <1>2, <1>3, <2>1 DEF FramesArrive
  <2>4. WindowsArrive'
    BY <1>1, <1>4, <2>1, <2>2 DEF WindowsArrive
  <2> QED BY <1>5, <2>3, <2>4 DEF Arrival
<1>11. CASE AssembleWindow
  <2>1. /\ pc = "tables" /\ ~tables /\ missing # <<>> /\ index \in Nat /\ index >= 1
        /\ index <= Len(SourceCaches)
        /\ \/ index < Len(SourceCaches) /\ pc' = "tables" /\ index' = index + 1
           \/ index = Len(SourceCaches) /\ pc' = "compute" /\ index' = 1
    <3>1. pc = "tables" /\ index <= Len(SourceCaches) /\ index \in Nat /\ index >= 1
      BY <1>11 DEF AssembleWindow, Control, Types, Counters
    <3>2. Len(SourceCaches) \in Nat
      BY CacheFacts
    <3> QED BY <1>11, <3>1, <3>2 DEF AssembleWindow, Advance, Goto
  <2>2. ASSUME NEW c \in CacheNames, c = SourceCaches[index]
        PROVE  WindowComing(c)'
    <3>1. /\ Len(Work) = Assembly.last - Assembly.first + 1
          /\ \A i \in 1..Len(Work) : Work[i] = Move(Slot(c, Assembly.first + i - 1), Place(c, i - 1))
      BY <2>1, <2>2, MoveWork
    <3>2. Assembly.first \in Nat /\ Assembly.last \in Nat
      BY <2>1, Assembled DEF Control
    <3>3. ASSUME NEW f \in Assembly.first .. Assembly.last
          PROVE  \E j \in 1..Len(queue') : Delivers(queue'[j], Place(c, f - Assembly.first))
      <4> DEFINE k == f - Assembly.first
                 i == k + 1
      <4>1. i \in 1..Len(Work) /\ i - 1 = k
        BY <3>1, <3>2
      <4>2. Work[i].op = "move" /\ Work[i].to = Place(c, k)
        <5>1. Work[i] = Move(Slot(c, Assembly.first + i - 1), Place(c, k))
          BY <3>1, <4>1
        <5> QED BY <5>1 DEF Move
      <4>3. Delivers(Work[i], Place(c, k))
        BY <4>2 DEF Delivers
      <4> HIDE DEF i
      <4>4. Len(queue) + i \in 1..Len(queue') /\ queue'[Len(queue) + i] = Work[i]
        BY <1>7, <1>8, <4>1
      <4> QED BY <4>3, <4>4
    <3> QED BY <1>1, <2>1, <3>3, WindowNext
  <2>3. ASSUME NEW i \in 1..index, NEW c \in CacheNames, c = SourceCaches[i]
        PROVE  WindowComing(c)'
    <3>1. CASE i = index
      BY <2>2, <2>3, <3>1
    <3>2. CASE i # index
      <4>1. i \in 1..(index - 1)
        BY <2>1, <3>2
      <4>2. WindowComing(c)
        BY <2>1, <2>3, <4>1 DEF Arrival, WindowsArrive
      <4> QED BY <1>6, <2>1, <4>2
    <3> QED BY <3>1, <3>2
  <2>4. pc' = "tables" => \A i \in 1..(index' - 1) : WindowComing(SourceCaches[i])'
    <3> SUFFICES ASSUME pc' = "tables", NEW i \in 1..(index' - 1) PROVE WindowComing(SourceCaches[i])'
      OBVIOUS
    <3>1. i \in 1..index /\ SourceCaches[i] \in CacheNames
      BY <2>1, CacheFacts
    <3> QED BY <2>3, <3>1
  <2>5. pc' = "compute" => \A c \in CacheNames : WindowComing(c)'
    <3> SUFFICES ASSUME pc' = "compute", NEW c \in CacheNames PROVE WindowComing(c)'
      OBVIOUS
    <3>1. index = Len(SourceCaches)
      BY <2>1
    <3> QED BY <2>3, <3>1, CacheFacts
  <2>6. FramesArrive'
    BY <1>2, <1>3, <2>1 DEF FramesArrive
  <2>7. WindowsArrive'
    BY <1>1, <1>4, <2>1, <2>4, <2>5 DEF WindowsArrive
  <2> QED BY <1>5, <2>6, <2>7 DEF Arrival
<1>12. CASE ComputeContribution
  <2>1. pc = "compute" /\ pc' \in {"compute", "collect"}
    BY <1>12 DEF ComputeContribution, Advance, Goto
  <2>2. FramesArrive'
    BY <1>2, <1>3, <2>1 DEF FramesArrive
  <2>3. WindowsArrive'
    BY <1>1, <1>4, <1>6, <2>1 DEF WindowsArrive, Arrival
  <2> QED BY <1>5, <2>2, <2>3 DEF Arrival
<1>13. CASE CollectStatus \/ CombineFrame
  <2>1. pc' \in {"descriptors", "sync"}
    BY <1>13 DEF CollectStatus, CombineFrame, Goto
  <2>2. FramesArrive' /\ WindowsArrive'
    BY <1>3, <1>4, <2>1 DEF FramesArrive, WindowsArrive
  <2> QED BY <1>5, <2>2 DEF Arrival
<1> QED BY <1>9, <1>10, <1>11, <1>12, <1>13

LEMMA ArrivalQuiet ==
  ASSUME Control, Arrival, UNCHANGED fixedVars, dev' = dev, queue' = queue,
         pc' \in {"descriptors", "check", "drain", "done", "idle"}
  PROVE  Arrival'
<1>1. Kept /\ missing' = missing
  BY KeptCalm DEF fixedVars
<1>2. /\ SlotsComing => SlotsComing'
      /\ missing # <<>> => \A c \in CacheNames : WindowComing(c) => WindowComing(c)'
  BY <1>1, KeptAll
<1>3. FramesArrive'
  BY <1>2 DEF Arrival, FramesArrive
<1>4. WindowsArrive'
  <2>1. Pending("filter")' = Pending("filter")
    BY DEF Pending
  <2>2. Pending("filter") => missing # <<>>
    BY SomethingMissing DEF Pending
  <2> QED BY <1>2, <2>1, <2>2 DEF Arrival, WindowsArrive
<1>5. GridsArrive'
  BY <1>1 DEF Arrival, GridsArrive
<1> QED BY <1>3, <1>4, <1>5 DEF Arrival

LEMMA ArrivalHost ==
  ASSUME Control, Order, Arrival, Control',
         \/ StageUpload \/ UploadTables \/ AssembleWindow \/ NothingMissing
         \/ ComputeContribution \/ CollectStatus \/ CombineFrame \/ CallFails
         \/ Synchronize \/ CheckStatus \/ Drain \/ ReturnWorker
  PROVE  Arrival'
<1>1. CASE StageUpload \/ UploadTables \/ AssembleWindow \/ ComputeContribution \/ CollectStatus
            \/ CombineFrame
  BY <1>1, ArrivalIssuing
<1>2. CASE CallFails
  <2>1. pc' = "drain" /\ UNCHANGED fixedVars /\ dev' = dev
    BY <1>2, FailingCall
  <2>2. CASE UNCHANGED <<host, queue, issued>>
    BY <2>1, <2>2, ArrivalQuiet
  <2>3. CASE \E count \in 0..Len(Work) : Issued(count)
    <3>1. PICK count \in 0..Len(Work) : Issued(count)
      BY <2>3
    <3>2. FramesArrive'
      BY <2>1, <3>1, FramesIssue DEF FramesArrive
    <3>3. WindowsArrive'
      BY <2>1, <3>1, FiltersIssue DEF WindowsArrive
    <3>4. GridsArrive'
      BY <2>1, <3>1, FiltersIssue
    <3> QED BY <3>2, <3>3, <3>4 DEF Arrival
  <2> QED BY <1>2, <2>2, <2>3, FailingCall
<1>3. CASE NothingMissing \/ Synchronize \/ CheckStatus \/ Drain \/ ReturnWorker
  <2>1. UNCHANGED fixedVars /\ dev' = dev /\ queue' = queue
        /\ pc' \in {"descriptors", "check", "drain", "done", "idle"}
    BY <1>3, CalmSteps DEF Calm
  <2> QED BY <2>1, ArrivalQuiet
<1> QED BY <1>1, <1>2, <1>3

\* A new render: what is no miss is in its slot, and the misses are listed.
LEMMA ArrivalStart ==
  ASSUME Control, NEW f \in Wanted,
         NEW misses \in SUBSET (CacheNames \X (RequiredSourceRange(p, f).first
                                               .. RequiredSourceRange(p, f).last)),
         NEW todo \in SUBSET Anchors(p, f), StartRender(f, misses, todo), Control'
  PROVE  Arrival'
<1>1. /\ frame' = f /\ f \in SourceFrames /\ queue' = <<>> /\ index' = 1
      /\ pc' = (IF misses = {} THEN "tables" ELSE "upload")
      /\ uploads' \in Listings(misses)
      /\ dev' = [c \in DeviceCells |->
                 IF c[1] # "slot" THEN dev[c]
                 ELSE IF <<c[2], c[3]>> \in misses THEN Junk ELSE <<c[2], c[3]>>]
  BY BuffersAssumption DEF StartRender, UploadOrders, Control, Counters
<1>2. Needed' = CacheNames \X (RequiredSourceRange(p, f).first .. RequiredSourceRange(p, f).last)
  BY <1>1 DEF Needed, Span, Window
<1>3. ASSUME NEW x \in Needed', x \notin misses
      PROVE  SlotComing(x)'
  <2>1. x[1] \in CacheNames /\ x[2] \in SourceFrames /\ x = <<x[1], x[2]>>
    BY <1>1, <1>2, FrameNeeds
  <2> DEFINE cell == Slot(x[1], x[2])
  <2>2. cell \in DeviceCells /\ cell[1] = "slot" /\ <<cell[2], cell[3]>> = x
    BY <2>1 DEF DeviceCells, Slot
  <2>3. dev'[cell] = x
    BY <1>1, <1>3, <2>2
  <2> QED BY <2>3 DEF SlotComing, Coming
<1>4. ASSUME NEW x \in misses
      PROVE  \E k \in 1..Len(uploads') : uploads'[k] = x
  <2>1. \E i \in DOMAIN uploads' : uploads'[i] = x
    BY <1>1 DEF Listings
  <2>2. DOMAIN uploads' = 1..Len(uploads')
    BY DEF Control, Types
  <2> QED BY <2>1, <2>2
<1>5. FramesArrive'
  <2>1. pc' = "upload" => \A x \in Needed' : SlotComing(x)' \/ \E k \in index'..Len(uploads') : uploads'[k] = x
    BY <1>1, <1>3, <1>4
  <2>2. pc' \in {"tables", "compute"} => SlotsComing'
    BY <1>1, <1>3 DEF SlotsComing
  <2>3. Len(queue') = 0
    BY <1>1
  <2> QED BY <2>1, <2>2, <2>3 DEF FramesArrive
<1>6. WindowsArrive'
  <2>1. pc' # "compute" /\ index' = 1 /\ ~Pending("filter")'
    BY <1>1 DEF Pending
  <2> QED BY <2>1 DEF WindowsArrive
<1>7. GridsArrive'
  BY <1>1 DEF GridsArrive
<1> QED BY <1>5, <1>6, <1>7 DEF Arrival

LEMMA ArrivalInvariant == WorkerSpec => []Arrival
<1>1. WorkerInit => Arrival
  BY DEF WorkerInit, Arrival, FramesArrive, WindowsArrive, GridsArrive, Pending
<1>2. Control /\ Control' /\ Order /\ Arrival /\ [WorkerNext]_workerVars => Arrival'
  <2> SUFFICES ASSUME Control, Control', Order, Arrival, [WorkerNext]_workerVars PROVE Arrival'
    OBVIOUS
  <2>1. ASSUME UNCHANGED workerVars PROVE Arrival'
    <3>1. UNCHANGED fixedVars /\ dev' = dev /\ queue' = queue /\ pc' = pc /\ index' = index
          /\ missing' = missing /\ uploads' = uploads /\ tables' = tables
      BY <2>1 DEF workerVars, fixedVars
    <3>2. Needed' = Needed /\ SlotsComing' = SlotsComing /\ \A x : SlotComing(x)' = SlotComing(x)
      BY <3>1, SameWork DEF SlotsComing, SlotComing, Coming
    <3>3. \A c : WindowComing(c)' = WindowComing(c)
      <4>1. Assembly' = Assembly /\ \A c : TablesOf(c)' = TablesOf(c)
        BY <3>1, SameWork
      <4> QED BY <3>1, <4>1 DEF WindowComing, Coming
    <3>4. FramesArrive'
      BY <3>1, <3>2 DEF Arrival, FramesArrive
    <3>5. WindowsArrive'
      BY <3>1, <3>3 DEF Arrival, WindowsArrive, Pending
    <3>6. GridsArrive'
      BY <3>1 DEF Arrival, GridsArrive
    <3> QED BY <3>4, <3>5, <3>6 DEF Arrival
  <2> QED BY <2>1, HostSteps, ArrivalStart, ArrivalHost, ArrivalExecute
<1> QED BY <1>1, <1>2, ControlInvariant, OrderInvariant, PTL DEF WorkerSpec

\* Behind the copies of windows a window holds what it should.
LEMMA WindowsFilled ==
  ASSUME Control, Order, queue # <<>>, Rank(queue[1]) >= 2,
         NEW cell, cell[1] \in {"tables", "contiguous"}, NEW i \in 1..Len(queue)
  PROVE  ~Delivers(queue[i], cell)
<1> SUFFICES ASSUME Delivers(queue[i], cell) PROVE FALSE
  OBVIOUS
<1>1. queue[i] \in Copies
  BY QueuedKinds, Deliveries DEF Delivers
<1>2. Rank(queue[i]) = 1
  BY <1>1, Copy
<1>3. Len(queue) \in Nat /\ i \in 1..Len(queue) /\ 1 \in 1..Len(queue)
  <2>1. Len(queue) \in Nat /\ i \in 1..Len(queue)
    BY QueuedKinds
  <2> QED BY <2>1
<1>4. Rank(queue[1]) \in Nat
  BY <1>3, QueuedKinds, RankType
<1>5. Rank(queue[1]) <= Rank(queue[i])
  <2>1. i = 1 \/ 1 < i
    BY <1>3
  <2>2. CASE i = 1
    BY <1>4, <2>2
  <2>3. CASE 1 < i
    BY <1>3, <2>3 DEF Order, InOrder
  <2> QED BY <2>1, <2>2, <2>3
<1> QED BY <1>2, <1>4, <1>5

LEMMA FilterSees ==
  ASSUME Control, Order, Arrival
  PROVE  FiltersSeeTheirAnchor
<1> SUFFICES ASSUME queue # <<>>, Head(queue).op = "filter"
             PROVE  /\ dev[<<"grid">>] = <<Head(queue).anchor>>
                    /\ \A c \in CacheNames : Seen(c, Head(queue)) = SourcesOf(c, Head(queue).anchor)
  BY DEF FiltersSeeTheirAnchor
<1> DEFINE op == queue[1]
           m == op.at
           a == missing[m]
           first == AnchorSourceRange(p, a).first
           n == CachedFrames(p)
<1>1. /\ Head(queue) = op /\ 1 \in 1..Len(queue) /\ op \in Operations
  <2>1. queue \in Seq(Operations)
    BY DEF Control, Types
  <2>2. Len(queue) \in Nat /\ Len(queue) >= 1 /\ Head(queue) = op /\ op \in Operations
    BY <2>1, Shortened
  <2> QED BY <2>2
<1>2. Tag(op) = "filter" /\ op \in Chunked
  <2>1. Tag(op) = "filter"
    BY <1>1 DEF Tag
  <2> QED BY <1>1, <2>1, Kinds
<1>3. m \in Turns /\ Rank(op) = 3 * m + 2 /\ op.anchor = a /\ op.base = WindowBase(a)
  BY <1>2, ChunkFields
<1>4. Rank(op) >= 2
  <2>1. m \in Nat
    BY <1>3 DEF Turns
  <2> HIDE DEF m
  <2> QED BY <1>3, <2>1
<1>5. missing # <<>>
  BY <1>1, <1>2, SomethingMissing
<1>6. dev[<<"grid">>] = <<a>>
  <2>1. \/ \E i \in 1..(1 - 1) : GridOf(queue[i], queue[1].at)
        \/ dev[<<"grid">>] = <<missing[queue[1].at]>>
    BY <1>1, <1>2 DEF Arrival, GridsArrive
  <2> QED BY <2>1
<1>7. /\ first \in Nat /\ n \in Nat /\ AnchorSourceRange(p, a).last = first + n - 1
      /\ Window.first \in Nat /\ Window.last \in Nat
      /\ Window.first <= first /\ first + n - 1 <= Window.last
  <2>1. a \in Anchors(p, frame)
    BY <1>3, MissingGrids DEF Control
  <2> QED BY <2>1, FrameNeeds, Sizes DEF Window, Control, Types
<1>8. \A x \in Needed : dev[Slot(x[1], x[2])] = x
  <2>1. SlotsComing
    BY <1>1, <1>2 DEF Arrival, FramesArrive
  <2>2. Rank(queue[1]) >= 1
    <3>1. m \in Nat
      BY <1>3 DEF Turns
    <3> HIDE DEF m
    <3> QED BY <1>3, <3>1
  <2> QED BY <2>1, <2>2, SlotsFilled
<1>9. \A c \in CacheNames, k \in 1..n : <<c, first + k - 1>> \in Needed
  <2> HIDE DEF n, first
  <2>1. \A k \in 1..n : first + k - 1 \in Span
    BY <1>7 DEF Span
  <2> QED BY <2>1 DEF Needed
<1>10. \A c \in CacheNames : WindowComing(c)
  <2>1. Pending("filter")
    BY <1>1, <1>2 DEF Pending
  <2> QED BY <2>1 DEF Arrival, WindowsArrive
<1>11. ASSUME NEW c \in CacheNames, tables
       PROVE  Seen(c, op) = SourcesOf(c, a)
  <2> DEFINE T == SourcesOf(c, a)
  <2>1. dev[Tables(c)] = TablesOf(c)
    <3>1. Tables(c)[1] = "tables"
      BY DEF Tables
    <3>2. \A i \in 1..Len(queue) : ~Delivers(queue[i], Tables(c))
      BY <1>4, <3>1, WindowsFilled
    <3> QED BY <1>10, <1>11, <3>2 DEF WindowComing, Coming
  <2>2. TablesOf(c)[m] = T
    <3>1. m \in DOMAIN missing
      BY <1>3 DEF Turns, Control, Types
    <3> QED BY <3>1 DEF TablesOf
  <2>3. T = [k \in 1..n |-> <<c, first + k - 1>>]
    BY DEF SourcesOf
  <2>4. Seen(c, op) = [k \in DOMAIN T |-> dev[Slot(T[k][1], T[k][2])]]
    BY <1>11, <2>1, <2>2 DEF Seen
  <2>5. \A k \in 1..n : T[k] = <<c, first + k - 1>> /\ T[k] \in Needed
    BY <1>9, <2>3
  <2>6. DOMAIN T = 1..n
    BY <2>3
  <2> HIDE DEF T, n, first, m, op, a
  <2>7. \A k \in 1..n : dev[Slot(T[k][1], T[k][2])] = T[k]
    BY <1>8, <2>5
  <2>8. T = [k \in 1..n |-> T[k]]
    BY <2>3, <2>5
  <2>9. [k \in DOMAIN T |-> dev[Slot(T[k][1], T[k][2])]] = [k \in 1..n |-> T[k]]
    BY <2>6, <2>7
  <2> QED BY <2>4, <2>8, <2>9 DEF T
<1>12. ASSUME NEW c \in CacheNames, ~tables
       PROVE  Seen(c, op) = SourcesOf(c, a)
  <2>1. Seen(c, op) = [k \in 1..n |-> dev[Place(c, op.base + k - 1)]]
    BY <1>12 DEF Seen
  <2>2. SourcesOf(c, a) = [k \in 1..n |-> <<c, first + k - 1>>]
    BY DEF SourcesOf
  <2>3. Assembly.first \in Nat /\ Assembly.last \in Nat
        /\ Assembly.first <= first /\ first + n - 1 <= Assembly.last
    BY <1>3, <1>5, <1>7, Assembled DEF Control
  <2>4. op.base = first - Assembly.first
    BY <1>3 DEF WindowBase
  <2>5. ASSUME NEW k \in 1..n
        PROVE  dev[Place(c, op.base + k - 1)] = <<c, first + k - 1>>
    <3> DEFINE f == first + k - 1
    <3>1. f \in Assembly.first .. Assembly.last /\ op.base + k - 1 = f - Assembly.first
      <4> DEFINE base == op.base
                 low == Assembly.first
                 high == Assembly.last
      <4>1. base = first - low /\ low \in Nat /\ high \in Nat /\ low <= first
            /\ first + n - 1 <= high /\ first \in Nat /\ n \in Nat
        BY <1>7, <2>3, <2>4
      <4> HIDE DEF n, first, base, low, high
      <4>2. f \in low .. high /\ base + k - 1 = f - low
        BY <2>5, <4>1
      <4> QED BY <4>2 DEF base, low, high
    <3> HIDE DEF f
    <3>2. \A i \in 1..Len(queue) : ~Delivers(queue[i], Place(c, f - Assembly.first))
      <4>1. Place(c, f - Assembly.first)[1] = "contiguous"
        BY DEF Place
      <4> QED BY <1>4, <4>1, WindowsFilled
    <3>3. dev[Place(c, f - Assembly.first)] = <<c, f>>
      BY <1>10, <1>12, <3>1, <3>2 DEF WindowComing, Coming
    <3> QED BY <3>1, <3>3 DEF f
  <2> QED BY <2>1, <2>2, <2>5
<1> QED BY <1>1, <1>3, <1>6, <1>11, <1>12

\* Whenever the filter runs for an anchor, it finds that anchor's grid and, in
\* every source cache, that anchor's window of frames: with tables and with a
\* contiguous copy, whatever the ring of staging buffers and however far the
\* host is ahead with the next anchors.
THEOREM FiltersReadTheirOwn == WorkerSpec => []FiltersSeeTheirAnchor
<1>1. Control /\ Order /\ Arrival => FiltersSeeTheirAnchor
  BY FilterSees
<1> QED BY <1>1, ControlInvariant, OrderInvariant, ArrivalInvariant, PTL


-----------------------------------------------------------------------------
(* Chunks tile a grid *)

LEMMA Division ==
  ASSUME NEW s \in Nat, NEW c \in Nat \ {0}
  PROVE  s \div c \in Nat /\ c * (s \div c) <= s /\ s < c * (s \div c) + c
  OBVIOUS

LEMMA Times ==
  ASSUME NEW a \in Int, NEW b \in Int, NEW c \in Nat \ {0}
  PROVE  /\ a * c \in Int /\ b * c \in Int /\ c * a = a * c
         /\ a <= b => a * c <= b * c
         /\ a * c < b * c => a < b
         /\ (a + b) * c = a * c + b * c
         /\ (a - 1) * c = a * c - c
  OBVIOUS

LEMMA OnceMore ==
  ASSUME NEW S, NEW T, S \cap T = {}
  PROVE  SetToBag(S) (+) SetToBag(T) = SetToBag(S \cup T)
  BY DEF SetToBag, (+)

\* The groups of a chunk are those of its stretch of the grid.
LEMMA ChunkGroupsOf ==
  ASSUME Types, NEW m \in Turns, NEW j \in 1..ChunkCount(missing[m]), NEW x
  PROVE  x \in GroupsOf(Chunk(m, j)) <=>
           \E g \in 0..(Groups[missing[m]] - 1) :
              x = <<m, g>> /\ (j - 1) * ChunkGroups <= g /\ g < j * ChunkGroups
<1> DEFINE a == missing[m]
           size == Groups[a]
           first == (j - 1) * ChunkGroups
           count == ChunkSize(a, first)
           n == ChunkCount(a)
<1>1. size \in Nat /\ size >= 1 /\ n \in Nat /\ ChunkGroups \in Nat \ {0} /\ j \in Nat /\ j >= 1 /\ j <= n
  BY MissingGrids, BuffersAssumption
<1>2. n = (size + ChunkGroups - 1) \div ChunkGroups
  BY DEF ChunkCount
<1>3. count = IF ChunkGroups < size - first THEN ChunkGroups ELSE size - first
  BY <1>1 DEF ChunkSize, Least
<1>4. Chunk(m, j).at = m /\ Chunk(m, j).first = first /\ Chunk(m, j).count = count
  BY DEF Chunk, Filter
<1>5. GroupsOf(Chunk(m, j)) = {<<m, g>> : g \in first..(first + count - 1)}
  BY <1>4 DEF GroupsOf
<1> HIDE DEF size, n, count
<1>6. ChunkGroups * n <= size + ChunkGroups - 1
  <2> DEFINE s == size + ChunkGroups - 1
  <2>1. s \in Nat
    BY <1>1
  <2> HIDE DEF s
  <2>2. ChunkGroups * (s \div ChunkGroups) <= s
    BY <1>1, <2>1, Division
  <2> QED BY <1>2, <2>2 DEF s
<1>7. /\ first \in Int /\ j * ChunkGroups \in Int /\ n * ChunkGroups \in Int
      /\ first = j * ChunkGroups - ChunkGroups /\ j * ChunkGroups <= n * ChunkGroups
      /\ n * ChunkGroups = ChunkGroups * n
  BY <1>1, Times
<1>8. first >= 0
  <2>1. j - 1 \in Int /\ 0 \in Int /\ 0 <= j - 1
    BY <1>1
  <2>2. 0 * ChunkGroups <= (j - 1) * ChunkGroups
    BY <1>1, <2>1, Times
  <2> QED BY <1>1, <2>2
<1> DEFINE end == j * ChunkGroups
           all == n * ChunkGroups
<1>9. end \in Int /\ all \in Int /\ first \in Int /\ first >= 0 /\ first = end - ChunkGroups
      /\ end <= all /\ all <= size + ChunkGroups - 1
  BY <1>6, <1>7, <1>8
<1> HIDE DEF first, end, all
<1>10. \A g : g \in first..(first + count - 1) <=> g \in 0..(size - 1) /\ first <= g /\ g < end
  BY <1>1, <1>3, <1>9
<1> QED BY <1>5, <1>10 DEF size, first, end

LEMMA ChunksTile ==
  ASSUME Types, NEW m \in Turns
  PROVE  /\ \A x : x \in Owed(m) <=>
                     \E j \in 1..ChunkCount(missing[m]) : x \in GroupsOf(Chunk(m, j))
         /\ \A i, j \in 1..ChunkCount(missing[m]) :
               i # j => GroupsOf(Chunk(m, i)) \cap GroupsOf(Chunk(m, j)) = {}
<1> DEFINE size == Groups[missing[m]]
           n == ChunkCount(missing[m])
<1>1. size \in Nat /\ size >= 1 /\ n \in Nat /\ ChunkGroups \in Nat \ {0}
  BY MissingGrids, BuffersAssumption
<1>2. n = (size + ChunkGroups - 1) \div ChunkGroups
  BY DEF ChunkCount
<1>3. ASSUME NEW x \in Owed(m)
      PROVE  \E j \in 1..n : x \in GroupsOf(Chunk(m, j))
  <2>1. PICK g \in 0..(size - 1) : x = <<m, g>>
    BY <1>3 DEF Owed
  <2> HIDE DEF size, n
  <2> DEFINE d == g \div ChunkGroups
             s == size + ChunkGroups - 1
             e == d * ChunkGroups
             f == n * ChunkGroups
  <2>2. g \in Nat /\ s \in Nat
    BY <1>1, <2>1
  <2>3. d \in Nat /\ ChunkGroups * d <= g /\ g < ChunkGroups * d + ChunkGroups
    BY <1>1, <2>2, Division
  <2>4. s < ChunkGroups * n + ChunkGroups
    <3> HIDE DEF s
    <3>1. s < ChunkGroups * (s \div ChunkGroups) + ChunkGroups
      BY <1>1, <2>2, Division
    <3> QED BY <1>2, <3>1 DEF s
  <2> HIDE DEF d
  <2>5. /\ e \in Int /\ f \in Int /\ ChunkGroups * d = e /\ ChunkGroups * n = f
        /\ (d + 1) * ChunkGroups = e + ChunkGroups
        /\ e < f => d < n
    <3>1. (d + 1) * ChunkGroups = d * ChunkGroups + 1 * ChunkGroups
      BY <1>1, <2>3, Times
    <3>2. /\ e \in Int /\ f \in Int /\ ChunkGroups * d = e /\ ChunkGroups * n = f
          /\ e < f => d < n
      BY <1>1, <2>3, Times
    <3> QED BY <1>1, <3>1, <3>2
  <2>6. e <= g /\ g < e + ChunkGroups /\ g < f
    <3> HIDE DEF e, f
    <3>1. size + ChunkGroups - 1 < f + ChunkGroups
      BY <2>4, <2>5
    <3> QED BY <1>1, <2>1, <2>2, <2>3, <2>5, <3>1
  <2>7. d < n
    <3> HIDE DEF e, f
    <3> QED BY <2>2, <2>5, <2>6
  <2> DEFINE j == d + 1
  <2>8. j \in 1..n /\ j - 1 = d
    BY <1>1, <2>3, <2>7
  <2>9. (j - 1) * ChunkGroups <= g /\ g < j * ChunkGroups
    BY <2>5, <2>6, <2>8
  <2> HIDE DEF j
  <2>10. x \in GroupsOf(Chunk(m, j))
    BY <2>1, <2>8, <2>9, ChunkGroupsOf DEF size, n
  <2> QED BY <2>8, <2>10
<1>4. ASSUME NEW j \in 1..n, NEW x \in GroupsOf(Chunk(m, j))
      PROVE  x \in Owed(m)
  BY <1>4, ChunkGroupsOf DEF Owed
<1>5. ASSUME NEW i \in 1..n, NEW j \in 1..n, i < j, NEW x,
             x \in GroupsOf(Chunk(m, i)), x \in GroupsOf(Chunk(m, j))
      PROVE  FALSE
  <2>1. PICK g \in 0..(size - 1) : x = <<m, g>> /\ g < i * ChunkGroups
    BY <1>5, ChunkGroupsOf
  <2>2. PICK h \in 0..(size - 1) : x = <<m, h>> /\ (j - 1) * ChunkGroups <= h
    BY <1>5, ChunkGroupsOf
  <2>3. g = h
    BY <2>1, <2>2
  <2> HIDE DEF size, n
  <2>4. i \in Int /\ j - 1 \in Int /\ i <= j - 1
    BY <1>1, <1>5
  <2>5. i * ChunkGroups <= (j - 1) * ChunkGroups /\ i * ChunkGroups \in Int /\ (j - 1) * ChunkGroups \in Int
    BY <1>1, <2>4, Times
  <2> DEFINE y == i * ChunkGroups
             z == (j - 1) * ChunkGroups
  <2>6. y <= z /\ y \in Int /\ z \in Int /\ g < y /\ z <= g
    BY <2>1, <2>2, <2>3, <2>5
  <2> HIDE DEF y, z
  <2> QED BY <1>1, <2>1, <2>6
<1>6. \A i, j \in 1..n : i # j => GroupsOf(Chunk(m, i)) \cap GroupsOf(Chunk(m, j)) = {}
  <2> SUFFICES ASSUME NEW i \in 1..n, NEW j \in 1..n, i # j, NEW x,
                      x \in GroupsOf(Chunk(m, i)), x \in GroupsOf(Chunk(m, j))
               PROVE  FALSE
    OBVIOUS
  <2>1. i < j \/ j < i
    BY <1>1
  <2> HIDE DEF n
  <2> QED BY <1>5, <2>1
<1> QED BY <1>3, <1>4, <1>6

-----------------------------------------------------------------------------
(* Count is kept *)

LEMMA AwaitedIs ==
  ASSUME NEW x
  PROVE  x \in Awaited <=> \E i \in 1..Len(queue) : Filtering(i) /\ x \in GroupsOf(queue[i])
  BY DEF Awaited

LEMMA AwaitedNext ==
  ASSUME NEW x
  PROVE  x \in Awaited' <=>
           \E i \in 1..Len(queue') : Tag(queue'[i]) = "filter" /\ x \in GroupsOf(queue'[i])
  BY DEF Awaited, Filtering

LEMMA StartedIs ==
  ASSUME NEW x
  PROVE  x \in Started <=> \E m \in QueuedTurns : x \in Owed(m)
  BY DEF Started

LEMMA StartedTurns ==
  ASSUME Control, NEW x \in Started
  PROVE  x[1] \in QueuedTurns
<1>1. PICK m \in QueuedTurns : x \in Owed(m)
  BY StartedIs
<1> QED BY <1>1 DEF Owed

\* What compute_contribution queues is new: nothing of the anchor was queued.
LEMMA FreshTurn ==
  ASSUME Control, Count, pc = "compute", NEW x, x[1] = index
  PROVE  x \notin DOMAIN processed /\ x \notin Awaited
<1>1. DOMAIN processed \cup Awaited = Started /\ QueuedTurns = 1..(index - 1)
  BY DEF Count, AllQueued, QueuedTurns
<1>2. index \in Nat
  BY DEF Control, Types
<1>3. index \notin QueuedTurns
  BY <1>1, <1>2
<1> QED BY <1>1, <1>3, StartedTurns

\* The operations a point queues keep every group single.
LEMMA NoneTwiceIssue ==
  ASSUME Control, Count, UNCHANGED fixedVars, processed' = processed,
         NEW count \in 0..Len(Work), Issued(count)
  PROVE  NoneTwice'
<1> DEFINE n == Len(queue)
<1>1. /\ Len(queue') = n + count /\ n \in Nat /\ count \in Nat
      /\ \A i \in 1..n : queue'[i] = queue[i]
      /\ \A i \in 1..count : queue'[n + i] = Work[i]
      /\ Len(Work) \in Nat /\ count <= Len(Work)
  BY QueueTyped, WorkTyped
<1>2. /\ processed = SetToBag(DOMAIN processed)
      /\ \A i \in 1..n : Filtering(i) => GroupsOf(queue[i]) \cap DOMAIN processed = {}
      /\ \A i, j \in 1..n : i < j /\ Filtering(i) /\ Filtering(j)
                               => GroupsOf(queue[i]) \cap GroupsOf(queue[j]) = {}
  BY DEF Count, NoneTwice
<1>3. \A i \in 1..n : Filtering(i) => GroupsOf(queue[i]) \subseteq Awaited
  BY AwaitedIs
<1> HIDE DEF n
<1>4. ASSUME NEW i \in 1..(n + count)
      PROVE  \/ i \in 1..n /\ queue'[i] = queue[i]
             \/ i > n /\ \E k \in 1..Len(Work) : i = n + k /\ queue'[i] = Work[k]
  <2>1. CASE i <= n
    BY <1>1, <2>1
  <2>2. CASE i > n
    <3> DEFINE k == i - n
    <3>1. k \in 1..count /\ n + k = i /\ k \in 1..Len(Work)
      BY <1>1, <2>2
    <3> HIDE DEF k
    <3>2. queue'[i] = Work[k]
      BY <1>1, <3>1
    <3> QED BY <2>2, <3>1, <3>2
  <2> QED BY <1>1, <2>1, <2>2
<1>5. ASSUME NEW k \in 1..Len(Work), Tag(Work[k]) = "filter"
      PROVE  /\ pc = "compute" /\ index \in Turns
             /\ \E j \in 1..ChunkCount(missing[index]) : k = j + 2 /\ Work[k] = Chunk(index, j)
             /\ \A x \in GroupsOf(Work[k]) : x \notin DOMAIN processed /\ x \notin Awaited
  <2>1. pc = "compute" /\ index \in Turns /\ Work[k].at = index
    BY <1>5, FilterWork
  <2>2. k - 2 \in 1..ChunkCount(missing[index]) /\ Work[k] = Chunk(index, k - 2)
    BY <1>5, FilterWork
  <2>3. k = (k - 2) + 2
    BY <1>1
  <2>4. \A x \in GroupsOf(Work[k]) : x[1] = index
    BY <2>1 DEF GroupsOf
  <2> QED BY <2>1, <2>2, <2>3, <2>4, FreshTurn
<1>6. ASSUME NEW i \in 1..(n + count), Tag(queue'[i]) = "filter"
      PROVE  GroupsOf(queue'[i]) \cap DOMAIN processed = {}
  <2>1. CASE i \in 1..n /\ queue'[i] = queue[i]
    BY <1>2, <1>6, <2>1 DEF Filtering
  <2>2. CASE \E k \in 1..Len(Work) : queue'[i] = Work[k]
    BY <1>5, <1>6, <2>2
  <2> QED BY <1>4, <2>1, <2>2
<1>7. ASSUME NEW i \in 1..(n + count), NEW j \in 1..(n + count), i < j,
             Tag(queue'[i]) = "filter", Tag(queue'[j]) = "filter"
      PROVE  GroupsOf(queue'[i]) \cap GroupsOf(queue'[j]) = {}
  <2>1. CASE j \in 1..n /\ queue'[j] = queue[j]
    <3>1. i \in 1..n /\ queue'[i] = queue[i]
      BY <1>1, <1>7, <2>1
    <3> QED BY <1>2, <1>7, <2>1, <3>1 DEF Filtering
  <2>2. CASE j > n /\ \E k \in 1..Len(Work) : j = n + k /\ queue'[j] = Work[k]
    <3>1. PICK k \in 1..Len(Work) : j = n + k /\ queue'[j] = Work[k]
      BY <2>2
    <3>2. CASE i \in 1..n /\ queue'[i] = queue[i]
      <4>1. GroupsOf(queue'[i]) \subseteq Awaited
        BY <1>3, <1>7, <3>2 DEF Filtering
      <4>2. \A x \in GroupsOf(queue'[j]) : x \notin Awaited
        BY <1>5, <1>7, <3>1
      <4> QED BY <4>1, <4>2
    <3>3. CASE \E h \in 1..Len(Work) : i = n + h /\ queue'[i] = Work[h]
      <4>1. PICK h \in 1..Len(Work) : i = n + h /\ queue'[i] = Work[h]
        BY <3>3
      <4>2. index \in Turns
        BY <1>5, <1>7, <4>1
      <4>3. PICK a \in 1..ChunkCount(missing[index]) : h = a + 2 /\ queue'[i] = Chunk(index, a)
        BY <1>5, <1>7, <4>1
      <4>4. PICK b \in 1..ChunkCount(missing[index]) : k = b + 2 /\ queue'[j] = Chunk(index, b)
        BY <1>5, <1>7, <3>1
      <4>5. a # b
        BY <1>7, <3>1, <4>1, <4>3, <4>4
      <4>6. Types
        BY DEF Control
      <4> QED BY <4>2, <4>3, <4>4, <4>5, <4>6, ChunksTile
    <3> QED BY <1>4, <3>2, <3>3
  <2> QED BY <1>4, <2>1, <2>2
<1> QED BY <1>1, <1>2, <1>6, <1>7 DEF NoneTwice, Filtering

\* Of the groups compute_contribution queues none is left out.
LEMMA AwaitedIssue ==
  ASSUME Control, UNCHANGED fixedVars, Issued(Len(Work)), NEW x
  PROVE  x \in Awaited' <=> x \in Awaited \/ (pc = "compute" /\ x \in Owed(index))
<1> DEFINE n == Len(queue)
<1>1. Len(Work) \in 0..Len(Work)
  BY WorkTyped
<1>2. /\ Len(queue') = n + Len(Work) /\ n \in Nat /\ Len(Work) \in Nat
      /\ \A i \in 1..n : queue'[i] = queue[i]
      /\ \A i \in 1..Len(Work) : queue'[n + i] = Work[i]
  BY <1>1, QueueTyped
<1>3. /\ \A i \in 1..n : i \in 1..Len(queue')
      /\ \A k \in 1..Len(Work) : n + k \in 1..Len(queue')
  BY <1>2
<1>4. Types
  BY DEF Control
<1>5. ASSUME x \in Awaited
      PROVE  x \in Awaited'
  <2>1. PICK i \in 1..n : Tag(queue[i]) = "filter" /\ x \in GroupsOf(queue[i])
    BY <1>5, AwaitedIs DEF Filtering
  <2>2. i \in 1..Len(queue') /\ queue'[i] = queue[i]
    BY <1>2, <1>3
  <2> QED BY <2>1, <2>2, AwaitedNext
<1>6. ASSUME pc = "compute", x \in Owed(index)
      PROVE  x \in Awaited'
  <2>1. index \in Turns
    BY <1>6, ComputeWork
  <2>2. PICK j \in 1..ChunkCount(missing[index]) : x \in GroupsOf(Chunk(index, j))
    BY <1>4, <1>6, <2>1, ChunksTile
  <2>3. Len(Work) = ChunkCount(missing[index]) + 2 /\ Work[j + 2] = Chunk(index, j)
    BY <1>6, ComputeWork
  <2>4. j + 2 \in 1..Len(Work)
    <3>1. ChunkCount(missing[index]) \in Nat
      BY <1>4, <2>1, MissingGrids
    <3> QED BY <1>2, <2>3, <3>1
  <2>5. n + (j + 2) \in 1..Len(queue') /\ queue'[n + (j + 2)] = Chunk(index, j)
    BY <1>2, <1>3, <2>3, <2>4
  <2>6. Tag(Chunk(index, j)) = "filter"
    BY DEF Tag, Chunk, Filter
  <2> QED BY <2>2, <2>5, <2>6, AwaitedNext
<1>7. ASSUME x \in Awaited'
      PROVE  x \in Awaited \/ (pc = "compute" /\ x \in Owed(index))
  <2>1. PICK i \in 1..Len(queue') : Tag(queue'[i]) = "filter" /\ x \in GroupsOf(queue'[i])
    BY <1>7, AwaitedNext
  <2> HIDE DEF n
  <2>2. CASE i <= n
    <3>1. i \in 1..n /\ queue'[i] = queue[i]
      BY <1>2, <2>2
    <3> QED BY <2>1, <3>1, AwaitedIs DEF Filtering, n
  <2>3. CASE i > n
    <3> DEFINE k == i - n
    <3>1. k \in 1..Len(Work) /\ n + k = i
      BY <1>2, <2>3
    <3> HIDE DEF k
    <3>2. queue'[i] = Work[k]
      BY <1>2, <3>1
    <3>3. pc = "compute" /\ index \in Turns
      BY <2>1, <3>1, <3>2, FilterWork
    <3>4. k - 2 \in 1..ChunkCount(missing[index]) /\ Work[k] = Chunk(index, k - 2)
      BY <2>1, <3>1, <3>2, FilterWork
    <3>5. x \in Owed(index)
      BY <1>4, <2>1, <3>2, <3>3, <3>4, ChunksTile
    <3> QED BY <3>3, <3>5
  <2> QED BY <1>2, <2>2, <2>3
<1> QED BY <1>5, <1>6, <1>7

\* What is queued when the render goes on: at the turn's end the anchor counts.
LEMMA TurnsNext ==
  ASSUME Control,
         StageUpload \/ UploadTables \/ AssembleWindow \/ ComputeContribution \/ CollectStatus
            \/ CombineFrame
  PROVE  /\ pc \notin {"idle", "drain", "done"}
         /\ QueuedTurns' = QueuedTurns \cup (IF pc = "compute" THEN {index} ELSE {})
<1>1. /\ index \in Nat /\ index >= 1 /\ Len(missing) \in Nat
      /\ pc = "compute" => index <= Len(missing)
      /\ missing' = missing
  BY Issuing DEF Control, Types, Counters, fixedVars
<1>2. CASE StageUpload
  <2>1. pc = "upload" /\ pc' \in {"upload", "tables"}
    BY <1>2 DEF StageUpload, Advance, Goto
  <2> QED BY <2>1 DEF QueuedTurns
<1>3. CASE UploadTables
  <2>1. pc = "tables" /\ pc' = "compute" /\ index' = 1
    BY <1>3 DEF UploadTables, Goto
  <2> QED BY <2>1 DEF QueuedTurns
<1>4. CASE AssembleWindow
  <2>1. pc = "tables" /\ (pc' = "tables" \/ (pc' = "compute" /\ index' = 1))
    BY <1>4 DEF AssembleWindow, Advance, Goto
  <2> QED BY <2>1 DEF QueuedTurns
<1>5. CASE ComputeContribution
  <2>1. /\ pc = "compute"
        /\ \/ index < Len(missing) /\ pc' = "compute" /\ index' = index + 1
           \/ index = Len(missing) /\ pc' = "collect"
    BY <1>1, <1>5 DEF ComputeContribution, Advance, Goto
  <2>2. QueuedTurns = 1..(index - 1)
    BY <2>1 DEF QueuedTurns
  <2>3. QueuedTurns' = 1..index
    <3>1. CASE pc' = "compute"
      <4>1. QueuedTurns' = 1..(index' - 1) /\ index' = index + 1
        BY <2>1, <3>1 DEF QueuedTurns
      <4> QED BY <1>1, <4>1
    <3>2. CASE pc' = "collect"
      <4>1. QueuedTurns' = 1..Len(missing) /\ index = Len(missing)
        BY <1>1, <2>1, <3>2 DEF QueuedTurns, Turns
      <4> QED BY <4>1
    <3> QED BY <2>1, <3>1, <3>2
  <2>4. 1..index = (1..(index - 1)) \cup {index}
    BY <1>1
  <2> QED BY <2>1, <2>2, <2>3, <2>4
<1>6. CASE CollectStatus \/ CombineFrame
  <2>1. pc \in {"collect", "descriptors"} /\ pc' \in {"descriptors", "sync"}
    BY <1>6 DEF CollectStatus, CombineFrame, Goto
  <2>2. Turns' = Turns
    BY <1>1 DEF Turns
  <2> QED BY <2>1, <2>2 DEF QueuedTurns
<1> QED BY <1>2, <1>3, <1>4, <1>5, <1>6

LEMMA CountIssuing ==
  ASSUME Control, Count,
         StageUpload \/ UploadTables \/ AssembleWindow \/ ComputeContribution \/ CollectStatus
            \/ CombineFrame
  PROVE  Count'
<1>1. /\ Len(Work) \in 0..Len(Work) /\ Issued(Len(Work)) /\ UNCHANGED fixedVars
      /\ processed' = processed /\ missing' = missing
  BY Issuing DEF fixedVars
<1>2. NoneTwice'
  BY <1>1, NoneTwiceIssue
<1>3. DOMAIN processed \cup Awaited = Started
  BY TurnsNext DEF Count, AllQueued
<1>4. \A x : x \in Started' <=> x \in Started \/ (pc = "compute" /\ x \in Owed(index))
  <2>1. \A m, x : (x \in Owed(m))' <=> x \in Owed(m)
    BY <1>1 DEF Owed
  <2>2. QueuedTurns' = QueuedTurns \cup (IF pc = "compute" THEN {index} ELSE {})
    BY TurnsNext
  <2>3. Started' = UNION {Owed(m) : m \in QueuedTurns'}
    BY <1>1 DEF Started, Owed
  <2> QED BY <2>2, <2>3, StartedIs
<1>5. \A x : x \in Awaited' <=> x \in Awaited \/ (pc = "compute" /\ x \in Owed(index))
  BY <1>1, AwaitedIssue
<1>6. DOMAIN processed' \cup Awaited' = Started'
  BY <1>1, <1>3, <1>4, <1>5
<1> QED BY <1>2, <1>6 DEF Count, AllQueued

LEMMA CountQuiet ==
  ASSUME Count, UNCHANGED <<missing, queue, processed>>,
         \/ pc' \in {"idle", "drain", "done"}
         \/ pc \notin {"idle", "drain", "done"} /\ QueuedTurns' = QueuedTurns
  PROVE  Count'
<1>1. NoneTwice'
  BY DEF Count, NoneTwice, Filtering
<1>2. AllQueued'
  <2>1. Awaited' = Awaited
    BY DEF Awaited, Filtering
  <2>2. QueuedTurns' = QueuedTurns => Started' = Started
    BY DEF Started, Owed
  <2> QED BY <2>1, <2>2 DEF Count, AllQueued
<1> QED BY <1>1, <1>2 DEF Count

LEMMA CountHost ==
  ASSUME Control, Count, Control',
         \/ StageUpload \/ UploadTables \/ AssembleWindow \/ NothingMissing
         \/ ComputeContribution \/ CollectStatus \/ CombineFrame \/ CallFails
         \/ Synchronize \/ CheckStatus \/ Drain \/ ReturnWorker
  PROVE  Count'
<1>1. CASE StageUpload \/ UploadTables \/ AssembleWindow \/ ComputeContribution \/ CollectStatus
            \/ CombineFrame
  BY <1>1, CountIssuing
<1>2. CASE CallFails
  <2>1. pc' = "drain" /\ UNCHANGED fixedVars /\ processed' = processed /\ missing' = missing
    BY <1>2, FailingCall DEF fixedVars
  <2>2. CASE UNCHANGED <<host, queue, issued>>
    BY <2>1, <2>2, CountQuiet
  <2>3. CASE \E count \in 0..Len(Work) : Issued(count)
    <3>1. NoneTwice'
      BY <2>1, <2>3, NoneTwiceIssue
    <3> QED BY <2>1, <3>1 DEF Count, AllQueued
  <2> QED BY <1>2, <2>2, <2>3, FailingCall
<1>3. CASE NothingMissing \/ Synchronize \/ CheckStatus \/ Drain \/ ReturnWorker
  <2>1. UNCHANGED <<missing, queue, processed>>
    BY <1>3, CalmSteps DEF Calm, fixedVars
  <2>2. \/ pc' \in {"idle", "drain", "done"}
        \/ pc \notin {"idle", "drain", "done"} /\ QueuedTurns' = QueuedTurns
    <3>1. CASE NothingMissing
      <4>1. pc = "tables" /\ pc' = "descriptors" /\ missing = <<>> /\ missing' = missing
        BY <3>1 DEF NothingMissing, Goto
      <4>2. QueuedTurns = {} /\ QueuedTurns' = Turns'
        BY <4>1 DEF QueuedTurns
      <4>3. Turns' = {}
        BY <4>1 DEF Turns
      <4> QED BY <4>1, <4>2, <4>3
    <3>2. CASE Synchronize
      <4>1. pc = "sync" /\ pc' = "check" /\ missing' = missing
        BY <3>2 DEF Synchronize, Goto
      <4> QED BY <4>1 DEF QueuedTurns, Turns
    <3>3. CASE CheckStatus \/ Drain \/ ReturnWorker
      BY <3>3 DEF CheckStatus, Drain, ReturnWorker, Goto
    <3> QED BY <1>3, <3>1, <3>2, <3>3
  <2> QED BY <2>1, <2>2, CountQuiet
<1> QED BY <1>1, <1>2, <1>3

\* A group moves from the stream to what was processed.
LEMMA CountExecute ==
  ASSUME Control, Order, Count, Execute
  PROVE  Count'
<1> DEFINE op == queue[1]
<1>1. /\ op = Head(queue) /\ op \in Operations /\ 1 \in 1..Len(queue)
      /\ UNCHANGED fixedVars /\ pc' = pc /\ index' = index /\ missing' = missing
  BY Popped DEF fixedVars
<1>2. /\ \A i \in 1..Len(queue) : i = 1 \/ (i - 1 \in 1..Len(queue') /\ queue'[i - 1] = queue[i])
      /\ \A i \in 1..Len(queue') : i + 1 \in 1..Len(queue) /\ queue'[i] = queue[i + 1]
  BY Behind
<1>3. \A i \in 1..Len(queue') : i + 1 # 1
  <2>1. Len(queue') \in Nat
    BY Popped
  <2> QED BY <2>1
<1>4. \A i, j \in 1..Len(queue') : i < j => i + 1 < j + 1 /\ 1 < j + 1
  <2>1. Len(queue') \in Nat
    BY Popped
  <2> QED BY <2>1
<1>5. /\ processed = SetToBag(DOMAIN processed)
      /\ \A i \in 1..Len(queue) : Filtering(i) => GroupsOf(queue[i]) \cap DOMAIN processed = {}
      /\ \A i, j \in 1..Len(queue) : i < j /\ Filtering(i) /\ Filtering(j)
                                       => GroupsOf(queue[i]) \cap GroupsOf(queue[j]) = {}
  BY DEF Count, NoneTwice
<1>6. Started' = Started
  BY <1>1 DEF Started, Owed, QueuedTurns, Turns
<1> DEFINE S == IF Filtering(1) THEN GroupsOf(op) ELSE {}
<1>7. /\ processed' = SetToBag(DOMAIN processed \cup S)
      /\ DOMAIN processed' = DOMAIN processed \cup S
  <2>1. CASE Filtering(1)
    <3>1. op.op = "filter"
      BY <1>1, <2>1, Kinds, ChunkFields DEF Filtering
    <3>2. processed' = processed (+) SetToBag(GroupsOf(op))
      BY <1>1, <3>1, Effects
    <3>3. DOMAIN processed \cap GroupsOf(op) = {}
      BY <1>1, <1>5, <2>1
    <3>4. SetToBag(DOMAIN processed) (+) SetToBag(GroupsOf(op))
            = SetToBag(DOMAIN processed \cup GroupsOf(op))
      BY <3>3, OnceMore
    <3>5. processed' = SetToBag(DOMAIN processed \cup GroupsOf(op))
      BY <1>5, <3>2, <3>4
    <3>6. \A T : DOMAIN SetToBag(T) = T
      BY DEF SetToBag
    <3> QED BY <2>1, <3>5, <3>6
  <2>2. CASE ~Filtering(1)
    <3>1. op.op \in {"upload", "move", "clear", "collect", "combine"}
      <4>1. op \notin Chunked
        BY <2>2, ChunkFields DEF Filtering
      <4> QED BY <1>1, <4>1, Load, Copy, Cleared, Grid, Ending DEF Operations
    <3>2. processed' = processed
      BY <1>1, <3>1, Effects
    <3> QED BY <1>5, <2>2, <3>2
  <2> QED BY <2>1, <2>2
<1>8. NoneTwice'
  <2>1. ASSUME NEW i \in 1..Len(queue'), Tag(queue'[i]) = "filter"
        PROVE  GroupsOf(queue'[i]) \cap DOMAIN processed' = {}
    <3>1. GroupsOf(queue'[i]) \cap DOMAIN processed = {}
      BY <1>2, <1>5, <2>1 DEF Filtering
    <3>2. GroupsOf(queue'[i]) \cap S = {}
      <4>1. i + 1 \in 1..Len(queue) /\ queue'[i] = queue[i + 1] /\ 1 < i + 1
        BY <1>2, <1>4, <2>1, Popped
      <4> QED BY <1>1, <1>5, <2>1, <4>1 DEF Filtering
    <3> QED BY <1>7, <3>1, <3>2
  <2>2. ASSUME NEW i \in 1..Len(queue'), NEW j \in 1..Len(queue'), i < j,
               Tag(queue'[i]) = "filter", Tag(queue'[j]) = "filter"
        PROVE  GroupsOf(queue'[i]) \cap GroupsOf(queue'[j]) = {}
    <3>1. /\ i + 1 \in 1..Len(queue) /\ queue'[i] = queue[i + 1]
          /\ j + 1 \in 1..Len(queue) /\ queue'[j] = queue[j + 1] /\ i + 1 < j + 1
      BY <1>2, <1>4, <2>2
    <3> QED BY <1>5, <2>2, <3>1 DEF Filtering
  <2>3. processed' = SetToBag(DOMAIN processed')
    BY <1>7
  <2> QED BY <2>1, <2>2, <2>3 DEF NoneTwice, Filtering
<1>9. \A x : x \in Awaited <=> x \in S \/ x \in Awaited'
  <2>1. ASSUME NEW x \in Awaited PROVE x \in S \/ x \in Awaited'
    <3>1. PICK i \in 1..Len(queue) : Filtering(i) /\ x \in GroupsOf(queue[i])
      BY <2>1, AwaitedIs
    <3>2. CASE i = 1
      BY <3>1, <3>2
    <3>3. CASE i # 1
      BY <1>2, <3>1, <3>3, AwaitedNext DEF Filtering
    <3> QED BY <3>2, <3>3
  <2>2. ASSUME NEW x \in S PROVE x \in Awaited
    BY <1>1, <2>2, AwaitedIs
  <2>3. ASSUME NEW x \in Awaited' PROVE x \in Awaited
    <3>1. PICK i \in 1..Len(queue') : Tag(queue'[i]) = "filter" /\ x \in GroupsOf(queue'[i])
      BY <2>3, AwaitedNext
    <3> QED BY <1>2, <3>1, AwaitedIs DEF Filtering
  <2> QED BY <2>1, <2>2, <2>3
<1>10. AllQueued'
  <2>1. pc \notin {"idle", "drain", "done"} => DOMAIN processed \cup Awaited = Started
    BY DEF Count, AllQueued
  <2> QED BY <1>1, <1>6, <1>7, <1>9, <2>1 DEF AllQueued
<1> QED BY <1>8, <1>10 DEF Count

LEMMA NothingCounted ==
  ASSUME queue = <<>>, processed = EmptyBag
  PROVE  /\ NoneTwice /\ Awaited = {} /\ DOMAIN processed = {}
<1>1. processed = SetToBag({}) /\ DOMAIN processed = {}
  BY DEF EmptyBag, SetToBag
<1>2. Awaited = {}
  BY DEF Awaited
<1> QED BY <1>1, <1>2 DEF NoneTwice

LEMMA CountInvariant == WorkerSpec => []Count
<1>1. WorkerInit => Count
  BY NothingCounted DEF WorkerInit, Count, AllQueued
<1>2. Control /\ Control' /\ Order /\ Count /\ [WorkerNext]_workerVars => Count'
  <2> SUFFICES ASSUME Control, Control', Order, Count, [WorkerNext]_workerVars PROVE Count'
    OBVIOUS
  <2>1. ASSUME NEW f \in Wanted,
               NEW misses \in SUBSET (CacheNames \X (RequiredSourceRange(p, f).first
                                                     .. RequiredSourceRange(p, f).last)),
               NEW todo \in SUBSET Anchors(p, f), StartRender(f, misses, todo)
        PROVE  Count'
    <3>1. queue' = <<>> /\ processed' = EmptyBag /\ pc' \in {"upload", "tables"}
      BY <2>1 DEF StartRender, Control, Counters
    <3>2. processed' = SetToBag({}) /\ DOMAIN processed' = {}
      BY <3>1 DEF EmptyBag, SetToBag
    <3>3. Awaited' = {}
      BY <3>1 DEF Awaited
    <3>4. Started' = {}
      BY <3>1 DEF Started, QueuedTurns
    <3>5. NoneTwice'
      BY <3>1, <3>2 DEF NoneTwice
    <3> QED BY <3>2, <3>3, <3>4, <3>5 DEF Count, AllQueued
  <2>2. ASSUME UNCHANGED workerVars PROVE Count'
    <3>1. UNCHANGED <<missing, queue, processed, pc, index>>
      BY <2>2 DEF workerVars
    <3>2. QueuedTurns' = QueuedTurns
      BY <3>1 DEF QueuedTurns, Turns
    <3> QED BY <3>1, <3>2, CountQuiet
  <2> QED BY <2>1, <2>2, HostSteps, CountHost, CountExecute
<1> QED BY <1>1, <1>2, ControlInvariant, OrderInvariant, PTL DEF WorkerSpec

\* When all has been waited for, every patch of every missing anchor's grid has
\* been processed, and none twice, for every size of grid and chunk.
THEOREM EveryGroupIsFilteredOnce == WorkerSpec => []EveryGroupOnce
<1>1. Control /\ Count => EveryGroupOnce
  <2> SUFFICES ASSUME Control, Count, pc = "check"
               PROVE  processed = SetToBag({x \in (DOMAIN missing) \X (0..(TotalGroups - 1)) :
                                               x[2] < Groups[missing[x[1]]]})
    BY DEF EveryGroupOnce
  <2>1. Awaited = {}
    BY DEF Control, Counters, Awaited
  <2>2. DOMAIN processed = Started /\ QueuedTurns = Turns /\ DOMAIN missing = Turns
    BY <2>1 DEF Count, AllQueued, QueuedTurns, Turns, Control, Types
  <2>3. \A m \in Turns : Groups[missing[m]] \in 1..TotalGroups
    BY MissingGrids DEF Control
  <2>4. TotalGroups \in Nat
    BY BuffersAssumption
  <2>5. Started = {x \in Turns \X (0..(TotalGroups - 1)) : x[2] < Groups[missing[x[1]]]}
    BY <2>2, <2>3, <2>4 DEF Started, Owed
  <2> QED BY <2>2, <2>5 DEF Count, NoneTwice
<1> QED BY <1>1, ControlInvariant, CountInvariant, PTL

-----------------------------------------------------------------------------
(* Verdict is kept *)

\* What was filtered or will be is the groups of the missing anchors.
LEMMA FilteredAreOwed ==
  ASSUME Control, Count, pc \notin {"idle", "drain", "done"}, NEW x \in DOMAIN processed
  PROVE  x[1] \in QueuedTurns /\ x[2] \in Entries /\ x = <<x[1], x[2]>>
<1>1. x \in Started
  BY DEF Count, AllQueued
<1>2. PICK m \in QueuedTurns : x \in Owed(m)
  BY <1>1, StartedIs
<1>3. m \in Turns
  <2>1. pc = "compute" => index \in Nat /\ index <= Len(missing) /\ Len(missing) \in Nat
    BY DEF Control, Types, Counters
  <2> QED BY <1>2, <2>1 DEF QueuedTurns, Turns
<1>4. Groups[missing[m]] \in 1..TotalGroups /\ TotalGroups \in Nat
  BY <1>3, MissingGrids, BuffersAssumption DEF Control
<1> QED BY <1>2, <1>4 DEF Owed, Entries

LEMMA InfoCells ==
  ASSUME Control, NEW m \in Turns, NEW g \in Entries
  PROVE  /\ Info(m, g) \in DeviceCells /\ Info(m, g)[1] = "info"
         /\ Info(m, g)[2] = m /\ Info(m, g)[3] = g /\ m \in Places
<1>1. m \in Places
  <2>1. Len(missing) \in Nat /\ Len(missing) <= MaxContributors(p) /\ MaxContributors(p) \in Nat
    BY Sizes DEF Control, Types
  <2> QED BY <2>1 DEF Turns, Places
<1> QED BY <1>1 DEF DeviceCells, Info, Entries

\* Copies do not touch the status entries.
LEMMA InfoKept ==
  ASSUME Control, Execute, Tag(queue[1]) \notin {"clear", "filter"}
  PROVE  \A m \in Turns : \A g \in Entries : dev'[Info(m, g)] = dev[Info(m, g)]
<1> DEFINE op == queue[1]
<1>1. op = Head(queue) /\ op \in Operations /\ DOMAIN dev = DeviceCells
  BY Popped DEF Control, Types
<1>2. op.op \in {"upload", "move", "collect", "combine"}
  <2>1. op \notin Clears /\ op \notin Chunked
    BY Cleared, ChunkFields
  <2> QED BY <1>1, <2>1, Load, Copy, Grid, Ending DEF Operations
<1>3. CASE op.op \in {"upload", "move"}
  <2>1. op.to[1] # "info"
    BY <1>1, <1>3, Deliveries
  <2>2. \E v : dev' = [dev EXCEPT ![op.to] = v]
    BY <1>1, <1>3, Effects
  <2> QED BY <1>1, <2>1, <2>2, InfoCells
<1>4. CASE op.op \in {"collect", "combine"}
  BY <1>1, <1>4, Effects
<1> QED BY <1>2, <1>3, <1>4

LEMMA BrokenExecute ==
  ASSUME Control, Order, Count, Verdict, Execute
  PROVE  BrokenWereFiltered' /\ InfosArrive'
<1> DEFINE op == queue[1]
<1>1. /\ op = Head(queue) /\ op \in Operations /\ 1 \in 1..Len(queue) /\ DOMAIN dev = DeviceCells
      /\ UNCHANGED fixedVars /\ pc' = pc /\ index' = index /\ missing' = missing
  BY Popped DEF fixedVars, Control, Types
<1>2. /\ \A i \in 1..Len(queue) : i = 1 \/ (i - 1 \in 1..Len(queue') /\ queue'[i - 1] = queue[i])
      /\ \A i \in 1..Len(queue') : i + 1 \in 1..Len(queue) /\ queue'[i] = queue[i + 1]
  BY Behind
<1>3. QueuedTurns' = QueuedTurns
  BY <1>1 DEF QueuedTurns, Turns
<1>4. QueuedTurns \subseteq Turns
  <2>1. pc = "compute" => index \in Nat /\ index <= Len(missing) /\ Len(missing) \in Nat
    BY DEF Control, Types, Counters
  <2> QED BY <2>1 DEF QueuedTurns, Turns
<1>5. /\ broken \subseteq DOMAIN processed
      /\ \A i \in 1..Len(queue) : Tag(queue[i]) = "clear" =>
            \A g \in Entries : <<queue[i].at, g>> \notin broken
  BY DEF Verdict, BrokenWereFiltered
<1>6. pc \notin {"idle", "drain", "done"} =>
        \A m \in QueuedTurns : InfoRight(m) \/ \E i \in 1..Len(queue) : queue[i] = Clear(m, TotalGroups)
  BY DEF Verdict, InfosArrive
<1>7. CASE Tag(op) \notin {"clear", "filter"}
  <2>1. op.op \in {"upload", "move", "collect", "combine"}
    <3>1. op \notin Clears /\ op \notin Chunked
      BY <1>7, Cleared, ChunkFields
    <3> QED BY <1>1, <3>1, Load, Copy, Grid, Ending DEF Operations
  <2>2. UNCHANGED <<broken, processed>>
    BY <1>1, <2>1, Effects
  <2>3. \A m \in Turns : InfoRight(m)' <=> InfoRight(m)
    BY <1>7, <2>2, InfoKept DEF InfoRight, Entries
  <2>4. \A m : op # Clear(m, TotalGroups)
    BY <1>7 DEF Tag, Clear
  <2>5. BrokenWereFiltered'
    BY <1>2, <1>5, <2>2 DEF BrokenWereFiltered, Entries
  <2>6. InfosArrive'
    <3> SUFFICES ASSUME pc \notin {"idle", "drain", "done"}, NEW m \in QueuedTurns
                 PROVE  InfoRight(m)' \/ \E i \in 1..Len(queue') : queue'[i] = Clear(m, TotalGroups)
      BY <1>1, <1>3 DEF InfosArrive
    <3>1. CASE InfoRight(m)
      BY <1>4, <2>3, <3>1
    <3>2. CASE \E i \in 1..Len(queue) : queue[i] = Clear(m, TotalGroups)
      BY <1>2, <2>4, <3>2
    <3> QED BY <1>6, <3>1, <3>2
  <2> QED BY <2>5, <2>6
<1>8. CASE Tag(op) = "clear"
  <2>1. PICK k \in Turns : /\ op.at = k /\ op = Clear(k, TotalGroups)
                           /\ op.op = "clear" /\ op.count = TotalGroups
    BY <1>1, <1>8, Kinds, Cleared
  <2>2. /\ dev' = [c \in DeviceCells |->
                     IF c[1] = "info" /\ c[2] = k /\ c[3] < TotalGroups THEN 0 ELSE dev[c]]
        /\ UNCHANGED <<broken, processed>>
    BY <1>1, <2>1, Effects
  <2>3. BrokenWereFiltered'
    BY <1>2, <1>5, <2>2 DEF BrokenWereFiltered, Entries
  <2>4. ASSUME NEW m \in Turns, m # k, InfoRight(m)
        PROVE  InfoRight(m)'
    <3>1. \A g \in Entries : dev'[Info(m, g)] = dev[Info(m, g)]
      BY <2>2, <2>4, InfoCells
    <3> QED BY <2>2, <2>4, <3>1 DEF InfoRight, Entries
  <2>5. InfoRight(k)'
    <3>1. \A g \in Entries : dev'[Info(k, g)] = 0
      <4>1. \A g \in Entries : g < TotalGroups
        BY BuffersAssumption DEF Entries
      <4> QED BY <2>2, <4>1, InfoCells
    <3>2. \A g \in Entries : <<k, g>> \notin broken
      BY <1>1, <1>5, <1>8, <2>1
    <3> QED BY <2>2, <3>1, <3>2 DEF InfoRight, Entries
  <2>6. InfosArrive'
    <3> SUFFICES ASSUME pc \notin {"idle", "drain", "done"}, NEW m \in QueuedTurns
                 PROVE  InfoRight(m)' \/ \E i \in 1..Len(queue') : queue'[i] = Clear(m, TotalGroups)
      BY <1>1, <1>3 DEF InfosArrive
    <3>1. CASE m = k
      BY <2>5, <3>1
    <3>2. CASE m # k /\ InfoRight(m)
      BY <1>4, <2>4, <3>2
    <3>3. CASE m # k /\ \E i \in 1..Len(queue) : queue[i] = Clear(m, TotalGroups)
      <4>1. op # Clear(m, TotalGroups)
        BY <2>1, <3>3 DEF Clear
      <4> QED BY <1>2, <3>3, <4>1
    <3> QED BY <1>6, <3>1, <3>2, <3>3
  <2> QED BY <2>3, <2>6
<1>9. CASE Tag(op) = "filter"
  <2>1. op \in Chunked /\ op.op = "filter" /\ op.at \in Turns /\ Rank(op) = 3 * op.at + 2
    BY <1>1, <1>9, Kinds, ChunkFields
  <2>2. DOMAIN processed' = DOMAIN processed \cup GroupsOf(op)
    <3>1. processed' = processed (+) SetToBag(GroupsOf(op))
      BY <1>1, <2>1, Effects
    <3> QED BY <3>1 DEF SetToBag, (+)
  <2>3. \A x \in GroupsOf(op) : x[1] = op.at /\ x = <<x[1], x[2]>>
    BY DEF GroupsOf
  <2>4. \A m : op # Clear(m, TotalGroups)
    BY <2>1 DEF Clear
  <2>5. CASE UNCHANGED <<dev, broken>>
    <3>1. \A m \in Turns : InfoRight(m)' <=> InfoRight(m)
      BY <2>5 DEF InfoRight, Entries
    <3>2. BrokenWereFiltered'
      BY <1>2, <1>5, <2>2, <2>5 DEF BrokenWereFiltered, Entries
    <3>3. InfosArrive'
      <4> SUFFICES ASSUME pc \notin {"idle", "drain", "done"}, NEW m \in QueuedTurns
                   PROVE  InfoRight(m)' \/ \E i \in 1..Len(queue') : queue'[i] = Clear(m, TotalGroups)
        BY <1>1, <1>3 DEF InfosArrive
      <4>1. CASE InfoRight(m)
        BY <1>4, <3>1, <4>1
      <4>2. CASE \E i \in 1..Len(queue) : queue[i] = Clear(m, TotalGroups)
        BY <1>2, <2>4, <4>2
      <4> QED BY <1>6, <4>1, <4>2
    <3> QED BY <3>2, <3>3
  <2>6. CASE \E x \in GroupsOf(op) : /\ broken' = broken \cup {x}
                                     /\ dev' = [dev EXCEPT ![Info(x[1], x[2])] = 1]
    <3>1. PICK x \in GroupsOf(op) : /\ broken' = broken \cup {x}
                                    /\ dev' = [dev EXCEPT ![Info(x[1], x[2])] = 1]
      BY <2>6
    <3>2. x[1] = op.at /\ x = <<x[1], x[2]>>
      BY <2>3
    <3>3. ASSUME NEW i \in 1..Len(queue'), Tag(queue'[i]) = "clear", NEW g \in Entries
          PROVE  <<queue'[i].at, g>> \notin broken'
      <4>1. i + 1 \in 1..Len(queue) /\ queue'[i] = queue[i + 1]
        BY <1>2
      <4>2. queue'[i] \in Clears
        BY <3>3, <4>1, QueuedKinds, Kinds
      <4>3. queue'[i].at \in Turns /\ Rank(queue'[i]) = 3 * queue'[i].at
        BY <4>2, Cleared
      <4>4. Rank(op) <= Rank(queue'[i])
        BY <4>1, Behind
      <4>5. queue'[i].at # op.at
        <5> DEFINE y == queue'[i].at
                   z == op.at
        <5>1. y \in Nat /\ z \in Nat /\ 3 * z + 2 <= 3 * y
          BY <2>1, <4>3, <4>4 DEF Turns
        <5> HIDE DEF y, z
        <5>2. y # z
          BY <5>1
        <5> QED BY <5>2 DEF y, z
      <4>6. <<queue'[i].at, g>> \notin broken
        BY <1>5, <3>3, <4>1
      <4> QED BY <3>1, <3>2, <4>5, <4>6
    <3>4. BrokenWereFiltered'
      <4>1. broken' \subseteq DOMAIN processed'
        BY <1>5, <2>2, <3>1
      <4> QED BY <3>3, <4>1 DEF BrokenWereFiltered, Entries
    <3>5. ASSUME NEW m \in Turns, InfoRight(m)
          PROVE  InfoRight(m)'
      <4>1. ASSUME NEW g \in Entries
            PROVE  dev'[Info(m, g)] = IF <<m, g>> \in broken' THEN 1 ELSE 0
        <5>1. dev[Info(m, g)] = IF <<m, g>> \in broken THEN 1 ELSE 0
          BY <3>5 DEF InfoRight
        <5>2. Info(m, g) \in DeviceCells
          BY InfoCells
        <5>3. CASE <<m, g>> = x
          BY <1>1, <3>1, <5>2, <5>3
        <5>4. CASE <<m, g>> # x
          <6>1. Info(m, g) # Info(x[1], x[2])
            BY <3>2, <5>4 DEF Info
          <6>2. dev'[Info(m, g)] = dev[Info(m, g)]
            BY <1>1, <3>1, <5>2, <6>1
          <6>3. <<m, g>> \in broken' <=> <<m, g>> \in broken
            BY <3>1, <5>4
          <6> QED BY <5>1, <6>2, <6>3
        <5> QED BY <5>3, <5>4
      <4> QED BY <4>1 DEF InfoRight, Entries
    <3>6. InfosArrive'
      <4> SUFFICES ASSUME pc \notin {"idle", "drain", "done"}, NEW m \in QueuedTurns
                   PROVE  InfoRight(m)' \/ \E i \in 1..Len(queue') : queue'[i] = Clear(m, TotalGroups)
        BY <1>1, <1>3 DEF InfosArrive
      <4>1. CASE InfoRight(m)
        BY <1>4, <3>5, <4>1
      <4>2. CASE \E i \in 1..Len(queue) : queue[i] = Clear(m, TotalGroups)
        BY <1>2, <2>4, <4>2
      <4> QED BY <1>6, <4>1, <4>2
    <3> QED BY <3>4, <3>6
  <2>7. UNCHANGED <<dev, broken>>
        \/ \E x \in GroupsOf(op) : /\ broken' = broken \cup {x}
                                   /\ dev' = [dev EXCEPT ![Info(x[1], x[2])] = 1]
    BY <1>1, <2>1, Effects
  <2> QED BY <2>5, <2>6, <2>7
<1> QED BY <1>7, <1>8, <1>9

\* The status is collected behind all clears and filters, so it is right.
LEMMA StatusExecute ==
  ASSUME Control, Order, Count, Verdict, Execute
  PROVE  StatusArrives' /\ ErrorIsOwn'
<1> DEFINE op == queue[1]
<1>1. /\ op = Head(queue) /\ op \in Operations /\ 1 \in 1..Len(queue) /\ queue # <<>>
      /\ UNCHANGED fixedVars /\ pc' = pc /\ index' = index /\ missing' = missing
      /\ error' = error
  BY Popped DEF fixedVars
<1>2. /\ \A i \in 1..Len(queue) : i = 1 \/ (i - 1 \in 1..Len(queue') /\ queue'[i - 1] = queue[i])
      /\ \A i \in 1..Len(queue') : i + 1 \in 1..Len(queue) /\ queue'[i] = queue[i + 1]
  BY Behind
<1>3. ErrorIsOwn'
  <2>1. ~(pc \in {"drain", "done"} /\ error # <<"call">>)
    BY <1>1 DEF Verdict, ErrorIsOwn
  <2> QED BY <1>1, <2>1 DEF ErrorIsOwn
<1>4. SUFFICES ASSUME pc \in {"descriptors", "sync", "check"}, missing # <<>>
               PROVE  Pending("collect")' \/ (StatusRight' /\ ~Pending("filter")')
  BY <1>1, <1>3 DEF StatusArrives
<1>5. CASE Tag(op) = "collect"
  <2>1. op \in Ends /\ op.op = "collect" /\ op.count = Len(missing) /\ Rank(op) = End
    <3>1. op \in Ends
      BY <1>1, <1>5, Kinds
    <3> QED BY <1>5, <3>1, Ending
  <2>2. /\ status' = [m \in Places |-> IF m > op.count THEN status[m]
                        ELSE [g \in 0..(TotalGroups - 1) |-> IF dev[Info(m, g)] = 0 THEN 0 ELSE 1]]
        /\ UNCHANGED <<dev, broken, processed>>
    BY <1>1, <2>1, Effects
  <2>3. \A i \in 1..Len(queue) : Tag(queue[i]) \notin {"clear", "anchors", "filter"}
    <3> SUFFICES ASSUME NEW i \in 1..Len(queue), Tag(queue[i]) \in {"clear", "anchors", "filter"}
                 PROVE  FALSE
      OBVIOUS
    <3>1. Rank(queue[i]) < End /\ Rank(queue[i]) \in Nat /\ End \in Nat
      BY QueuedKinds, RankType
    <3>2. Rank(op) <= Rank(queue[i])
      BY Behind
    <3> QED BY <2>1, <3>1, <3>2
  <2>4. \A m \in Turns : InfoRight(m)
    <3> SUFFICES ASSUME NEW m \in Turns PROVE InfoRight(m)
      OBVIOUS
    <3>1. m \in QueuedTurns
      BY <1>4 DEF QueuedTurns
    <3>2. \A i \in 1..Len(queue) : queue[i] # Clear(m, TotalGroups)
      BY <2>3 DEF Clear, Tag
    <3> QED BY <1>4, <3>1, <3>2 DEF Verdict, InfosArrive
  <2>5. ASSUME NEW m \in Turns, NEW g \in Entries
        PROVE  status'[m][g] # 0 <=> <<m, g>> \in broken
    <3>1. m \in Places
      BY <2>5, InfoCells
    <3>2. ~(m > op.count)
      <4>1. Len(missing) \in Nat
        BY DEF Control, Types
      <4> QED BY <2>1, <4>1 DEF Turns
    <3>3. status'[m][g] = IF dev[Info(m, g)] = 0 THEN 0 ELSE 1
      BY <2>2, <2>5, <3>1, <3>2 DEF Entries
    <3>4. dev[Info(m, g)] = IF <<m, g>> \in broken THEN 1 ELSE 0
      BY <2>4, <2>5 DEF InfoRight
    <3> QED BY <3>3, <3>4
  <2>6. Turns' = Turns
    BY <1>1 DEF Turns
  <2>7. StatusRight'
    BY <2>2, <2>5, <2>6 DEF StatusRight, Entries
  <2>8. ~Pending("filter")'
    BY <1>2, <2>3 DEF Pending
  <2> QED BY <2>7, <2>8
<1>6. CASE Tag(op) # "collect" /\ Pending("collect")
  <2>1. PICK i \in 1..Len(queue) : Tag(queue[i]) = "collect"
    BY <1>6 DEF Pending
  <2>2. i # 1
    BY <1>6, <2>1
  <2> QED BY <1>2, <2>1, <2>2 DEF Pending
<1>7. CASE Tag(op) # "collect" /\ StatusRight /\ ~Pending("filter")
  <2>1. Tag(op) # "filter"
    BY <1>1, <1>7 DEF Pending
  <2>2. op.op \in {"upload", "move", "clear", "combine"}
    <3>1. op \notin Chunked
      BY <2>1, ChunkFields
    <3>2. op.op # "collect"
      BY <1>7 DEF Tag
    <3> QED BY <1>1, <3>1, <3>2, Load, Copy, Cleared, Grid, Ending DEF Operations
  <2>3. UNCHANGED <<status, broken>>
    BY <1>1, <2>2, Effects
  <2>4. Turns' = Turns
    BY <1>1 DEF Turns
  <2>5. StatusRight'
    BY <1>7, <2>3, <2>4 DEF StatusRight, Entries
  <2>6. ~Pending("filter")'
    BY <1>2, <1>7 DEF Pending
  <2> QED BY <2>5, <2>6
<1> QED BY <1>4, <1>5, <1>6, <1>7 DEF Verdict, StatusArrives

LEMMA VerdictExecute ==
  ASSUME Control, Order, Count, Verdict, Execute
  PROVE  Verdict'
  BY BrokenExecute, StatusExecute DEF Verdict

\* A clear is queued only for an anchor of which nothing was filtered.
LEMMA BrokenIssue ==
  ASSUME Control, Count, Verdict, UNCHANGED fixedVars, UNCHANGED <<broken, processed>>,
         NEW count \in 0..Len(Work), Issued(count)
  PROVE  BrokenWereFiltered'
<1> DEFINE n == Len(queue)
<1>1. /\ Len(queue') = n + count /\ n \in Nat /\ count \in Nat
      /\ \A i \in 1..n : queue'[i] = queue[i]
      /\ \A i \in 1..count : queue'[n + i] = Work[i]
      /\ Len(Work) \in Nat /\ count <= Len(Work)
  BY QueueTyped, WorkTyped
<1> HIDE DEF n
<1>2. /\ broken \subseteq DOMAIN processed
      /\ \A i \in 1..n : Tag(queue[i]) = "clear" => \A g \in Entries : <<queue[i].at, g>> \notin broken
  BY DEF Verdict, BrokenWereFiltered, n
<1>3. ASSUME NEW k \in 1..Len(Work), Tag(Work[k]) = "clear"
      PROVE  pc = "compute" /\ Work[k].at = index
  <2>1. Work[k] \in Clears /\ Work[k].op = "clear" /\ Work[k].at \in Turns
        /\ Rank(Work[k]) = 3 * Work[k].at
    BY <1>3, WorkTyped, Kinds, Cleared
  <2>2. pc = "compute"
    <3>1. CASE pc = "upload"
      <4>1. Len(Work) = 1 /\ Work \in Seq(Loads)
        BY <3>1, UploadWork
      <4>2. Work[k] \in Loads
        BY <4>1
      <4> QED BY <1>3, <4>2, Load
    <3>2. CASE pc \in {"collect", "descriptors"}
      <4>1. Work \in Seq(Ends)
        BY <3>2, EndWork
      <4>2. Work[k] \in Ends
        BY <4>1
      <4>3. Tag(Work[k]) \in {"collect", "sources", "combine"}
        BY <4>2, Ending
      <4> QED BY <1>3, <4>3
    <3>3. CASE pc \in {"idle", "sync", "check", "drain", "done"} \/ (pc = "tables" /\ missing = <<>>)
      <4>1. Len(Work) = 0
        BY <3>3, EndWork
      <4> QED BY <4>1
    <3>4. CASE pc = "tables" /\ missing # <<>>
      <4>1. Work \in Seq(Copies)
        BY <3>4, TableWork, MoveWork DEF Control, Types
      <4>2. Work[k] \in Copies
        BY <4>1
      <4>3. Tag(Work[k]) \in {"tables", "move"}
        BY <4>2, Copy
      <4> QED BY <1>3, <4>3
    <3>5. pc \in Points
      BY DEF Control, Types
    <3> QED BY <3>1, <3>2, <3>3, <3>4, <3>5 DEF Points
  <2>3. 3 * index - 1 <= Rank(Work[k]) /\ Rank(Work[k]) < 3 * index + 3 /\ index \in Nat
    <3>1. Level = 3 * index /\ After = 3 * index + 3
      BY <2>2 DEF Level, After
    <3> QED BY <3>1, WorkRanks DEF Control, Types
  <2>4. Work[k].at = index
    <3> DEFINE y == Work[k].at
    <3>1. y \in Nat /\ 3 * index - 1 <= 3 * y /\ 3 * y < 3 * index + 3
      BY <2>1, <2>3 DEF Turns
    <3> HIDE DEF y
    <3>2. y = index
      BY <2>3, <3>1
    <3> QED BY <3>2 DEF y
  <2> QED BY <2>2, <2>4
<1>4. ASSUME NEW i \in 1..(n + count), Tag(queue'[i]) = "clear", NEW g \in Entries
      PROVE  <<queue'[i].at, g>> \notin broken
  <2>1. CASE i <= n
    <3>1. i \in 1..n /\ queue'[i] = queue[i]
      BY <1>1, <2>1
    <3> QED BY <1>2, <1>4, <3>1
  <2>2. CASE i > n
    <3> DEFINE k == i - n
    <3>1. k \in 1..count /\ n + k = i /\ k \in 1..Len(Work)
      BY <1>1, <2>2
    <3> HIDE DEF k
    <3>2. queue'[i] = Work[k]
      BY <1>1, <3>1
    <3>3. pc = "compute" /\ queue'[i].at = index
      BY <1>3, <1>4, <3>1, <3>2
    <3>4. <<index, g>> \notin DOMAIN processed
      BY <3>3, FreshTurn
    <3> QED BY <1>2, <3>3, <3>4
  <2> QED BY <1>1, <2>1, <2>2
<1> QED BY <1>1, <1>2, <1>4 DEF BrokenWereFiltered, Entries

\* What is queued: the entries of an anchor whose clear is queued have not failed.
LEMMA VerdictIssuing ==
  ASSUME Control, Count, Verdict,
         StageUpload \/ UploadTables \/ AssembleWindow \/ ComputeContribution \/ CollectStatus
            \/ CombineFrame
  PROVE  Verdict'
<1>1. /\ Len(Work) \in 0..Len(Work) /\ Issued(Len(Work)) /\ UNCHANGED fixedVars
      /\ UNCHANGED <<dev, status, broken, processed, error>> /\ missing' = missing
      /\ pc \in {"upload", "tables", "compute", "collect", "descriptors"}
  BY Issuing DEF fixedVars
<1> DEFINE n == Len(queue)
<1>2. /\ Len(queue') = n + Len(Work) /\ n \in Nat /\ Len(Work) \in Nat
      /\ \A i \in 1..n : queue'[i] = queue[i]
      /\ \A i \in 1..Len(Work) : queue'[n + i] = Work[i]
  BY <1>1, QueueTyped
<1>3. /\ \A i \in 1..n : i \in 1..Len(queue')
      /\ \A k \in 1..Len(Work) : n + k \in 1..Len(queue')
  BY <1>2
<1>4. QueuedTurns' = QueuedTurns \cup (IF pc = "compute" THEN {index} ELSE {})
  BY TurnsNext
<1>5. BrokenWereFiltered'
  BY BrokenIssue, <1>1
<1>6. QueuedTurns \subseteq Turns
  <2>1. pc = "compute" => index \in Nat /\ index <= Len(missing) /\ Len(missing) \in Nat
    BY DEF Control, Types, Counters
  <2> QED BY <2>1 DEF QueuedTurns, Turns
<1>7. InfosArrive'
  <2> SUFFICES ASSUME NEW m \in QueuedTurns'
               PROVE  InfoRight(m)' \/ \E i \in 1..Len(queue') : queue'[i] = Clear(m, TotalGroups)
    BY DEF InfosArrive
  <2>1. CASE m \in QueuedTurns
    <3>1. InfoRight(m)' <=> InfoRight(m)
      BY <1>1 DEF InfoRight, Entries
    <3>2. InfoRight(m) \/ \E i \in 1..n : queue[i] = Clear(m, TotalGroups)
      BY <1>1, <2>1 DEF Verdict, InfosArrive
    <3> QED BY <1>2, <1>3, <3>1, <3>2
  <2>2. CASE pc = "compute" /\ m = index
    <3>1. Work[1] = Clear(m, TotalGroups)
      BY <2>2, ComputeWork
    <3>2. 1 \in 1..Len(Work)
      <4>1. Len(Work) = ChunkCount(missing[index]) + 2 /\ ChunkCount(missing[index]) \in Nat
        BY <2>2, ComputeWork, MissingGrids DEF Control
      <4> HIDE DEF ChunkCount
      <4> QED BY <4>1
    <3>3. n + 1 \in 1..Len(queue') /\ queue'[n + 1] = Work[1]
      BY <1>2, <1>3, <3>2
    <3> QED BY <3>1, <3>3
  <2> QED BY <1>4, <2>1, <2>2
<1>8. StatusArrives'
  <2>1. CASE StageUpload \/ UploadTables \/ AssembleWindow \/ ComputeContribution
    <3>1. pc' \in {"upload", "tables", "compute", "collect"}
      BY <2>1 DEF StageUpload, UploadTables, AssembleWindow, ComputeContribution, Advance, Goto
    <3> QED BY <3>1 DEF StatusArrives
  <2>2. CASE CollectStatus
    <3>1. Len(Work) = 1 /\ Work[1] = Collect(Len(missing))
      BY <2>2, EndWork DEF CollectStatus
    <3>2. n + 1 \in 1..Len(queue') /\ queue'[n + 1] = Collect(Len(missing))
      BY <1>2, <1>3, <3>1
    <3>3. Tag(Collect(Len(missing))) = "collect"
      BY DEF Tag, Collect
    <3>4. Pending("collect")'
      BY <3>2, <3>3 DEF Pending
    <3> QED BY <3>4 DEF StatusArrives
  <2>3. CASE CombineFrame
    <3>1. pc = "descriptors" /\ Work \in Seq(Ends)
      BY <2>3, EndWork DEF CombineFrame
    <3>2. \A k \in 1..Len(Work) : Tag(Work[k]) # "filter"
      <4>1. \A k \in 1..Len(Work) : Work[k] \in Ends
        BY <3>1
      <4> QED BY <4>1, Ending
    <3>3. Pending("collect") => Pending("collect")'
      BY <1>2, <1>3 DEF Pending
    <3>4. Pending("filter")' => Pending("filter")
      <4> SUFFICES ASSUME NEW i \in 1..Len(queue'), Tag(queue'[i]) = "filter"
                   PROVE  Pending("filter")
        BY DEF Pending
      <4> HIDE DEF n
      <4>1. CASE i <= n
        <5>1. i \in 1..n /\ queue'[i] = queue[i]
          BY <1>2, <4>1
        <5> QED BY <5>1 DEF Pending, n
      <4>2. CASE i > n
        <5> DEFINE k == i - n
        <5>1. k \in 1..Len(Work) /\ n + k = i
          BY <1>2, <4>2
        <5> HIDE DEF k
        <5>2. queue'[i] = Work[k]
          BY <1>2, <5>1
        <5> QED BY <3>2, <5>1, <5>2
      <4> QED BY <1>2, <4>1, <4>2
    <3>5. StatusRight' <=> StatusRight
      BY <1>1 DEF StatusRight, Turns, Entries
    <3> QED BY <1>1, <3>1, <3>3, <3>4, <3>5 DEF Verdict, StatusArrives
  <2> QED BY <2>1, <2>2, <2>3
<1>9. ErrorIsOwn'
  <2>1. pc' \notin {"drain", "done"}
    BY DEF StageUpload, UploadTables, AssembleWindow, ComputeContribution, CollectStatus,
           CombineFrame, Advance, Goto
  <2> QED BY <2>1 DEF ErrorIsOwn
<1> QED BY <1>5, <1>7, <1>8, <1>9 DEF Verdict

\* Of the pairs of numbers with a property one comes first.
LEMMA FirstPair ==
  ASSUME NEW S \in SUBSET (Nat \X Nat), S # {}
  PROVE  \E x \in S : \A y \in S : x[1] < y[1] \/ (x[1] = y[1] /\ x[2] <= y[2])
<1> DEFINE A == {x[1] : x \in S}
<1>1. A \in SUBSET Nat /\ A # {}
  OBVIOUS
<1>2. PICK a \in A : \A b \in A : a <= b
  BY <1>1, Geometry!LowestNatural
<1> DEFINE B == {x[2] : x \in {y \in S : y[1] = a}}
<1>3. B \in SUBSET Nat /\ B # {}
  BY <1>2
<1>4. PICK b \in B : \A c \in B : b <= c
  BY <1>3, Geometry!LowestNatural
<1>5. PICK x \in S : x[1] = a /\ x[2] = b
  BY <1>4
<1>6. ASSUME NEW y \in S
      PROVE  x[1] < y[1] \/ (x[1] = y[1] /\ x[2] <= y[2])
  <2>1. a <= y[1] /\ a \in Nat /\ y[1] \in Nat
    BY <1>1, <1>2
  <2>2. y[1] = a => y[2] \in B
    OBVIOUS
  <2> HIDE DEF A, B
  <2> QED BY <1>4, <1>5, <2>1, <2>2
<1> QED BY <1>5, <1>6

\* What is thrown is a failure of this render, if there was one.
LEMMA VerdictCheck ==
  ASSUME Control, Count, Verdict, CheckStatus
  PROVE  Verdict'
<1>1. /\ pc = "check" /\ queue = <<>> /\ pc' \in {"done", "drain"}
      /\ UNCHANGED <<dev, status, broken, processed, queue>>
      /\ error' = IF Failing = {} THEN <<>> ELSE FirstFailing
  BY DEF CheckStatus, Goto, Control, Counters
<1>2. Turns = DOMAIN missing /\ QueuedTurns = Turns
  BY <1>1 DEF Turns, Control, Types, QueuedTurns
<1>3. broken \subseteq DOMAIN processed
  BY DEF Verdict, BrokenWereFiltered
<1>4. \A x \in broken : x[1] \in Turns /\ x[2] \in Entries /\ x = <<x[1], x[2]>>
  BY <1>1, <1>2, <1>3, FilteredAreOwed
<1>5. Failing = broken
  <2>1. CASE missing = <<>>
    <3>1. DOMAIN missing = {} /\ Turns = {}
      BY <1>2, <2>1 DEF Turns
    <3> QED BY <1>4, <3>1 DEF Failing
  <2>2. CASE missing # <<>>
    <3>1. ~Pending("collect")
      BY <1>1 DEF Pending
    <3>2. StatusRight
      BY <1>1, <2>2, <3>1 DEF Verdict, StatusArrives
    <3>3. Failing = {x \in Turns \X Entries : <<x[1], x[2]>> \in broken}
      BY <1>2, <3>2 DEF Failing, StatusRight, Entries
    <3> QED BY <1>4, <3>3
  <2> QED BY <2>1, <2>2
<1>6. Failing # {} => FirstFailing \in Failing
  <2> SUFFICES ASSUME Failing # {} PROVE FirstFailing \in Failing
    OBVIOUS
  <2>1. Failing \in SUBSET (Nat \X Nat)
    <3>1. \A x \in broken : x[1] \in Nat /\ x[2] \in Nat /\ x = <<x[1], x[2]>>
      BY <1>4 DEF Turns, Entries
    <3> QED BY <1>5, <3>1
  <2>2. \E x \in Failing : \A y \in Failing : x[1] < y[1] \/ (x[1] = y[1] /\ x[2] <= y[2])
    BY <2>1, FirstPair
  <2> HIDE DEF Failing
  <2> QED BY <2>2 DEF FirstFailing
<1>7. ErrorIsOwn'
  BY <1>1, <1>5, <1>6 DEF ErrorIsOwn
<1>8. BrokenWereFiltered'
  BY <1>1, <1>3 DEF BrokenWereFiltered
<1>9. InfosArrive' /\ StatusArrives'
  BY <1>1 DEF InfosArrive, StatusArrives
<1> QED BY <1>7, <1>8, <1>9 DEF Verdict

LEMMA VerdictHost ==
  ASSUME Control, Count, Verdict,
         \/ StageUpload \/ UploadTables \/ AssembleWindow \/ NothingMissing
         \/ ComputeContribution \/ CollectStatus \/ CombineFrame \/ CallFails
         \/ Synchronize \/ CheckStatus \/ Drain \/ ReturnWorker
  PROVE  Verdict'
<1>1. CASE StageUpload \/ UploadTables \/ AssembleWindow \/ ComputeContribution \/ CollectStatus
            \/ CombineFrame
  BY <1>1, VerdictIssuing
<1>2. CASE CheckStatus
  BY <1>2, VerdictCheck
<1>3. CASE CallFails
  <2>1. pc' = "drain" /\ error' = <<"call">> /\ UNCHANGED fixedVars /\ UNCHANGED <<broken, processed>>
    BY <1>3, FailingCall
  <2>2. BrokenWereFiltered'
    <3>1. CASE UNCHANGED <<host, queue, issued>>
      BY <2>1, <3>1 DEF Verdict, BrokenWereFiltered, Entries
    <3>2. CASE \E count \in 0..Len(Work) : Issued(count)
      BY <2>1, <3>2, BrokenIssue
    <3> QED BY <1>3, <3>1, <3>2, FailingCall
  <2> QED BY <2>1, <2>2 DEF Verdict, InfosArrive, StatusArrives, ErrorIsOwn
<1>4. CASE NothingMissing
  <2>1. /\ pc = "tables" /\ pc' = "descriptors" /\ missing = <<>> /\ missing' = missing
        /\ UNCHANGED <<broken, processed, queue, dev, status>>
    BY <1>4 DEF NothingMissing, Goto, bufferVars
  <2>2. QueuedTurns' = {}
    BY <2>1 DEF QueuedTurns, Turns
  <2>3. BrokenWereFiltered'
    BY <2>1 DEF Verdict, BrokenWereFiltered, Entries
  <2> QED BY <2>1, <2>2, <2>3 DEF Verdict, InfosArrive, StatusArrives, ErrorIsOwn
<1>5. CASE Synchronize
  <2>1. /\ pc = "sync" /\ pc' = "check" /\ missing' = missing
        /\ UNCHANGED <<broken, processed, queue, dev, status>>
    BY <1>5 DEF Synchronize, Goto, bufferVars
  <2>2. QueuedTurns' = QueuedTurns /\ Turns' = Turns
    BY <2>1 DEF QueuedTurns, Turns
  <2>3. BrokenWereFiltered'
    BY <2>1 DEF Verdict, BrokenWereFiltered, Entries
  <2>4. InfosArrive'
    BY <2>1, <2>2 DEF Verdict, InfosArrive, InfoRight, Entries
  <2>5. StatusArrives'
    BY <2>1, <2>2 DEF Verdict, StatusArrives, Pending, StatusRight, Entries
  <2> QED BY <2>1, <2>3, <2>4, <2>5 DEF Verdict, ErrorIsOwn
<1>6. CASE Drain \/ ReturnWorker
  <2>1. /\ \/ pc = "drain" /\ pc' = "done"
           \/ pc' = "idle"
        /\ UNCHANGED <<broken, processed, queue, error>>
    BY <1>6 DEF Drain, ReturnWorker, Goto, bufferVars
  <2>2. BrokenWereFiltered'
    BY <2>1 DEF Verdict, BrokenWereFiltered, Entries
  <2>3. ErrorIsOwn'
    BY <2>1 DEF Verdict, ErrorIsOwn
  <2> QED BY <2>1, <2>2, <2>3 DEF Verdict, InfosArrive, StatusArrives
<1> QED BY <1>1, <1>2, <1>3, <1>4, <1>5, <1>6

LEMMA VerdictInvariant == WorkerSpec => []Verdict
<1>1. WorkerInit => Verdict
  BY DEF WorkerInit, Verdict, BrokenWereFiltered, InfosArrive, StatusArrives, ErrorIsOwn
<1>2. Control /\ Control' /\ Order /\ Count /\ Verdict /\ [WorkerNext]_workerVars => Verdict'
  <2> SUFFICES ASSUME Control, Control', Order, Count, Verdict, [WorkerNext]_workerVars
               PROVE  Verdict'
    OBVIOUS
  <2>1. ASSUME NEW f \in Wanted,
               NEW misses \in SUBSET (CacheNames \X (RequiredSourceRange(p, f).first
                                                     .. RequiredSourceRange(p, f).last)),
               NEW todo \in SUBSET Anchors(p, f), StartRender(f, misses, todo)
        PROVE  Verdict'
    <3>1. queue' = <<>> /\ broken' = {} /\ pc' \in {"upload", "tables"}
      BY <2>1 DEF StartRender, Control, Counters
    <3>2. QueuedTurns' = {}
      BY <3>1 DEF QueuedTurns
    <3> QED BY <3>1, <3>2 DEF Verdict, BrokenWereFiltered, InfosArrive, StatusArrives, ErrorIsOwn
  <2>2. ASSUME UNCHANGED workerVars PROVE Verdict'
    <3>1. UNCHANGED <<missing, queue, processed, pc, index, broken, dev, status, error>>
      BY <2>2 DEF workerVars
    <3>2. QueuedTurns' = QueuedTurns /\ Turns' = Turns
      BY <3>1 DEF QueuedTurns, Turns
    <3>3. BrokenWereFiltered' /\ InfosArrive' /\ StatusArrives' /\ ErrorIsOwn'
      BY <3>1, <3>2 DEF Verdict, BrokenWereFiltered, InfosArrive, InfoRight, StatusArrives,
                        StatusRight, Pending, ErrorIsOwn, Entries
    <3> QED BY <3>3 DEF Verdict
  <2> QED BY <2>1, <2>2, HostSteps, VerdictHost, VerdictExecute
<1> QED BY <1>1, <1>2, ControlInvariant, OrderInvariant, CountInvariant, PTL DEF WorkerSpec

\* A render fails for its solver exactly when a solver of this render failed,
\* and what is thrown names one that did: nothing is left over from the renders
\* that used the status entries and their pinned copy before.
THEOREM FailuresAreOwn == WorkerSpec => []SolverFailuresAreOwn
<1>1. Verdict => SolverFailuresAreOwn
  BY DEF Verdict, ErrorIsOwn, SolverFailuresAreOwn
<1> QED BY <1>1, VerdictInvariant, PTL
=============================================================================
