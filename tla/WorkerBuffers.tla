---------------------------- MODULE WorkerBuffers -----------------------------
(***************************************************************************)
(* The buffers of one CUDA worker while it renders one frame after the     *)
(* other (Worker, upload_source_misses, the frame tables and contiguous    *)
(* windows, compute_contribution and the solver status in src/src/vs/      *)
(* cuda_plugin.cpp).  The host fills pinned memory and queues copies and   *)
(* kernels on the worker's stream, which takes them up later: the host may *)
(* be many calls ahead, over a small ring of staging buffers, and every    *)
(* device buffer is used again by the next anchor and the next render.     *)
(*                                                                         *)
(* Other workers and the caches are left out (module RenderFrames): which  *)
(* frames and contributions a render finds in the caches is arbitrary.     *)
(***************************************************************************)
EXTENDS FrameGeometry, Sequences, FiniteSets, Bags

CONSTANTS
    SourceCaches,   \* <<"noisy">> for Basic, <<"noisy", "basic">> for Final
    Parameters,     \* the filter's parameters, as in FrameGeometry
    UploadSlots,    \* staging buffers of the ring
    Groups,         \* per anchor frame: size of its anchor grid
    TotalGroups,    \* what the tables are sized for
    ChunkGroups,    \* max_chunk_groups
    Wanted,         \* bound: the output frames asked for
    Budget,         \* bound: how many frames are rendered
    MaxFaults,      \* bound: how many calls or groups fail
    Junk            \* what uninitialised memory holds

p == Parameters
SourceFrames == 0..(p.frames - 1)

ASSUME BuffersAssumption ==
    /\ ValidParameters(p) /\ Wanted \subseteq SourceFrames
    /\ SourceCaches \in {<<"noisy">>, <<"noisy", "basic">>}
    /\ UploadSlots \in Nat \ {0} /\ ChunkGroups \in Nat \ {0} /\ TotalGroups \in Nat
    /\ \A a \in 0..(ValidAnchorFrames(p) - 1) : Groups[a] \in 1..TotalGroups

VARIABLES
    pc, index,      \* where render_frame is, and in which turn of its loop
    tables,         \* use_pointer_tables_, from the worker's creation
    frame,          \* the output frame
    uploads,        \* the source frames to upload, in order: <<cache, frame>>
    missing,        \* the anchors to compute, in order
    cursor, event,  \* upload_cursor_; per staging buffer, the position in the
                    \* stream its event was recorded at, 0 for never
    host, dev,      \* pinned memory and device memory, by buffer
    status,         \* host_solver_info_
    queue, issued,  \* the stream: operations to run, and how many ever queued
    error,          \* what render_frame throws: <<>>, <<"call">> or the culprit
    budget, faults,
    broken,         \* history: the groups whose solver failed in this render
    processed       \* history: how often each group was processed in this render

controlVars == <<pc, index, tables, frame, uploads, missing, budget>>
bufferVars  == <<cursor, event, host, dev, status, queue, issued, error, faults, broken, processed>>
workerVars  == <<pc, index, tables, frame, uploads, missing, cursor, event, host, dev,
                 status, queue, issued, error, budget, faults, broken, processed>>

-----------------------------------------------------------------------------
(* Buffers.  A cell of memory holds a value; Junk is whatever was there.   *)

Places == 1..MaxContributors(p)            \* positions among the missing anchors
Staging(i)  == <<"staging", i>>
Tables(c)   == <<"tables", c>>
Anchored(m) == <<"anchors", m>>
Slot(c, f)  == <<"slot", c, f>>
Place(c, k) == <<"contiguous", c, k>>
Info(m, g)  == <<"info", m, g>>
Sources     == <<"sources">>
CacheNames  == {SourceCaches[i] : i \in DOMAIN SourceCaches}

HostCells == {Staging(i) : i \in 0..UploadSlots - 1} \cup {Anchored(m) : m \in Places}
             \cup {Tables(c) : c \in CacheNames} \cup {Sources}
DeviceCells == {Slot(c, f) : c \in CacheNames, f \in SourceFrames} \cup {Sources, <<"grid">>}
               \cup {Place(c, k) : c \in CacheNames, k \in 0..(MaxSourceWindow(p) - 1)}
               \cup {Tables(c) : c \in CacheNames}
               \cup {Info(m, g) : m \in Places, g \in 0..(TotalGroups - 1)}

-----------------------------------------------------------------------------
(* Operations of the stream. *)

\* Copies a host or device cell; what is the value meant to be copied.
Upload(from, to, what) == [op |-> "upload", from |-> from, to |-> to, what |-> what]
Move(from, to)         == [op |-> "move", from |-> from, to |-> to]
Clear(m, count)        == [op |-> "clear", at |-> m, count |-> count]
Filter(m, a, first, count, base) ==
    [op |-> "filter", at |-> m, anchor |-> a, first |-> first, count |-> count, base |-> base]
Collect(count)         == [op |-> "collect", count |-> count]
Combine(what)          == [op |-> "combine", what |-> what]

Executed == issued - Len(queue)

-----------------------------------------------------------------------------
WorkerInit ==
    /\ tables \in BOOLEAN
    /\ pc = "idle" /\ index = 1 /\ frame = 0 /\ uploads = <<>> /\ missing = <<>>
    /\ cursor = 0 /\ event = [i \in 0..(UploadSlots - 1) |-> 0]
    /\ host = [c \in HostCells |-> Junk] /\ dev = [c \in DeviceCells |-> Junk]
    /\ status = [m \in Places |-> [g \in 0..(TotalGroups - 1) |-> 0]]
    /\ queue = <<>> /\ issued = 0 /\ error = <<>>
    /\ budget = Budget /\ faults = 0 /\ broken = {} /\ processed = EmptyBag

Goto(point, turn) == pc' = point /\ index' = turn
                     /\ UNCHANGED <<tables, frame, uploads, missing, budget>>

\* The loop goes on with its next turn, or with what follows it.
Advance(count, point) == IF index < count THEN Goto(pc, index + 1) ELSE Goto(point, 1)

Window == RequiredSourceRange(p, frame)

\* The sequences that list each member of S once, and those in order.
Listings(S)  == {s \in [1..Cardinality(S) -> S] : \A x \in S : \E i \in DOMAIN s : s[i] = x}
Ascending(S) == {s \in Listings(S) : \A i, j \in DOMAIN s : i < j => s[i] < s[j]}

\* Frames are uploaded cache by cache, each cache's in order.
UploadOrders(misses) ==
    {s \in Listings(misses) : \A i, j \in DOMAIN s : i < j =>
        IF s[i][1] = s[j][1] THEN s[i][2] < s[j][2] ELSE s[i][1] = SourceCaches[1]}

\* render_frame has its windows: any source frame may be a miss, and any
\* contributing anchor may have to be computed.
StartRender(f, misses, todo) ==
    /\ pc = "idle" /\ budget > 0
    /\ frame' = f /\ budget' = budget - 1
    /\ uploads' \in UploadOrders(misses)
    /\ missing' \in Ascending(todo)
    /\ dev' = [c \in DeviceCells |->
                 IF c[1] # "slot" THEN dev[c]
                 ELSE IF <<c[2], c[3]>> \in misses THEN Junk ELSE <<c[2], c[3]>>]
    /\ pc' = (IF misses = {} THEN "tables" ELSE "upload") /\ index' = 1
    /\ cursor' = 0 /\ error' = <<>> /\ broken' = {} /\ processed' = EmptyBag
    /\ UNCHANGED <<tables, event, host, status, queue, issued, faults>>

-----------------------------------------------------------------------------
(* What the host fills in pinned memory and then queues, at each point.    *)

\* upload_source_misses takes the next staging buffer of the ring.
StagingIndex == cursor % UploadSlots

\* Mutant: a buffer is filled again while its copy may be pending.
StagingFree_Unchecked(i) == TRUE
\* A buffer whose event was recorded is filled again only after the event.
StagingFree(i) == event[i] <= Executed

\* An anchor's source window as stage_frame_table lists it: a table names
\* slots, whose contents are looked up when the filter runs.
SourcesOf(c, a) == [k \in 1..CachedFrames(p) |-> <<c, AnchorSourceRange(p, a).first + k - 1>>]
TablesOf(c)     == [m \in DOMAIN missing |-> SourcesOf(c, missing[m])]

\* The union of the missing anchors' windows (assembly_range).
Assembly ==
    [first |-> Lowest({AnchorSourceRange(p, missing[m]).first : m \in DOMAIN missing}),
     last  |-> Highest({AnchorSourceRange(p, missing[m]).last : m \in DOMAIN missing})]

\* assemble_contiguous_window copies it frame by frame.
WindowMoves(c) ==
    [k \in 1..(Assembly.last - Assembly.first + 1) |->
        Move(Slot(c, Assembly.first + k - 1), Place(c, k - 1))]

\* Mutant: the window is taken from the start of the copy.
WindowBase_AssemblyStart(a) == 0
\* contiguous_video_view: where an anchor's window starts in the copy.
WindowBase(a) == AnchorSourceRange(p, a).first - Assembly.first

\* host_anchor_base: every missing anchor has its own pinned grid.
GridPlace(m) == m

\* Mutant: only the entries of this anchor's groups are cleared.
ClearedCount_OwnGroups(a) == Groups[a]
ClearedCount(a) == TotalGroups

\* Mutant: the last chunk is not shortened.
ChunkSize_Full(a, first) == ChunkGroups
ChunkSize(a, first) == Least(ChunkGroups, Groups[a] - first)

Chunks(m, a) ==
    [j \in 1..((Groups[a] + ChunkGroups - 1) \div ChunkGroups) |->
        LET first == (j - 1) * ChunkGroups
        IN Filter(m, a, first, ChunkSize(a, first), WindowBase(a))]

\* host_contribution_sources_: where each contributing anchor keeps its part of
\* the output frame.
Descriptors == [k \in 1..Cardinality(Anchors(p, frame)) |->
    LET a == ContributingAnchors(p, frame).first + k - 1
    IN <<a, SlotForOutput(p, a, frame)>>]

Filled ==
    CASE pc = "upload"      -> [host EXCEPT ![Staging(StagingIndex)] = uploads[index]]
      [] pc = "tables" /\ tables /\ missing # <<>> ->
            [c \in HostCells |-> IF c[1] = "tables" THEN TablesOf(c[2]) ELSE host[c]]
      [] pc = "compute"     -> [host EXCEPT ![Anchored(GridPlace(index))] = <<missing[index]>>]
      [] pc = "descriptors" -> [host EXCEPT ![Sources] = Descriptors]
      [] OTHER              -> host

Work ==
    CASE pc = "upload" ->
            <<Upload(Staging(StagingIndex), Slot(uploads[index][1], uploads[index][2]),
                     uploads[index])>>
      [] pc = "tables" /\ tables /\ missing # <<>> ->
            [i \in DOMAIN SourceCaches |->
                Upload(Tables(SourceCaches[i]), Tables(SourceCaches[i]), TablesOf(SourceCaches[i]))]
      [] pc = "tables" /\ ~tables /\ missing # <<>> -> WindowMoves(SourceCaches[index])
      [] pc = "compute" ->
            <<Clear(index, ClearedCount(missing[index])),
              Upload(Anchored(GridPlace(index)), <<"grid">>, <<missing[index]>>)>>
            \o Chunks(index, missing[index])
      [] pc = "collect"     -> <<Collect(Len(missing))>>
      [] pc = "descriptors" -> <<Upload(Sources, Sources, Descriptors), Combine(Descriptors)>>
      [] OTHER              -> <<>>

Issue(ops) == host' = Filled /\ queue' = queue \o ops /\ issued' = issued + Len(ops)

-----------------------------------------------------------------------------
(* The steps of a render. *)

\* One turn of upload_source_misses.
StageUpload ==
    /\ pc = "upload" /\ StagingFree(StagingIndex)
    /\ Issue(Work)
    /\ event' = [event EXCEPT ![StagingIndex] = issued + 1]
    /\ cursor' = cursor + 1
    /\ Advance(Len(uploads), "tables")
    /\ UNCHANGED <<dev, status, error, faults, broken, processed>>

\* stage_frame_table for every missing anchor, then upload_frame_tables.
UploadTables ==
    /\ pc = "tables" /\ tables /\ missing # <<>>
    /\ Issue(Work) /\ Goto("compute", 1)
    /\ UNCHANGED <<cursor, event, dev, status, error, faults, broken, processed>>

\* assemble_contiguous_window, cache by cache.
AssembleWindow ==
    /\ pc = "tables" /\ ~tables /\ missing # <<>>
    /\ Issue(Work) /\ Advance(Len(SourceCaches), "compute")
    /\ UNCHANGED <<cursor, event, dev, status, error, faults, broken, processed>>

NothingMissing ==
    /\ pc = "tables" /\ missing = <<>>
    /\ Goto("descriptors", 1)
    /\ UNCHANGED bufferVars

\* compute_contribution: the status is cleared, the grid is copied and filtered
\* in chunks.
ComputeContribution ==
    /\ pc = "compute"
    /\ Issue(Work) /\ Advance(Len(missing), "collect")
    /\ UNCHANGED <<cursor, event, dev, status, error, faults, broken, processed>>

\* The status of all missing anchors is copied back.
CollectStatus ==
    /\ pc = "collect"
    /\ Issue(Work) /\ Goto("descriptors", 1)
    /\ UNCHANGED <<cursor, event, dev, status, error, faults, broken, processed>>

CombineFrame ==
    /\ pc = "descriptors"
    /\ Issue(Work) /\ Goto("sync", 1)
    /\ UNCHANGED <<cursor, event, dev, status, error, faults, broken, processed>>

\* A call fails, with nothing done at this point or after some of its work was
\* queued; a failing event leaves the buffer's earlier position recorded.
CallFails ==
    /\ pc \in {"upload", "tables", "compute", "collect", "descriptors", "sync"}
    /\ \/ UNCHANGED <<host, queue, issued>>
       \/ /\ pc = "upload" => StagingFree(StagingIndex)
          /\ \E count \in 0..Len(Work) : Issue(SubSeq(Work, 1, count))
    /\ faults < MaxFaults /\ faults' = faults + 1
    /\ error' = <<"call">> /\ Goto("drain", 1)
    /\ UNCHANGED <<cursor, event, dev, status, broken, processed>>

Quiet == queue = <<>>

Synchronize ==
    /\ pc = "sync" /\ Quiet
    /\ Goto("check", 1)
    /\ UNCHANGED bufferVars

\* The entries looked at are those copied back, in order.
Failing == {x \in (DOMAIN missing) \X (0..(TotalGroups - 1)) : status[x[1]][x[2]] # 0}
FirstFailing == CHOOSE x \in Failing :
    \A y \in Failing : x[1] < y[1] \/ (x[1] = y[1] /\ x[2] <= y[2])

CheckStatus ==
    /\ pc = "check"
    /\ error' = IF Failing = {} THEN <<>> ELSE FirstFailing
    /\ Goto(IF Failing = {} THEN "done" ELSE "drain", 1)
    /\ UNCHANGED <<cursor, event, host, dev, status, queue, issued, faults, broken, processed>>

Drain ==
    /\ pc = "drain" /\ Quiet
    /\ Goto("done", 1)
    /\ UNCHANGED bufferVars

\* The worker goes back to the pool; the next render may follow at once.
ReturnWorker ==
    /\ pc = "done"
    /\ Goto("idle", 1)
    /\ UNCHANGED bufferVars

-----------------------------------------------------------------------------
(* The stream (external: CUDA) runs one operation after the other. *)

\* The frames a filter finds in the window of cache c.
Seen(c, op) ==
    IF tables
    THEN LET table == dev[Tables(c)][op.at]
         IN  [k \in DOMAIN table |-> dev[Slot(table[k][1], table[k][2])]]
    ELSE [k \in 1..CachedFrames(p) |-> dev[Place(c, op.base + k - 1)]]

GroupsOf(op) == {<<op.at, g>> : g \in op.first..(op.first + op.count - 1)}

Execute ==
    LET op == Head(queue)
    IN  /\ queue # <<>>
        /\ queue' = Tail(queue)
        /\ CASE op.op = "upload" ->
                    /\ dev' = [dev EXCEPT ![op.to] = host[op.from]]
                    /\ UNCHANGED <<status, faults, broken, processed>>
             [] op.op = "move" ->
                    /\ dev' = [dev EXCEPT ![op.to] = dev[op.from]]
                    /\ UNCHANGED <<status, faults, broken, processed>>
             [] op.op = "clear" ->
                    /\ dev' = [c \in DeviceCells |->
                                 IF c[1] = "info" /\ c[2] = op.at /\ c[3] < op.count
                                 THEN 0 ELSE dev[c]]
                    /\ UNCHANGED <<status, faults, broken, processed>>
             [] op.op = "filter" ->
                    /\ processed' = processed (+) SetToBag(GroupsOf(op))
                    /\ \/ UNCHANGED <<dev, faults, broken>>
                       \/ \E x \in GroupsOf(op) :
                             /\ faults < MaxFaults /\ faults' = faults + 1
                             /\ broken' = broken \cup {x}
                             /\ dev' = [dev EXCEPT ![Info(x[1], x[2])] = 1]
                    /\ UNCHANGED status
             [] op.op = "collect" ->
                    /\ status' = [m \in Places |-> IF m > op.count THEN status[m]
                                   ELSE [g \in 0..(TotalGroups - 1) |->
                                           IF dev[Info(m, g)] = 0 THEN 0 ELSE 1]]
                    /\ UNCHANGED <<dev, faults, broken, processed>>
             [] OTHER -> UNCHANGED <<dev, status, faults, broken, processed>>
        /\ UNCHANGED <<controlVars, cursor, event, host, issued, error>>

HostStep ==
    \/ \E f \in Wanted :
          \E misses \in SUBSET (CacheNames \X (RequiredSourceRange(p, f).first
                                               .. RequiredSourceRange(p, f).last)),
             todo \in SUBSET Anchors(p, f) : StartRender(f, misses, todo)
    \/ StageUpload \/ UploadTables \/ AssembleWindow \/ NothingMissing
    \/ ComputeContribution \/ CollectStatus \/ CombineFrame \/ CallFails
    \/ Synchronize \/ CheckStatus \/ Drain \/ ReturnWorker

Finished == pc = "idle" /\ budget = 0 /\ UNCHANGED workerVars

WorkerNext == HostStep \/ Execute \/ Finished
WorkerSpec == WorkerInit /\ [][WorkerNext]_workerVars

-----------------------------------------------------------------------------
\* Pinned memory is not touched while a copy from it is pending, whatever the
\* ring's size and however far the host is ahead of the stream.
PendingCopiesKeepTheirSource ==
    \A i \in DOMAIN queue : queue[i].op = "upload" => host[queue[i].from] = queue[i].what

\* Whenever the filter runs for an anchor, it finds that anchor's grid and, in
\* every source cache, that anchor's window of frames.
FiltersSeeTheirAnchor ==
    queue # <<>> /\ Head(queue).op = "filter" =>
        /\ dev[<<"grid">>] = <<Head(queue).anchor>>
        /\ \A c \in CacheNames : Seen(c, Head(queue)) = SourcesOf(c, Head(queue).anchor)

\* When all has been waited for, every patch of every missing anchor's grid has
\* been processed, and none twice: its weight would count double.
EveryGroupOnce ==
    pc = "check" =>
        processed = SetToBag({x \in (DOMAIN missing) \X (0..(TotalGroups - 1)) :
                                 x[2] < Groups[missing[x[1]]]})

\* A render fails for its solver exactly when a solver of this render failed,
\* and the message names one that did; nothing is left over from renders before.
SolverFailuresAreOwn ==
    pc \in {"drain", "done"} /\ error # <<"call">> =>
        IF broken = {} THEN error = <<>> ELSE error \in broken

=============================================================================
