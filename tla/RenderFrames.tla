---------------------------- MODULE RenderFrames -----------------------------
(***************************************************************************)
(* Rendering with the CUDA filter: render_frame of src/src/vs/             *)
(* cuda_plugin.cpp, run by several VapourSynth threads on one instance.    *)
(*                                                                         *)
(* A thread leases a worker from the pool, then windows of the source      *)
(* caches and of the contribution cache, and queues work on the worker's   *)
(* CUDA stream: uploads, waits for events of other streams, the filter     *)
(* itself and the final normalisation.  Streams run on their own, in       *)
(* order, after the calls that queued the work have returned.  So what a   *)
(* buffer holds when the host publishes, releases or evicts it and what    *)
(* it holds when a stream gets to it are different things; the order of    *)
(* the calls and the events must make them agree.                          *)
(*                                                                         *)
(* The caches appear as their critical sections (module FrameCache says    *)
(* why each is atomic and waiters are always woken; its order of eviction  *)
(* is left open here but for empty slots), the pool as module WorkerPool.  *)
(***************************************************************************)
EXTENDS FrameGeometry, Sequences, FiniteSets, Functions

CONSTANTS
    Threads,        \* VapourSynth threads (fmParallel)
    Workers,        \* num_streams workers, each with its stream
    SourceCaches,   \* <<"noisy">> for Basic, <<"noisy", "basic">> for Final
    Buffers,        \* the slots of each cache
    Parameters,     \* the filter's parameters, as in FrameGeometry
    Wanted,         \* bound: the output frames asked for
    Budget,         \* bound: how many frames each thread asks for
    MaxFaults,      \* bound: how many calls fail
    NoWorker, NoKey

Caches == Range(SourceCaches) \cup {"contribution"}
p == Parameters

ASSUME ParametersAssumption == ValidParameters(Parameters)
\* VapourSynth asks a filter only for frames of its clip.
ASSUME WantedAssumption == Wanted \subseteq 0..(Parameters.frames - 1)
\* Each source clip has a cache of its own.
ASSUME SourceCachesAssumption ==
    /\ SourceCaches \in Seq(Range(SourceCaches)) /\ SourceCaches # <<>>
    /\ \A i, j \in DOMAIN SourceCaches : SourceCaches[i] = SourceCaches[j] => i = j
    /\ "contribution" \notin Range(SourceCaches)
ASSUME NoWorkerAssumption == NoWorker \notin Workers
\* initialize_cuda allocates at least the largest window of each cache.
ASSUME BuffersAssumption ==
    /\ \A c \in Range(SourceCaches) : Cardinality(Buffers[c]) >= MaxSourceWindow(p)
    /\ Cardinality(Buffers["contribution"]) >= MaxContributors(p)

VARIABLES
    pc, at, frame,          \* where a thread is, which cache it is at, its frame
    failed,                 \* an exception has been thrown in render_frame
    worker,                 \* the worker leased
    lease, loads,           \* per thread and cache: slots of the window, and
                            \* the keys it must produce and has not published
    holds, state, mark,     \* per cache and slot: key, state and last event
    queue, issued, done,    \* per worker: the stream
    info,                   \* per worker: the solver reported a failure
    mem,                    \* what a slot's memory really holds
    budget, faults,
    tainted,                \* history: the render used wrong data
    disturbed               \* history: another render failed during this one

hostVars   == <<pc, at, frame, failed, worker, budget>>
cacheVars  == <<lease, loads, holds, state, mark>>
streamVars == <<queue, issued, done, info, mem>>
ghostVars  == <<faults, tainted, disturbed>>
renderVars == <<pc, at, frame, failed, worker, budget, lease, loads, holds, state,
                mark, queue, issued, done, info, mem, faults, tainted, disturbed>>

-----------------------------------------------------------------------------
Span(r) == r.first .. r.last
KeysFor(c, f) == IF c = "contribution" THEN Anchors(p, f)
                 ELSE Span(RequiredSourceRange(p, f))

\* Mutant: a window protects its slots only until it is published.
Leased_ByLoaders(c, s) ==
    \E t \in Threads : \E k \in loads[t][c] : lease[t][c][k] = s
Leased(c, s) == \E t \in Threads : s \in Range(lease[t][c])
Holder(c, k) == {s \in Buffers[c] : state[c][s] # "Empty" /\ holds[c][s] = k}
Missing(c, K) == {k \in K : Holder(c, k) = {}}
Victims(c, K) == {s \in Buffers[c] : /\ ~Leased(c, s) /\ state[c][s] # "Loading"
                                     /\ \A k \in K : s \notin Holder(c, k)}
Loading(c, k) == \E s \in Holder(c, k) : state[c][s] = "Loading"

Hits(t, c) == DOMAIN lease[t][c] \ loads[t][c]
StillLoading(t, c) ==
    \E k \in Hits(t, c) : state[c][lease[t][c][k]] = "Loading"
Lost(t, c) == \E k \in Hits(t, c) : /\ state[c][lease[t][c][k]] # "Loading"
                                    /\ \/ state[c][lease[t][c][k]] # "Ready"
                                       \/ holds[c][lease[t][c][k]] # k

(* A stream's operations: what it waits for, reads and writes.  An event is *)
(* the position in a stream it was recorded at.                             *)
NoEvent == [stream |-> NoWorker, position |-> 0]
Fired(e) == e.stream = NoWorker \/ done[e.stream] >= e.position
Pieces(t, c, K) == {<<c, lease[t][c][k], k>> : k \in K}
Operation(waits, reads, writes) == [waits |-> waits, reads |-> reads, writes |-> writes]

Enqueue(w, op) ==
    /\ queue' = [queue EXCEPT ![w] = Append(@, op)]
    /\ issued' = [issued EXCEPT ![w] = @ + 1]
    /\ UNCHANGED <<done, info, mem>>

RenderInit ==
    /\ pc = [t \in Threads |-> "idle"] /\ at = [t \in Threads |-> 1]
    /\ frame = [t \in Threads |-> 0] /\ failed = [t \in Threads |-> FALSE]
    /\ worker = [t \in Threads |-> NoWorker]
    /\ budget = [t \in Threads |-> Budget] /\ faults = 0
    /\ lease = [t \in Threads |-> [c \in Caches |-> <<>>]]
    /\ loads = [t \in Threads |-> [c \in Caches |-> {}]]
    /\ holds = [c \in Caches |-> [s \in Buffers[c] |-> NoKey]]
    /\ state = [c \in Caches |-> [s \in Buffers[c] |-> "Empty"]]
    /\ mark = [c \in Caches |-> [s \in Buffers[c] |-> NoEvent]]
    /\ mem = [c \in Caches |-> [s \in Buffers[c] |-> [key |-> NoKey, sound |-> FALSE]]]
    /\ queue = [w \in Workers |-> <<>>]
    /\ issued = [w \in Workers |-> 0] /\ done = [w \in Workers |-> 0]
    /\ info = [w \in Workers |-> FALSE]
    /\ tainted = [t \in Threads |-> FALSE] /\ disturbed = [t \in Threads |-> FALSE]

Goto(t, point) == pc' = [pc EXCEPT ![t] = point] /\ UNCHANGED <<frame, failed, worker, budget>>

-----------------------------------------------------------------------------
(* The worker and the source frames. *)

\* CudaFilterGetFrame, arAllFramesReady.
GetFrame(t, f) ==
    /\ pc[t] = "idle" /\ budget[t] > 0
    /\ pc' = [pc EXCEPT ![t] = "worker"]
    /\ frame' = [frame EXCEPT ![t] = f]
    /\ failed' = [failed EXCEPT ![t] = FALSE]
    /\ budget' = [budget EXCEPT ![t] = @ - 1]
    /\ tainted' = [tainted EXCEPT ![t] = FALSE]
    /\ disturbed' = [disturbed EXCEPT ![t] = \E u \in Threads \ {t} : failed[u] /\ pc[u] # "idle"]
    /\ UNCHANGED <<at, worker, cacheVars, streamVars, faults>>

AcquireWorker(t) ==
    /\ pc[t] = "worker"
    /\ \E w \in Workers : /\ \A u \in Threads : worker[u] # w
                          /\ worker' = [worker EXCEPT ![t] = w]
    /\ pc' = [pc EXCEPT ![t] = "fetch"]
    /\ UNCHANGED <<at, frame, failed, budget, cacheVars, streamVars, ghostVars>>

FetchFrames(t) ==
    /\ pc[t] = "fetch"
    /\ Goto(t, "claim") /\ at' = [at EXCEPT ![t] = 1]
    /\ UNCHANGED <<cacheVars, streamVars, ghostVars>>

-----------------------------------------------------------------------------
(* The caches. *)

\* A claim takes all its slots in one step or waits with none.
Claim(t, c, deferred) ==
    LET K == KeysFor(c, frame[t])
        missing == Missing(c, K)
    IN  /\ deferred \/ \A k \in K : ~Loading(c, k)
        /\ \E b \in [missing -> Victims(c, K)] :
              /\ \A j, k \in missing : b[j] = b[k] => j = k
              /\ \A s \in Range(b), r \in Victims(c, K) \ Range(b) :
                    state[c][r] = "Empty" => state[c][s] = "Empty"
              /\ lease' = [lease EXCEPT ![t][c] =
                    [k \in K |-> IF k \in missing THEN b[k]
                                 ELSE CHOOSE s \in Holder(c, k) : TRUE]]
              /\ holds' = [holds EXCEPT ![c] =
                    [s \in Buffers[c] |-> IF s \in Range(b)
                                          THEN CHOOSE k \in missing : b[k] = s
                                          ELSE holds[c][s]]]
              /\ state' = [state EXCEPT ![c] =
                    [s \in Buffers[c] |-> IF s \in Range(b) THEN "Loading"
                                          ELSE state[c][s]]]
        /\ loads' = [loads EXCEPT ![t][c] = missing]
        /\ UNCHANGED mark

\* Mutant: the event is recorded before the work it stands for.
EventNow_TooEarly(w) == [stream |-> w, position |-> done[w]]
EventNow(w) == [stream |-> w, position |-> issued[w]]

\* Window::publish: events on the worker's stream, then all loads Ready.
Publish(t, c) ==
    LET slots == {lease[t][c][k] : k \in loads[t][c]}
    IN  /\ mark' = [mark EXCEPT ![c] =
              [s \in Buffers[c] |-> IF s \in slots THEN EventNow(worker[t])
                                    ELSE mark[c][s]]]
        /\ state' = [state EXCEPT ![c] =
              [s \in Buffers[c] |-> IF s \in slots THEN "Ready" ELSE state[c][s]]]
        /\ loads' = [loads EXCEPT ![t][c] = {}]
        /\ UNCHANGED <<lease, holds>>

\* Mutant: the slot forgets its key but stays Loading.
DropLoads_StillLoading(t, c) ==
    /\ holds' = [holds EXCEPT ![c] =
          [s \in Buffers[c] |-> IF \E k \in loads[t][c] : lease[t][c][k] = s THEN NoKey
                                ELSE holds[c][s]]]
    /\ loads' = [loads EXCEPT ![t][c] = {}]
    /\ UNCHANGED state
DropLoads(t, c) ==
    LET slots == {lease[t][c][k] : k \in loads[t][c]}
    IN  /\ holds' = [holds EXCEPT ![c] =
              [s \in Buffers[c] |-> IF s \in slots THEN NoKey ELSE holds[c][s]]]
        /\ state' = [state EXCEPT ![c] =
              [s \in Buffers[c] |-> IF s \in slots THEN "Empty" ELSE state[c][s]]]
        /\ loads' = [loads EXCEPT ![t][c] = {}]

Events(t, c, K) == {mark[c][lease[t][c][k]] : k \in K}

-----------------------------------------------------------------------------
(* render_frame, one action per call. *)

Source(t) == SourceCaches[at[t]]

\* The exception reaches the catch block.  Renders under way are disturbed.
Raise(t) ==
    /\ failed' = [failed EXCEPT ![t] = TRUE]
    /\ pc' = [pc EXCEPT ![t] = "drain"]
    /\ disturbed' = [u \in Threads |-> disturbed[u] \/ (u # t /\ pc[u] # "idle")]
    /\ UNCHANGED <<at, frame, worker, budget, tainted>>

\* A call into CUDA or VapourSynth fails.
Fault(t) ==
    /\ faults < MaxFaults /\ faults' = faults + 1
    /\ failed' = [failed EXCEPT ![t] = TRUE]
    /\ disturbed' = [u \in Threads |-> disturbed[u] \/ u = t \/ pc[u] # "idle"]
    /\ UNCHANGED <<at, frame, worker, budget, tainted>>

\* Before the try block only the worker is to be returned.
FetchFails(t) ==
    /\ pc[t] = "fetch"
    /\ Fault(t) /\ pc' = [pc EXCEPT ![t] = "returnWorker"]
    /\ UNCHANGED <<cacheVars, streamVars>>

ClaimSource(t) ==
    /\ pc[t] = "claim"
    /\ Claim(t, Source(t), FALSE)
    /\ Goto(t, "upload") /\ UNCHANGED at
    /\ UNCHANGED <<streamVars, ghostVars>>

\* upload_source_misses: the copies are queued, nothing has been copied yet.
Upload(t) ==
    /\ pc[t] = "upload"
    /\ IF loads[t][Source(t)] = {} THEN UNCHANGED streamVars
       ELSE Enqueue(worker[t], Operation({}, {}, Pieces(t, Source(t), loads[t][Source(t)])))
    /\ Goto(t, "publish") /\ UNCHANGED at
    /\ UNCHANGED <<cacheVars, ghostVars>>

UploadFails(t) ==
    /\ pc[t] = "upload" /\ Fault(t)
    /\ \E K \in SUBSET loads[t][Source(t)] :
          /\ K # loads[t][Source(t)]
          /\ IF K = {} THEN UNCHANGED streamVars
             ELSE Enqueue(worker[t], Operation({}, {}, Pieces(t, Source(t), K)))
    /\ pc' = [pc EXCEPT ![t] = "drain"]
    /\ UNCHANGED cacheVars

PublishSource(t) ==
    /\ pc[t] = "publish"
    /\ Publish(t, Source(t))
    /\ Goto(t, "waitReady") /\ UNCHANGED at
    /\ UNCHANGED <<streamVars, ghostVars>>

\* wait_ready: an ordinary claim has no hits that are still loading.
WaitReady(t) ==
    /\ pc[t] = "waitReady"
    /\ Enqueue(worker[t],
               Operation(Events(t, Source(t), DOMAIN lease[t][Source(t)]), {}, {}))
    /\ IF at[t] < Len(SourceCaches)
       THEN at' = [at EXCEPT ![t] = @ + 1] /\ Goto(t, "claim")
       ELSE UNCHANGED at /\ Goto(t, "claimContributions")
    /\ UNCHANGED <<cacheVars, ghostVars>>

\* Mutant: the solver's status is not cleared between renders.
ClearedInfo_Kept(w) == info
\* The status of all groups is set to zero before they are computed.
ClearedInfo(w) == [info EXCEPT ![w] = FALSE]

\* Deferred: hits on contributions others compute do not delay the claim.
ClaimContributions(t) ==
    /\ pc[t] = "claimContributions"
    /\ Claim(t, "contribution", TRUE)
    /\ info' = ClearedInfo(worker[t])
    /\ Goto(t, "compute") /\ UNCHANGED at
    /\ UNCHANGED <<queue, issued, done, mem, ghostVars>>

\* The source frames the anchors in A read, in every source cache.
SourcePieces(t, A) ==
    UNION {Pieces(t, c, UNION {Span(AnchorSourceRange(p, a)) : a \in A}) :
              c \in Range(SourceCaches)}

\* compute_contribution for the anchors in A.
Contribute(t, A) ==
    IF A = {} THEN UNCHANGED streamVars
    ELSE Enqueue(worker[t], Operation({}, SourcePieces(t, A), Pieces(t, "contribution", A)))

Compute(t) ==
    /\ pc[t] = "compute"
    /\ Contribute(t, loads[t]["contribution"])
    /\ Goto(t, "waitHits") /\ UNCHANGED at
    /\ UNCHANGED <<cacheVars, ghostVars>>

ComputeFails(t) ==
    /\ pc[t] = "compute" /\ Fault(t)
    /\ \E A \in SUBSET loads[t]["contribution"] : Contribute(t, A)
    /\ pc' = [pc EXCEPT ![t] = "drain"]
    /\ UNCHANGED cacheVars

\* wait_hits: the hits others are computing must be published first; one whose
\* producer failed is an error.
WaitHits(t) ==
    /\ pc[t] = "waitHits"
    /\ ~StillLoading(t, "contribution") /\ ~Lost(t, "contribution")
    /\ IF Hits(t, "contribution") = {} THEN UNCHANGED streamVars
       ELSE Enqueue(worker[t],
                    Operation(Events(t, "contribution", Hits(t, "contribution")), {}, {}))
    /\ Goto(t, "normalize") /\ UNCHANGED at
    /\ UNCHANGED <<cacheVars, ghostVars>>

HitsLost(t) ==
    /\ pc[t] = "waitHits"
    /\ ~StillLoading(t, "contribution") /\ Lost(t, "contribution")
    /\ Raise(t)
    /\ UNCHANGED <<faults, cacheVars, streamVars>>

\* enqueue_normalize_many: all contributions, and the source frame itself where
\* they leave a pixel without weight.
Normalize(t) ==
    /\ pc[t] = "normalize"
    /\ Enqueue(worker[t],
               Operation({}, Pieces(t, "contribution", DOMAIN lease[t]["contribution"])
                             \cup Pieces(t, SourceCaches[1], {frame[t]}), {}))
    /\ Goto(t, "sync") /\ UNCHANGED at
    /\ UNCHANGED <<cacheVars, ghostVars>>

Drained(t) == queue[worker[t]] = <<>>
Synchronize(t) ==
    /\ pc[t] = "sync" /\ Drained(t)
    /\ Goto(t, "check") /\ UNCHANGED at
    /\ UNCHANGED <<cacheVars, streamVars, ghostVars>>

\* Mutant: the solver's status is not looked at.
SolverFailed_Ignored(t) == FALSE
SolverFailed(t) == info[worker[t]]
CheckSolver(t) ==
    /\ pc[t] = "check" /\ ~SolverFailed(t)
    /\ Goto(t, "publishContributions") /\ UNCHANGED at
    /\ UNCHANGED <<cacheVars, streamVars, ghostVars>>

SolverFails(t) ==
    /\ pc[t] = "check" /\ SolverFailed(t)
    /\ Raise(t)
    /\ UNCHANGED <<faults, cacheVars, streamVars>>

PublishContributions(t) ==
    /\ pc[t] = "publishContributions"
    /\ Publish(t, "contribution")
    /\ Goto(t, "release") /\ at' = [at EXCEPT ![t] = Len(SourceCaches) + 1]
    /\ UNCHANGED <<streamVars, ghostVars>>

\* Any other call that may throw after something has been claimed.  A publish
\* that fails has recorded events and published nothing.
CallFails(t) ==
    /\ pc[t] \in {"publish", "waitReady", "waitHits", "normalize", "sync",
                  "publishContributions", "copy"}
    /\ Fault(t)
    /\ pc' = [pc EXCEPT ![t] = "drain"]
    /\ UNCHANGED <<cacheVars, streamVars>>

-----------------------------------------------------------------------------
(* The way out: contribution window, then source windows, then the worker. *)

\* The catch block waits for the stream before anything is given back.
Drain(t) ==
    /\ pc[t] = "drain" /\ Drained(t)
    /\ pc' = [pc EXCEPT ![t] = "abandon"]
    /\ UNCHANGED <<at, frame, failed, worker, budget, cacheVars, streamVars, ghostVars>>

Abandon(t) ==
    /\ pc[t] = "abandon"
    /\ DropLoads(t, "contribution")
    /\ Goto(t, "release") /\ at' = [at EXCEPT ![t] = Len(SourceCaches) + 1]
    /\ UNCHANGED <<lease, mark, streamVars, ghostVars>>

Released(t) == IF at[t] > Len(SourceCaches) THEN "contribution" ELSE Source(t)

\* Window::release drops what was never published.
Release(t) ==
    /\ pc[t] = "release"
    /\ DropLoads(t, Released(t))
    /\ lease' = [lease EXCEPT ![t][Released(t)] = <<>>]
    /\ IF at[t] > 1
       THEN at' = [at EXCEPT ![t] = @ - 1] /\ Goto(t, "release")
       ELSE UNCHANGED at /\ Goto(t, IF failed[t] THEN "returnWorker" ELSE "copy")
    /\ UNCHANGED <<mark, streamVars, ghostVars>>

CopyOutput(t) ==
    /\ pc[t] = "copy"
    /\ Goto(t, "returnWorker") /\ UNCHANGED at
    /\ UNCHANGED <<cacheVars, streamVars, ghostVars>>

\* ~Lease, after the frame or the error has left render_frame.
ReturnWorker(t) ==
    /\ pc[t] = "returnWorker"
    /\ worker' = [worker EXCEPT ![t] = NoWorker]
    /\ pc' = [pc EXCEPT ![t] = "idle"]
    /\ at' = [at EXCEPT ![t] = 1]
    /\ UNCHANGED <<frame, failed, budget, cacheVars, streamVars, ghostVars>>

-----------------------------------------------------------------------------
(* The streams (external: CUDA). *)

Runnable(w) == queue[w] # <<>> /\ \A e \in Head(queue[w]).waits : Fired(e)
Intact(piece) == mem[piece[1]][piece[2]] = [key |-> piece[3], sound |-> TRUE]

\* An operation runs as a whole.  Where it writes, its result is sound when its
\* inputs are and the solver converges; a solver failure is noted for the host.
Execute(w) ==
    LET op == Head(queue[w])
        fine == \A piece \in op.reads : Intact(piece)
        solves == op.writes # {} /\ op.reads # {}
        owner == {t \in Threads : worker[t] = w}
    IN  /\ Runnable(w)
        /\ \E breaks \in BOOLEAN :
              /\ breaks => solves /\ faults < MaxFaults
              /\ faults' = IF breaks THEN faults + 1 ELSE faults
              /\ info' = [info EXCEPT ![w] = @ \/ breaks]
              /\ disturbed' = [t \in Threads |-> disturbed[t] \/ (t \in owner /\ breaks)]
              /\ mem' = [c \in Caches |-> [s \in Buffers[c] |->
                    LET written == {piece \in op.writes : piece[1] = c /\ piece[2] = s}
                    IN  IF written = {} THEN mem[c][s]
                        ELSE [key |-> (CHOOSE piece \in written : TRUE)[3],
                              sound |-> fine /\ ~breaks]]]
        /\ tainted' = [t \in Threads |-> tainted[t] \/ (t \in owner /\ ~fine)]
        /\ queue' = [queue EXCEPT ![w] = Tail(@)]
        /\ done' = [done EXCEPT ![w] = @ + 1]
        /\ UNCHANGED <<issued, hostVars, cacheVars>>

HostStep(t) ==
    \/ \E f \in Wanted : GetFrame(t, f)
    \/ AcquireWorker(t) \/ FetchFrames(t) \/ FetchFails(t)
    \/ ClaimSource(t) \/ Upload(t) \/ UploadFails(t) \/ PublishSource(t) \/ WaitReady(t)
    \/ ClaimContributions(t) \/ Compute(t) \/ ComputeFails(t)
    \/ WaitHits(t) \/ HitsLost(t) \/ Normalize(t) \/ Synchronize(t)
    \/ CheckSolver(t) \/ SolverFails(t) \/ PublishContributions(t) \/ CallFails(t)
    \/ Drain(t) \/ Abandon(t) \/ Release(t) \/ CopyOutput(t) \/ ReturnWorker(t)

Finished ==
    /\ \A t \in Threads : pc[t] = "idle" /\ budget[t] = 0
    /\ UNCHANGED renderVars

RenderNext ==
    \/ \E t \in Threads : HostStep(t)
    \/ \E w \in Workers : Execute(w)
    \/ Finished

RenderSpec == RenderInit /\ [][RenderNext]_renderVars

\* Threads and streams keep going; a thread waiting for a worker or a window
\* is served although others keep taking them, for each asks only Budget times.
FairRenderSpec ==
    /\ RenderSpec
    /\ \A t \in Threads : WF_renderVars(HostStep(t))
    /\ \A w \in Workers : WF_renderVars(Execute(w))

-----------------------------------------------------------------------------
\* Whatever the interleaving of threads and streams, an operation that runs
\* finds in every buffer it reads the frame its render leased it for.
StreamsReadWhatTheyLeased ==
    \A w \in Workers : Runnable(w) =>
        \A piece \in Head(queue[w]).reads : mem[piece[1]][piece[2]].key = piece[3]

\* No two streams can be at the same buffer, one of them writing: an evicted or
\* abandoned slot is never refilled under a reader.
BuffersNeverRace ==
    \A v, w \in Workers : v # w /\ Runnable(v) /\ Runnable(w) =>
        \A x \in Head(queue[v]).writes :
            \A y \in Head(queue[w]).reads \cup Head(queue[w]).writes :
                <<x[1], x[2]>> # <<y[1], y[2]>>

\* A frame is delivered only if all that went into it was uploaded completely
\* and no solver failed, in this render or in the ones it took contributions
\* from.
DeliveredFramesAreSound == \A t \in Threads : pc[t] = "copy" => ~tainted[t]

\* Errors are not sticky: a render fails only if something fails in it, or in
\* another one that is under way at the same time.
FailuresAreLocal ==
    \A t \in Threads : failed[t] /\ pc[t] # "idle" => disturbed[t]

\* Every request is answered: no combination of windows, deferred hits, failures
\* and few workers leaves a thread waiting.
EveryRequestEnds == <>[](\A t \in Threads : pc[t] = "idle" /\ budget[t] = 0)
=============================================================================
