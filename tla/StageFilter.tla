----------------------------- MODULE StageFilter -----------------------------
(***************************************************************************)
(* The CPU filters Basic, Final and Aggregate as VapourSynth drives them.  *)
(* A filter is created from its argument nodes, asked for frames by any    *)
(* thread (first to request its input frames, then, when they are ready    *)
(* and perhaps on another thread, to render) and freed when no frame is in *)
(* flight.  A render takes a reference to every input frame and to its     *)
(* output frame; it may fail at each of its steps.  Each thread keeps its  *)
(* own buffers between renders, with the motion vectors parsed last.       *)
(*                                                                         *)
(* VapourSynth itself (its frames, its scheduling of fmParallel filters)   *)
(* is modelled as plugin.cpp uses it.  What a failing step leaves behind   *)
(* is modelled by what its destructors release.                            *)
(***************************************************************************)
EXTENDS MotionVectors, FiniteSets, SequencesExt

CONSTANT Scenarios  \* the filters created, their clips and their threads, a sequence

\* vnlb.Basic and vnlb.Final take vector clips, vnlb.Aggregate does not.
ASSUME ScenariosAssumption ==
    \A i \in DOMAIN Scenarios :
        /\ Scenarios[i].threads \in Nat
        /\ Scenarios[i].kind \in {"Basic", "Final", "Aggregate"}
        /\ Scenarios[i].motion \subseteq (IF Scenarios[i].kind = "Aggregate" THEN {}
                                          ELSE {"mvfw", "mvbw"})

\* A clip has pixels, and a vector clip a frame for each of its frames, whatever
\* that carries.
ASSUME ClipsAssumption ==
    \A i \in DOMAIN Scenarios :
        LET s == Scenarios[i]
        IN  /\ s.size \in [Axes -> Nat \ {0}] /\ s.patch \in Nat
            /\ s.anchors \subseteq [Axes -> Nat]
            /\ \A d \in s.motion :
                  /\ s.analysis[d] \in
                        [pel : Int, size : [Axes -> Int], overlap : [Axes -> Int], count : [Axes -> Int],
                         frame : [Axes -> Int], delta : Int, backwards : BOOLEAN]
                  /\ s.vectors[d] \in
                        [0..(s.p.frames - 1) ->
                            [sized : BOOLEAN, flag : Int, levels : Seq(Seq([Axes -> Int]))]]

VARIABLES
    scenario,       \* which of the scenarios
    instance,       \* [phase, owned]: creation, life and end of the filter
    nodes,          \* references held to each node
    references,     \* references held to the frames of each node
    outputs,        \* output frames created and not yet given away
    context,        \* per output frame: [open, requested], the frames it asked for
    render,         \* per thread: the render it runs, or Idle
    data            \* per thread id: lists of frames, cached and current grids

stageVars == <<scenario, instance, nodes, references, outputs, context, render, data>>

\* A definition rather than the constant itself: TLC evaluates it only once.
Filters == Scenarios
\* The arguments and clips of the filter.
filter == Filters[scenario]

\* The threads of the core.
Threads == 1..filter.threads

Idle   == [frame |-> -1]
Closed == [open |-> FALSE, requested |-> {}]

Frames == 0..(filter.p.frames - 1)

Given(d) == IF d \in filter.motion THEN <<d>> ELSE <<>>
Motion   == Given("mvfw") \o Given("mvbw")

\* The nodes a creation reads from its arguments, in order.
NodeOrder ==
    CASE filter.kind = "Basic"     -> <<"clip">> \o Motion
      [] filter.kind = "Final"     -> <<"clip", "ref">> \o Motion
      [] filter.kind = "Aggregate" -> <<"clip", "src">>

AllNodes == {"clip", "ref", "src", "mvfw", "mvbw"}

EmptyData == [lists  |-> [n \in AllNodes |-> <<>>],
              cache  |-> [d \in filter.motion |-> <<>>],
              grids  |-> [d \in filter.motion |-> <<>>]]

StageInit ==
    /\ scenario \in DOMAIN Scenarios
    /\ instance = [phase |-> "creating", owned |-> {}]
    /\ nodes = [n \in AllNodes |-> 0]
    /\ references = [n \in AllNodes |-> 0]
    /\ outputs = 0
    /\ context = [f \in Frames |-> Closed]
    /\ render = [t \in Threads |-> Idle]
    /\ data = [t \in Threads |-> EmptyData]

-----------------------------------------------------------------------------
(* Creation and end. *)

inputVars == <<scenario, references, outputs, context, render, data>>

TakeNode ==
    /\ instance.phase = "creating"
    /\ Cardinality(instance.owned) < Len(NodeOrder)
    /\ LET node == NodeOrder[Cardinality(instance.owned) + 1]
       IN  /\ nodes' = [nodes EXCEPT ![node] = @ + 1]
           /\ instance' = [instance EXCEPT !.owned = @ \cup {node}]
    /\ UNCHANGED inputVars

\* Mutant: the vector clips are not released.
FreedNodes_NoMotion(owned) ==
    [n \in AllNodes |-> nodes[n] - (IF n \in owned \ filter.motion THEN 1 ELSE 0)]
\* VNLBFree and VAggregateFree.
FreedNodes(owned) == [n \in AllNodes |-> nodes[n] - (IF n \in owned THEN 1 ELSE 0)]

\* A node that is missing, a format, vector clip or parameter that is refused.
RefuseCreation ==
    /\ instance.phase = "creating"
    /\ nodes' = FreedNodes(instance.owned)
    /\ instance' = [phase |-> "refused", owned |-> {}]
    /\ UNCHANGED inputVars

VectorsAccepted(d) ==
    LET a == filter.analysis[d]
    IN  AcceptedAnalysis(a) /\ FitsClip(a, filter.size, d = "mvbw")

\* From here the core owns the instance.
CreateFilter ==
    /\ instance.phase = "creating"
    /\ Cardinality(instance.owned) = Len(NodeOrder)
    /\ \A d \in filter.motion : VectorsAccepted(d)
    /\ ValidParameters(filter.p)
    /\ instance' = [instance EXCEPT !.phase = "live"]
    /\ UNCHANGED <<nodes, inputVars>>

\* The core frees a filter when none of its frames is in flight.
FreeFilter ==
    /\ instance.phase = "live"
    /\ \A f \in Frames : ~context[f].open
    /\ \A t \in Threads : render[t] = Idle
    /\ nodes' = FreedNodes(instance.owned)
    /\ instance' = [phase |-> "freed", owned |-> {}]
    /\ data' = [t \in Threads |-> EmptyData]
    /\ UNCHANGED <<scenario, references, outputs, context, render>>

-----------------------------------------------------------------------------
(* What a frame needs. *)

\* required_stage_frames
RequiredFrames(f) ==
    IF f > filter.p.frames - filter.p.pt THEN [first |-> 0, last |-> -1]
                                         ELSE AnchorSourceRange(filter.p, f)

\* Mutant: the reference clip's frames are not requested.
RequestedFrames_NoRef(f) ==
    IF filter.kind = "Aggregate"
    THEN {<<"src", f>>} \cup
         ({"clip"} \X (AggregateFirstAnchor(filter.p, f)..AggregateLastAnchor(filter.p, f)))
    ELSE ({"clip"} \cup filter.motion) \X (RequiredFrames(f).first..RequiredFrames(f).last)
\* request_stage_frames and request_aggregate_frames
RequestedFrames(f) ==
    IF filter.kind = "Aggregate"
    THEN {<<"src", f>>} \cup
         ({"clip"} \X (AggregateFirstAnchor(filter.p, f)..AggregateLastAnchor(filter.p, f)))
    ELSE ({"clip"} \cup (IF filter.kind = "Final" THEN {"ref"} ELSE {}) \cup filter.motion)
         \X (RequiredFrames(f).first..RequiredFrames(f).last)

\* The i-th frame a render of f takes; Out is the new output frame.
Out == <<"out", 0>>
TakenFrame(f, i) ==
    IF filter.kind = "Aggregate"
    THEN CASE i = 1 -> <<"src", f>>
           [] i = 2 -> Out
           [] OTHER -> <<"clip", AggregateFirstAnchor(filter.p, f) + i - 3>>
    ELSE IF i = 1 THEN Out
         ELSE <<NodeOrder[((i - 2) % Len(NodeOrder)) + 1],
                RequiredFrames(f).first + ((i - 2) \div Len(NodeOrder))>>
TakenCount(f) ==
    IF filter.kind = "Aggregate"
    THEN 2 + AggregateLastAnchor(filter.p, f) - AggregateFirstAnchor(filter.p, f) + 1
    ELSE 1 + Len(NodeOrder) * (RequiredFrames(f).last - RequiredFrames(f).first + 1)

-----------------------------------------------------------------------------
(* A render.  DataOf(t) is the thread data thread_data_for gives thread t. *)

\* Mutant: all threads share the first thread's buffers.
DataOf_Shared(t) == 1
DataOf(t) == t

Rendering(t) == render[t] # Idle
Done(t)      == render[t].taken = TakenCount(render[t].frame)

\* The render of f starts on t with empty lists.
Begin(t, f) ==
    /\ render' = [render EXCEPT ![t] = [frame |-> f, taken |-> 0, built |-> 0]]
    /\ data' = [data EXCEPT ![DataOf(t)].lists = EmptyData.lists]

\* arInitial: inputs are requested; a frame without inputs is rendered at once.
RequestFrames(f) ==
    /\ instance.phase = "live" /\ ~context[f].open
    /\ RequestedFrames(f) # {}
    /\ context' = [context EXCEPT ![f] = [open |-> TRUE, requested |-> RequestedFrames(f)]]
    /\ UNCHANGED <<scenario, instance, nodes, references, outputs, render, data>>

RenderWithoutInput(t, f) ==
    /\ instance.phase = "live" /\ ~context[f].open /\ ~Rendering(t)
    /\ RequestedFrames(f) = {}
    /\ Begin(t, f)
    /\ context' = [context EXCEPT ![f] = [open |-> TRUE, requested |-> {}]]
    /\ UNCHANGED <<scenario, instance, nodes, references, outputs>>

\* arAllFramesReady, on any thread.
RenderFrame(t, f) ==
    /\ context[f].requested # {}
    /\ ~Rendering(t) /\ \A u \in Threads : Rendering(u) => render[u].frame # f
    /\ Begin(t, f)
    /\ UNCHANGED <<scenario, instance, nodes, references, outputs, context>>

\* An input frame failed: the core reports an error and the filter does nothing.
InputFailed(f) ==
    /\ context[f].requested # {}
    /\ \A u \in Threads : Rendering(u) => render[u].frame # f
    /\ context' = [context EXCEPT ![f] = Closed]
    /\ UNCHANGED <<scenario, instance, nodes, references, outputs, render, data>>

\* Every way out of a render, with its buffers as it leaves them: the
\* destructors of the lists free their frames (FrameListGuard, FrameGuard), the
\* output frame is freed or given to the core.
Leave(t, own, out) ==
    /\ references' = [n \in AllNodes |-> references[n] - Len(own.lists[n])]
    /\ data' = [data EXCEPT ![DataOf(t)] = [own EXCEPT !.lists = EmptyData.lists]]
    /\ outputs' = outputs - out
    /\ context' = [context EXCEPT ![render[t].frame] = Closed]
    /\ render' = [render EXCEPT ![t] = Idle]
    /\ UNCHANGED <<scenario, instance, nodes>>

HasOutput(t) == render[t].taken >= (IF filter.kind = "Aggregate" THEN 2 ELSE 1)

Fail(t) == Leave(t, data[DataOf(t)], IF HasOutput(t) THEN 1 ELSE 0)

\* The next frame is created or fetched.
TakeFrame(t) ==
    /\ Rendering(t) /\ ~Done(t)
    /\ LET item == TakenFrame(render[t].frame, render[t].taken + 1)
       IN  IF item = Out
           THEN /\ outputs' = outputs + 1
                /\ UNCHANGED <<references, data>>
           ELSE /\ references' = [references EXCEPT ![item[1]] = @ + 1]
                /\ data' = [data EXCEPT ![DataOf(t)].lists[item[1]] = Append(@, item[2])]
                /\ UNCHANGED outputs
    /\ render' = [render EXCEPT ![t].taken = @ + 1]
    /\ UNCHANGED <<scenario, instance, nodes, context>>

\* There is no memory for the output frame, or the fetch returns no frame.
TakeFails(t) == Rendering(t) /\ ~Done(t) /\ Fail(t)

\* The stride of a plane is refused: of a frame just taken, in Aggregate once
\* all frames are taken.
StrideRefused(t) ==
    /\ Rendering(t) /\ render[t].taken > 0 /\ render[t].built = 0
    /\ IF filter.kind = "Aggregate" THEN Done(t)
       ELSE TakenFrame(render[t].frame, render[t].taken)[1] \notin filter.motion
    /\ Fail(t)

-----------------------------------------------------------------------------
(* The vector grids of the frames taken (build_mvtools_grid_window). *)

Pruned(cache, range) ==
    LET kept[i \in 0..Len(cache)] ==
          IF i = 0 THEN <<>>
          ELSE IF cache[i].frame \in range.first..range.last THEN Append(kept[i - 1], cache[i])
          ELSE kept[i - 1]
    IN  kept[Len(cache)]

Cached(cache, f) == \E i \in DOMAIN cache : cache[i].frame = f
FindCached(cache, f) ==
    Lowest({i \in DOMAIN cache : cache[i].frame = f})

SceneChange(d, f) == IF d = "mvbw" THEN f \in filter.cutNext ELSE f \in filter.cutPrevious

\* cache_mvtools_grid for the i-th frame of the window, filed under the
\* window's own count; what was parsed is named by the frame it came with.
GridEntry(d, lists, range, i) ==
    [frame |-> range.first + i - 1, from |-> lists[d][i],
     valid |-> /\ ParsedVectors(filter.vectors[d][lists[d][i]], filter.analysis[d]).valid
               /\ ~SceneChange(d, lists["clip"][i])]

\* The cache after as many frames of the window as can be parsed.
Extended(d, lists, range, cache) ==
    LET after[i \in 0..Len(lists[d])] ==
          IF i = 0 THEN [cache |-> cache, failed |-> FALSE]
          ELSE IF after[i - 1].failed \/ Cached(after[i - 1].cache, range.first + i - 1) THEN after[i - 1]
          ELSE IF Malformed(filter.vectors[d][lists[d][i]], filter.analysis[d])
          THEN [cache |-> after[i - 1].cache, failed |-> TRUE]
          ELSE [cache |-> Append(after[i - 1].cache, GridEntry(d, lists, range, i)), failed |-> FALSE]
    IN  after[Len(lists[d])]

\* Mutant: a grid is found by its place in the cache.
CurrentGrids_ByPlace(cache, range) == [i \in 1..(range.last - range.first + 1) |-> i]
CurrentGrids(cache, range) ==
    [i \in 1..(range.last - range.first + 1) |-> FindCached(cache, range.first + i - 1)]

\* The directions whose grids a render builds; none without input frames.
Built(t) == IF RequestedFrames(render[t].frame) = {} THEN <<>> ELSE Motion

BuildGrids(t) ==
    /\ Rendering(t) /\ Done(t) /\ render[t].built < Len(Built(t))
    /\ LET d      == Motion[render[t].built + 1]
           own    == data[DataOf(t)]
           range  == RequiredFrames(render[t].frame)
           result == Extended(d, own.lists, range, Pruned(own.cache[d], range))
           parsed == [own EXCEPT !.cache[d] = result.cache]
       IN  IF result.failed
           THEN Leave(t, parsed, 1)
           ELSE /\ data' = [data EXCEPT ![DataOf(t)] =
                              [parsed EXCEPT !.grids[d] = CurrentGrids(result.cache, range)]]
                /\ render' = [render EXCEPT ![t].built = @ + 1]
                /\ UNCHANGED <<scenario, instance, nodes, references, outputs, context>>

Ready(t) == Rendering(t) /\ Done(t) /\ render[t].built = Len(Built(t))

\* The frame is computed, or its computation throws.
Deliver(t) == Ready(t) /\ Leave(t, data[DataOf(t)], 1)
ComputeFails(t) == Ready(t) /\ Fail(t)

StageNext ==
    \/ TakeNode \/ RefuseCreation \/ CreateFilter \/ FreeFilter
    \/ \E f \in Frames : RequestFrames(f) \/ InputFailed(f)
    \/ \E t \in Threads, f \in Frames : RenderWithoutInput(t, f) \/ RenderFrame(t, f)
    \/ \E t \in Threads : \/ TakeFrame(t) \/ TakeFails(t) \/ StrideRefused(t)
                          \/ BuildGrids(t) \/ Deliver(t) \/ ComputeFails(t)

StageSpec == StageInit /\ [][StageNext]_stageVars

-----------------------------------------------------------------------------
(* Properties. *)

\* Which of the frames thread t has taken come from node n, or are Out.
TakenFrom(t, n) ==
    {i \in 1..(IF Rendering(t) THEN render[t].taken ELSE 0) :
        TakenFrame(render[t].frame, i)[1] = n}

\* The references that renders hold to frames of node n, by thread and place.
Holders(n) == UNION {{t} \X TakenFrom(t, n) : t \in Threads}

\* A frame reference exists exactly as long as the render that took it: none
\* is leaked by a render that fails midway, none is freed twice, whatever the
\* other threads do, and the same holds for output frames.
ReferencesEndWithTheirRender ==
    /\ \A n \in AllNodes : references[n] = Cardinality(Holders(n))
    /\ outputs = Cardinality(Holders("out"))

\* VapourSynth gives a filter only frames it requested: the two functions that
\* list a frame's inputs, when requesting and when rendering, agree.
FetchesWereRequested ==
    \A t \in Threads : Rendering(t) =>
        \A i \in 1..render[t].taken :
            TakenFrame(render[t].frame, i) \in context[render[t].frame].requested \cup {Out}

\* A creation that is refused at any argument, and a filter that is freed,
\* leave no node referenced; a live filter holds each argument node once.
NodesFreedOnce ==
    \A n \in AllNodes :
        nodes[n] = IF instance.phase \in {"refused", "freed"} THEN 0
                   ELSE IF instance.phase = "live" /\ n \in Range(NodeOrder) THEN 1
                   ELSE IF n \in instance.owned THEN 1 ELSE 0

UnusableGrid == [valid |-> FALSE, vectors |-> <<>>]

\* What the flow provider of a render finds for frame f in a direction.
GridOf(t, d, f) ==
    LET own   == data[DataOf(t)]
        local == f - RequiredFrames(render[t].frame).first + 1
    IN  IF d \in filter.motion /\ local \in DOMAIN own.grids[d]
           /\ own.grids[d][local] \in DOMAIN own.cache[d]
        THEN LET entry == own.cache[d][own.grids[d][local]]
             IN  [ParsedVectors(filter.vectors[d][entry.from], filter.analysis[d])
                    EXCEPT !.valid = entry.valid]
        ELSE UnusableGrid

\* The direction a search moves in, and the centre it is carried out around.
Towards(request) == IF request.candidate < request.frame THEN "mvfw" ELSE "mvbw"
CentreOf(t, request) ==
    LET Grid(f) == GridOf(t, Towards(request), f)
    IN  CenterFor(request, Grid)

\* The frame the motion leaves at step k, and whether its own vectors may be
\* followed: they are valid and no scene ends there.
Leaving(request, k) ==
    IF Towards(request) = "mvfw" THEN request.frame - (k - 1) ELSE request.frame + (k - 1)
Follows(d, f) ==
    /\ d \in filter.motion
    /\ filter.vectors[d][f].flag = 1
    /\ f \notin (IF d = "mvfw" THEN filter.cutPrevious ELSE filter.cutNext)

\* Where the clips' own vectors lead.
Reachable(request) ==
    LET d == Towards(request)
        centres[k \in 0..ChainLength(request)] ==
          IF k = 0 THEN {request.anchor}
          ELSE IF ~Follows(d, Leaving(request, k)) THEN centres[k - 1]
          ELSE UNION {StepsFrom(filter.analysis[d], Last(filter.vectors[d][Leaving(request, k)].levels),
                                point, request.patch, request.size) : point \in centres[k - 1]}
    IN  centres[ChainLength(request)]

\* However the thread's cache was left by earlier renders and failures, the
\* centre a render searches around is where the clips' own vectors lead, frame
\* by frame to the nearest block and pixel, across no scene change, and it
\* stays in the frame.
MotionIsOfItsOwnFrames ==
    \A t \in Threads : Ready(t) /\ Built(t) # <<>> =>
        LET f == render[t].frame
        IN  \A candidate \in SearchWindow(filter.p, f).low..SearchWindow(filter.p, f).high,
               anchor \in filter.anchors :
              LET request == [anchor |-> anchor, frame |-> f, candidate |-> candidate,
                              patch |-> filter.patch, size |-> filter.size]
              IN  CentreOf(t, request) \in Reachable(request)
=============================================================================
