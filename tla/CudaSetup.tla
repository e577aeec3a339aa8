------------------------------ MODULE CudaSetup -------------------------------
(***************************************************************************)
(* Creating a CUDA filter: initialize_cuda and create_filter of src/src/   *)
(* vs/cuda_plugin.cpp.  Device memory is measured, shared out among        *)
(* workers, source caches and the contribution cache, and allocated slot   *)
(* by slot, while other programs take and return memory of the same        *)
(* device.  Caches want more than they need and fall back to what they     *)
(* need; what cannot be had fails the creation, which returns everything.  *)
(*                                                                         *)
(* f is the filter asked for: its parameters as in FrameGeometry, with     *)
(* streams, the number of workers, and final, whether it has two sources.  *)
(* Once created it serves the requests of FrameRequests.                   *)
(***************************************************************************)
EXTENDS FrameRequests

CONSTANTS
    Totals,             \* bound: the sizes of device memory tried
    FrameBytes, ContributionBytes,
    WorkspaceBytes,     \* a worker's pipeline, output and tables
    Margin,             \* kDeviceMemoryMargin
    OthersBudget        \* bound: how often others take or return memory

\* num_streams is at least one; sizes are positive.
ASSUME SetupAssumption ==
    /\ \A f \in Filters : f.streams \in Nat \ {0} /\ f.final \in BOOLEAN
    /\ FrameBytes \in Nat \ {0} /\ ContributionBytes \in Nat \ {0}
    /\ WorkspaceBytes \in Nat
    /\ Totals \subseteq Nat /\ Margin \in Nat /\ OthersBudget \in Nat

VARIABLES
    pc,
    total,
    pointerTables,      \* use_pointer_tables
    desired, slots,     \* of the cache being allocated: slots wanted at first, and now
    workers,            \* workers allocated
    noisy, basic,       \* slots of the source caches
    contribution,       \* slots of the contribution cache
    others,             \* memory others hold
    othersLeft,
    squeezed            \* history: others took memory during the creation

heldVars  == <<workers, noisy, basic, contribution>>
planVars  == <<filter, total, pointerTables>>
setupVars == <<pc, filter, total, pointerTables, desired, slots, workers, noisy, basic,
               contribution, others, othersLeft, squeezed>>

-----------------------------------------------------------------------------
Clips(f)                == IF f.final THEN 2 ELSE 1
MinimumSource(f)        == MaxSourceWindow(f)
DesiredSource(f)        == Least(f.frames, MinimumSource(f) + f.streams - 1)
MinimumContributions(f) == MaxContributors(f)
DesiredContributions(f) ==
    Least(ValidAnchorFrames(f), MinimumContributions(f) + f.streams + f.bwd + f.fwd)

MinimumCacheBytes(f) == MinimumSource(f) * FrameBytes * Clips(f)
                        + MinimumContributions(f) * ContributionBytes
ContiguousBytes(f)   == MaxSourceWindow(f) * FrameBytes * Clips(f)
WorkerBytes          == WorkspaceBytes + (IF pointerTables THEN 0 ELSE ContiguousBytes(filter))

Used == workers * WorkerBytes + (noisy + basic) * FrameBytes + contribution * ContributionBytes
Free == total - others - Used

SetupInit ==
    /\ filter \in {f \in Filters : ValidParameters(f)} /\ total \in Totals
    /\ pc = "measure" /\ pointerTables = FALSE /\ desired = 0 /\ slots = 0
    /\ workers = 0 /\ noisy = 0 /\ basic = 0 /\ contribution = 0
    /\ others = 0 /\ othersLeft = OthersBudget /\ squeezed = FALSE

Goto(point) == pc' = point /\ UNCHANGED <<filter, total, others, othersLeft, squeezed>>

\* Contiguous windows are copied per worker; where the least working set with
\* them does not fit, frame tables are used instead.
ChooseLayout ==
    /\ pc = "measure"
    /\ pointerTables' = (\/ ~filter.final /\ filter.pt = 1
                         \/ MinimumCacheBytes(filter)
                            + filter.streams * ContiguousBytes(filter) + Margin > Free)
    /\ Goto("workers") /\ UNCHANGED <<desired, slots, heldVars>>

AllocateWorker ==
    /\ pc = "workers" /\ workers < filter.streams /\ WorkerBytes <= Free
    /\ workers' = workers + 1
    /\ Goto("workers") /\ UNCHANGED <<pointerTables, desired, slots, noisy, basic, contribution>>

PoolReady ==
    /\ pc = "workers" /\ workers = filter.streams
    /\ desired' = DesiredSource(filter) /\ slots' = DesiredSource(filter)
    /\ Goto("source") /\ UNCHANGED <<pointerTables, heldVars>>

-----------------------------------------------------------------------------
(* The source caches, noisy before basic, each slot by slot. *)

AllocateNoisySlot ==
    /\ pc = "source" /\ noisy < slots /\ FrameBytes <= Free
    /\ noisy' = noisy + 1
    /\ Goto("source") /\ UNCHANGED <<pointerTables, desired, slots, workers, basic, contribution>>

AllocateBasicSlot ==
    /\ pc = "source" /\ noisy >= slots
    /\ filter.final /\ basic < slots /\ FrameBytes <= Free
    /\ basic' = basic + 1
    /\ Goto("source") /\ UNCHANGED <<pointerTables, desired, slots, workers, noisy, contribution>>

\* The whole set is built again at its least size.
RebuiltNoisy == 0

ShrinkSourceCaches ==
    /\ pc = "source" /\ FrameBytes > Free
    /\ noisy < slots \/ (filter.final /\ basic < slots)
    /\ desired # MinimumSource(filter) /\ slots = desired
    /\ slots' = MinimumSource(filter) /\ noisy' = RebuiltNoisy /\ basic' = 0
    /\ Goto("source") /\ UNCHANGED <<pointerTables, desired, workers, contribution>>

SourceCachesReady ==
    /\ pc = "source" /\ noisy >= slots /\ (filter.final => basic >= slots)
    /\ Goto("share") /\ UNCHANGED <<pointerTables, desired, slots, heldVars>>

-----------------------------------------------------------------------------
(* The contribution cache gets its share of what is left. *)

Budget == IF Free > Margin THEN Free - Margin ELSE Free

\* Mutant: the margin is kept even if the least cache does not fit then.
Affordable_KeepsMargin == Budget \div ContributionBytes
\* The margin is given up where only that makes room for the least cache.
Affordable ==
    IF /\ Budget \div ContributionBytes < MinimumContributions(filter)
       /\ Free \div ContributionBytes >= MinimumContributions(filter)
    THEN MinimumContributions(filter)
    ELSE Budget \div ContributionBytes

\* Mutant: a cache is accepted that is smaller than the least one.
EnoughFor_Any(count) == count > 0
EnoughFor(count) == count >= MinimumContributions(filter)

CacheSlots == Least(DesiredContributions(filter), Affordable)

ShareMemory ==
    /\ pc = "share" /\ EnoughFor(CacheSlots)
    /\ desired' = CacheSlots /\ slots' = CacheSlots
    /\ Goto("contribution") /\ UNCHANGED <<pointerTables, heldVars>>

AllocateContributionSlot ==
    /\ pc = "contribution" /\ contribution < slots /\ ContributionBytes <= Free
    /\ contribution' = contribution + 1
    /\ Goto("contribution") /\ UNCHANGED <<pointerTables, desired, slots, workers, noisy, basic>>

ShrinkContributionCache ==
    /\ pc = "contribution" /\ contribution < slots /\ ContributionBytes > Free
    /\ desired # MinimumContributions(filter) /\ slots = desired
    /\ slots' = MinimumContributions(filter) /\ contribution' = 0
    /\ Goto("contribution") /\ UNCHANGED <<pointerTables, desired, workers, noisy, basic>>

CreateVideoFilter ==
    /\ pc = "contribution" /\ contribution = slots
    /\ Goto("ready") /\ UNCHANGED <<pointerTables, desired, slots, heldVars>>

-----------------------------------------------------------------------------
\* An allocation fails for which there is no smaller one.
OutOfMemory ==
    \/ pc = "workers" /\ workers < filter.streams /\ WorkerBytes > Free
    \/ /\ pc = "source" /\ FrameBytes > Free
       /\ noisy < slots \/ (filter.final /\ basic < slots)
       /\ desired = MinimumSource(filter) \/ slots # desired
    \/ pc = "share" /\ ~EnoughFor(CacheSlots)
    \/ /\ pc = "contribution" /\ contribution < slots /\ ContributionBytes > Free
       /\ desired = MinimumContributions(filter) \/ slots # desired

\* CudaFilterFree, after a failed creation or when the filter is destroyed.
FilterFree ==
    /\ OutOfMemory \/ pc = "ready"
    /\ workers' = 0 /\ noisy' = 0 /\ basic' = 0 /\ contribution' = 0
    /\ Goto(IF pc = "ready" THEN "freed" ELSE "failed")
    /\ UNCHANGED <<pointerTables, desired, slots>>

\* Other programs on the device (external).
OthersTake ==
    /\ othersLeft > 0 /\ Free > 0 /\ pc \notin {"failed", "freed"}
    /\ others' = others + 1 /\ othersLeft' = othersLeft - 1
    /\ squeezed' = TRUE
    /\ UNCHANGED <<pc, planVars, desired, slots, heldVars>>

OthersReturn ==
    /\ othersLeft > 0 /\ others > 0 /\ pc \notin {"failed", "freed"}
    /\ others' = others - 1 /\ othersLeft' = othersLeft - 1
    /\ UNCHANGED <<pc, planVars, desired, slots, heldVars, squeezed>>

Ended == pc \in {"failed", "freed"} /\ UNCHANGED setupVars

SetupNext ==
    \/ ChooseLayout \/ AllocateWorker \/ PoolReady
    \/ AllocateNoisySlot \/ AllocateBasicSlot \/ ShrinkSourceCaches \/ SourceCachesReady
    \/ ShareMemory \/ AllocateContributionSlot \/ ShrinkContributionCache
    \/ CreateVideoFilter \/ FilterFree \/ OthersTake \/ OthersReturn \/ Ended

SetupSpec == SetupInit /\ [][SetupNext]_setupVars

-----------------------------------------------------------------------------
\* A filter that was created can render every frame: each cache holds the
\* largest window a render leases.  This is what RenderFrames assumes.
CreatedCachesSuffice ==
    pc = "ready" =>
        /\ noisy >= MaxSourceWindow(filter)
        /\ filter.final => basic >= MaxSourceWindow(filter)
        /\ contribution >= MaxContributors(filter)
        /\ workers = filter.streams

\* "Final never leaves the noisy cache oversized at the expense of the required
\* basic cache."
SourceCachesMatch == pc = "ready" /\ filter.final => noisy = basic

\* A creation that nobody disturbs fails only for lack of memory: not if the
\* workers, the source caches as desired and the least contribution cache fit.
AmpleMemorySuffices ==
    pc = "failed" /\ ~squeezed =>
        total < filter.streams * WorkerBytes + DesiredSource(filter) * Clips(filter) * FrameBytes
                + MinimumContributions(filter) * ContributionBytes
=============================================================================
