# Verification of vapoursynth-vnlb

This directory models the parts of the VNLB plugin whose correctness depends on
order, sharing, failure and boundaries rather than on floating point: the CUDA
filter's frame cache, worker pool, renderer and start-up; the CPU filters with their
references and motion vectors; and, for both implementations side by side, the frame
and patch arithmetic, the search for similar patches, the paste mask and the
aggregation. TLC checks the models on
small instances; TLAPS proves the most important results for every value of the
constants. Paths below are relative to the repository (`src/cuda/frame_cache.cpp` is
`src/src/cuda/frame_cache.cpp` in `PROJECT.json`).

## 1. The system

VNLB (video non-local Bayes) denoises a frame by taking an *anchor patch*, finding
similar patches in a window of neighbouring frames, filtering the group, and adding the
result back with weights. A patch spans `patch_t` frames, so one output frame collects
contributions from several *anchor frames*. Two stages use the machinery: Basic
(noisy clip only) and Final (noisy clip and the Basic result).

There are two plugins. The CPU plugin computes contribution frames in one filter
(`vnlb.Basic`, `vnlb.Final`) and sums them in another (`vnlb.Aggregate`). The CUDA
plugin does both in one filter and therefore caches sources and contributions on the
device, shared by the threads VapourSynth renders with (`fmParallel`).

### Components

| Component | State | Operations | What makes it correct | Modelled in |
|---|---|---|---|---|
| Device frame cache (`cuda/frame_cache.*`) | slots with key, state, references, LRU stamp; clock; mutex and condition variable; a `Window` per lease | acquire, acquire_deferred, publish, wait_hits, wait_ready, abandon, release | one slot per key, one producer per load, exact counts, no lost wake-up, no wait cycle, LRU order, failed loads never read | `FrameCache`, `KeyedLease`, `FrameCacheImplements` |
| Worker pool (`vs/cuda_plugin.cpp` 1124-1200) | available flags, condition variable, leases | acquire, release | exclusive leases, no lost wake-up, every thread served | `WorkerPool` |
| CUDA renderer (`cuda_plugin.cpp` 1635-1865) | windows of up to three caches, a worker, its stream, the error being thrown | render_frame: upload, publish, compute, wait, normalise, synchronise, check, publish, release; clean-up on any exception | streams read what was leased, no two streams race, only sound frames are delivered or cached, failures stay local, every request ends | `RenderFrames` |
| Worker buffers (`cuda_plugin.cpp` 945-1110, 1291-1605, 1703-1863) | staging ring with events, pinned tables and grids, device tables and windows, solver status | upload_source_misses, frame tables or contiguous windows, compute_contribution, solver check | pinned memory untouched while copied from; each filter sees its own anchor; every group once; failures are the render's own | `WorkerBuffers` |
| CUDA filter creation (`cuda_plugin.cpp` 1866-2128) | device memory, workers, caches being built | initialize_cuda, create_filter, CudaFilterFree | a created filter can render every frame; creation fails only for lack of memory | `CudaSetup` |
| Frame ranges and reservations (`cuda_plugin.cpp` 700-860, `core/core.cpp` 873-896, `aggregate.hpp`, `vs/plugin.cpp` 940-954) | parameters, the frame asked for | derive_geometry, contributing_anchors, anchor_source_range, required_source_range, slots of contributions | windows fit what was sized at creation; writers and readers of contributions agree; both plugins agree | `FrameGeometry`, `FrameRequests` |
| Anchor grid (`cuda_plugin.cpp` 628-690, `core.cpp` 933-967) | geometry, grid of an anchor frame | build_anchor_grid, processing mask | fits its reservation, same patches as the CPU in the same order, covers the frame | `PatchGrid`, `AnchorGrid` |
| Paste mask (`cuda/pipeline.cu` 270-320, `core.cpp` 969-1010) | mask, active groups, barriers | apply_paste_mask_kernel, apply_frame_paste_mask | the block decides as the sequential CPU does | `PasteMask` |
| CPU stage filters (`vs/plugin.cpp`) | frame requests, references to nodes and frames, thread-local lists and motion vector cache | VNLBCreate, VNLBGetFrame, render_stage_frame, VNLBFree, and the same of vnlb.Aggregate | references freed once, only requested frames fetched, nodes freed once, caches hold their own frame's vectors | `StageFilter` |
| Motion vectors (`flow/flow.hpp`) | parsed vectors of a frame | parse_mvtools_vectors, nearest_vector, center_for | the nearest block, rounded to a pixel, chained across no scene change, inside the frame | `MotionVectors`, `StageFilter` |
| CPU patch search (`core/core.cpp` 898-1350) | list of matches, heap of distances | schedule, scan, record, select | the K nearest, then those within tau, at most the cap | `MatchWindows`, `PatchMatch` |
| CUDA block matcher (`cuda/block_match.cu`) | strategy, partial keys, distances | reserve, enqueue, seven kernels | the same group by every strategy and order of blocks | `MatchWindows`, `PatchMatch` |
| Aggregation: core (`core.cpp` 1587-1906, `aggregate/*`), vnlb.Aggregate (`plugin.cpp` 966-1045), kernels (`cuda/aggregation.cu`) | contributions: numerators and weights per slot, in three layouts | clear, write or scatter, pack, combine or normalise | every pixel is the weighted mean of the patches over it; nothing is written elsewhere | `Aggregation` |
| CUDA stage pipeline (`cuda/pipeline.cu`) | buffers between matcher, filter and aggregator | clear_contributions, enqueue, pack, normalize | order of kernels, mask, what each chunk passes on | `PasteMask`, `Aggregation`, `WorkerBuffers` (flat areas and re-reservation not) |
| Group filters, linear algebra | numeric buffers | covariance, eigenvectors, shrinkage | numerical | no (floating point) |

### How they interact

`render_frame` leases a worker from the pool, then a window of each source cache
(ordinary `acquire`: it waits while a wanted frame is being loaded by someone else),
uploads what it must load, records events and publishes *while the copies are still
queued*; others may then hit the slots and make their streams wait on the events. It
leases the contribution cache with `acquire_deferred`, which does not wait for loads of
others, computes its own loads, waits for its hits (`wait_hits`), normalises, waits for
the stream, checks the solver status, publishes its contributions and releases
everything in reverse order. On an exception it drains the stream, abandons and releases.
`FrameCache` and `WorkerPool` model the inside of these calls; `RenderFrames` composes
their effects with asynchronous streams; `WorkerBuffers` opens up the inside of one
worker; `CudaSetup` establishes the sizes `RenderFrames` assumes (`BuffersAssumption`);
`FrameGeometry` is the arithmetic all of them share.

Within `compute_contribution` each chunk of the anchor grid passes through the matcher
(`PatchMatch`), the paste mask (`PasteMask`), the group filter (not modelled) and the
scatter (`Aggregation`). The CPU does the same patch by patch: `StageFilter` is the filter
around it, `MotionVectors` gives the centres the search starts from, `Aggregation` has both
writers and both readers of contributions.

### What is hard

Host threads run many calls ahead of the streams; slots change owner on the host before
the device has got there; deferred hits make renders wait for each other while they hold
workers and slots; `notify` comes after the unlock; any call may throw; counters wrap;
windows are moved at both ends of the clip. The full list, line by line, is under
`hazards` in `PROJECT.json`.

## 2. Modules

| Module | Role |
|---|---|
| `FrameCache` | one action per critical section of `mutex_` and per step outside it |
| `KeyedLease` | abstract promise of the cache: keys are absent, loading or ready; windows are taken, committed and dropped whole |
| `FrameCacheImplements` | refinement mapping `FrameCache` -> `KeyedLease` |
| `FrameCache_proofs` | proofs about `FrameCache` and of the refinement |
| `FrameGeometry` | frame arithmetic as operators |
| `FrameRequests`, `FrameRequests_proofs` | a filter that is asked for frames in any order; proofs for all parameters |
| `PatchGrid`, `AnchorGrid` | patch origins of both implementations; a filter that builds grids |
| `PatchGrid_proofs` | proofs about `AnchorGrid` and `PasteMask`, for any geometry, block and kernel size |
| `WorkerPool` | pool |
| `RenderFrames`, `RenderFrames_proofs` | renderer, caches' critical sections and streams; proofs for any threads, workers and caches |
| `WorkerBuffers`, `WorkerBuffers_proofs` | one worker's buffers and stream; proofs for any clip, ring, grid and chunk size |
| `CudaSetup` | creation of a filter |
| `PasteMask` | the block of threads and the CPU side by side |
| `MatchWindows` | which candidates a search considers, in which order: the CPU's walk, the device's numbering, tiles |
| `PatchMatch` | the CPU's bounded list, then the CUDA matcher's reservation and kernels, for one anchor |
| `WorkerMatcher_proofs` | proofs about `WorkerPool`, for any threads and workers, and about `PatchMatch`, for any request and device |
| `MotionVectors` | what a vector clip carries, which of it is accepted, the search centre it leads to |
| `StageFilter`, `StageFilter_proofs` | a CPU filter as VapourSynth drives it, with threads, references, failures and cached vectors; proofs for any clip and number of threads |
| `Aggregation` | contributions in the layouts of both implementations, their writers and readers |
| `OutputFrames_proofs` | proofs about `CudaSetup`, for any filter and device, and about `Aggregation`, for any clip, layout and groups |
| `MC*` | small instances; `MCOutputFrames` composes `CudaSetup` with `FrameRequests` and holds the instances of `AnchorGrid` and `Aggregation` |

### Correspondence to the code

**FrameCache.** `key`, `state`, `references`, `stamp`, `clock` are `Slot` and `clock_`;
`bind`, `loads`, `published`, `abandoned` are the members of a `Window`; `pc` says
between which critical sections a thread is. `ClaimWait`, `ClaimOverflow`, `Claim` are the
outcomes of `claim`; `Claim` contains the LRU sort (`Bindings`), the renumbering of the
clock (`PreparedStamps`) and the reference check, because the code does all of it under
one lock. `std::sort` leaves the order of equal stamps open, so `Bindings` is a set.
`Publish`, `Abandon`, `Release` end in `NotifyAll`, a step of its own, since the code
notifies after the unlock. `RecordLoadEvents`/`RecordFails` precede `Publish`;
`WaitHits`/`WaitReady`, `Resolve`, `EnqueueWaits`/`EnqueueFails` are `wait_selected`.
Sleepers may wake spuriously. `recorded`, `waited`, `claims`, `claimedAt` are history:
which frame an event marks, which events a thread's stream waits on, and the order of
claims on a counter that never wraps. Statistics and snapshots are left out.

**WorkerPool.** `available` is the set of true flags, `lease` the index in each `Lease`.
`Release` is the critical section, `NotifyOne` the call after the unlock. A `Lease` can be
moved (1129-1140), but the program never moves one: `render_frame` initialises its only
`Lease` from `acquire()` (1639) and destroys it on the way out. Moves are not modelled, so
`LeasesAreExclusive` says nothing about a mistake in them.

**RenderFrames.** `pc[t]` walks through `render_frame`; `at[t]` counts the caches it is
claiming or releasing. A stream is a queue of operations `[waits, reads, writes]`;
`Execute` runs the head when its events have fired and writes `mem`, the frame a buffer
really holds and whether it is sound. Uploads, kernels and normalisation are one operation
each; what is copied and where within a worker is `WorkerBuffers`. Any call may fail
(`UploadFails`, `ComputeFails`, `CallFails`, `FetchFails`, `HitsLost`) and a solver may fail
while it runs. Deferred and ordinary claims, abandonment and release follow the cache's
critical sections; eviction order is left open beyond "empty slots first", which allows
more behaviours than LRU does. `tainted` and `disturbed` are history.

**WorkerBuffers.** `host` and `dev` map cells of pinned and device memory to what they hold
(a frame, a grid, a table). Which frames are missing from the caches is arbitrary.
`Filled` and `Work` are what the host writes to pinned memory and queues at each point of
the render, one turn of a loop at a time; `Issue` does both. A call may fail before
anything happened at its point, or after it filled its memory and queued any first part of
its work (`CallFails`); the event of a staging buffer then keeps its earlier position.
Fresh memory holds `Junk`. Stream semantics (copies and kernels in order, an event fires
when everything before it is done) are external and marked so in the map.

**CudaSetup.** One action per worker or cache slot; the several allocations of a worker are one
step, which succeeds or fails as a whole. `OthersTake` and `OthersReturn` change the free
memory between any two steps, as other programs do. `ShareMemory` is the computation of
the contribution cache from the measured memory, the margin included.

**FrameGeometry, PatchGrid.** Operators named as the functions. Integers are unbounded:
each addition or product in the code that could overflow goes through `checked_*` and
throws at creation.

**MatchWindows, PatchMatch.** `CpuScan` is the nesting of the temporal schedule with the
rows and columns of each window; `OriginOf` is the device's decoding of a candidate number.
`ScanCandidate` is one candidate of the scan with the early exit on the distance limit,
`RecordMatch` and `RecordDistance` the two lists, `CpuSelect` the final selection, a set
where `partial_sort` leaves ties open. `Reserve` chooses the strategy from the shape and
from what fits the device's shared memory, which is arbitrary. `MatchSelectGather`,
`ChunkMatchSelect`, `MatchDistance`, `SortAll`, `SelectedGather` and `SingleMatchGather`
are the kernels; the two that write partial results run block by block in any order. A
distance is a number given per origin; the two stages differ only in the clip they compare.
Sorting is defined by its result: an entry's place is how many come before it (`InOrder`).

**MotionVectors, StageFilter.** One action per call of the creation (`TakeNode` per
argument, `RefuseCreation`, `CreateFilter`), the request and each step of a render: begin,
one input frame at a time, grids, delivery. Each may fail, and `Leave` is what the
destructors release on any way out. `data` is the thread's `VNLBThreadData`, which
outlives renders and failures. An entry of the vector cache is the frame it was parsed
from and whether it counts as valid, so that a stale one is seen.

**Aggregation.** `memory` maps the cells of a contribution to numbers; every writer and
reader has its own address operator, as every loop of the code has its own index
expression. `Clear`, `WriteGroup`, `SkipGroup`, `Deliver` are `process_anchor_impl`;
`EnqueueChunk` and `Scatter` are the CUDA chunk, whose warps take its samples in any order.
One sample's atomic additions are one action: addition is exact here and commutes, so
splitting them further shows nothing. `AggregateFrame`, `AggregateStacks`,
`NormalizeMany`, `Normalize` and `Pack` followed by `ReadPacked` are the readers. A pixel
is the pair of numerator and weight. `Normalize` and `ReadPacked` read one contribution (`output.anchor`),
so `FramesAreWeightedMeans` compares what they return with that anchor's samples only. The
other readers (`EveryAnchor`) are compared with every anchor that touches the frame, however
many their own formulas list; `ContributionsFindTheirReader` and `FiltersAgreeOnAnchors` say
the same of the requests.

**PasteMask.** Thread 0 decides, all threads clear, two barriers per group; `cpuMask` and
`cpuDecided` advance by the CPU's formula at each decision. Matches are arbitrary lists
from a small set, of patches inside their frames (`MaskAssumption`; the matchers' windows end there).

## 3. Runs

| Run | Instance | States | What it shows |
|---|---|---|---|
| `cache` | 3 threads, 1 window each, 2 slots, 3 keys, 4 requests (one ill-formed), `MaxRefs` 2, `MaxStamp` 4 | 266k | the inductive invariant `CacheInv` (one producer per load, exact counts, awaited events), stamp order, wake-ups, no wait cycles, LRU eviction, pinned keys, refinement of `KeyedLease` |
| `cache_live` | 2 threads, 2 windows each | 236k | every thread finishes its windows |
| `output_frames` | creation: 24 filters, 12 memory sizes, two interventions of others; requests: clips up to 7 frames, patches up to 3, search up to 3 either side; grids: frames up to 7x6, patch up to 3, step up to 4, 5 anchor frames; aggregation: 10 clips of 3x3 pixels in four layouts | 59k | created filters suffice and ample memory suffices; windows, reservations, slots, agreement of both plugins; grid reservation, equality with the CPU mask, coverage; weighted means, no stray writes |
| `worker_pool` | 4 threads, 2 workers, 2 leases each | 17k | exclusivity, wake-ups, service |
| `render_minimum` | Basic stage, 3 threads, 2 workers, smallest caches, 1 fault | 453k | no stream reads or overwrites a wrong buffer, no unsound frame, local failures |
| `render_final` | Final stage, 2 threads, 2 workers, 1 fault | 71k | the same for two source caches claimed in order |
| `render_live` | Basic stage, smallest caches, deferred hits in both directions, 1 fault | 301k | every request ends |
| `worker_buffers` | 2 renders, ring of 2, chunks of 2 groups, 1 fault | 796k | staging, tables, chunks, solver status |
| `paste_mask` | 5x4 frame, 2 threads, chunks of 4 groups | 168k | same decisions as the CPU |
| `patch_match` | 7 shapes of 2 to 8 candidates, all distances of 2 or 3 values, groups of 1 to 3, caps of one and two groups or none, tau 0 and 1, every strategy | 642k | both walks list the same candidates; every strategy finds the best group; the CPU's list loses nothing |
| `tau_zero` | the same | | expected to fail: the manual's sentence on `tau=0.0` (section 5) |
| `stage_filter` | Basic, Final and Aggregate, clips of 3 to 5 frames, 1 or 2 threads | 21k | references and nodes balance, only requested frames are fetched, each search follows the motion of its own frames |

`output_frames` holds four questions in one run. A created filter goes on to serve requests;
the grid and the aggregation share no variable with it or with each other, so each of the
three is explored while the other two rest in one state, which loses no behaviour of any.

Each property is paired in `PROJECT.json` with a plausible bug (`*_Suffix` operators in the
modules, marked *Mutant*) under which the same run finds it violated.

### Bounds, and why they are enough

* `cache`: two slots and three keys make every two-key window fill the cache, so claims
  evict, wait for pinned victims and for loading keys; three threads give two sleepers at
  once and a chain of a producer, a deferred reader and a rival for the slot. `MaxStamp` is
  the smallest the assumption allows, so the clock renumbers within three claims; `MaxRefs`
  2 is reached by three readers of one key. `Budget` bounds the windows per thread;
  `cache_live` has a second window per thread instead of a third thread.
* `render_*`: output frames 1 and 2 share two sources and one contribution; the caches hold
  one window each (the least `initialize_cuda` accepts), so any other window must evict. In
  `render_minimum` the third thread inherits a worker and slots of another render.
  `render_live` uses a geometry in which each output needs an anchor the other may be
  computing. `MaxFaults` 1 puts one failure at any call or solver. Deadlock is not checked
  in `render_live`, where the temporal property says more; it is in the other runs.
* `worker_buffers`: three uploads through two staging buffers, two anchors with grids of
  different size, the larger with an incomplete last chunk; two renders, so what the first
  leaves behind meets the second. One stage only: Final repeats the same code per cache.
* `output_frames`, requests and grids: every combination of parameters in range, among them
  windows wider than the clip, steps wider than the frame and frames as small as a patch.
* `output_frames`, creation: memory from too small for one worker to ample, the margin crossed on the way.
* `paste_mask`: matches at borders, in other frames, and lists of odd length, so that one
  thread of the block is a sample behind the other.
* `output_frames`, aggregation: patches of 2x2 leave pixels of a 3x3 frame uncovered or cover
  them several times; clips of three or four frames move every search window, so samples
  fall on frames without a slot; groups switched off, retained tables longer than the
  group, a last chunk that is short, one to two channels, strides with padding. Values are
  not symmetric in any index, so that an exchanged one shows.
* `patch_match`: squares cut at both borders, wider than the frame, moved by motion, and
  windows moved in time; blocks that sort three keys (2304 in the code) make two
  candidates fit one block and eight need three tiles, split by rows, columns and frames.
  `SmallTasks`, `MinAverage` and `ManyMinAverage` stand for the thresholds of the automatic
  choice, of which each side is met. A distance takes two or three values, so ties occur
  at every rank. With six or eight candidates the cap is twice the group size or absent.
* `stage_filter`: chains of two steps, both directions, several levels of vectors,
  overlapping blocks, subpixels, invalid and malformed frames, scene changes on either
  side, a frame past the last anchor; two threads in the Final and Aggregate scenarios. Deadlock is not
  checked there because a freed filter stops.

Symmetry is used in `cache`, `render_minimum` and `render_final` (threads, slots, workers),
which check no liveness.

### Fairness

`FairSpec`, `FairPoolSpec` and `FairRenderSpec` assume weak fairness of each thread's next
step and of each stream. A thread that is not asleep is scheduled by the operating system,
mutexes are held for bounded sections only, and a CUDA stream whose head has its events
makes progress. A thread in a condition wait has *no* fair step: it moves only after a
notification (or a spurious wake-up, never assumed). Strong fairness is not assumed for
threads that compete for slots or workers: with bounded budgets the others stop in the end,
so the liveness results say "never stuck", not "no starvation under endless load".

## 4. Proofs

All proofs are checked by TLAPS to the last leaf, for arbitrary constants under the named
assumptions of the modules.

* `FrameCache_proofs!TypeCorrect`, `StampsCorrect`. `ClockInv`: types, the request of a
  claiming thread is valid, no stamp exceeds the clock, and stamps order slots as the
  unbounded history does. Inductive because a claim stamps above the clock after
  `PreparedClock`, and a renumbering keeps the order below it. `StampAssumption` (the
  counter holds twice the slot count) is what makes room after a renumbering. The clock,
  stamps and reference counts never leave their width.
* `CacheInvariant`, `CacheCorrect`, `ProducersExist`, `PinnedSlots`. `CacheInv` strengthens the safety
  properties with: windows are well formed at each `pc`, empty slots have no key, a bound
  slot has its key or none, published loads are ready, no slot has two loaders, every
  loading slot has one, and events mark the frames of ready slots. Reference counts are
  needed to know that a victim belongs to no window, one loader per slot to know that
  abandoning one window spoils no other's load. `ProducersExist` follows from the
  invariant; `PinnedSlots` is an action property: only a claim rebinds a slot, and it
  rebinds unreferenced ones. One lemma per action shows the invariant preserved.
* `FrameRequests_proofs!WindowsCorrect`, `ReservationsSuffice`, `ContributionsCorrect`,
  `FiltersAgree`: for every clip length, patch length and search radius, windows fit, slots
  match their readers and both plugins combine the same anchors, from lemmas on the search window (fixed size, inside the clip),
  its monotonicity in the anchor, and interval cardinalities.
* `WorkerMatcher_proofs!PoolIsExclusive`, `PoolWakesWaiters`: for any threads and number of
  workers. `NoLostWakeup` counts: while somebody sleeps, there are no more available workers
  than threads that are awake and asking or have still to notify. Each step moves the counts
  together (a release adds a worker and a notifier, a notification turns a sleeper into an
  asker), given `PoolInv`: types and exclusive leases.
* Also in `FrameCache_proofs`, from `CacheInv` alone or nearly so:
  `EvictsLeastRecent` (stamps order slots as the never-wrapping history of claims does, so
  the sort by stamp is a sort by recency); `WaitsHaveNoCycle` (a thread waits only for loads
  of windows claimed before its own, so in any set of waiting threads the one that claimed
  first waits for none of them); `WakeupsAreNotLost` (whoever sleeps while its condition
  holds has a notifier under way: publishing, abandoning and releasing make conditions
  true, a claim makes none true: each missing key of another request that it brings in costs
  that request a victim, which is counted by an injection); and
  `CacheImplementsLease`, the refinement of `KeyedLease` for the safety part of both: initial
  states map to initial states, and each action to the take, commit or drop of a whole
  window, or to a stutter.
* `OutputFrames_proofs!CreatedFiltersSuffice`: whatever memory others take, a filter that is
  created has caches for its largest windows, and Final's source caches match.
  `AmpleIsEnough`: a creation nobody disturbs fails only if the workers, the source caches
  as desired and the least contribution cache do not fit together. Its invariant `AmpleInv`
  says that with ample memory no step falls back, and that the share given to the
  contribution cache is paid for by what workers and source caches leave; it needs the
  rounding of the division by the size of a contribution, for products of variables.
* `RenderFrames_proofs!StreamsReadTheirFrames`, `StreamsDoNotRace`, `DeliveryIsSound`,
  `FailuresStayLocal`, for any threads, workers, caches, windows and faults. The invariant has four
  layers, each inductive relative to those before it. *Control*: types, one render per worker,
  when an exception is under way. *Windows*: what is leased at each point of `render_frame`,
  that a leased slot holds its key or was dropped, that a loading slot has one producer. *Streams*: a queued operation uses its own render's windows, a slot has at
  most one pending write, whoever reads the slot has that write before it, in its own queue or
  behind a wait for the slot's event, and a ready slot is written at most by what its
  event stands for.
  *Verdicts*: a render that used wrong data has failed or is about to find its solver's
  report; whatever makes a render fail (its own call, another render under way, a dropped hit) is recorded. The assumptions: the parameters are valid; VapourSynth asks for frames of the
  clip (`WantedAssumption`); each source clip has its own cache (`SourceCachesAssumption`;
  the code has one or two); no worker is the marker for none (`NoWorkerAssumption`); and the caches hold their
  largest window (`BuffersAssumption`), which `CreatedFiltersSuffice` and `ReservationsSuffice` give.
* `WorkerBuffers_proofs!CopiesKeepTheirSource`, `FiltersReadTheirOwn`,
  `EveryGroupIsFilteredOnce`, `FailuresAreOwn`, for every clip, window, ring of staging
  buffers, grid and chunk size, number of renders and of faults, with tables and with contiguous
  windows. Five layers again. *Control*: types, and which operations may be queued, all of them of the render
  under way. *Order*: each operation has a rank, the queue is sorted by it and bounded by the
  point the host has reached, so what the host fills next has no pending copy; a staging
  buffer's pending copy is no later than its event, except between a failure and the drain.
  *Arrival*: what a filter reads is in device memory or on its way in front of it, for slots,
  tables or the contiguous window, and grids; here the arithmetic of windows is used (an
  anchor's window lies in the union of the missing anchors' windows, at the base the code
  computes). *Count*: the chunks of a grid tile it, and groups processed and groups queued
  are together the groups of the anchors started, each once. *Verdict*: a group's status
  on the device says whether its solver failed in this render, or its clearing is still queued, and
  the copied status says so after the collection. `BuffersAssumption` states the ranges of
  the sizes; that a grid has at most `TotalGroups` groups is `GridsFit` below.
* `PatchGrid_proofs!GridsAreMasks`, `GridsFit`, `GridsCover`, for every geometry and every
  order in which frames are asked for. An axis lists the positions of the phase's residue
  between its ends (`AxisIsSequence`, from division with remainder), a row the origins of
  its axis, and the grid its rows in order. `Grid` is defined by recursion over rows. No
  induction theorem is used: a property of the levels of a stack of rows that held at the bottom and failed
  somewhere would fail first at some level (`FirstFailure`), and that the definition has a
  solution follows in the same way (`StackExists`). Phases agree modulo the step, so the
  grid is the CPU's mask; every frame's phase is one of those measured, so it fits.
* `PatchGrid_proofs!MasksAgree`, for every block and kernel size and any lists of matches
  inside frames (`MaskAssumption`). `MaskInv` says that threads are at most one barrier apart, the
  later one waiting there; that each clears its own residue of the matches, from its own
  position on; and that the device's mask is the CPU's but for what is still to clear in
  thread 0's turn. At a decision nothing is, which is what the two barriers are for.
* `StageFilter_proofs!ReferencesAreExact`, `FetchesAreRequested`, `NodesAreFreedOnce`, for
  every filter `ScenariosAssumption` allows. `StageInv` says: the nodes owned are the arguments
  read so far, each referenced once; only a live filter has frames in flight, each with what
  it requested, and renders run on different ones; a thread's lists are as long as what its
  render took; references are counted by the pairs of a thread and a place in its list
  (`Holders`). Taking a frame adds a pair, leaving a render removes the pairs of its
  thread, and the lists say how many. That the two functions that list a frame's inputs agree
  (`ItemIs`) is division with remainder by the number of nodes.
* `StageFilter_proofs!MotionIsOwn`, for every filter, anchor and vector clip
  `ClipsAssumption` allows. `MotionInv` adds to `StageInv`: a live filter accepted its
  vector clips; every entry in a thread's cache is what parsing the vectors of its frame
  gives, whichever render put it there; a list holds its node's frames in the order of the
  window; and while a render builds, each grid of the directions built so far is in the cache
  and of the frame it stands for. Pruning and extending a cache preserve the second part at
  every intermediate level, so a failure in between does too, and the last part follows when
  the grids are pointed at entries. Then `CentreIsReachable` follows the chain of
  `CenterFor`: each of its steps is a step the frame's own vectors allow, clamped to the
  frame. The recursive functions are unfolded by one fact, proved once (`StepsExist`,
  `StepByStep`): such a definition has a solution, and what its start has and a step keeps,
  every value has, for a first one without it would follow one with it.

* `OutputFrames_proofs!WritesInside`, `FramesAreMeans`, for every clip, patch, window, grid
  pitch, chunk size, view and list of groups `JobsAssumption` allows, all four layouts and both writers. The
  inductive invariant `Production` has three parts. *ProgressFits*: how far production is, and that the
  pending samples are samples of the anchor's own groups. *SumsHold*: the cells of a cleared
  contribution hold the sums over the samples written so far (`WrittenAt`), a chunk's pending
  samples not among them. *PackedHolds*: a packed contribution is the
  contribution of an anchor that is done. Four arguments carry it. Addresses: cells of different places
  differ in every layout, digit by digit (a quotient and a remainder determine a number), and
  each writer's and each reader's address is the same cell; so clearing covers exactly the
  cells of the contribution. Additions: whatever the nesting of a writer's loops, it adds one and the same set of (cell,
  sample) pairs, one per covered pixel and plane. Sums: the library's sum over a set has no usable theory, so
  that it has a solution, is unique, and adds over disjoint parts is proved from
  the smallest set on which it would not (`WellFoundedInduction` by a least counterexample, no induction
  theorem). Readers: the anchors each reader combines are those whose window touches the frame.
  `ContributionsHold` is that invariant together with `FramesAreWeightedMeans`. Assumed are positive Gaussian
  weights (exponentials of clamped logarithms in the code), patches that fit
  the frame, and a view whose weights lie behind its numerators.

* `WorkerMatcher_proofs!CandidatesAreTheWalk`, `CudaFindsTheBest`, `MatchersFindTheSame`,
  for every search `SearchesAssumption` allows (valid parameters, an odd window, counts that
  are ints, finite distances), every anchor in the frame, every displacement of the centers, every block capacity
  and set of thresholds, and any order of blocks. *The walk*: windows have their size inside
  the frame, the slots of the device are the frames of the CPU's schedule, and an id is a
  slot, a row and a column, by uniqueness of quotient and remainder; so the nested scans
  list the origins in the order of the ids, each once. *Sorting*: in a strict total order on
  a finite set, ranks are the places from 0 on, each once, so a sorted list depends only on
  the set of its keys, and an entry's place is how many keys precede it. *The CUDA matcher*
  (`CudaInv`): blocks that ran have written the best of their tile, or all keys of their
  tile at the places of the ids; tiles cover the candidates, each once, and their parts of
  the buffer are disjoint running sums. A key among the first `RetainedStride` of all is
  among as many of its own tile, so the merge begins as the full sort does, and both ways of
  counting give the size of the group. *The CPU* (`CpuInv`): a candidate that the bounded
  list has dropped is no nearer than all matches of a full list, or farther than tau and
  than the last of a full heap, and the heap never claims more near distances than were
  seen. Then the threshold among the kept matches is the threshold among all candidates
  (`ThresholdsAgree`), the selection is a set of the nearest of the same size, and two such
  sets differ only in equally distant members.

Constants that the `patch_match` run fixes (`Unlimited`, the capacity of a block, the
thresholds of the automatic choice) are arbitrary in these proofs.

Only model-checked: all liveness, with `ENABLED` in it, which is out of the prover's reach. Every
safety invariant of the runs is also a theorem.

## 5. Findings

`tau_zero`: the manual says "Set `tau=0.0` to keep only the nearest `group_size` patches"
(`README.md:99`). `select_similar_patches` (`core.cpp` 1217) keeps every match no farther
than the larger of tau and the distance of the last of the nearest `group_size`, so patches that tie with that one
stay in the group up to `ceil(group_size * cap_factor)`; the CUDA kernels do the same. The
sentence just before, "keeps any additional candidates whose distance is at or below
`max(kth_distance, tau)`", already implies so: the manual disagrees with itself, and the
code follows its earlier sentence. Ties
are the rule in flat areas and between identical frames.

Two accepted behaviours came up in `CudaSetup`: creation can fail although the least working set would fit, because source caches
that got their desired size are not shrunk for the contribution cache's sake (hence the
premise of `AmpleMemorySuffices`); and just above the margin the contribution cache may be
much smaller than just below it.

## 6. Abstractions to keep in mind

* Pixels, patches and weights are replaced by which frame, grid or status a buffer holds;
  in `Aggregation` they are integers and sums are exact, in `PatchMatch` only distances occur.
* In `PatchMatch` the cap factor is a whole number and the centers of all other frames are
  displaced by the same amount, inside the frame.
* Pixels that are NaN or infinite are excluded from `PatchMatch`: a comparison with NaN makes
  the order of candidates undefined.
* With `group_size` 1 the CPU takes the anchor without a search, while the CUDA matcher with a
  cap above one may add patches within tau; `MatchersAgree` says so by its premise.
* What a group's weight is worth is arbitrary in `Aggregation`; the logarithms it is computed
  from, of one or several models, are numerical.
* Memory allocation failures of the host (`std::bad_alloc`) count as failing calls where a
  call can throw, not inside the caches' critical sections.
* An event is the position in a stream at which it was recorded last.
* VapourSynth delivers requested frames or an error; its scheduling is arbitrary.

## 7. Not modelled

* The group filters and the linear algebra behind them (`cuda/group_filter.cu`, `linalg/*`,
  the filtering half of `core.cpp`): covariance, eigenvectors and shrinkage are numerical
  analysis. What reaches other parts from them is modelled: the solver's status
  (`WorkerBuffers`, `RenderFrames`), the active flags and the filtered samples (`Aggregation`).
* Reserving a matcher, filter or pipeline a second time and the checks of `enqueue` against
  the reservation: a worker reserves once, with the shape it later enqueues.
* Flat areas in `pipeline.cu` and `core.cpp`: a threshold on a variance.
* Host allocation failing inside `StageWorkspace::prepare` (`core.cpp` 2036-2072), which
  notes the new geometry before the buffers are resized; it needs memory to run out in the
  first render of a thread.
* Argument parsing beyond the ranges it guarantees and the clips it accepts; 32-bit overflow
  of motion vectors; SIMD and BLAS back-ends; build, packaging and test tools.

`PROJECT.json` lists each with its reason.

## 8. Plan

1. The compaction of active groups in `cuda/group_filter.cu`.
