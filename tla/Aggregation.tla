----------------------------- MODULE Aggregation -----------------------------
(***************************************************************************)
(* How filtered patches become output frames.  For every anchor frame an   *)
(* implementation keeps a contribution: weighted sums of the patches and   *)
(* sums of the weights, one slot per output frame it can touch.  An output *)
(* pixel is the quotient of what its anchors' contributions hold for it,   *)
(* or the source pixel when no patch covers it.                            *)
(*                                                                         *)
(* The CPU filters write contributions as frames of twice the height per   *)
(* slot, with the stride of the frame ("planes"), the tests of the core as *)
(* one array ("contiguous"); vnlb.Aggregate and aggregate_frame read them. *)
(* The CUDA plugin scatters chunks of groups with atomic additions into a  *)
(* cache slot ("device"; "strided" is a view of any strides), from which   *)
(* the kernels normalise, or which they pack into the layout of the CPU.   *)
(* Each writer and each reader computes addresses by its own formula.      *)
(*                                                                         *)
(* Values and weights are integers and addition exact, so the order of     *)
(* atomic additions shows only if it loses or doubles one.                 *)
(***************************************************************************)
EXTENDS FrameGeometry, FiniteSets, Sequences, Functions

CONSTANT Jobs           \* the clips and their filtered groups, a sequence

\* A match lies in the frame.  Weights are exponentials of clamped logarithms, so positive.
ValidSample(q, sample) ==
    /\ sample.x \in 0..(q.width - q.patch) /\ sample.y \in 0..(q.height - q.patch)
    /\ sample.frame \in 0..(q.p.frames - q.p.pt)
    /\ sample.weight \in Nat \ {0}
    /\ sample.values \in [1..(q.channels * (q.patch * q.patch * q.p.pt)) -> Int]

\* Patches fit the frame, a group retains no more than its table holds, and the
\* weights of a strided view are a buffer of their own, here behind the other.
ASSUME JobsAssumption ==
    \A k \in DOMAIN Jobs :
        LET q == Jobs[k]
        IN  /\ ValidParameters(q.p)
            /\ q.storage \in {"planes", "contiguous", "device", "strided"}
            /\ q.width \in Nat /\ q.height \in Nat /\ q.channels \in Nat \ {0}
            /\ q.patch \in Nat \ {0} /\ q.patch <= q.width /\ q.patch <= q.height
            /\ q.stride \in Nat /\ q.stride >= q.width
            /\ q.chunk \in Nat \ {0}
            /\ q.gaussian \in [1..(q.patch * q.patch) -> Nat \ {0}]
            /\ q.view \in [row : Nat, slot : Nat, channel : Nat, weightRow : Nat, weightSlot : Nat, weights : Nat]
            /\ q.view.weights >= q.channels * q.view.channel
            /\ \A a \in 0..(ValidAnchorFrames(q.p) - 1) :
                  /\ Len(q.groups[a]) \in Nat
                  /\ \A g \in 1..Len(q.groups[a]) :
                        LET group == q.groups[a][g]
                        IN  /\ Len(group.samples) \in Nat /\ group.retained \in 0..Len(group.samples)
                            /\ \A i \in 1..group.retained : ValidSample(q, group.samples[i])

VARIABLES
    job,                \* which of the jobs
    current,            \* the anchor frame being produced
    step,               \* its groups written, or -1 before it is cleared
    pending,            \* samples of the enqueued chunk not yet scattered
    memory,             \* per anchor: the cells of its contribution
    packed,             \* per anchor: its contribution in the CPU's layout
    output              \* the frame combined last

aggregationVars == <<job, current, step, pending, memory, packed, output>>

\* A definition rather than the constant itself: TLC evaluates it only once.
AllJobs == Jobs
j == AllJobs[job]

Slots    == ContributionSlots(j.p)
Pixels   == j.width * j.height
Channels == 0..(j.channels - 1)
Columns  == 0..(j.width - 1)
Rows     == 0..(j.height - 1)
OnDevice == j.storage \in {"device", "strided"}

\* The CPU keeps a contribution for every frame, empty when no patch starts there.
AnchorCount == IF OnDevice THEN ValidAnchorFrames(j.p) ELSE j.p.frames

GroupsOf(a) == IF a < ValidAnchorFrames(j.p) THEN j.groups[a] ELSE <<>>

-----------------------------------------------------------------------------
(* aggregate.hpp: the stack of slots.  A cell is <<plane, index>>. *)

PlanePixels == Pixels
SlotStride  == (j.channels + 1) * PlanePixels
ValueCount  == Slots * SlotStride

PlaneRow(s, y) == (s * 2 * j.height + y) * j.stride

ViewNumerator(s, c, x, y) ==
    IF j.storage = "planes" THEN <<c, PlaneRow(s, y) + x>>
    ELSE <<0, s * SlotStride + c * PlanePixels + y * j.width + x>>
ViewWeight(s, c, x, y) ==
    IF j.storage = "planes" THEN <<c, PlaneRow(s, j.height + y) + x>>
    ELSE <<0, s * SlotStride + j.channels * PlanePixels + y * j.width + x>>

\* Planes carry a weight each; the array has one plane of weights.
WeightPlanes == IF j.storage = "planes" THEN Channels ELSE {0}

\* clear_contributions: row by row in planes, at once in the array.
ClearedByCpu ==
    IF j.storage = "planes"
    THEN {<<c, PlaneRow(0, row) + x>> : c \in Channels, row \in 0..(Slots * 2 * j.height - 1), x \in Columns}
    ELSE {0} \X (0..(ValueCount - 1))

(* core.cpp: the rows of write_sample_contributions_coupled. *)

\* Mutant: the weights are added to the numerators' rows.
SampleWeight_NumeratorRow(s, c, x, y) ==
    IF j.storage = "planes" THEN <<c, (s * 2 * j.height + y) * j.stride + x>>
    ELSE <<0, s * SlotStride + y * j.width + x>>
SampleNumerator(s, c, x, y) ==
    IF j.storage = "planes" THEN <<c, (s * 2 * j.height + y) * j.stride + x>>
    ELSE <<0, s * SlotStride + c * PlanePixels + y * j.width + x>>
SampleWeight(s, c, x, y) ==
    IF j.storage = "planes" THEN <<c, (s * 2 * j.height + y + j.height) * j.stride + x>>
    ELSE <<0, s * SlotStride + j.channels * PlanePixels + y * j.width + x>>

-----------------------------------------------------------------------------
(* aggregation.cu: numerators, then weights, with strides. *)

NumeratorValues == j.channels * Slots * Pixels
WeightValues    == Slots * Pixels

\* make_contiguous_contribution_view, in the slot of the plugin's cache.
ContiguousView ==
    [row |-> j.width, slot |-> Pixels, channel |-> Pixels * Slots,
     weightRow |-> j.width, weightSlot |-> Pixels, weights |-> NumeratorValues]

View == IF j.storage = "device" THEN ContiguousView ELSE j.view

ValidShape ==
    /\ j.patch \in 1..j.width /\ j.patch <= j.height
    /\ j.p.bwd >= 0 /\ j.p.bwd < Slots
    /\ Slots >= j.p.bwd + j.p.pt

ValidView(v) ==
    /\ v.row >= j.width /\ v.weightRow >= j.width
    /\ v.slot >= v.row * j.height /\ v.channel >= v.slot * Slots
    /\ v.weightSlot >= v.weightRow * j.height

NumeratorOffset(s, c, x, y) == <<0, c * View.channel + s * View.slot + y * View.row + x>>
WeightOffset(s, x, y) == <<0, View.weights + s * View.weightSlot + y * View.weightRow + x>>

\* enqueue_clear: memsets when the view is contiguous, else by index.
ClearedByDevice ==
    IF View = [ContiguousView EXCEPT !.weights = View.weights]
    THEN {0} \X (0..(NumeratorValues - 1) \cup View.weights..(View.weights + WeightValues - 1))
    ELSE {NumeratorOffset((i \div Pixels) % Slots, (i \div Pixels) \div Slots,
                          (i % Pixels) % j.width, (i % Pixels) \div j.width) : i \in 0..(NumeratorValues - 1)}
         \cup {WeightOffset(i \div Pixels, (i % Pixels) % j.width, (i % Pixels) \div j.width) :
                  i \in 0..(WeightValues - 1)}

-----------------------------------------------------------------------------
(* Memory. *)

\* What a frame or a cache slot holds before it is cleared.
Junk == 7

\* The cells that belong to a contribution.
OwnCells ==
    LET places == (0..(Slots - 1)) \X Channels \X Columns \X Rows
    IN IF OnDevice
       THEN {NumeratorOffset(e[1], e[2], e[3], e[4]) : e \in places}
            \cup {WeightOffset(e[1], e[3], e[4]) : e \in places}
       ELSE {ViewNumerator(e[1], e[2], e[3], e[4]) : e \in places}
            \cup {ViewWeight(e[1], e[2], e[3], e[4]) : e \in places}

\* A cell outside them springs into being when it is written.
At(m, cell) == IF cell \in DOMAIN m THEN m[cell] ELSE Junk

Cleared(m, cells) == [cell \in DOMAIN m \cup cells |-> IF cell \in cells THEN 0 ELSE m[cell]]

\* Every entry is added, those to the same cell one after the other.
AddAll(m, entries) ==
    LET cells == {e.cell : e \in entries}
        amount == [e \in entries |-> e.amount]
    IN [cell \in DOMAIN m \cup cells |->
           At(m, cell) + (IF cell \in cells
                          THEN SumFunctionOnSet(amount, {e \in entries : e.cell = cell}) ELSE 0)]

-----------------------------------------------------------------------------
(* Samples: [x, y, frame, weight, values], values channel by channel. *)

PatchPosition(dx, dy, delta) == (delta * j.patch + dy) * j.patch + dx
PatchDim == j.patch * j.patch * j.p.pt
SampleValue(sample, c, dx, dy, delta) ==
    sample.values[c * PatchDim + PatchPosition(dx, dy, delta) + 1]

\* finalize_aggregation_weights; on the device the logarithms are zero.
PatchWeight(sample) == IF j.weighted THEN sample.weight ELSE 1

\* prepare_aggregation_window and Aggregator::reserve: by position in the patch.
WindowWeight(dx, dy) == IF j.windowed /\ j.patch > 1 THEN j.gaussian[dy * j.patch + dx + 1] ELSE 1

\* What one sample adds at the cells a writer computes, where it may.
Additions(a, sample, Allowed(_, _, _), Numerator(_, _, _, _), Weight(_, _, _, _), weightPlanes) ==
    LET Places == {e \in (0..(j.p.pt - 1)) \X (0..(j.patch - 1)) \X (0..(j.patch - 1)) :
                      Allowed(sample.frame + e[1] - a, sample.x + e[2], sample.y + e[3])}
        SlotOf(e) == SlotForOutput(j.p, a, sample.frame + e[1])
        Scale(e)  == PatchWeight(sample) * WindowWeight(e[2], e[3])
    IN {[cell |-> Numerator(SlotOf(e), c, sample.x + e[2], sample.y + e[3]), of |-> <<"numerator", c, e>>,
         amount |-> Scale(e) * SampleValue(sample, c, e[2], e[3], e[1])] : c \in Channels, e \in Places}
       \cup
       {[cell |-> Weight(SlotOf(e), c, sample.x + e[2], sample.y + e[3]), of |-> <<"weight", c, e>>,
         amount |-> Scale(e)] : c \in weightPlanes, e \in Places}

\* The CPU's matches lie in the frame; shifted windows reach frames without a slot.
CpuAllowed(offset, x, y) == offset + j.p.bwd >= 0 /\ offset + j.p.bwd < Slots

\* Mutant: late frames are not dropped.
ScatterAllowed_NoLast(offset, x, y) ==
    /\ offset + j.p.bwd >= 0
    /\ x \in Columns /\ y \in Rows
ScatterAllowed(offset, x, y) ==
    /\ offset + j.p.bwd \in 0..(Slots - 1)
    /\ x \in Columns /\ y \in Rows

GroupAdditions(a, sample)  == Additions(a, sample, CpuAllowed, ViewNumerator, ViewWeight, WeightPlanes)
SampleAdditions(a, sample) == Additions(a, sample, CpuAllowed, SampleNumerator, SampleWeight, WeightPlanes)
ScatterAdditions(a, sample) ==
    LET WeightCell(s, c, x, y) == WeightOffset(s, x, y)
    IN  Additions(a, sample, ScatterAllowed, NumeratorOffset, WeightCell, {0})

-----------------------------------------------------------------------------
(* Producing contributions. *)

NoFrame == [frame |-> -1]

AggregationInit ==
    /\ job \in DOMAIN AllJobs
    /\ current = 0 /\ step = -1 /\ pending = {}
    /\ memory = [a \in 0..(AnchorCount - 1) |-> [cell \in OwnCells |-> Junk]]
    /\ packed = <<>> /\ output = NoFrame

\* process_anchor_impl and compute_contribution begin with it.
Clear ==
    /\ current < AnchorCount /\ step = -1
    /\ OnDevice => ValidShape /\ ValidView(View)
    /\ step' = 0
    /\ memory' = [memory EXCEPT ![current] =
                    Cleared(@, IF OnDevice THEN ClearedByDevice ELSE ClearedByCpu)]
    /\ UNCHANGED <<job, current, pending, packed, output>>

NextGroup == GroupsOf(current)[step + 1]

\* The mask excludes the patch.
SkipGroup ==
    /\ ~OnDevice /\ current < AnchorCount
    /\ step \in 0..(Len(GroupsOf(current)) - 1) /\ ~NextGroup.active
    /\ step' = step + 1
    /\ UNCHANGED <<job, current, pending, memory, packed, output>>

\* write_group_contributions, or write_sample_contributions_coupled when the
\* filter left its samples patch by patch.
WriteGroup ==
    /\ ~OnDevice /\ current < AnchorCount
    /\ step \in 0..(Len(GroupsOf(current)) - 1) /\ NextGroup.active
    /\ LET after[i \in 0..NextGroup.retained] ==
               IF i = 0 THEN memory[current]
               ELSE AddAll(after[i - 1], IF NextGroup.sampleMajor
                                         THEN SampleAdditions(current, NextGroup.samples[i])
                                         ELSE GroupAdditions(current, NextGroup.samples[i]))
       IN memory' = [memory EXCEPT ![current] = after[NextGroup.retained]]
    /\ step' = step + 1
    /\ UNCHANGED <<job, current, pending, packed, output>>

\* retained_count: the table of a group has retained_stride entries.
RetainedCount(group) == Greatest(0, Least(group.retained, Len(group.samples)))

\* One chunk on the stream: its groups are matched, masked, filtered and then
\* scattered by a block each, its warps taking the samples.
EnqueueChunk ==
    /\ OnDevice /\ current < AnchorCount /\ pending = {}
    /\ step \in 0..(Len(GroupsOf(current)) - 1)
    /\ LET last == Least(step + j.chunk, Len(GroupsOf(current)))
           groups == {g \in (step + 1)..last : GroupsOf(current)[g].active}
       IN /\ pending' = UNION {{g} \X (1..RetainedCount(GroupsOf(current)[g])) : g \in groups}
          /\ step' = last
    /\ UNCHANGED <<job, current, memory, packed, output>>

\* scatter_direct_kernel: one sample of one group, by a warp.
Scatter(g, i) ==
    /\ <<g, i>> \in pending
    /\ pending' = pending \ {<<g, i>>}
    /\ memory' = [memory EXCEPT ![current] =
                    AddAll(@, ScatterAdditions(current, GroupsOf(current)[g].samples[i]))]
    /\ UNCHANGED <<job, current, step, packed, output>>

\* The contribution frame is returned, or its cache slot published.
Deliver ==
    /\ current < AnchorCount /\ step = Len(GroupsOf(current)) /\ pending = {}
    /\ current' = current + 1 /\ step' = -1
    /\ UNCHANGED <<job, pending, memory, packed, output>>

\* pack_kernel: per channel and slot the numerators, then the weights.
PackedCells(a) ==
    [i \in 0..(2 * NumeratorValues - 1) |->
        LET plane == i \div (2 * Pixels)
            pixel == i % Pixels
            s == plane % Slots
            x == pixel % j.width
            y == pixel \div j.width
        IN At(memory[a], IF i % (2 * Pixels) < Pixels
                         THEN NumeratorOffset(s, plane \div Slots, x, y)
                         ELSE WeightOffset(s, x, y))]
Pack(a) ==
    /\ OnDevice /\ current = AnchorCount
    /\ packed' = [anchor |-> a, cells |-> PackedCells(a)]
    /\ UNCHANGED <<job, current, step, pending, memory, output>>

-----------------------------------------------------------------------------
(* Combining them.  A pixel is <<numerator, weight>>, the source over one. *)

Quotient(numerator, weight, f, c, x, y) ==
    IF weight > 0 THEN <<numerator, weight>> ELSE <<j.source[<<f, c, x, y>>], 1>>

Samples == Channels \X Columns \X Rows

\* What a reader combines: one anchor's contribution, or those of every anchor.
EveryAnchor == -1

Combine(f, anchor, value) ==
    /\ current = AnchorCount
    /\ output' = [frame |-> f, anchor |-> anchor, value |-> value]
    /\ UNCHANGED <<job, current, step, pending, memory, packed>>

\* Numerators and weights of some anchors, added up.
Sum(anchors, numerator, weight, f, c, x, y) ==
    Quotient(SumFunctionOnSet(numerator, anchors), SumFunctionOnSet(weight, anchors), f, c, x, y)

\* render_aggregate_frame sums one plane of every frame, weights included.
AggregateAnchors(f) == AggregateFirstAnchor(j.p, f) .. AggregateLastAnchor(j.p, f)
AggregatedPixel(f, c, x, y) ==
    LET Base(a) == SlotForOutput(j.p, a, f) * 2 * j.height
        numerator == [a \in AggregateAnchors(f) |-> At(memory[a], <<c, (Base(a) + y) * j.stride + x>>)]
        weight    == [a \in AggregateAnchors(f) |-> At(memory[a], <<c, (Base(a) + j.height + y) * j.stride + x>>)]
    IN Sum(AggregateAnchors(f), numerator, weight, f, c, x, y)
AggregateFrame(f) ==
    /\ j.storage = "planes"
    /\ Combine(f, EveryAnchor, [e \in Samples |-> AggregatedPixel(f, e[1], e[2], e[3])])

\* aggregate_frame over all stacks, those without the frame passed over.
StacksWith(f) == {a \in 0..(AnchorCount - 1) : ContainsOutput(j.p, a, f)}
StackedPixel(f, c, x, y) ==
    LET weight    == [a \in StacksWith(f) |-> At(memory[a], ViewWeight(SlotForOutput(j.p, a, f), 0, x, y))]
        numerator == [a \in StacksWith(f) |-> At(memory[a], ViewNumerator(SlotForOutput(j.p, a, f), c, x, y))]
    IN Sum({a \in StacksWith(f) : weight[a] # 0}, numerator, weight, f, c, x, y)
AggregateStacks(f) ==
    ~OnDevice /\ Combine(f, EveryAnchor, [e \in Samples |-> StackedPixel(f, e[1], e[2], e[3])])

\* make_contribution_source: a slot of a contribution, where its planes begin.
Source(a, s) == [anchor |-> a, numerators |-> s * View.slot, weights |-> View.weights + s * View.weightSlot]

\* enqueue_normalize_many over the anchors the output frame asked for.
NormalizedPixel(f, c, x, y) ==
    LET Of(a) == Source(a, SlotForOutput(j.p, a, f))
        weight    == [a \in Anchors(j.p, f) |-> At(memory[a], <<0, Of(a).weights + y * View.weightRow + x>>)]
        numerator == [a \in Anchors(j.p, f) |->
                         At(memory[a], <<0, Of(a).numerators + c * View.channel + y * View.row + x>>)]
    IN Sum({a \in Anchors(j.p, f) : weight[a] # 0}, numerator, weight, f, c, x, y)
NormalizeMany(f) ==
    OnDevice /\ Combine(f, EveryAnchor, [e \in Samples |-> NormalizedPixel(f, e[1], e[2], e[3])])

\* normalize_kernel: the slot of one contribution.
SlotPixel(a, f, c, x, y) ==
    LET s == SlotForOutput(j.p, a, f)
    IN Quotient(At(memory[a], NumeratorOffset(s, c, x, y)), At(memory[a], WeightOffset(s, x, y)), f, c, x, y)
Normalize(a, f) ==
    /\ OnDevice /\ SlotForOutput(j.p, a, f) \in 0..(Slots - 1)
    /\ Combine(f, a, [e \in Samples |-> SlotPixel(a, f, e[1], e[2], e[3])])

\* A packed contribution read like a frame without padding.
PackedPixel(f, c, x, y) ==
    LET s == SlotForOutput(j.p, packed.anchor, f)
        Row(r) == ((c * Slots + s) * 2 * j.height + r) * j.width
    IN Quotient(packed.cells[Row(y) + x], packed.cells[Row(j.height + y) + x], f, c, x, y)
ReadPacked(f) ==
    /\ packed # <<>> /\ ContainsOutput(j.p, packed.anchor, f)
    /\ Combine(f, packed.anchor, [e \in Samples |-> PackedPixel(f, e[1], e[2], e[3])])

AggregationNext ==
    \/ Clear \/ SkipGroup \/ WriteGroup \/ EnqueueChunk \/ Deliver
    \/ \E e \in pending : Scatter(e[1], e[2])
    \/ \E a \in 0..(AnchorCount - 1) : Pack(a)
    \/ \E f \in 0..(j.p.frames - 1) :
          \/ AggregateFrame(f) \/ AggregateStacks(f)
          \/ NormalizeMany(f) \/ ReadPacked(f)
          \/ \E a \in 0..(AnchorCount - 1) : Normalize(a, f)

AggregationSpec == AggregationInit /\ [][AggregationNext]_aggregationVars

-----------------------------------------------------------------------------
(* The weighted mean of the patches over a pixel, from the groups alone. *)

\* The samples an anchor adds, as <<anchor, group, number>>.
AllOf(a) == UNION {{<<a, g, i>> : i \in 1..GroupsOf(a)[g].retained} :
                      g \in {h \in 1..Len(GroupsOf(a)) : GroupsOf(a)[h].active}}
SampleOf(e) == GroupsOf(e[1])[e[2]].samples[e[3]]

\* Those of some anchors that cover a pixel of frame f.
Covers(sample, f, x, y) ==
    /\ f \in sample.frame .. (sample.frame + j.p.pt - 1)
    /\ x \in sample.x .. (sample.x + j.patch - 1)
    /\ y \in sample.y .. (sample.y + j.patch - 1)
SamplesOn(anchors, f, x, y) ==
    {e \in UNION {AllOf(a) : a \in anchors} : Covers(SampleOf(e), f, x, y)}

Share(e, x, y) == PatchWeight(SampleOf(e)) * WindowWeight(x - SampleOf(e).x, y - SampleOf(e).y)
Value(e, f, c, x, y) ==
    Share(e, x, y) * SampleValue(SampleOf(e), c, x - SampleOf(e).x, y - SampleOf(e).y, f - SampleOf(e).frame)

Mean(anchors, f, c, x, y) ==
    LET samples == SamplesOn(anchors, f, x, y)
        value   == [e \in samples |-> Value(e, f, c, x, y)]
        share   == [e \in samples |-> Share(e, x, y)]
    IN IF samples = {} THEN <<j.source[<<f, c, x, y>>], 1>>
       ELSE <<SumFunctionOnSet(value, samples), SumFunctionOnSet(share, samples)>>

\* The anchors whose contribution has a part for frame f.
Touching(f) == {a \in 0..(ValidAnchorFrames(j.p) - 1) : f \in (a - j.p.bwd)..(a + j.p.fwd + j.p.pt - 1)}

\* Whoever wrote the contributions and whoever combines them, in whatever order
\* the warps add: every pixel of an output frame is the weighted mean of the
\* patches that cover it, or the source pixel when none does.  So the CPU and
\* the CUDA filters agree.
FramesAreWeightedMeans ==
    output.frame >= 0 =>
        LET anchors == IF output.anchor = EveryAnchor THEN Touching(output.frame)
                       ELSE {output.anchor} \cap Touching(output.frame)
        IN \A e \in DOMAIN output.value :
               output.value[e] = Mean(anchors, output.frame, e[1], e[2], e[3])

\* Clearing and adding touch no cell outside a contribution: not the padding of
\* a frame, not the memory behind a cache slot.
WritesStayInside == \A a \in DOMAIN memory : DOMAIN memory[a] = OwnCells
=============================================================================
