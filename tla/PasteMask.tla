------------------------------ MODULE PasteMask -------------------------------
(***************************************************************************)
(* The paste mask: a patch that was grouped with one already processed is  *)
(* not processed again.  The decisions depend on each other in the order   *)
(* of the anchors.  The CPU takes them one after the other                 *)
(* (process_anchor_impl and apply_frame_paste_mask in src/src/core/        *)
(* core.cpp); on the device the threads of one block clear the mask        *)
(* together and meet at two barriers per group (apply_paste_mask_kernel in *)
(* src/src/cuda/pipeline.cu), one kernel per chunk of groups.              *)
(*                                                                         *)
(* What is similar to an anchor is arbitrary: the matches of a group are   *)
(* chosen when the group is met.                                           *)
(***************************************************************************)
EXTENDS PatchGrid

CONSTANTS
    Geometry, Frame,    \* the frame geometry and the anchor frame
    BlockDim,           \* threads of the block
    ChunkGroups,        \* groups per kernel
    MatchLists          \* bound: the lists of matches tried, of records [x, y, frame]

\* The matchers only find patches inside a frame.
ASSUME MaskAssumption ==
    /\ ValidGeometry(Geometry) /\ Frame \in 0..(Geometry.anchors - 1)
    /\ BlockDim \in Nat \ {0} /\ ChunkGroups \in Nat \ {0}
    /\ MatchLists \subseteq
          Seq([x : 0..MaxX(Geometry), y : 0..MaxY(Geometry), frame : Nat])

grid == AnchorGrid(Geometry, Frame)
Threads == 0..(BlockDim - 1)

VARIABLES
    mask,       \* paste_mask: the origins not cleared
    matches,    \* of the group being processed
    pc, group,  \* per thread: where it is, and in which turn of its loop
    sample,     \* per thread: the match it clears next
    active,     \* group_active, shared by the block
    chunk,      \* first group of the chunk
    decided,    \* active_groups, of all chunks so far
    cpuMask,    \* processing_mask_ of the CPU at the same group
    cpuDecided  \* the groups the CPU processes

maskVars == <<mask, matches, pc, group, sample, active, chunk, decided, cpuMask, cpuDecided>>

ChunkEnd     == Min({chunk + ChunkGroups - 1, Len(grid)})
OriginWidth  == Geometry.width - Geometry.patch + 1
OriginHeight == Geometry.height - Geometry.patch + 1

-----------------------------------------------------------------------------
(* What a match clears. *)

When(condition, origin) == IF condition THEN {origin} ELSE {}
SourceWidth  == OriginWidth + Geometry.patch - 1
SourceHeight == OriginHeight + Geometry.patch - 1

\* The kernel, for a match inside the anchor frame.
ClearedBy(m) ==
    {<<m.x, m.y>>}
    \cup When(m.y > 2 * Geometry.patch, <<m.x, m.y - 1>>)
    \cup When(m.y < SourceHeight - 2 * Geometry.patch, <<m.x, m.y + 1>>)
    \cup When(m.x > 2 * Geometry.patch, <<m.x - 1, m.y>>)
    \cup When(m.x < SourceWidth - 2 * Geometry.patch, <<m.x + 1, m.y>>)

Inside(m) == /\ m.frame = Frame
             /\ m.x \in 0..(OriginWidth - 1) /\ m.y \in 0..(OriginHeight - 1)

\* clear_processing_mask_position and apply_frame_paste_mask.
CpuClears(list) ==
    {o \in (0..(Geometry.width - 1)) \X (0..(Geometry.height - 1)) :
        \E i \in DOMAIN list :
            LET m == list[i] IN
            /\ m.frame = Frame
            /\ \/ o = <<m.x, m.y>>
               \/ o = <<m.x, m.y - 1>> /\ m.y > 2 * Geometry.patch
               \/ o = <<m.x, m.y + 1>> /\ m.y < Geometry.height - 2 * Geometry.patch
               \/ o = <<m.x - 1, m.y>> /\ m.x > 2 * Geometry.patch
               \/ o = <<m.x + 1, m.y>> /\ m.x < Geometry.width - 2 * Geometry.patch}

-----------------------------------------------------------------------------
MaskInit ==
    /\ mask = (0..(OriginWidth - 1)) \X (0..(OriginHeight - 1))
    /\ cpuMask = ProcessingMask(Geometry, Frame)
    /\ matches = <<>> /\ chunk = 1 /\ active = FALSE
    /\ pc = [t \in Threads |-> "decide"] /\ group = [t \in Threads |-> 1]
    /\ sample = [t \in Threads |-> 1]
    /\ decided = <<>> /\ cpuDecided = <<>>

Goto(t, point) == pc' = [pc EXCEPT ![t] = point]

\* Thread 0 decides whether the group is processed; the matcher has found its
\* matches before the kernel.  The CPU decides for the same anchor.
Decide(t) ==
    /\ pc[t] = "decide" /\ t = 0
    /\ active' = (grid[group[t]] \in mask)
    /\ decided' = Append(decided, grid[group[t]] \in mask)
    /\ cpuDecided' = Append(cpuDecided, grid[group[t]] \in cpuMask)
    /\ \E list \in MatchLists :
          /\ matches' = list
          /\ cpuMask' = IF grid[group[t]] \in cpuMask THEN cpuMask \ CpuClears(list)
                        ELSE cpuMask
    /\ Goto(t, "decided")
    /\ UNCHANGED <<mask, group, sample, chunk>>

\* The other threads go straight to the barrier.
SkipDecision(t) ==
    /\ pc[t] = "decide" /\ t # 0
    /\ Goto(t, "decided")
    /\ UNCHANGED <<mask, matches, group, sample, active, chunk, decided, cpuMask, cpuDecided>>

\* How many barriers a thread has passed, and whether it is at the next one.
Passed(t)    == 2 * group[t] + (IF pc[t] \in {"test", "clear", "cleared"} THEN 1 ELSE 0)
AtBarrier(t) == pc[t] \in {"decided", "cleared"}
Arrived(u, t) == Passed(u) > Passed(t) \/ (Passed(u) = Passed(t) /\ AtBarrier(u))

\* Mutant: the first barrier is missing.
Gathered_SecondOnly(t) == pc[t] = "decided" \/ \A u \in Threads : Arrived(u, t)
\* A barrier opens when all threads of the block have come to it.
Gathered(t) == \A u \in Threads : Arrived(u, t)

\* __syncthreads() after the decision.
PassFirst(t) ==
    /\ pc[t] = "decided" /\ Gathered(t)
    /\ Goto(t, "test")
    /\ UNCHANGED <<mask, matches, group, sample, active, chunk, decided, cpuMask, cpuDecided>>

\* Every thread looks at group_active for itself.
Test(t) ==
    /\ pc[t] = "test"
    /\ sample' = [sample EXCEPT ![t] = t + 1]
    /\ Goto(t, IF active THEN "clear" ELSE "cleared")
    /\ UNCHANGED <<mask, matches, group, active, chunk, decided, cpuMask, cpuDecided>>

\* One match of the thread's share, every BlockDim-th.
ClearSample(t) ==
    /\ pc[t] = "clear" /\ sample[t] <= Len(matches)
    /\ mask' = IF Inside(matches[sample[t]]) THEN mask \ ClearedBy(matches[sample[t]]) ELSE mask
    /\ sample' = [sample EXCEPT ![t] = @ + BlockDim]
    /\ UNCHANGED <<pc, matches, group, active, chunk, decided, cpuMask, cpuDecided>>

ClearDone(t) ==
    /\ pc[t] = "clear" /\ sample[t] > Len(matches)
    /\ Goto(t, "cleared")
    /\ UNCHANGED <<mask, matches, group, sample, active, chunk, decided, cpuMask, cpuDecided>>

\* __syncthreads() at the end of the turn.
PassSecond(t) ==
    /\ pc[t] = "cleared" /\ Gathered(t)
    /\ group' = [group EXCEPT ![t] = @ + 1]
    /\ Goto(t, IF group[t] = ChunkEnd THEN "exit" ELSE "decide")
    /\ UNCHANGED <<mask, matches, sample, active, chunk, decided, cpuMask, cpuDecided>>

\* The next chunk is a new kernel, after this one in the stream; the mask stays.
LaunchKernel ==
    /\ \A t \in Threads : pc[t] = "exit"
    /\ ChunkEnd < Len(grid)
    /\ chunk' = ChunkEnd + 1
    /\ pc' = [t \in Threads |-> "decide"]
    /\ UNCHANGED <<mask, matches, group, sample, active, decided, cpuMask, cpuDecided>>

Ended ==
    /\ ChunkEnd = Len(grid) /\ \A t \in Threads : pc[t] = "exit"
    /\ UNCHANGED maskVars

Step(t) == \/ Decide(t) \/ SkipDecision(t) \/ PassFirst(t) \/ Test(t)
           \/ ClearSample(t) \/ ClearDone(t) \/ PassSecond(t)

MaskNext == (\E t \in Threads : Step(t)) \/ LaunchKernel \/ Ended
MaskSpec == MaskInit /\ [][MaskNext]_maskVars

-----------------------------------------------------------------------------

\* The block takes the decisions the CPU takes, for every split of the work
\* among its threads and of the grid into kernels.
SameGroupsAsCpu == decided = cpuDecided
=============================================================================
