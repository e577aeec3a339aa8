------------------------ MODULE OutputFrames_proofs -------------------------
(***************************************************************************)
(* The two components the run OutputFrames checks together, for every      *)
(* clip and every parameter.                                               *)
(*                                                                         *)
(* A CUDA filter that was created has caches as large as its renders need, *)
(* for every amount of device memory, and whatever other programs allocate *)
(* meanwhile.  Left alone, its creation fails only if what it wants does   *)
(* not fit.                                                                *)
(*                                                                         *)
(* Output frames are weighted means of the patches: whoever wrote the      *)
(* contributions, in whatever order, and whoever combines them.            *)
(***************************************************************************)
EXTENDS CudaSetup, Aggregation, FiniteSetTheorems, WellFoundedInduction, TLAPS

-----------------------------------------------------------------------------
(* Creating a filter. *)


Planned == {"source", "share", "contribution", "ready"}

\* The source caches are built towards slots, which is never below the least
\* size; afterwards they match and suffice.
SourceInv ==
    /\ pc \in Planned => workers = filter.streams
    /\ pc = "source" => /\ slots \in {desired, MinimumSource(filter)}
                        /\ desired = DesiredSource(filter)
                        /\ noisy <= slots /\ basic <= slots
    /\ pc \in Planned \ {"source"} => /\ noisy >= MinimumSource(filter)
                                      /\ filter.final => basic = noisy

\* So is the contribution cache, towards the share it was given.
ContributionInv ==
    /\ pc = "contribution" => /\ slots \in {desired, MinimumContributions(filter)}
                              /\ desired >= MinimumContributions(filter)
                              /\ contribution <= slots
    /\ pc = "ready" => contribution >= MinimumContributions(filter)

Ranges ==
    /\ filter \in Filters /\ ValidParameters(filter)
    /\ workers \in Nat /\ noisy \in Nat /\ basic \in Nat /\ contribution \in Nat
    /\ slots \in Int /\ desired \in Int
    /\ pc \in {"measure", "workers", "failed", "freed"} \cup Planned
    /\ pc \in {"measure", "workers"} => noisy = 0 /\ basic = 0
    /\ pc \in {"measure", "workers", "source", "share"} => contribution = 0
    /\ pc \in {"measure", "workers"} => workers <= filter.streams
    /\ total \in Int /\ others \in Int

SetupInv == Ranges /\ SourceInv /\ ContributionInv

\* What a filter needs and wants are numbers, and it wants at least its need.
LEMMA Needs ==
  ASSUME NEW f \in Filters, ValidParameters(f)
  PROVE  /\ MinimumSource(f) \in Nat /\ DesiredSource(f) \in Nat
         /\ MinimumSource(f) <= DesiredSource(f)
         /\ MinimumContributions(f) \in Nat /\ DesiredContributions(f) \in Int
BY SetupAssumption DEF ValidParameters, MinimumSource, DesiredSource, MaxSourceWindow,
   MinimumContributions, DesiredContributions, MaxContributors, ValidAnchorFrames,
   ContributionSlots, Least

\* What is free is a number, negative when more is taken than there is.
LEMMA FreeIsNumber ==
  ASSUME Ranges
  PROVE  Free \in Int
<1> USE SetupAssumption DEF Ranges
<1>1. ContiguousBytes(filter) \in Int
  <2>1. MaxSourceWindow(filter) \in Int /\ Clips(filter) \in Int
    BY DEF ValidParameters, MaxSourceWindow, Least, Clips
  <2>2. MaxSourceWindow(filter) * FrameBytes \in Int
    BY <2>1
  <2> QED BY <2>1, <2>2 DEF ContiguousBytes
<1>2. WorkerBytes \in Int
  BY <1>1 DEF WorkerBytes
<1>3. /\ workers * WorkerBytes \in Int /\ (noisy + basic) * FrameBytes \in Int
      /\ contribution * ContributionBytes \in Int
  BY <1>2
<1> QED BY <1>3 DEF Free, Used

\* The inductive step: one allocation, one measurement, or others' doing.
LEMMA SetupStep == SetupInv /\ [SetupNext]_setupVars => SetupInv'
<1> SUFFICES ASSUME SetupInv, [SetupNext]_setupVars PROVE SetupInv'
  OBVIOUS
<1> USE DEF SetupInv, Ranges, SourceInv, ContributionInv, Planned, Goto, heldVars
<1> USE SetupAssumption
<1>n. /\ MinimumSource(filter) \in Nat /\ DesiredSource(filter) \in Nat
      /\ MinimumSource(filter) <= DesiredSource(filter)
      /\ MinimumContributions(filter) \in Nat /\ DesiredContributions(filter) \in Int
  BY Needs
<1>1. CASE ChooseLayout
  BY <1>1 DEF ChooseLayout
<1>2. CASE AllocateWorker
  BY <1>2 DEF AllocateWorker
<1>3. CASE PoolReady
  BY <1>3, <1>n DEF PoolReady
<1>4. CASE AllocateNoisySlot
  BY <1>4, <1>n DEF AllocateNoisySlot
<1>5. CASE AllocateBasicSlot
  BY <1>5, <1>n DEF AllocateBasicSlot
<1>6. CASE ShrinkSourceCaches
  BY <1>6, <1>n DEF ShrinkSourceCaches, RebuiltNoisy
<1>7. CASE SourceCachesReady
  BY <1>7, <1>n DEF SourceCachesReady
<1>8. CASE ShareMemory
  <2>1. CacheSlots \in Int
    BY <1>n, FreeIsNumber DEF CacheSlots, Affordable, Budget, Least
  <2> QED BY <1>8, <1>n, <2>1 DEF ShareMemory, EnoughFor
<1>9. CASE AllocateContributionSlot
  BY <1>9, <1>n DEF AllocateContributionSlot
<1>10. CASE ShrinkContributionCache
  BY <1>10, <1>n DEF ShrinkContributionCache
<1>11. CASE CreateVideoFilter
  BY <1>11, <1>n DEF CreateVideoFilter
<1>12. CASE FilterFree
  BY <1>12, <1>n DEF FilterFree
<1>13. CASE OthersTake
  BY <1>13 DEF OthersTake, planVars
<1>14. CASE OthersReturn
  BY <1>14 DEF OthersReturn, planVars
<1>15. CASE UNCHANGED setupVars
  BY <1>15 DEF setupVars
<1> QED
  BY <1>1, <1>2, <1>3, <1>4, <1>5, <1>6, <1>7, <1>8, <1>9, <1>10, <1>11, <1>12, <1>13,
     <1>14, <1>15 DEF SetupNext, Ended

\* Whatever memory others take, the caches grow as planned.
LEMMA SetupInvariant == SetupSpec => []SetupInv
<1>1. SetupInit => SetupInv
  BY SetupAssumption DEF SetupInit, SetupInv, Ranges, SourceInv, ContributionInv, Planned
<1> QED BY <1>1, SetupStep, PTL DEF SetupSpec

\* Every cache of a created filter holds the largest window a render leases,
\* and the two source caches of a Final filter are of one size: the fallbacks
\* never settle for less, and the set is rebuilt as a whole.
THEOREM CreatedFiltersSuffice == SetupSpec => [](CreatedCachesSuffice /\ SourceCachesMatch)
<1>1. SetupInv => CreatedCachesSuffice /\ SourceCachesMatch
  BY DEF SetupInv, Ranges, SourceInv, ContributionInv, Planned, CreatedCachesSuffice,
     SourceCachesMatch, MinimumSource, MinimumContributions
<1> QED BY <1>1, SetupInvariant, PTL

-----------------------------------------------------------------------------
(* Enough memory, left alone, is enough. *)

Needed == filter.streams * WorkerBytes + DesiredSource(filter) * Clips(filter) * FrameBytes
          + MinimumContributions(filter) * ContributionBytes
Ample  == ~squeezed /\ total >= Needed

\* What is left once workers and source caches are allocated.
LeftOver == total - filter.streams * WorkerBytes - (noisy + basic) * FrameBytes

\* With ample memory nothing falls back: the source caches grow to the size
\* they want and leave room for the share the contribution cache is given.
AmpleInv ==
    /\ others \in Nat /\ (others > 0 => squeezed)
    /\ Ample => /\ pc # "failed"
                /\ pc = "source" => slots = desired
                /\ pc \in Planned => /\ noisy <= DesiredSource(filter)
                                     /\ basic <= DesiredSource(filter)
                                     /\ ~filter.final => basic = 0
                /\ pc = "contribution" => slots = desired /\ slots * ContributionBytes <= LeftOver

\* A product grows with its factor.
LEMMA Scale ==
  ASSUME NEW a \in Int, NEW b \in Int, NEW k \in Nat, a <= b
  PROVE  a * k <= b * k
OBVIOUS

\* Division rounds down.
LEMMA FloorDivides ==
  ASSUME NEW a \in Int, NEW b \in Int, NEW k \in Nat \ {0}
  PROVE  /\ a \div k \in Int /\ (a \div k) * k <= a
         /\ b * k <= a => b <= a \div k
<1>1. /\ a \div k \in Int /\ a % k \in 0..(k - 1) /\ a = k * (a \div k) + (a % k)
  OBVIOUS
<1>2. PICK q \in Int, r \in 0..(k - 1) : q = a \div k /\ a = k * q + r
  BY <1>1
<1>3. k * q = q * k
  OBVIOUS
<1>4. ASSUME b * k <= a, q < b PROVE FALSE
  <2>1. q + 1 <= b
    BY <1>4
  <2>2. (q + 1) * k <= b * k
    BY <2>1, Scale
  <2>3. (q + 1) * k = q * k + k
    OBVIOUS
  <2> QED BY <1>2, <1>3, <1>4, <2>2, <2>3
<1> QED BY <1>1, <1>2, <1>3, <1>4

\* The sizes are numbers, and those of the plan non-negative.
LEMMA Sizes ==
  ASSUME Ranges
  PROVE  /\ WorkerBytes \in Nat /\ filter.streams \in Nat \ {0}
         /\ filter.streams * WorkerBytes \in Nat /\ workers * WorkerBytes \in Nat
         /\ (noisy + basic) * FrameBytes \in Nat /\ contribution * ContributionBytes \in Nat
         /\ MinimumContributions(filter) * ContributionBytes \in Nat
         /\ Clips(filter) = IF filter.final THEN 2 ELSE 1
         /\ DesiredSource(filter) * Clips(filter) \in Nat
         /\ DesiredSource(filter) * Clips(filter) * FrameBytes \in Nat
         /\ Needed \in Nat /\ LeftOver \in Int
         /\ Free = total - others - workers * WorkerBytes - (noisy + basic) * FrameBytes
                   - contribution * ContributionBytes
<1> USE SetupAssumption DEF Ranges
<1>1. MaxSourceWindow(filter) \in Nat /\ Clips(filter) \in {1, 2}
  BY DEF ValidParameters, MaxSourceWindow, Least, Clips
<1>2. MaxSourceWindow(filter) * FrameBytes \in Nat
  BY <1>1
<1>3. ContiguousBytes(filter) \in Nat
  BY <1>1, <1>2 DEF ContiguousBytes
<1>4. WorkerBytes \in Nat /\ filter.streams \in Nat \ {0}
  BY <1>3 DEF WorkerBytes
<1>5. /\ filter.streams * WorkerBytes \in Nat /\ workers * WorkerBytes \in Nat
      /\ (noisy + basic) * FrameBytes \in Nat /\ contribution * ContributionBytes \in Nat
  BY <1>4
<1>6. DesiredSource(filter) \in Nat /\ MinimumContributions(filter) \in Nat
  BY Needs
<1>7. MinimumContributions(filter) * ContributionBytes \in Nat /\ DesiredSource(filter) * Clips(filter) \in Nat
  BY <1>1, <1>6
<1>8. DesiredSource(filter) * Clips(filter) * FrameBytes \in Nat
  BY <1>7
<1> QED BY <1>4, <1>5, <1>7, <1>8 DEF Needed, LeftOver, Free, Used, Clips

\* With ample memory every allocation succeeds that the plan asks for.
LEMMA AmpleRoom ==
  ASSUME SetupInv, AmpleInv, Ample
  PROVE  /\ pc = "workers" /\ workers < filter.streams => WorkerBytes <= Free
         /\ pc = "source" /\ (noisy < slots \/ (filter.final /\ basic < slots)) => FrameBytes <= Free
         /\ pc = "share" => /\ Free = LeftOver /\ EnoughFor(CacheSlots) /\ CacheSlots \in Int
                            /\ CacheSlots * ContributionBytes <= LeftOver
         /\ pc = "contribution" /\ contribution < slots => ContributionBytes <= Free
<1> USE SetupAssumption
<1>1. Ranges /\ SourceInv /\ ContributionInv /\ others = 0 /\ total >= Needed
  BY DEF SetupInv, AmpleInv, Ample
<1>2. /\ WorkerBytes \in Nat /\ filter.streams \in Nat \ {0}
      /\ filter.streams * WorkerBytes \in Nat /\ workers * WorkerBytes \in Nat
      /\ (noisy + basic) * FrameBytes \in Nat /\ contribution * ContributionBytes \in Nat
      /\ MinimumContributions(filter) * ContributionBytes \in Nat
      /\ Clips(filter) = IF filter.final THEN 2 ELSE 1
      /\ DesiredSource(filter) * Clips(filter) \in Nat
      /\ DesiredSource(filter) * Clips(filter) * FrameBytes \in Nat
      /\ Needed \in Nat /\ LeftOver \in Int
      /\ Free = total - others - workers * WorkerBytes - (noisy + basic) * FrameBytes
                - contribution * ContributionBytes
  BY <1>1, Sizes
<1>3. /\ workers \in Nat /\ noisy \in Nat /\ basic \in Nat /\ contribution \in Nat /\ total \in Int
      /\ slots \in Int /\ desired \in Int
  BY <1>1 DEF Ranges
<1>4. /\ MinimumSource(filter) \in Nat /\ DesiredSource(filter) \in Nat
      /\ MinimumContributions(filter) \in Nat /\ DesiredContributions(filter) \in Int
      /\ MinimumContributions(filter) <= DesiredContributions(filter)
  <2>1. filter \in Filters /\ ValidParameters(filter)
    BY <1>1 DEF Ranges
  <2>2. MinimumContributions(filter) <= DesiredContributions(filter)
    BY <2>1 DEF ValidParameters, MinimumContributions, DesiredContributions, MaxContributors,
                ValidAnchorFrames, ContributionSlots, Least
  <2> QED BY <2>1, <2>2, Needs
<1>5. Needed = filter.streams * WorkerBytes + DesiredSource(filter) * Clips(filter) * FrameBytes
               + MinimumContributions(filter) * ContributionBytes
  BY DEF Needed
<1>6. ASSUME pc = "workers", workers < filter.streams PROVE WorkerBytes <= Free
  <2>1. noisy = 0 /\ basic = 0 /\ contribution = 0 /\ workers + 1 <= filter.streams
    BY <1>1, <1>2, <1>3, <1>6 DEF Ranges
  <2>2. (workers + 1) * WorkerBytes <= filter.streams * WorkerBytes
    BY <1>2, <1>3, <2>1, Scale
  <2>3. (workers + 1) * WorkerBytes = workers * WorkerBytes + WorkerBytes
    BY <1>2, <1>3
  <2>4. (noisy + basic) * FrameBytes = 0 /\ contribution * ContributionBytes = 0
    BY <2>1
  <2> QED BY <1>1, <1>2, <1>3, <1>5, <2>2, <2>3, <2>4
<1>7. ASSUME pc \in Planned PROVE workers = filter.streams /\ noisy + basic <= DesiredSource(filter) * Clips(filter)
  <2>1. /\ noisy <= DesiredSource(filter) /\ basic <= DesiredSource(filter)
        /\ ~filter.final => basic = 0
    BY <1>7 DEF AmpleInv
  <2> QED BY <1>1, <1>2, <1>3, <1>4, <1>7, <2>1 DEF SourceInv
<1>8. ASSUME pc = "source", noisy < slots \/ (filter.final /\ basic < slots) PROVE FrameBytes <= Free
  <2>1. /\ noisy <= DesiredSource(filter) /\ basic <= DesiredSource(filter) /\ slots = DesiredSource(filter)
        /\ ~filter.final => basic = 0
    BY <1>1, <1>8 DEF AmpleInv, SourceInv, Planned
  <2>2. noisy + basic + 1 <= DesiredSource(filter) * Clips(filter)
    BY <1>2, <1>3, <1>4, <1>8, <2>1
  <2>3. (noisy + basic + 1) * FrameBytes <= DesiredSource(filter) * Clips(filter) * FrameBytes
    BY <1>2, <1>3, <2>2, Scale
  <2>4. (noisy + basic + 1) * FrameBytes = (noisy + basic) * FrameBytes + FrameBytes
    BY <1>3
  <2>5. contribution = 0 /\ workers = filter.streams
    BY <1>1, <1>7, <1>8 DEF Ranges, Planned
  <2>6. contribution * ContributionBytes = 0 /\ workers * WorkerBytes = filter.streams * WorkerBytes
    BY <2>5
  <2> QED BY <1>1, <1>2, <1>3, <1>5, <2>3, <2>4, <2>6
<1>9. ASSUME pc = "share"
      PROVE  /\ Free = LeftOver /\ EnoughFor(CacheSlots) /\ CacheSlots \in Int
             /\ CacheSlots * ContributionBytes <= LeftOver
  <2>1. contribution = 0 /\ workers = filter.streams /\ noisy + basic <= DesiredSource(filter) * Clips(filter)
    BY <1>1, <1>7, <1>9 DEF Ranges, Planned
  <2>2. contribution * ContributionBytes = 0 /\ workers * WorkerBytes = filter.streams * WorkerBytes
    BY <2>1
  <2>3. (noisy + basic) * FrameBytes <= DesiredSource(filter) * Clips(filter) * FrameBytes
    BY <1>2, <1>3, <2>1, Scale
  <2>4. Free = LeftOver /\ Free \in Int /\ MinimumContributions(filter) * ContributionBytes <= Free
    BY <1>1, <1>2, <1>3, <1>5, <2>2, <2>3 DEF LeftOver
  <2>5. /\ Free \div ContributionBytes \in Int /\ MinimumContributions(filter) <= Free \div ContributionBytes
        /\ (Free \div ContributionBytes) * ContributionBytes <= Free
    BY <1>4, <2>4, FloorDivides
  <2>6. Budget \in Int /\ Budget <= Free
    BY <2>4 DEF Budget
  <2>7. Budget \div ContributionBytes \in Int /\ (Budget \div ContributionBytes) * ContributionBytes <= Budget
    BY <2>6, FloorDivides
  <2>8. /\ Affordable \in Int /\ MinimumContributions(filter) <= Affordable
        /\ Affordable * ContributionBytes <= Free
    BY <1>4, <2>4, <2>5, <2>6, <2>7 DEF Affordable
  <2>9. CacheSlots \in Int /\ CacheSlots <= Affordable /\ MinimumContributions(filter) <= CacheSlots
    BY <1>4, <2>8 DEF CacheSlots, Least
  <2>10. CacheSlots * ContributionBytes <= Affordable * ContributionBytes
    BY <2>8, <2>9, Scale
  <2>11. CacheSlots * ContributionBytes \in Int /\ Affordable * ContributionBytes \in Int
    BY <2>8, <2>9
  <2> QED BY <2>4, <2>8, <2>9, <2>10, <2>11 DEF EnoughFor
<1>10. ASSUME pc = "contribution", contribution < slots PROVE ContributionBytes <= Free
  <2>1. slots * ContributionBytes <= LeftOver /\ workers = filter.streams
    BY <1>7, <1>10 DEF AmpleInv, Ample, Planned
  <2>2. (contribution + 1) * ContributionBytes <= slots * ContributionBytes
    BY <1>3, <1>10, Scale
  <2>3. (contribution + 1) * ContributionBytes = contribution * ContributionBytes + ContributionBytes
    BY <1>3
  <2>4. workers * WorkerBytes = filter.streams * WorkerBytes /\ slots * ContributionBytes \in Int
    BY <1>3, <2>1
  <2>5. contribution * ContributionBytes + ContributionBytes <= LeftOver
    BY <1>2, <2>1, <2>2, <2>3, <2>4
  <2>6. LeftOver = total - filter.streams * WorkerBytes - (noisy + basic) * FrameBytes
    BY DEF LeftOver
  <2>7. Free = LeftOver - contribution * ContributionBytes
    BY <1>1, <1>2, <1>3, <2>4, <2>6
  <2> QED BY <1>2, <1>3, <2>5, <2>7
<1> QED BY <1>6, <1>8, <1>9, <1>10


\* No step falls back while memory is ample.
LEMMA AmpleStep ==
  ASSUME SetupInv, AmpleInv, [SetupNext]_setupVars
  PROVE  AmpleInv'
<1> USE DEF Goto, heldVars
<1>1. /\ Ranges /\ SourceInv /\ Ranges'
      /\ MinimumSource(filter) \in Nat /\ DesiredSource(filter) \in Nat
      /\ MinimumSource(filter) <= DesiredSource(filter)
  BY Needs, SetupStep DEF SetupInv, Ranges
<1>2. others' \in Nat /\ (others' > 0 => squeezed')
  <2>1. CASE OthersTake
    BY <2>1 DEF AmpleInv, OthersTake
  <2>2. CASE OthersReturn
    BY <2>2 DEF AmpleInv, OthersReturn
  <2>3. CASE ~OthersTake /\ ~OthersReturn
    <3>1. others' = others /\ squeezed' = squeezed
      BY <2>3 DEF SetupNext, ChooseLayout, AllocateWorker, PoolReady, AllocateNoisySlot,
         AllocateBasicSlot, ShrinkSourceCaches, SourceCachesReady, ShareMemory,
         AllocateContributionSlot, ShrinkContributionCache, CreateVideoFilter, FilterFree,
         Ended, setupVars
    <3> QED BY <3>1 DEF AmpleInv
  <2> QED BY <2>1, <2>2, <2>3
<1>3. CASE ChooseLayout
  BY <1>2, <1>3 DEF ChooseLayout, AmpleInv, Planned
<1>4. CASE ~ChooseLayout
  <2>1. pointerTables' = pointerTables /\ filter' = filter /\ total' = total /\ (squeezed => squeezed')
    BY <1>4 DEF SetupNext, AllocateWorker, PoolReady, AllocateNoisySlot,
         AllocateBasicSlot, ShrinkSourceCaches, SourceCachesReady, ShareMemory,
         AllocateContributionSlot, ShrinkContributionCache, CreateVideoFilter, FilterFree,
         OthersTake, OthersReturn, Ended, setupVars, planVars
  <2>2. Ample' => Ample
    BY <2>1 DEF Ample, Needed, WorkerBytes
  <2>3. SUFFICES ASSUME Ample, Ample'
                 PROVE  /\ pc' # "failed"
                        /\ pc' = "source" => slots' = desired'
                        /\ pc' \in Planned => /\ noisy' <= DesiredSource(filter)
                                              /\ basic' <= DesiredSource(filter)
                                              /\ ~filter.final => basic' = 0
                        /\ pc' = "contribution" =>
                              slots' = desired' /\ slots' * ContributionBytes <= LeftOver'
    BY <1>2, <2>1, <2>2 DEF AmpleInv
  <2>4. /\ pc = "workers" /\ workers < filter.streams => WorkerBytes <= Free
        /\ pc = "source" /\ (noisy < slots \/ (filter.final /\ basic < slots)) => FrameBytes <= Free
        /\ pc = "share" => /\ EnoughFor(CacheSlots) /\ CacheSlots \in Int
                           /\ CacheSlots * ContributionBytes <= LeftOver
        /\ pc = "contribution" /\ contribution < slots => ContributionBytes <= Free
    BY <2>3, AmpleRoom
  <2>5. /\ pc # "failed"
        /\ pc = "source" => slots = desired
        /\ pc \in Planned => /\ noisy <= DesiredSource(filter)
                             /\ basic <= DesiredSource(filter)
                             /\ ~filter.final => basic = 0
        /\ pc = "contribution" => slots = desired /\ slots * ContributionBytes <= LeftOver
    BY <2>3 DEF AmpleInv
  <2>6. noisy' = noisy /\ basic' = basic => LeftOver' = LeftOver
    BY <2>1 DEF LeftOver, WorkerBytes
  <2>7. /\ FrameBytes \in Nat /\ ContributionBytes \in Nat /\ Free \in Int /\ WorkerBytes \in Nat
        /\ workers \in Nat /\ noisy \in Nat /\ basic \in Nat /\ contribution \in Nat
        /\ slots \in Int /\ desired \in Int
    BY <1>1, SetupAssumption, FreeIsNumber, Sizes DEF Ranges
  <2> USE DEF Planned
  <2>8. CASE AllocateWorker
    BY <2>8 DEF AllocateWorker
  <2>9. CASE PoolReady
    BY <1>1, <2>9 DEF PoolReady, Ranges
  <2>10. CASE AllocateNoisySlot \/ AllocateBasicSlot
    BY <1>1, <2>5, <2>7, <2>10 DEF AllocateNoisySlot, AllocateBasicSlot, SourceInv
  <2>11. CASE ShrinkSourceCaches
    BY <2>4, <2>7, <2>11 DEF ShrinkSourceCaches
  <2>12. CASE SourceCachesReady \/ CreateVideoFilter
    BY <2>5, <2>12 DEF SourceCachesReady, CreateVideoFilter
  <2>13. CASE ShareMemory
    BY <2>4, <2>5, <2>6, <2>13 DEF ShareMemory
  <2>14. CASE AllocateContributionSlot
    BY <2>5, <2>6, <2>14 DEF AllocateContributionSlot
  <2>15. CASE ShrinkContributionCache
    BY <2>4, <2>7, <2>15 DEF ShrinkContributionCache
  <2>16. CASE FilterFree
    <3>1. CASE pc = "ready"
      BY <2>16, <3>1 DEF FilterFree
    <3>2. CASE OutOfMemory /\ pc # "ready"
      BY <2>4, <2>5, <2>7, <3>2 DEF OutOfMemory
    <3> QED BY <2>16, <3>1, <3>2 DEF FilterFree
  <2>17. CASE OthersTake
    BY <2>3, <2>17 DEF OthersTake, Ample
  <2>18. CASE OthersReturn
    BY <2>5, <2>6, <2>18 DEF OthersReturn, planVars
  <2>19. CASE UNCHANGED setupVars
    BY <2>5, <2>6, <2>19 DEF setupVars
  <2> QED
    BY <1>4, <2>8, <2>9, <2>10, <2>11, <2>12, <2>13, <2>14, <2>15, <2>16, <2>17, <2>18, <2>19
       DEF SetupNext, Ended
<1> QED BY <1>3, <1>4

\* A creation that nobody disturbs fails only for lack of memory, for every
\* filter and every size of device: with room for the workers, the source caches
\* it wants and the least contribution cache no step of initialize_cuda falls
\* back, and the margin is given up before the least cache is refused.
THEOREM AmpleIsEnough == SetupSpec => []AmpleMemorySuffices
<1>1. SetupInit => SetupInv /\ AmpleInv
  BY SetupAssumption
     DEF SetupInit, SetupInv, Ranges, SourceInv, ContributionInv, Planned, AmpleInv
<1>2. SetupInv /\ AmpleInv /\ [SetupNext]_setupVars => (SetupInv /\ AmpleInv)'
  BY SetupStep, AmpleStep
<1>3. ASSUME SetupInv, AmpleInv PROVE AmpleMemorySuffices
  <2>1. Needed \in Nat /\ total \in Int
    BY <1>3, Sizes DEF SetupInv, Ranges
  <2>2. pc = "failed" /\ ~squeezed => total < Needed
    BY <1>3, <2>1 DEF AmpleInv, Ample
  <2> QED BY <2>2 DEF AmpleMemorySuffices, Needed
<1> QED BY <1>1, <1>2, <1>3, PTL DEF SetupSpec

-----------------------------------------------------------------------------
(* Natural numbers and finite sets. *)

\* A non-empty set of naturals has a least member.
LEMMA LeastNatural ==
  ASSUME NEW T, T \subseteq Nat, T # {}
  PROVE  \E n \in T : \A m \in T : n <= m
<1>1. PICK n \in T : \A m \in T : <<m, n>> \notin OpToRel(<, Nat)
  BY WFMin, NatLessThanWellFounded, Zenon
<1>2. \A m \in T : ~(m < n)
  BY <1>1 DEF OpToRel
<1> QED BY <1>2

-----------------------------------------------------------------------------
(* Sums over finite sets.  SumFunctionOnSet takes the elements of a set in *)
(* the order CHOOSE picks them; what it adds up to does not depend on it.  *)

\* A collection of subsets of a finite set has one with no smaller one in it.
LEMMA SmallestSet ==
  ASSUME NEW S, IsFiniteSet(S), NEW B, B \subseteq SUBSET S, B # {}
  PROVE  \E T \in B : \A U \in SUBSET T : U # T => U \notin B
<1>1. IsWellFoundedOn(StrictSubsetOrdering(S), SUBSET S)
  BY FS_StrictSubsetOrderingWellFounded, FS_FiniteSubsetsOfFinite
<1>2. PICK T \in B : \A U \in B : <<U, T>> \notin StrictSubsetOrdering(S)
  BY <1>1, WFMin, Zenon
<1> QED BY <1>2 DEF StrictSubsetOrdering

\* The element a sum takes next, and what it means to be a table of sums.
First(s) == CHOOSE x \in s : TRUE
IsSum(h, f, S) == h = [s \in SUBSET S |-> IF s = {} THEN 0 ELSE f[First(s)] + h[s \ {First(s)}]]

\* There is such a table: one that is right for sets of up to n elements exists
\* for every n.
LEMMA TableExists ==
  ASSUME NEW f, NEW S, IsFiniteSet(S)
  PROVE  \E h : IsSum(h, f, S)
<1> DEFINE Body(h, s) == IF s = {} THEN 0 ELSE f[First(s)] + h[s \ {First(s)}]
           Right(h, n) == h = [s \in SUBSET S |-> h[s]]
                          /\ \A s \in SUBSET S : Cardinality(s) <= n => h[s] = Body(h, s)
           Missing == {n \in Nat : ~\E h : Right(h, n)}
<1>1. \A s \in SUBSET S : IsFiniteSet(s) /\ Cardinality(s) \in Nat /\ Cardinality(s) <= Cardinality(S)
  BY FS_Subset, FS_CardinalityType
<1>2. Cardinality(S) \in Nat
  BY FS_CardinalityType
<1>3. \E h : Right(h, 0)
  <2> DEFINE h == [s \in SUBSET S |-> 0]
  <2>1. ASSUME NEW s \in SUBSET S, Cardinality(s) <= 0 PROVE h[s] = Body(h, s)
    <3>1. s = {}
      BY <1>1, <2>1, FS_EmptySet
    <3> QED BY <3>1
  <2> QED BY <2>1
<1>4. ASSUME NEW n \in Nat, NEW h, Right(h, n) PROVE \E g : Right(g, n + 1)
  <2> DEFINE g == [s \in SUBSET S |-> IF Cardinality(s) <= n THEN h[s] ELSE Body(h, s)]
  <2>1. g = [s \in SUBSET S |-> g[s]]
    OBVIOUS
  <2>2. ASSUME NEW s \in SUBSET S, Cardinality(s) <= n + 1 PROVE g[s] = Body(g, s)
    <3>1. CASE s = {}
      <4>1. Cardinality(s) <= n
        BY <3>1, FS_EmptySet
      <4>2. h[s] = 0
        BY <1>4, <3>1, <4>1
      <4> QED BY <3>1, <4>1, <4>2
    <3>2. CASE s # {}
      <4>1. First(s) \in s
        BY <3>2 DEF First
      <4>2. /\ s \ {First(s)} \in SUBSET S
            /\ Cardinality(s \ {First(s)}) = Cardinality(s) - 1
        BY <1>1, <4>1, FS_RemoveElement
      <4>3. Cardinality(s \ {First(s)}) <= n
        BY <1>1, <2>2, <4>2
      <4>4. g[s \ {First(s)}] = h[s \ {First(s)}]
        BY <4>2, <4>3
      <4>5. g[s] = Body(h, s)
        BY <1>4
      <4> HIDE DEF g
      <4> QED BY <3>2, <4>4, <4>5
    <3> QED BY <3>1, <3>2
  <2> HIDE DEF g
  <2> QED BY <2>1, <2>2
<1>5. Missing = {}
  <2> HIDE DEF Right
  <2>1. \A n : n \in Missing <=> n \in Nat /\ ~\E h : Right(h, n)
    OBVIOUS
  <2> SUFFICES ASSUME Missing # {} PROVE FALSE
    OBVIOUS
  <2> HIDE DEF Missing
  <2>2. PICK n \in Missing : \A m \in Missing : n <= m
    BY <2>1, LeastNatural
  <2>3. n \in Nat /\ n # 0
    BY <1>3, <2>1, <2>2
  <2>4. n - 1 \in Nat /\ n - 1 \notin Missing /\ n - 1 + 1 = n
    BY <2>2, <2>3
  <2> QED BY <1>4, <2>1, <2>2, <2>4
<1>6. PICK h : Right(h, Cardinality(S))
  BY <1>2, <1>5
<1>7. h = [s \in SUBSET S |-> Body(h, s)]
  <2>1. \A s \in SUBSET S : h[s] = Body(h, s)
    BY <1>1, <1>6
  <2> QED BY <1>6, <2>1
<1> QED BY <1>7 DEF IsSum

\* Tables agree on the sets they have in common.
LEMMA TablesAgree ==
  ASSUME NEW f, NEW S, IsFiniteSet(S), NEW T \in SUBSET S, NEW g, IsSum(g, f, S), NEW h, IsSum(h, f, T)
  PROVE  g[T] = h[T]
<1> DEFINE B == {s \in SUBSET T : g[s] # h[s]}
<1> SUFFICES ASSUME B # {} PROVE FALSE
  BY Zenon
<1>1. IsFiniteSet(T) /\ B \subseteq SUBSET T
  BY FS_Subset
<1>2. PICK s \in B : \A u \in SUBSET s : u # s => u \notin B
  <2> HIDE DEF B
  <2> QED BY <1>1, SmallestSet
<1>3. s # {}
  BY <1>2 DEF IsSum
<1>4. First(s) \in s
  BY <1>3 DEF First
<1>5. s \ {First(s)} \in SUBSET T /\ s \ {First(s)} # s /\ s \ {First(s)} \in SUBSET s
  BY <1>4
<1>6. g[s \ {First(s)}] = h[s \ {First(s)}]
  BY <1>2, <1>5
<1>7. g[s] = f[First(s)] + g[s \ {First(s)}] /\ h[s] = f[First(s)] + h[s \ {First(s)}]
  BY <1>3 DEF IsSum
<1> QED BY <1>2, <1>6, <1>7

\* A sum takes one element and goes on with the rest.
LEMMA SumTakesFirst ==
  ASSUME NEW f, NEW S, IsFiniteSet(S)
  PROVE  /\ SumFunctionOnSet(f, {}) = 0
         /\ S # {} => SumFunctionOnSet(f, S) = f[First(S)] + SumFunctionOnSet(f, S \ {First(S)})
<1> DEFINE Table(T) == CHOOSE h : IsSum(h, f, T)
<1>1. ASSUME NEW T PROVE SumFunctionOnSet(f, T) = Table(T)[T]
  BY DEF SumFunctionOnSet, FoldFunctionOnSet, MapThenFoldSet, IsSum, First
<1>2. ASSUME NEW T, IsFiniteSet(T) PROVE IsSum(Table(T), f, T)
  BY <1>2, TableExists
<1> HIDE DEF Table
<1>3. SumFunctionOnSet(f, {}) = 0
  <2>1. IsSum(Table({}), f, {})
    BY <1>2, FS_EmptySet
  <2> QED BY <1>1, <2>1 DEF IsSum
<1>4. ASSUME S # {}
      PROVE  SumFunctionOnSet(f, S) = f[First(S)] + SumFunctionOnSet(f, S \ {First(S)})
  <2> DEFINE R == S \ {First(S)}
  <2>1. IsFiniteSet(R) /\ R \in SUBSET S
    BY FS_Subset
  <2>2. IsSum(Table(S), f, S) /\ IsSum(Table(R), f, R)
    BY <1>2, <2>1
  <2>3. Table(S)[S] = f[First(S)] + Table(S)[R]
    BY <1>4, <2>2 DEF IsSum
  <2> HIDE DEF R
  <2>4. Table(S)[R] = Table(R)[R]
    BY <2>1, <2>2, TablesAgree
  <2>5. SumFunctionOnSet(f, R) = Table(R)[R] /\ SumFunctionOnSet(f, S) = Table(S)[S]
    BY <1>1
  <2> QED BY <2>3, <2>4, <2>5 DEF R
<1> QED BY <1>3, <1>4

\* Sums of integers are integers, and depend only on the values over the set.
LEMMA SumIsInt ==
  ASSUME NEW f, NEW S, IsFiniteSet(S), \A x \in S : f[x] \in Int
  PROVE  SumFunctionOnSet(f, S) \in Int
<1> DEFINE B == {s \in SUBSET S : SumFunctionOnSet(f, s) \notin Int}
<1> SUFFICES ASSUME B # {} PROVE FALSE
  BY Zenon
<1>1. PICK s \in B : \A u \in SUBSET s : u # s => u \notin B
  <2>1. B \subseteq SUBSET S
    OBVIOUS
  <2> HIDE DEF B
  <2> QED BY <2>1, SmallestSet
<1>2. IsFiniteSet(s) /\ s \in SUBSET S
  BY <1>1, FS_Subset
<1>3. s # {}
  <2>1. SumFunctionOnSet(f, {}) \in Int
    <3>1. SumFunctionOnSet(f, {}) = 0
      BY FS_EmptySet, SumTakesFirst
    <3> QED BY <3>1
  <2>2. SumFunctionOnSet(f, s) \notin Int
    BY <1>1
  <2> QED BY <2>1, <2>2
<1>4. First(s) \in s
  BY <1>3 DEF First
<1>5. SumFunctionOnSet(f, s \ {First(s)}) \in Int
  BY <1>1, <1>2, <1>4
<1>6. f[First(s)] \in Int
  BY <1>2, <1>4
<1>7. SumFunctionOnSet(f, s) = f[First(s)] + SumFunctionOnSet(f, s \ {First(s)})
  BY <1>2, <1>3, SumTakesFirst
<1> QED BY <1>1, <1>5, <1>6, <1>7

\* Only the values on the set count.
LEMMA SumCongruence ==
  ASSUME NEW f, NEW g, NEW S, IsFiniteSet(S), \A x \in S : f[x] = g[x]
  PROVE  SumFunctionOnSet(f, S) = SumFunctionOnSet(g, S)
<1> DEFINE B == {s \in SUBSET S : SumFunctionOnSet(f, s) # SumFunctionOnSet(g, s)}
<1> SUFFICES ASSUME B # {} PROVE FALSE
  BY Zenon
<1>1. PICK s \in B : \A u \in SUBSET s : u # s => u \notin B
  <2>1. B \subseteq SUBSET S
    OBVIOUS
  <2> HIDE DEF B
  <2> QED BY <2>1, SmallestSet
<1>2. IsFiniteSet(s) /\ s \in SUBSET S
  BY <1>1, FS_Subset
<1>3. s # {}
  BY <1>1, <1>2, SumTakesFirst
<1>4. First(s) \in s
  BY <1>3 DEF First
<1>5. SumFunctionOnSet(f, s \ {First(s)}) = SumFunctionOnSet(g, s \ {First(s)})
  BY <1>1, <1>2, <1>4
<1>6. f[First(s)] = g[First(s)]
  BY <1>2, <1>4
<1>7. /\ SumFunctionOnSet(f, s) = f[First(s)] + SumFunctionOnSet(f, s \ {First(s)})
      /\ SumFunctionOnSet(g, s) = g[First(s)] + SumFunctionOnSet(g, s \ {First(s)})
  BY <1>2, <1>3, SumTakesFirst
<1> QED BY <1>1, <1>5, <1>6, <1>7

\* Any element may be taken first.
LEMMA SumTakesAny ==
  ASSUME NEW f, NEW S, IsFiniteSet(S), \A x \in S : f[x] \in Int, NEW e \in S
  PROVE  SumFunctionOnSet(f, S) = f[e] + SumFunctionOnSet(f, S \ {e})
<1> DEFINE Takes(s) == \A x \in s : SumFunctionOnSet(f, s) = f[x] + SumFunctionOnSet(f, s \ {x})
           B == {s \in SUBSET S : ~Takes(s)}
<1> SUFFICES ASSUME B # {} PROVE FALSE
  <2>1. B = {} => Takes(S)
    BY Zenon
  <2> QED BY <2>1
<1>1. PICK s \in B : \A u \in SUBSET s : u # s => u \notin B
  <2>1. B \subseteq SUBSET S
    OBVIOUS
  <2> HIDE DEF B
  <2> QED BY <2>1, SmallestSet
<1>2. IsFiniteSet(s) /\ s \in SUBSET S
  BY <1>1, FS_Subset
<1>3. PICK x \in s : SumFunctionOnSet(f, s) # f[x] + SumFunctionOnSet(f, s \ {x})
  BY <1>1
<1> DEFINE y == First(s)
<1>4. y \in s /\ SumFunctionOnSet(f, s) = f[y] + SumFunctionOnSet(f, s \ {y})
  BY <1>2, <1>3, SumTakesFirst DEF First
<1>5. x # y
  BY <1>3, <1>4
<1> HIDE DEF y
<1>6. SumFunctionOnSet(f, s \ {y}) = f[x] + SumFunctionOnSet(f, (s \ {y}) \ {x})
  <2>1. s \ {y} \in SUBSET s /\ s \ {y} # s /\ s \ {y} \in SUBSET S
    BY <1>2, <1>4
  <2>2. Takes(s \ {y})
    BY <1>1, <2>1
  <2> QED BY <1>5, <2>2
<1>7. SumFunctionOnSet(f, s \ {x}) = f[y] + SumFunctionOnSet(f, (s \ {x}) \ {y})
  <2>1. s \ {x} \in SUBSET s /\ s \ {x} # s /\ s \ {x} \in SUBSET S
    BY <1>2, <1>3
  <2>2. Takes(s \ {x})
    BY <1>1, <2>1
  <2> QED BY <1>4, <1>5, <2>2
<1>8. (s \ {x}) \ {y} = (s \ {y}) \ {x}
  OBVIOUS
<1> DEFINE rest == (s \ {y}) \ {x}
<1>9. f[x] \in Int /\ f[y] \in Int /\ SumFunctionOnSet(f, rest) \in Int
  <2>1. IsFiniteSet(rest) /\ rest \subseteq S
    BY <1>2, FS_Subset
  <2> QED BY <1>2, <1>3, <1>4, <2>1, SumIsInt
<1>10. /\ SumFunctionOnSet(f, s) = f[y] + (f[x] + SumFunctionOnSet(f, rest))
       /\ SumFunctionOnSet(f, s \ {x}) = f[y] + SumFunctionOnSet(f, rest)
  BY <1>4, <1>6, <1>7, <1>8
<1> HIDE DEF rest
<1> QED BY <1>3, <1>9, <1>10

\* A sum over two disjoint sets.
LEMMA SumOfUnion ==
  ASSUME NEW f, NEW S, IsFiniteSet(S), NEW T, IsFiniteSet(T), S \cap T = {},
         \A x \in S \cup T : f[x] \in Int
  PROVE  SumFunctionOnSet(f, S \cup T) = SumFunctionOnSet(f, S) + SumFunctionOnSet(f, T)
<1> DEFINE B == {t \in SUBSET T : SumFunctionOnSet(f, S \cup t) # SumFunctionOnSet(f, S) + SumFunctionOnSet(f, t)}
<1> SUFFICES ASSUME B # {} PROVE FALSE
  BY Zenon
<1>1. PICK t \in B : \A u \in SUBSET t : u # t => u \notin B
  <2>1. B \subseteq SUBSET T
    OBVIOUS
  <2> HIDE DEF B
  <2> QED BY <2>1, SmallestSet
<1>2. IsFiniteSet(t) /\ t \in SUBSET T /\ IsFiniteSet(S \cup t)
  BY <1>1, FS_Subset, FS_Union
<1>3. SumFunctionOnSet(f, S) \in Int
  BY SumIsInt
<1>4. t # {}
  <2> SUFFICES ASSUME t = {} PROVE FALSE
    OBVIOUS
  <2>1. SumFunctionOnSet(f, t) = 0 /\ S \cup t = S
    BY <1>2, SumTakesFirst
  <2>2. SumFunctionOnSet(f, S \cup t) = SumFunctionOnSet(f, S) + SumFunctionOnSet(f, t)
    BY <1>3, <2>1
  <2> QED BY <1>1, <2>2
<1>5. PICK e \in t : TRUE
  BY <1>4
<1>6. SumFunctionOnSet(f, t) = f[e] + SumFunctionOnSet(f, t \ {e})
  BY <1>2, <1>5, SumTakesAny
<1>7. SumFunctionOnSet(f, S \cup t) = f[e] + SumFunctionOnSet(f, S \cup (t \ {e}))
  <2>1. (S \cup t) \ {e} = S \cup (t \ {e})
    BY <1>2, <1>5
  <2>2. e \in S \cup t /\ \A x \in S \cup t : f[x] \in Int
    BY <1>2, <1>5
  <2> QED BY <1>2, <2>1, <2>2, SumTakesAny
<1>8. SumFunctionOnSet(f, S \cup (t \ {e})) = SumFunctionOnSet(f, S) + SumFunctionOnSet(f, t \ {e})
  BY <1>1, <1>2, <1>5
<1>9. f[e] \in Int /\ SumFunctionOnSet(f, t \ {e}) \in Int
  <2>1. IsFiniteSet(t \ {e})
    BY <1>2, FS_Subset
  <2> QED BY <1>2, <1>5, <2>1, SumIsInt
<1> QED BY <1>1, <1>3, <1>6, <1>7, <1>8, <1>9

\* One more element adds its value; one alone is its value.
LEMMA SumOfOneMore ==
  ASSUME NEW f, NEW S, IsFiniteSet(S), NEW e, e \notin S, \A x \in S \cup {e} : f[x] \in Int
  PROVE  SumFunctionOnSet(f, S \cup {e}) = SumFunctionOnSet(f, S) + f[e]
<1>1. IsFiniteSet(S \cup {e}) /\ (S \cup {e}) \ {e} = S
  BY FS_AddElement
<1>2. SumFunctionOnSet(f, S \cup {e}) = f[e] + SumFunctionOnSet(f, S)
  BY <1>1, SumTakesAny
<1>3. f[e] \in Int /\ SumFunctionOnSet(f, S) \in Int
  BY SumIsInt
<1> QED BY <1>2, <1>3

\* A sum of one value is that value.
LEMMA SumOfOne ==
  ASSUME NEW f, NEW e, f[e] \in Int
  PROVE  SumFunctionOnSet(f, {e}) = f[e]
<1>1. SumFunctionOnSet(f, {} \cup {e}) = SumFunctionOnSet(f, {}) + f[e]
  BY FS_EmptySet, SumOfOneMore
<1>2. SumFunctionOnSet(f, {}) = 0
  BY FS_EmptySet, SumTakesFirst
<1>3. {} \cup {e} = {e}
  OBVIOUS
<1> QED BY <1>1, <1>2, <1>3

\* Positive summands have a positive sum, zeros none.
LEMMA SumIsPositive ==
  ASSUME NEW f, NEW S, IsFiniteSet(S), S # {}, \A x \in S : f[x] \in Nat \ {0}
  PROVE  SumFunctionOnSet(f, S) \in Nat \ {0}
<1> DEFINE B == {s \in SUBSET S : s # {} /\ SumFunctionOnSet(f, s) \notin Nat \ {0}}
<1> SUFFICES ASSUME B # {} PROVE FALSE
  BY Zenon
<1>1. PICK s \in B : \A u \in SUBSET s : u # s => u \notin B
  <2>1. B \subseteq SUBSET S
    OBVIOUS
  <2> HIDE DEF B
  <2> QED BY <2>1, SmallestSet
<1>2. IsFiniteSet(s) /\ s \in SUBSET S /\ s # {}
  BY <1>1, FS_Subset
<1>3. First(s) \in s /\ SumFunctionOnSet(f, s) = f[First(s)] + SumFunctionOnSet(f, s \ {First(s)})
  BY <1>2, SumTakesFirst DEF First
<1>4. SumFunctionOnSet(f, s \ {First(s)}) \in Nat
  <2>1. s \ {First(s)} = {} => SumFunctionOnSet(f, s \ {First(s)}) = 0
    BY <1>2, SumTakesFirst
  <2>2. s \ {First(s)} # {} => SumFunctionOnSet(f, s \ {First(s)}) \in Nat
    BY <1>1, <1>2, <1>3
  <2> QED BY <2>1, <2>2
<1>5. f[First(s)] \in Nat \ {0}
  BY <1>2, <1>3
<1> QED BY <1>1, <1>3, <1>4, <1>5

\* Zeros add nothing.
LEMMA SumOfZeros ==
  ASSUME NEW f, NEW S, IsFiniteSet(S), \A x \in S : f[x] = 0
  PROVE  SumFunctionOnSet(f, S) = 0
<1> DEFINE B == {s \in SUBSET S : SumFunctionOnSet(f, s) # 0}
<1> SUFFICES ASSUME B # {} PROVE FALSE
  BY Zenon
<1>1. PICK s \in B : \A u \in SUBSET s : u # s => u \notin B
  <2>1. B \subseteq SUBSET S
    OBVIOUS
  <2> HIDE DEF B
  <2> QED BY <2>1, SmallestSet
<1>2. IsFiniteSet(s) /\ s \in SUBSET S
  BY <1>1, FS_Subset
<1>3. s # {}
  BY <1>1, <1>2, SumTakesFirst
<1>4. First(s) \in s /\ SumFunctionOnSet(f, s) = f[First(s)] + SumFunctionOnSet(f, s \ {First(s)})
  BY <1>2, <1>3, SumTakesFirst DEF First
<1>5. SumFunctionOnSet(f, s \ {First(s)}) = 0
  BY <1>1, <1>2, <1>4
<1>6. f[First(s)] = 0
  BY <1>2, <1>4
<1> QED BY <1>1, <1>4, <1>5, <1>6

-----------------------------------------------------------------------------
(* The job. *)

\* What is assumed of every job, for the one at hand.
LEMMA JobFits ==
  ASSUME job \in DOMAIN AllJobs
  PROVE  /\ ValidParameters(j.p)
         /\ j.storage \in {"planes", "contiguous", "device", "strided"}
         /\ j.width \in Nat /\ j.height \in Nat /\ j.channels \in Nat \ {0}
         /\ j.patch \in Nat \ {0} /\ j.patch <= j.width /\ j.patch <= j.height
         /\ j.stride \in Nat /\ j.stride >= j.width /\ j.chunk \in Nat \ {0}
         /\ j.gaussian \in [1..(j.patch * j.patch) -> Nat \ {0}]
         /\ j.view \in [row : Nat, slot : Nat, channel : Nat, weightRow : Nat, weightSlot : Nat, weights : Nat]
         /\ j.view.weights >= j.channels * j.view.channel
BY JobsAssumption DEF j, AllJobs

\* The numbers of slots and pixels.
LEMMA Numbers ==
  ASSUME job \in DOMAIN AllJobs
  PROVE  /\ j.p.frames \in Nat /\ j.p.pt \in Nat \ {0} /\ j.p.bwd \in Nat /\ j.p.fwd \in Nat
         /\ j.p.pt <= j.p.frames
         /\ Slots = j.p.bwd + j.p.fwd + j.p.pt /\ Slots \in Nat \ {0}
         /\ j.width \in Nat \ {0} /\ j.height \in Nat \ {0}
         /\ Pixels \in Nat \ {0} /\ 0 \in Channels /\ Channels \subseteq Nat
         /\ ValidAnchorFrames(j.p) = j.p.frames - j.p.pt + 1 /\ ValidAnchorFrames(j.p) \in 1..j.p.frames
         /\ AnchorCount \in {ValidAnchorFrames(j.p), j.p.frames} /\ AnchorCount \in Nat \ {0}
<1>1. j.p.frames \in Nat /\ j.p.pt \in Nat \ {0} /\ j.p.bwd \in Nat /\ j.p.fwd \in Nat /\ j.p.pt <= j.p.frames
  BY JobFits DEF ValidParameters
<1>2. Slots = j.p.bwd + j.p.fwd + j.p.pt
  BY DEF Slots, ContributionSlots
<1>3. j.width \in Nat \ {0} /\ j.height \in Nat \ {0}
  BY JobFits
<1>4. Pixels \in Nat \ {0}
  BY <1>3 DEF Pixels
<1>5. ValidAnchorFrames(j.p) = j.p.frames - j.p.pt + 1
  BY DEF ValidAnchorFrames
<1>6. 0 \in Channels /\ Channels \subseteq Nat
  BY JobFits DEF Channels
<1> QED BY <1>1, <1>2, <1>3, <1>4, <1>5, <1>6 DEF AnchorCount

\* What is assumed of its groups.
LEMMA GroupsFit ==
  ASSUME job \in DOMAIN AllJobs, NEW a \in Nat
  PROVE  /\ Len(GroupsOf(a)) \in Nat
         /\ \A g \in 1..Len(GroupsOf(a)) :
               /\ Len(GroupsOf(a)[g].samples) \in Nat
               /\ GroupsOf(a)[g].retained \in 0..Len(GroupsOf(a)[g].samples)
               /\ \A i \in 1..GroupsOf(a)[g].retained : ValidSample(j, GroupsOf(a)[g].samples[i])
<1>1. CASE a < ValidAnchorFrames(j.p)
  <2>1. a \in 0..(ValidAnchorFrames(j.p) - 1) /\ GroupsOf(a) = j.groups[a]
    BY <1>1, Numbers DEF GroupsOf
  <2>2. /\ Len(j.groups[a]) \in Nat
        /\ \A g \in 1..Len(j.groups[a]) :
              /\ Len(j.groups[a][g].samples) \in Nat
              /\ j.groups[a][g].retained \in 0..Len(j.groups[a][g].samples)
              /\ \A i \in 1..j.groups[a][g].retained : ValidSample(j, j.groups[a][g].samples[i])
    BY <2>1, JobsAssumption DEF j, AllJobs
  <2> QED BY <2>1, <2>2
<1>2. CASE ~(a < ValidAnchorFrames(j.p))
  <2>1. GroupsOf(a) = <<>>
    BY <1>2 DEF GroupsOf
  <2> QED BY <2>1
<1> QED BY <1>1, <1>2

-----------------------------------------------------------------------------
(* Numbers in mixed radix. *)

\* Products may be regrouped.
LEMMA Factors ==
  ASSUME NEW a \in Int, NEW b \in Int, NEW k \in Int
  PROVE  a * b * k = a * (k * b)
OBVIOUS

\* A product of a sum is a sum of products.
LEMMA Distributes ==
  ASSUME NEW a \in Int, NEW b \in Int, NEW k \in Int
  PROVE  (a + b) * k = a * k + b * k
OBVIOUS

\* Digits are unique.
LEMMA Digits ==
  ASSUME NEW k \in Nat, NEW a \in Int, NEW b \in Int, NEW u \in 0..(k - 1), NEW v \in 0..(k - 1),
         a * k + u = b * k + v
  PROVE  a = b /\ u = v
<1>1. a * k \in Int /\ b * k \in Int
  OBVIOUS
<1>2. ~(a <= b - 1)
  <2> SUFFICES ASSUME a <= b - 1 PROVE FALSE
    OBVIOUS
  <2>1. a * k <= (b - 1) * k
    BY Scale
  <2>2. (b - 1) * k = b * k - k
    OBVIOUS
  <2> QED BY <1>1, <2>1, <2>2
<1>3. ~(b <= a - 1)
  <2> SUFFICES ASSUME b <= a - 1 PROVE FALSE
    OBVIOUS
  <2>1. b * k <= (a - 1) * k
    BY Scale
  <2>2. (a - 1) * k = a * k - k
    OBVIOUS
  <2> QED BY <1>1, <2>1, <2>2
<1>4. a = b
  BY <1>2, <1>3
<1> QED BY <1>1, <1>4

\* A number of two digits is below the product of the radices.
LEMMA TwoDigits ==
  ASSUME NEW n \in Nat, NEW k \in Nat, NEW a \in 0..(n - 1), NEW u \in 0..(k - 1)
  PROVE  a * k + u \in 0..(n * k - 1)
<1>1. a * k <= (n - 1) * k /\ (n - 1) * k = n * k - k /\ 0 * k <= a * k
  BY Scale
<1>2. a * k \in Int /\ n * k \in Int
  OBVIOUS
<1> QED BY <1>1, <1>2

\* The digits of a number.
LEMMA DigitsOf ==
  ASSUME NEW k \in Nat \ {0}, NEW n \in Nat, NEW i \in 0..(n * k - 1)
  PROVE  i \div k \in 0..(n - 1) /\ i % k \in 0..(k - 1) /\ i = (i \div k) * k + (i % k)
<1>1. i \in Nat /\ n * k \in Int
  OBVIOUS
<1>2. i \div k \in Int /\ i % k \in 0..(k - 1) /\ i = (i \div k) * k + (i % k)
  BY <1>1
<1>3. ~(i \div k <= -1)
  <2> SUFFICES ASSUME i \div k <= -1 PROVE FALSE
    OBVIOUS
  <2>1. (i \div k) * k <= (-1) * k /\ (-1) * k = -k
    BY <1>2, Scale
  <2> QED BY <1>1, <1>2, <2>1
<1>4. ~(n <= i \div k)
  <2> SUFFICES ASSUME n <= i \div k PROVE FALSE
    OBVIOUS
  <2>1. n * k <= (i \div k) * k
    BY <1>2, Scale
  <2> QED BY <1>1, <1>2, <2>1
<1> QED BY <1>2, <1>3, <1>4

-----------------------------------------------------------------------------
(* Where a contribution keeps the sums of a pixel. *)

NumeratorCell(s, c, x, y) == IF OnDevice THEN NumeratorOffset(s, c, x, y) ELSE ViewNumerator(s, c, x, y)
WeightCell(s, c, x, y)    == IF OnDevice THEN WeightOffset(s, x, y) ELSE ViewWeight(s, c, x, y)
SlotRange == 0..(Slots - 1)
\* The planes that hold weights of their own.
Planes == IF j.storage = "planes" THEN Channels ELSE {0}

\* A view the kernels accept keeps its buffers apart.
ViewFits == OnDevice => ValidView(View) /\ View.weights >= j.channels * View.channel

\* The strides of a view are numbers, and its weights lie behind its numerators.
LEMMA ViewIs ==
  ASSUME job \in DOMAIN AllJobs
  PROVE  /\ View.row \in Nat /\ View.slot \in Nat /\ View.channel \in Nat /\ View.weightRow \in Nat
         /\ View.weightSlot \in Nat /\ View.weights \in Nat /\ View.weights >= j.channels * View.channel
         /\ View = [row |-> View.row, slot |-> View.slot, channel |-> View.channel,
                    weightRow |-> View.weightRow, weightSlot |-> View.weightSlot, weights |-> View.weights]
<1>1. CASE j.storage = "device"
  <2>1. View = [row |-> j.width, slot |-> Pixels, channel |-> Pixels * Slots,
                weightRow |-> j.width, weightSlot |-> Pixels, weights |-> NumeratorValues]
    BY <1>1 DEF View, ContiguousView
  <2>2. Pixels * Slots \in Nat
    BY Numbers
  <2>3. NumeratorValues \in Nat /\ NumeratorValues >= j.channels * (Pixels * Slots)
    <3>1. NumeratorValues = j.channels * (Pixels * Slots)
      <4>1. j.channels \in Int /\ Slots \in Int /\ Pixels \in Int
        BY JobFits, Numbers
      <4>2. j.channels * Slots * Pixels = j.channels * (Pixels * Slots)
        BY <4>1, Factors
      <4> QED BY <4>2 DEF NumeratorValues
    <3>2. j.channels * (Pixels * Slots) \in Nat
      BY <2>2, JobFits
    <3> QED BY <3>1, <3>2
  <2> QED BY <2>1, <2>2, <2>3, Numbers
<1>2. CASE j.storage # "device"
  <2>1. View = j.view
    BY <1>2 DEF View
  <2> QED BY <2>1, JobFits
<1> QED BY <1>1, <1>2

\* The cells of a contribution.
LEMMA OwnCellsAre ==
  ASSUME job \in DOMAIN AllJobs
  PROVE  OwnCells = {NumeratorCell(e[1], e[2], e[3], e[4]) : e \in SlotRange \X Channels \X Columns \X Rows}
                    \cup {WeightCell(e[1], e[2], e[3], e[4]) : e \in SlotRange \X Channels \X Columns \X Rows}
BY DEF OwnCells, NumeratorCell, WeightCell, SlotRange

\* The cells of the places of a contribution are its own.
LEMMA CellsAreOwn ==
  ASSUME job \in DOMAIN AllJobs,
         NEW s \in SlotRange, NEW c \in Channels, NEW x \in Columns, NEW y \in Rows
  PROVE  NumeratorCell(s, c, x, y) \in OwnCells /\ WeightCell(s, c, x, y) \in OwnCells
<1>1. <<s, c, x, y>> \in SlotRange \X Channels \X Columns \X Rows
  OBVIOUS
<1> HIDE DEF NumeratorCell, WeightCell
<1> QED BY <1>1, OwnCellsAre

\* A weight is one of the planes'.
LEMMA WeightPlaneOf ==
  ASSUME job \in DOMAIN AllJobs, NEW c \in Channels
  PROVE  \E d \in Planes : \A s, x, y : WeightCell(s, c, x, y) = WeightCell(s, d, x, y)
<1>1. CASE j.storage = "planes"
  BY <1>1 DEF Planes
<1>2. CASE j.storage # "planes"
  <2>1. \A s, x, y : WeightCell(s, c, x, y) = WeightCell(s, 0, x, y)
    BY <1>2 DEF WeightCell, ViewWeight
  <2> QED BY <1>2, <2>1 DEF Planes
<1> QED BY <1>1, <1>2

\* A row of an array of planes, and the pixel in it.
LEMMA PixelIndex ==
  ASSUME job \in DOMAIN AllJobs, NEW x \in Columns, NEW y \in Rows
  PROVE  y * j.width + x \in 0..(Pixels - 1)
<1>1. j.height * j.width = Pixels
  BY Numbers DEF Pixels
<1>2. y * j.width + x \in 0..(j.height * j.width - 1)
  BY Numbers, TwoDigits DEF Columns, Rows
<1> QED BY <1>1, <1>2

\* Different pixels have different indices in a plane.
LEMMA PixelDigits ==
  ASSUME job \in DOMAIN AllJobs, NEW x \in Columns, NEW y \in Rows, NEW u \in Columns, NEW v \in Rows,
         y * j.width + x = v * j.width + u
  PROVE  x = u /\ y = v
BY Numbers, Digits DEF Columns, Rows

\* Numerators and weights of different pixels are in different cells.
CellsDiffer ==
    /\ \A s, t \in SlotRange, c, d \in Channels, x, u \in Columns, y, v \in Rows :
          /\ NumeratorCell(s, c, x, y) = NumeratorCell(t, d, u, v) => s = t /\ c = d /\ x = u /\ y = v
          /\ NumeratorCell(s, c, x, y) # WeightCell(t, d, u, v)
    /\ \A s, t \in SlotRange, c, d \in Planes, x, u \in Columns, y, v \in Rows :
          WeightCell(s, c, x, y) = WeightCell(t, d, u, v) => s = t /\ c = d /\ x = u /\ y = v

\* In planes: a slot is twice as high as the frame.
LEMMA PlanesDiffer ==
  ASSUME job \in DOMAIN AllJobs, j.storage = "planes"
  PROVE  CellsDiffer
<1> DEFINE h == j.height
           Index(s, r, x) == ((s * 2 * h) + r) * j.stride + x
<1>1. ~OnDevice /\ Planes = Channels
  BY DEF OnDevice, Planes
<1>2. \A s, c, x, y : /\ NumeratorCell(s, c, x, y) = <<c, Index(s, y, x)>>
                      /\ WeightCell(s, c, x, y) = <<c, Index(s, h + y, x)>>
  BY <1>1 DEF NumeratorCell, WeightCell, ViewNumerator, ViewWeight, PlaneRow
<1>3. h \in Nat \ {0} /\ j.stride \in Nat /\ j.width \in Nat /\ j.stride >= j.width
  BY JobFits, Numbers
<1>4. ASSUME NEW s \in SlotRange, NEW t \in SlotRange, NEW r \in 0..(2 * h - 1), NEW q \in 0..(2 * h - 1),
             NEW x \in Columns, NEW u \in Columns, Index(s, r, x) = Index(t, q, u)
      PROVE  s = t /\ r = q /\ x = u
  <2>1. s \in Int /\ t \in Int /\ 2 * h \in Nat /\ r \in Int /\ q \in Int
    BY <1>3 DEF SlotRange
  <2>2. s * 2 * h = s * (2 * h) /\ t * 2 * h = t * (2 * h) /\ s * (2 * h) \in Int /\ t * (2 * h) \in Int
    BY <1>3, <2>1
  <2>3. x \in 0..(j.stride - 1) /\ u \in 0..(j.stride - 1)
    BY <1>3 DEF Columns
  <2>4. s * (2 * h) + r \in Int /\ t * (2 * h) + q \in Int
    BY <2>1, <2>2
  <2>5. (s * (2 * h) + r) * j.stride + x = (t * (2 * h) + q) * j.stride + u
    BY <1>4, <2>2
  <2> HIDE DEF h
  <2> DEFINE K == 2 * h
             A == s * K + r
             B == t * K + q
  <2>6. K \in Nat /\ A \in Int /\ B \in Int /\ A * j.stride + x = B * j.stride + u
        /\ r \in 0..(K - 1) /\ q \in 0..(K - 1)
    BY <2>1, <2>4, <2>5
  <2> HIDE DEF K
  <2>7. A = B /\ x = u
    <3> HIDE DEF A, B
    <3> QED BY <1>3, <2>3, <2>6, Digits
  <2> QED BY <2>1, <2>6, <2>7, Digits
<1>5. \A y \in Rows : y \in 0..(2 * h - 1) /\ h + y \in 0..(2 * h - 1) /\ y \in 0..(h - 1)
  BY <1>3 DEF Rows
<1> HIDE DEF Index
<1>6. ASSUME NEW s \in SlotRange, NEW t \in SlotRange, NEW x \in Columns, NEW u \in Columns, NEW y \in Rows, NEW v \in Rows
      PROVE  /\ Index(s, y, x) = Index(t, v, u) => s = t /\ y = v /\ x = u
             /\ Index(s, y, x) # Index(t, h + v, u)
             /\ Index(s, h + y, x) = Index(t, h + v, u) => s = t /\ y = v /\ x = u
  <2>1. y \in 0..(2 * h - 1) /\ v \in 0..(2 * h - 1) /\ h + y \in 0..(2 * h - 1) /\ h + v \in 0..(2 * h - 1)
        /\ y \in 0..(h - 1) /\ v \in 0..(h - 1)
    BY <1>5
  <2>2. y # h + v /\ (h + y = h + v => y = v)
    BY <1>3, <2>1
  <2> HIDE DEF h
  <2> QED BY <1>4, <2>1, <2>2
<1> HIDE DEF h
<1> QED BY <1>1, <1>2, <1>6 DEF CellsDiffer

\* In one array: a slot is a row of planes, the last of them the weights.
LEMMA ArrayDiffers ==
  ASSUME job \in DOMAIN AllJobs, j.storage = "contiguous"
  PROVE  CellsDiffer
<1> DEFINE Index(s, c, r) == s * SlotStride + c * PlanePixels + r
<1>1. ~OnDevice /\ Planes = {0}
  BY DEF OnDevice, Planes
<1>2. \A s, c, x, y : /\ NumeratorCell(s, c, x, y) = <<0, s * SlotStride + c * PlanePixels + y * j.width + x>>
                      /\ WeightCell(s, c, x, y) = <<0, s * SlotStride + j.channels * PlanePixels + y * j.width + x>>
  BY <1>1 DEF NumeratorCell, WeightCell, ViewNumerator, ViewWeight
<1>3. /\ PlanePixels = Pixels /\ PlanePixels \in Nat \ {0} /\ SlotStride = (j.channels + 1) * PlanePixels
      /\ SlotStride \in Nat /\ j.channels \in Nat \ {0} /\ j.width \in Nat
  <2>1. PlanePixels = Pixels /\ SlotStride = (j.channels + 1) * PlanePixels
    BY DEF PlanePixels, SlotStride
  <2>2. PlanePixels \in Nat \ {0} /\ j.channels \in Nat \ {0} /\ j.width \in Nat
    BY <2>1, Numbers, JobFits
  <2>3. (j.channels + 1) * PlanePixels \in Nat
    BY <2>2
  <2> QED BY <2>1, <2>2, <2>3
<1>4. ASSUME NEW s \in SlotRange, NEW t \in SlotRange, NEW c \in 0..j.channels, NEW d \in 0..j.channels,
             NEW r \in 0..(PlanePixels - 1), NEW q \in 0..(PlanePixels - 1), Index(s, c, r) = Index(t, d, q)
      PROVE  s = t /\ c = d /\ r = q
  <2>1. s \in Int /\ t \in Int /\ c \in Int /\ d \in Int
    BY <1>3 DEF SlotRange
  <2>2. c * PlanePixels + r \in 0..((j.channels + 1) * PlanePixels - 1)
    <3>1. j.channels + 1 \in Nat /\ c \in 0..((j.channels + 1) - 1)
      BY <1>3
    <3> QED BY <1>3, <3>1, TwoDigits
  <2>3. d * PlanePixels + q \in 0..((j.channels + 1) * PlanePixels - 1)
    <3>1. j.channels + 1 \in Nat /\ d \in 0..((j.channels + 1) - 1)
      BY <1>3
    <3> QED BY <1>3, <3>1, TwoDigits
  <2>4. s * SlotStride \in Int /\ t * SlotStride \in Int /\ c * PlanePixels \in Int /\ d * PlanePixels \in Int
    BY <1>3, <2>1
  <2>5. s * SlotStride + (c * PlanePixels + r) = t * SlotStride + (d * PlanePixels + q)
    BY <1>4, <2>4
  <2>6. s = t /\ c * PlanePixels + r = d * PlanePixels + q
    <3> DEFINE A == c * PlanePixels + r
               B == d * PlanePixels + q
    <3>1. A \in 0..(SlotStride - 1) /\ B \in 0..(SlotStride - 1)
      <4>1. 0..((j.channels + 1) * PlanePixels - 1) = 0..(SlotStride - 1)
        BY <1>3
      <4> QED BY <2>2, <2>3, <4>1, Zenon
    <3>2. s * SlotStride + A = t * SlotStride + B
      BY <2>5, Zenon
    <3> HIDE DEF A, B
    <3>3. SlotStride \in Nat
      BY <1>3
    <3>4. s = t /\ A = B
      BY <2>1, <3>1, <3>2, <3>3, Digits
    <3> QED BY <3>4 DEF A, B
  <2> QED BY <1>3, <2>1, <2>6, Digits
<1>5. \A s, c, x, y : s \in SlotRange /\ c \in 0..j.channels /\ x \in Columns /\ y \in Rows
                        => s * SlotStride + c * PlanePixels + y * j.width + x = Index(s, c, y * j.width + x)
  <2> SUFFICES ASSUME NEW s \in SlotRange, NEW c \in 0..j.channels, NEW x \in Columns, NEW y \in Rows
               PROVE  s * SlotStride + c * PlanePixels + y * j.width + x = Index(s, c, y * j.width + x)
    OBVIOUS
  <2>1. s * SlotStride \in Int /\ c * PlanePixels \in Int /\ y * j.width \in Int /\ x \in Int
    BY <1>3 DEF SlotRange, Rows, Columns
  <2> QED BY <2>1
<1>6. \A x \in Columns, y \in Rows : y * j.width + x \in 0..(PlanePixels - 1)
  BY <1>3, PixelIndex
<1>7. \A c \in Channels : c \in 0..j.channels /\ c # j.channels
  BY <1>3 DEF Channels
<1>8. j.channels \in 0..j.channels
  BY <1>3
<1> HIDE DEF Index
<1>9. ASSUME NEW s \in SlotRange, NEW t \in SlotRange, NEW c \in 0..j.channels, NEW d \in 0..j.channels,
             NEW x \in Columns, NEW u \in Columns, NEW y \in Rows, NEW v \in Rows,
             s * SlotStride + c * PlanePixels + y * j.width + x = t * SlotStride + d * PlanePixels + v * j.width + u
      PROVE  s = t /\ c = d /\ x = u /\ y = v
  <2>1. Index(s, c, y * j.width + x) = Index(t, d, v * j.width + u)
    <3>1. s * SlotStride + c * PlanePixels + y * j.width + x = Index(s, c, y * j.width + x)
      BY <1>5
    <3>2. t * SlotStride + d * PlanePixels + v * j.width + u = Index(t, d, v * j.width + u)
      BY <1>5
    <3> QED BY <1>9, <3>1, <3>2
  <2>2. s = t /\ c = d /\ y * j.width + x = v * j.width + u
    BY <1>4, <1>6, <2>1
  <2> QED BY <2>2, PixelDigits
<1>10. ASSUME NEW s \in SlotRange, NEW t \in SlotRange, NEW c \in Channels, NEW d \in Channels,
              NEW x \in Columns, NEW u \in Columns, NEW y \in Rows, NEW v \in Rows
       PROVE  /\ NumeratorCell(s, c, x, y) = NumeratorCell(t, d, u, v) => s = t /\ c = d /\ x = u /\ y = v
              /\ NumeratorCell(s, c, x, y) # WeightCell(t, d, u, v)
              /\ WeightCell(s, c, x, y) = WeightCell(t, d, u, v) => s = t /\ x = u /\ y = v
  <2>1. \A z \in 0..j.channels, w \in 0..j.channels :
           s * SlotStride + z * PlanePixels + y * j.width + x = t * SlotStride + w * PlanePixels + v * j.width + u
             => s = t /\ z = w /\ x = u /\ y = v
    BY <1>9
  <2> QED BY <1>2, <1>7, <1>8, <2>1
<1> QED BY <1>1, <1>10, Numbers DEF CellsDiffer

\* On the device: planes of slots by channel, the weights behind them.
LEMMA DeviceDiffers ==
  ASSUME job \in DOMAIN AllJobs, OnDevice, ViewFits
  PROVE  CellsDiffer
<1> DEFINE V == View
           Pixel(x, y) == y * V.row + x
           WPixel(x, y) == y * V.weightRow + x
<1>1. /\ V.row \in Nat /\ V.slot \in Nat /\ V.channel \in Nat /\ V.weightRow \in Nat /\ V.weightSlot \in Nat
      /\ V.weights \in Nat /\ V.weights >= j.channels * V.channel
      /\ V.row >= j.width /\ V.weightRow >= j.width /\ V.slot >= V.row * j.height
      /\ V.channel >= V.slot * Slots /\ V.weightSlot >= V.weightRow * j.height
  BY ViewIs DEF ViewFits, ValidView
<1>2. Planes = {0}
  BY DEF OnDevice, Planes
<1>3. \A s, c, x, y : /\ NumeratorCell(s, c, x, y) = <<0, c * V.channel + s * V.slot + y * V.row + x>>
                      /\ WeightCell(s, c, x, y) = <<0, V.weights + s * V.weightSlot + y * V.weightRow + x>>
  BY DEF NumeratorCell, WeightCell, NumeratorOffset, WeightOffset
<1> HIDE DEF V
<1>4. j.width \in Nat \ {0} /\ j.height \in Nat \ {0} /\ Slots \in Nat \ {0} /\ j.channels \in Nat \ {0}
  BY Numbers, JobFits
<1>5. ASSUME NEW x \in Columns, NEW y \in Rows
      PROVE  /\ x \in 0..(V.row - 1) /\ x \in 0..(V.weightRow - 1)
             /\ Pixel(x, y) \in 0..(V.slot - 1) /\ WPixel(x, y) \in 0..(V.weightSlot - 1)
  <2>1. x \in 0..(V.row - 1) /\ x \in 0..(V.weightRow - 1) /\ y \in 0..(j.height - 1)
    BY <1>1, <1>4 DEF Columns, Rows
  <2>2. Pixel(x, y) \in 0..(j.height * V.row - 1) /\ WPixel(x, y) \in 0..(j.height * V.weightRow - 1)
    BY <1>1, <1>4, <2>1, TwoDigits
  <2>3. j.height * V.row = V.row * j.height /\ j.height * V.weightRow = V.weightRow * j.height
        /\ V.row * j.height \in Int /\ V.weightRow * j.height \in Int
    BY <1>1, <1>4
  <2> HIDE DEF Pixel, WPixel
  <2> QED BY <1>1, <2>1, <2>2, <2>3
<1>6. ASSUME NEW s \in SlotRange, NEW x \in Columns, NEW y \in Rows
      PROVE  s * V.slot + Pixel(x, y) \in 0..(V.channel - 1)
  <2>1. s \in 0..(Slots - 1)
    BY DEF SlotRange
  <2>2. s * V.slot + Pixel(x, y) \in 0..(Slots * V.slot - 1)
    BY <1>1, <1>4, <1>5, <2>1, TwoDigits
  <2>3. Slots * V.slot = V.slot * Slots /\ V.slot * Slots \in Int
    BY <1>1, <1>4
  <2> HIDE DEF Pixel
  <2> QED BY <1>1, <2>2, <2>3
<1>7. ASSUME NEW s \in SlotRange, NEW c \in Channels, NEW x \in Columns, NEW y \in Rows
      PROVE  /\ c * V.channel + s * V.slot + y * V.row + x = c * V.channel + (s * V.slot + Pixel(x, y))
             /\ c * V.channel + (s * V.slot + Pixel(x, y)) < V.weights
             /\ V.weights + s * V.weightSlot + y * V.weightRow + x = V.weights + (s * V.weightSlot + WPixel(x, y))
             /\ s * V.weightSlot + WPixel(x, y) \in Nat /\ c * V.channel + (s * V.slot + Pixel(x, y)) \in Int
  <2>1. /\ c \in Int /\ s \in Int /\ x \in Int /\ y \in Int /\ c * V.channel \in Int /\ s * V.slot \in Int
        /\ y * V.row \in Int /\ s * V.weightSlot \in Int /\ y * V.weightRow \in Int
    BY <1>1 DEF SlotRange, Channels, Columns, Rows
  <2>2. c \in 0..(j.channels - 1) /\ s \in Nat
    BY <1>4 DEF Channels, SlotRange
  <2>3. c * V.channel + (s * V.slot + Pixel(x, y)) \in 0..(j.channels * V.channel - 1)
    BY <1>1, <1>4, <1>6, <2>2, TwoDigits
  <2>4. j.channels * V.channel \in Int /\ s * V.weightSlot \in Nat
    <3>1. 0 * V.weightSlot <= s * V.weightSlot
      BY <1>1, <2>2, Scale
    <3> QED BY <1>1, <1>4, <2>1, <3>1
  <2>5. WPixel(x, y) \in Nat /\ Pixel(x, y) \in Nat
    BY <1>1, <1>5
  <2>6. c * V.channel + (s * V.slot + Pixel(x, y)) < V.weights
    BY <1>1, <2>3, <2>4
  <2>7. s * V.weightSlot + WPixel(x, y) \in Nat
    <3> HIDE DEF WPixel
    <3> QED BY <2>4, <2>5
  <2>8. c * V.channel + s * V.slot + y * V.row + x = c * V.channel + (s * V.slot + Pixel(x, y))
    BY <2>1
  <2>9. V.weights + s * V.weightSlot + y * V.weightRow + x = V.weights + (s * V.weightSlot + WPixel(x, y))
    BY <1>1, <2>1
  <2> QED BY <2>3, <2>6, <2>7, <2>8, <2>9
<1>8. ASSUME NEW s \in SlotRange, NEW t \in SlotRange, NEW c \in Channels, NEW d \in Channels,
             NEW x \in Columns, NEW u \in Columns, NEW y \in Rows, NEW v \in Rows,
             c * V.channel + (s * V.slot + Pixel(x, y)) = d * V.channel + (t * V.slot + Pixel(u, v))
      PROVE  s = t /\ c = d /\ x = u /\ y = v
  <2>1. s \in Int /\ t \in Int /\ c \in Int /\ d \in Int /\ y \in Int /\ v \in Int
    BY DEF SlotRange, Channels, Rows
  <2>2. s * V.slot + Pixel(x, y) \in 0..(V.channel - 1) /\ t * V.slot + Pixel(u, v) \in 0..(V.channel - 1)
    BY <1>6
  <2>3. Pixel(x, y) \in 0..(V.slot - 1) /\ Pixel(u, v) \in 0..(V.slot - 1)
        /\ x \in 0..(V.row - 1) /\ u \in 0..(V.row - 1)
    BY <1>5
  <2> HIDE DEF Pixel
  <2>4. c = d /\ s * V.slot + Pixel(x, y) = t * V.slot + Pixel(u, v)
    BY <1>1, <1>8, <2>1, <2>2, Digits
  <2>5. s = t /\ Pixel(x, y) = Pixel(u, v)
    BY <1>1, <2>1, <2>3, <2>4, Digits
  <2>6. x = u /\ y = v
    <3>1. y * V.row + x = v * V.row + u
      BY <2>5 DEF Pixel
    <3> QED BY <1>1, <2>1, <2>3, <3>1, Digits
  <2> QED BY <2>4, <2>5, <2>6
<1>9. ASSUME NEW s \in SlotRange, NEW t \in SlotRange,
             NEW x \in Columns, NEW u \in Columns, NEW y \in Rows, NEW v \in Rows,
             s * V.weightSlot + WPixel(x, y) = t * V.weightSlot + WPixel(u, v)
      PROVE  s = t /\ x = u /\ y = v
  <2>1. s \in Int /\ t \in Int /\ y \in Int /\ v \in Int
    BY DEF SlotRange, Rows
  <2>2. WPixel(x, y) \in 0..(V.weightSlot - 1) /\ WPixel(u, v) \in 0..(V.weightSlot - 1)
        /\ x \in 0..(V.weightRow - 1) /\ u \in 0..(V.weightRow - 1)
    BY <1>5
  <2> HIDE DEF WPixel
  <2>3. s = t /\ WPixel(x, y) = WPixel(u, v)
    BY <1>1, <1>9, <2>1, <2>2, Digits
  <2>4. x = u /\ y = v
    <3>1. y * V.weightRow + x = v * V.weightRow + u
      BY <2>3 DEF WPixel
    <3> QED BY <1>1, <2>1, <2>2, <3>1, Digits
  <2> QED BY <2>3, <2>4
<1> HIDE DEF Pixel, WPixel
<1>10. ASSUME NEW s \in SlotRange, NEW t \in SlotRange, NEW c \in Channels, NEW d \in Channels,
              NEW x \in Columns, NEW u \in Columns, NEW y \in Rows, NEW v \in Rows
       PROVE  /\ NumeratorCell(s, c, x, y) = NumeratorCell(t, d, u, v) => s = t /\ c = d /\ x = u /\ y = v
              /\ NumeratorCell(s, c, x, y) # WeightCell(t, d, u, v)
              /\ WeightCell(s, c, x, y) = WeightCell(t, d, u, v) => s = t /\ x = u /\ y = v
  <2> DEFINE A == c * V.channel + (s * V.slot + Pixel(x, y))
             B == d * V.channel + (t * V.slot + Pixel(u, v))
             P == s * V.weightSlot + WPixel(x, y)
             Q == t * V.weightSlot + WPixel(u, v)
  <2>1. /\ NumeratorCell(s, c, x, y) = <<0, A>> /\ NumeratorCell(t, d, u, v) = <<0, B>>
        /\ WeightCell(s, c, x, y) = <<0, V.weights + P>> /\ WeightCell(t, d, u, v) = <<0, V.weights + Q>>
    BY <1>3, <1>7
  <2>2. A \in Int /\ A < V.weights /\ P \in Nat /\ Q \in Nat
    BY <1>7
  <2>3. A = B => s = t /\ c = d /\ x = u /\ y = v
    BY <1>8
  <2>4. P = Q => s = t /\ x = u /\ y = v
    BY <1>9
  <2> HIDE DEF A, B, P, Q
  <2>5. A # V.weights + Q /\ (V.weights + P = V.weights + Q => P = Q)
    BY <1>1, <2>2
  <2> QED BY <2>1, <2>3, <2>4, <2>5
<1> QED BY <1>2, <1>10, Numbers DEF CellsDiffer

\* In every storage, different places have different cells.
LEMMA AllCellsDiffer ==
  ASSUME job \in DOMAIN AllJobs, ViewFits
  PROVE  CellsDiffer
<1>1. j.storage \in {"planes", "contiguous"} \/ OnDevice
  BY JobFits DEF OnDevice
<1> QED BY <1>1, PlanesDiffer, ArrayDiffers, DeviceDiffers

-----------------------------------------------------------------------------
(* Clearing: both implementations clear the cells of a contribution, and   *)
(* no other.                                                               *)

\* What div and mod make of two digits.
LEMMA DivMod ==
  ASSUME NEW k \in Nat \ {0}, NEW a \in Nat, NEW u \in 0..(k - 1)
  PROVE  (a * k + u) \div k = a /\ (a * k + u) % k = u
<1> DEFINE i == a * k + u
<1>1. i \in 0..((a + 1) * k - 1) /\ a + 1 \in Nat
  <2>1. a + 1 \in Nat /\ a \in 0..((a + 1) - 1)
    OBVIOUS
  <2> QED BY <2>1, TwoDigits
<1>2. i = a * k + u
  OBVIOUS
<1> HIDE DEF i
<1>3. i \div k \in 0..((a + 1) - 1) /\ i % k \in 0..(k - 1) /\ i = (i \div k) * k + (i % k)
  BY <1>1, DigitsOf
<1> DEFINE b == i \div k
           v == i % k
<1>4. b \in Int /\ v \in 0..(k - 1) /\ b * k + v = a * k + u
  BY <1>2, <1>3
<1> HIDE DEF b, v
<1>5. b = a /\ v = u
  BY <1>4, Digits
<1> QED BY <1>2, <1>5 DEF b, v

\* The pixel of an index into a plane.
LEMMA PixelOfIndex ==
  ASSUME job \in DOMAIN AllJobs, NEW r \in 0..(Pixels - 1)
  PROVE  /\ r % j.width \in Columns /\ r \div j.width \in Rows
         /\ r = (r \div j.width) * j.width + (r % j.width)
<1>1. r \in 0..(j.height * j.width - 1)
  <2>1. j.height * j.width = Pixels
    BY Numbers DEF Pixels
  <2> QED BY <2>1
<1> QED BY <1>1, Numbers, DigitsOf DEF Columns, Rows

\* An index decodes to its pixel.
LEMMA IndexOfPixel ==
  ASSUME job \in DOMAIN AllJobs, NEW x \in Columns, NEW y \in Rows
  PROVE  (y * j.width + x) % j.width = x /\ (y * j.width + x) \div j.width = y
<1>1. j.width \in Nat \ {0} /\ y \in Nat /\ x \in 0..(j.width - 1)
  BY Numbers DEF Columns, Rows
<1> QED BY <1>1, DivMod

\* Row by row.
LEMMA PlanesAreCleared ==
  ASSUME job \in DOMAIN AllJobs, j.storage = "planes"
  PROVE  ClearedByCpu = OwnCells
<1> DEFINE h == j.height
           Row(r, x) == r * j.stride + x
<1>1. ~OnDevice
  BY DEF OnDevice
<1>2. h \in Nat \ {0} /\ Slots \in Nat \ {0} /\ j.stride \in Int
  BY Numbers, JobFits
<1>3. \A s, c, x, y :
         /\ NumeratorCell(s, c, x, y) = <<c, Row(s * 2 * h + y, x)>>
         /\ WeightCell(s, c, x, y) = <<c, Row(s * 2 * h + (h + y), x)>>
  BY <1>1 DEF NumeratorCell, WeightCell, ViewNumerator, ViewWeight, PlaneRow
<1>4. ClearedByCpu = {<<c, Row(r, x)>> : c \in Channels, r \in 0..(Slots * 2 * h - 1), x \in Columns}
  <2>1. \A r \in 0..(Slots * 2 * h - 1) : \A x : PlaneRow(0, r) + x = Row(r, x)
    <3>1. \A r \in Int : 0 * 2 * h + r = r
      BY <1>2
    <3> QED BY <1>2, <3>1 DEF PlaneRow
  <2> QED BY <2>1 DEF ClearedByCpu
<1>5. \A s \in SlotRange, z \in 0..(2 * h - 1) : s * 2 * h + z \in 0..(Slots * 2 * h - 1)
  <2> SUFFICES ASSUME NEW s \in SlotRange, NEW z \in 0..(2 * h - 1)
               PROVE  s * 2 * h + z \in 0..(Slots * 2 * h - 1)
    OBVIOUS
  <2>1. s \in 0..(Slots - 1) /\ 2 * h \in Nat
    BY <1>2 DEF SlotRange
  <2>2. s * (2 * h) + z \in 0..(Slots * (2 * h) - 1)
    BY <1>2, <2>1, TwoDigits
  <2>3. s * 2 * h = s * (2 * h) /\ Slots * 2 * h = Slots * (2 * h)
    BY <1>2, <2>1
  <2> QED BY <2>2, <2>3
<1>6. ASSUME NEW cell \in OwnCells PROVE cell \in ClearedByCpu
  <2>1. PICK s \in SlotRange, c \in Channels, x \in Columns, y \in Rows :
           cell = NumeratorCell(s, c, x, y) \/ cell = WeightCell(s, c, x, y)
    BY OwnCellsAre
  <2>2. y \in 0..(2 * h - 1) /\ h + y \in 0..(2 * h - 1)
    BY <1>2 DEF Rows
  <2>3. \E r \in 0..(Slots * 2 * h - 1) : cell = <<c, Row(r, x)>>
    <3> HIDE DEF Row
    <3> QED BY <1>3, <1>5, <2>1, <2>2
  <2> HIDE DEF Row
  <2> QED BY <1>4, <2>3
<1>7. ASSUME NEW cell \in ClearedByCpu PROVE cell \in OwnCells
  <2> HIDE DEF Row
  <2>1. PICK c \in Channels, r \in 0..(Slots * 2 * h - 1), x \in Columns : cell = <<c, Row(r, x)>>
    BY <1>4
  <2> DEFINE K == 2 * h
             s == r \div K
             z == r % K
  <2>2. K \in Nat \ {0} /\ Slots * 2 * h = Slots * K
    BY <1>2
  <2>3. r \in 0..(Slots * K - 1)
    BY <2>1, <2>2
  <2>4. s \in 0..(Slots - 1) /\ z \in 0..(K - 1) /\ r = s * K + z
    <3> HIDE DEF K
    <3> QED BY <1>2, <2>2, <2>3, DigitsOf
  <2> HIDE DEF s, z
  <2>5. s \in SlotRange /\ s * K = s * 2 * h /\ s * 2 * h \in Int
    BY <1>2, <2>4 DEF SlotRange
  <2>6. CASE z < h
    <3>1. z \in Rows /\ cell = NumeratorCell(s, c, x, z)
      <4>1. z \in Rows /\ r = s * 2 * h + z
        BY <1>2, <2>4, <2>5, <2>6 DEF Rows
      <4> QED BY <1>3, <2>1, <2>5, <4>1
    <3> QED BY <2>5, <3>1, CellsAreOwn
  <2>7. CASE ~(z < h)
    <3>1. z - h \in Rows /\ cell = WeightCell(s, c, x, z - h)
      <4>1. z - h \in Rows /\ r = s * 2 * h + (h + (z - h))
        BY <1>2, <2>4, <2>5, <2>7 DEF Rows
      <4> QED BY <1>3, <2>1, <2>5, <4>1
    <3> QED BY <2>5, <3>1, CellsAreOwn
  <2> QED BY <2>6, <2>7
<1> QED BY <1>6, <1>7

\* At once.
LEMMA ArrayIsCleared ==
  ASSUME job \in DOMAIN AllJobs, j.storage = "contiguous"
  PROVE  ClearedByCpu = OwnCells
<1> DEFINE Index(s, q) == s * SlotStride + q
           Plane(c, r) == c * PlanePixels + r
<1>1. ~OnDevice
  BY DEF OnDevice
<1>2. /\ PlanePixels = Pixels /\ PlanePixels \in Nat \ {0} /\ j.channels \in Nat \ {0} /\ j.width \in Nat \ {0}
      /\ Slots \in Nat \ {0} /\ SlotStride = (j.channels + 1) * PlanePixels /\ SlotStride \in Nat \ {0}
  <2>1. PlanePixels = Pixels /\ SlotStride = (j.channels + 1) * PlanePixels
    BY DEF PlanePixels, SlotStride
  <2>2. PlanePixels \in Nat \ {0} /\ j.channels \in Nat \ {0} /\ j.width \in Nat \ {0} /\ Slots \in Nat \ {0}
    BY <2>1, Numbers, JobFits
  <2>3. (j.channels + 1) * PlanePixels \in Nat \ {0}
    <3>1. 1 * PlanePixels <= (j.channels + 1) * PlanePixels
      BY <2>2, Scale
    <3> QED BY <2>2, <3>1
  <2> QED BY <2>1, <2>2, <2>3
<1>3. ASSUME NEW s \in SlotRange, NEW c \in Channels, NEW x \in Columns, NEW y \in Rows
      PROVE  /\ NumeratorCell(s, c, x, y) = <<0, Index(s, Plane(c, y * j.width + x))>>
             /\ WeightCell(s, c, x, y) = <<0, Index(s, Plane(j.channels, y * j.width + x))>>
  <2>1. /\ s * SlotStride \in Int /\ c * PlanePixels \in Int /\ j.channels * PlanePixels \in Int
        /\ y * j.width \in Int /\ x \in Int
    BY <1>2 DEF SlotRange, Channels, Columns, Rows
  <2>2. /\ NumeratorCell(s, c, x, y) = <<0, s * SlotStride + c * PlanePixels + y * j.width + x>>
        /\ WeightCell(s, c, x, y) = <<0, s * SlotStride + j.channels * PlanePixels + y * j.width + x>>
    BY <1>1 DEF NumeratorCell, WeightCell, ViewNumerator, ViewWeight
  <2>3. /\ s * SlotStride + c * PlanePixels + y * j.width + x = Index(s, Plane(c, y * j.width + x))
        /\ s * SlotStride + j.channels * PlanePixels + y * j.width + x = Index(s, Plane(j.channels, y * j.width + x))
    BY <2>1
  <2> QED BY <2>2, <2>3
<1>4. ClearedByCpu = {0} \X (0..(Slots * SlotStride - 1))
  BY DEF ClearedByCpu, ValueCount
<1>5. ASSUME NEW c \in 0..j.channels, NEW r \in 0..(PlanePixels - 1)
      PROVE  Plane(c, r) \in 0..(SlotStride - 1)
  <2>1. c \in 0..((j.channels + 1) - 1) /\ j.channels + 1 \in Nat
    BY <1>2
  <2>2. Plane(c, r) \in 0..((j.channels + 1) * PlanePixels - 1)
    BY <1>2, <2>1, TwoDigits
  <2> HIDE DEF Plane
  <2> QED BY <1>2, <2>2
<1>6. ASSUME NEW s \in SlotRange, NEW q \in 0..(SlotStride - 1)
      PROVE  <<0, Index(s, q)>> \in ClearedByCpu
  <2>1. SlotStride \in Nat /\ Slots \in Nat /\ s \in 0..(Slots - 1)
    BY <1>2 DEF SlotRange
  <2>2. Index(s, q) \in 0..(Slots * SlotStride - 1)
    BY <2>1, TwoDigits
  <2> HIDE DEF Index
  <2> QED BY <1>4, <2>2
<1>7. \A c \in Channels : c \in 0..j.channels
  BY <1>2 DEF Channels
<1>8. j.channels \in 0..j.channels
  BY <1>2
<1>9. ASSUME NEW cell \in OwnCells PROVE cell \in ClearedByCpu
  <2>1. PICK s \in SlotRange, c \in Channels, x \in Columns, y \in Rows :
           cell = NumeratorCell(s, c, x, y) \/ cell = WeightCell(s, c, x, y)
    BY OwnCellsAre
  <2>2. y * j.width + x \in 0..(PlanePixels - 1)
    BY <1>2, PixelIndex
  <2>3. /\ Plane(c, y * j.width + x) \in 0..(SlotStride - 1)
        /\ Plane(j.channels, y * j.width + x) \in 0..(SlotStride - 1)
    BY <1>5, <1>7, <1>8, <2>2
  <2> HIDE DEF Index, Plane
  <2> QED BY <1>3, <1>6, <2>1, <2>3
<1>10. ASSUME NEW cell \in ClearedByCpu PROVE cell \in OwnCells
  <2>1. PICK i \in 0..(Slots * SlotStride - 1) : cell = <<0, i>>
    BY <1>4
  <2>2. PICK s \in SlotRange, q \in 0..(SlotStride - 1) : i = Index(s, q)
    <3>1. SlotStride \in Nat \ {0} /\ Slots \in Nat
      BY <1>2
    <3> QED BY <2>1, <3>1, DigitsOf DEF SlotRange
  <2>3. PICK c \in 0..j.channels, r \in 0..(PlanePixels - 1) : q = Plane(c, r)
    <3>1. q \in 0..((j.channels + 1) * PlanePixels - 1)
      BY <1>2
    <3>2. j.channels + 1 \in Nat /\ PlanePixels \in Nat \ {0}
      BY <1>2
    <3>3. q \div PlanePixels \in 0..((j.channels + 1) - 1) /\ q % PlanePixels \in 0..(PlanePixels - 1)
          /\ q = (q \div PlanePixels) * PlanePixels + (q % PlanePixels)
      BY <3>1, <3>2, DigitsOf
    <3>4. 0..((j.channels + 1) - 1) = 0..j.channels
      BY <1>2
    <3> QED BY <3>3, <3>4
  <2>4. PICK x \in Columns, y \in Rows : r = y * j.width + x
    <3>1. r \in 0..(Pixels - 1)
      BY <1>2
    <3> QED BY <3>1, PixelOfIndex
  <2>5. cell = <<0, Index(s, Plane(c, y * j.width + x))>>
    BY <2>1, <2>2, <2>3, <2>4
  <2> HIDE DEF Index, Plane
  <2>6. CASE c = j.channels
    <3>1. cell = WeightCell(s, 0, x, y)
      BY <1>3, <2>5, <2>6, Numbers
    <3> QED BY <3>1, CellsAreOwn, Numbers
  <2>7. CASE c # j.channels
    <3>1. c \in Channels
      BY <1>2, <2>7 DEF Channels
    <3>2. cell = NumeratorCell(s, c, x, y)
      BY <1>3, <2>5, <3>1
    <3> QED BY <3>1, <3>2, CellsAreOwn
  <2> QED BY <2>6, <2>7
<1> QED BY <1>9, <1>10

\* An index into the numerators of a contribution, and its channel, slot and pixel.
LEMMA NumeratorIndex ==
  ASSUME job \in DOMAIN AllJobs
  PROVE  /\ \A c \in Channels, s \in SlotRange, r \in 0..(Pixels - 1) :
               LET i == (c * Slots + s) * Pixels + r
               IN  /\ i \in 0..(NumeratorValues - 1)
                   /\ (i \div Pixels) % Slots = s /\ (i \div Pixels) \div Slots = c /\ i % Pixels = r
         /\ \A i \in 0..(NumeratorValues - 1) :
               /\ (i \div Pixels) % Slots \in SlotRange /\ (i \div Pixels) \div Slots \in Channels
               /\ i % Pixels \in 0..(Pixels - 1)
               /\ i = ((((i \div Pixels) \div Slots) * Slots) + ((i \div Pixels) % Slots)) * Pixels + (i % Pixels)
<1>0. Pixels \in Nat \ {0} /\ Slots \in Nat \ {0} /\ j.channels \in Nat
  BY Numbers, JobFits
<1>1. Pixels \in Nat \ {0} /\ Slots \in Nat \ {0} /\ j.channels \in Nat /\ j.channels * Slots \in Nat
  <2>1. j.channels * Slots \in Nat
    BY <1>0
  <2> QED BY <1>0, <2>1
<1>2. NumeratorValues = (j.channels * Slots) * Pixels
  BY DEF NumeratorValues
<1>3. ASSUME NEW c \in Channels, NEW s \in SlotRange, NEW r \in 0..(Pixels - 1)
      PROVE  LET i == (c * Slots + s) * Pixels + r
             IN  /\ i \in 0..(NumeratorValues - 1)
                 /\ (i \div Pixels) % Slots = s /\ (i \div Pixels) \div Slots = c /\ i % Pixels = r
  <2> DEFINE q == c * Slots + s
             i == q * Pixels + r
  <2>1. c \in Nat /\ c \in 0..(j.channels - 1) /\ s \in 0..(Slots - 1)
    BY <1>1 DEF Channels, SlotRange
  <2>2. q \in 0..(j.channels * Slots - 1) /\ q % Slots = s /\ q \div Slots = c
    BY <1>1, <2>1, TwoDigits, DivMod
  <2> HIDE DEF q
  <2>3. q \in Nat
    BY <1>1, <2>2
  <2>4. i \in 0..((j.channels * Slots) * Pixels - 1)
    BY <1>1, <2>2, TwoDigits
  <2>5. i \div Pixels = q /\ i % Pixels = r
    BY <1>1, <2>3, DivMod
  <2> HIDE DEF i
  <2>6. /\ i \in 0..(NumeratorValues - 1)
        /\ (i \div Pixels) % Slots = s /\ (i \div Pixels) \div Slots = c /\ i % Pixels = r
    BY <1>2, <2>2, <2>4, <2>5
  <2> QED BY <2>6 DEF i, q
<1>4. ASSUME NEW i \in 0..(NumeratorValues - 1)
      PROVE  /\ (i \div Pixels) % Slots \in SlotRange /\ (i \div Pixels) \div Slots \in Channels
             /\ i % Pixels \in 0..(Pixels - 1)
             /\ i = ((((i \div Pixels) \div Slots) * Slots) + ((i \div Pixels) % Slots)) * Pixels + (i % Pixels)
  <2> DEFINE q == i \div Pixels
  <2>1. i \in 0..((j.channels * Slots) * Pixels - 1)
    BY <1>2
  <2>2. q \in 0..(j.channels * Slots - 1) /\ i % Pixels \in 0..(Pixels - 1) /\ i = q * Pixels + (i % Pixels)
    BY <1>1, <2>1, DigitsOf
  <2> HIDE DEF q
  <2>3. q \div Slots \in 0..(j.channels - 1) /\ q % Slots \in 0..(Slots - 1) /\ q = (q \div Slots) * Slots + (q % Slots)
    BY <1>1, <2>2, DigitsOf
  <2>4. i = (((q \div Slots) * Slots) + (q % Slots)) * Pixels + (i % Pixels)
    BY <2>2, <2>3, Zenon
  <2>5. q % Slots \in SlotRange /\ q \div Slots \in Channels
    BY <2>3 DEF SlotRange, Channels
  <2> QED BY <2>2, <2>4, <2>5 DEF q
<1> QED BY <1>3, <1>4, Zenon

\* An index into the weights, and its slot and pixel.
LEMMA WeightIndex ==
  ASSUME job \in DOMAIN AllJobs
  PROVE  /\ \A s \in SlotRange, r \in 0..(Pixels - 1) :
               LET i == s * Pixels + r
               IN  i \in 0..(WeightValues - 1) /\ i \div Pixels = s /\ i % Pixels = r
         /\ \A i \in 0..(WeightValues - 1) :
               /\ i \div Pixels \in SlotRange /\ i % Pixels \in 0..(Pixels - 1)
               /\ i = (i \div Pixels) * Pixels + (i % Pixels)
<1>1. Pixels \in Nat \ {0} /\ Slots \in Nat \ {0} /\ WeightValues = Slots * Pixels
  BY Numbers DEF WeightValues
<1>2. ASSUME NEW s \in SlotRange, NEW r \in 0..(Pixels - 1)
      PROVE  LET i == s * Pixels + r
             IN  i \in 0..(WeightValues - 1) /\ i \div Pixels = s /\ i % Pixels = r
  <2>1. s \in Nat /\ s \in 0..(Slots - 1)
    BY <1>1 DEF SlotRange
  <2>2. s * Pixels + r \in 0..(Slots * Pixels - 1)
    BY <1>1, <2>1, TwoDigits
  <2>3. (s * Pixels + r) \div Pixels = s /\ (s * Pixels + r) % Pixels = r
    BY <1>1, <2>1, DivMod
  <2> QED BY <1>1, <2>2, <2>3, Zenon
<1>3. ASSUME NEW i \in 0..(WeightValues - 1)
      PROVE  /\ i \div Pixels \in SlotRange /\ i % Pixels \in 0..(Pixels - 1)
             /\ i = (i \div Pixels) * Pixels + (i % Pixels)
  <2>1. i \in 0..(Slots * Pixels - 1)
    BY <1>1
  <2> QED BY <1>1, <2>1, DigitsOf DEF SlotRange
<1> QED BY <1>2, <1>3

\* The cells on the device.
LEMMA DeviceCells ==
  ASSUME job \in DOMAIN AllJobs, OnDevice
  PROVE  \A cell : cell \in OwnCells <=>
            \/ \E s \in SlotRange, c \in Channels, x \in Columns, y \in Rows : cell = NumeratorOffset(s, c, x, y)
            \/ \E s \in SlotRange, x \in Columns, y \in Rows : cell = WeightOffset(s, x, y)
<1> DEFINE C == SlotRange \X Channels \X Columns \X Rows
           N(s, c, x, y) == NumeratorOffset(s, c, x, y)
           W(s, x, y) == WeightOffset(s, x, y)
<1>1. OwnCells = {N(e[1], e[2], e[3], e[4]) : e \in C} \cup {W(e[1], e[3], e[4]) : e \in C}
  BY DEF OwnCells, SlotRange
<1> HIDE DEF N, W
<1>2. ASSUME NEW cell \in OwnCells
      PROVE  \/ \E s \in SlotRange, c \in Channels, x \in Columns, y \in Rows : cell = N(s, c, x, y)
             \/ \E s \in SlotRange, x \in Columns, y \in Rows : cell = W(s, x, y)
  <2>1. PICK e \in C : cell = N(e[1], e[2], e[3], e[4]) \/ cell = W(e[1], e[3], e[4])
    BY <1>1
  <2>2. e[1] \in SlotRange /\ e[2] \in Channels /\ e[3] \in Columns /\ e[4] \in Rows
    OBVIOUS
  <2> QED BY <2>1, <2>2
<1>3. ASSUME NEW s \in SlotRange, NEW c \in Channels, NEW x \in Columns, NEW y \in Rows
      PROVE  N(s, c, x, y) \in OwnCells /\ W(s, x, y) \in OwnCells
  <2>1. <<s, c, x, y>> \in C
    OBVIOUS
  <2> QED BY <1>1, <2>1
<1>4. \A s \in SlotRange, x \in Columns, y \in Rows : W(s, x, y) \in OwnCells
  BY <1>3, Numbers
<1> QED BY <1>2, <1>3, <1>4 DEF N, W

\* By index.
LEMMA StridedIsCleared ==
  ASSUME job \in DOMAIN AllJobs, OnDevice, ~(View = [ContiguousView EXCEPT !.weights = View.weights])
  PROVE  ClearedByDevice = OwnCells
<1> DEFINE N(s, c, x, y) == NumeratorOffset(s, c, x, y)
           W(s, x, y) == WeightOffset(s, x, y)
           CellN(i) == NumeratorOffset((i \div Pixels) % Slots, (i \div Pixels) \div Slots,
                                       (i % Pixels) % j.width, (i % Pixels) \div j.width)
           CellW(i) == WeightOffset(i \div Pixels, (i % Pixels) % j.width, (i % Pixels) \div j.width)
           I == 0..(NumeratorValues - 1)
           J == 0..(WeightValues - 1)
<1>1. ClearedByDevice = {CellN(i) : i \in I} \cup {CellW(i) : i \in J}
  BY DEF ClearedByDevice
<1>2. \A cell : cell \in OwnCells <=>
         \/ \E s \in SlotRange, c \in Channels, x \in Columns, y \in Rows : cell = N(s, c, x, y)
         \/ \E s \in SlotRange, x \in Columns, y \in Rows : cell = W(s, x, y)
  BY DeviceCells
<1>3. ASSUME NEW i \in I
      PROVE  \E s \in SlotRange, c \in Channels, x \in Columns, y \in Rows : CellN(i) = N(s, c, x, y)
  BY NumeratorIndex, PixelOfIndex
<1>4. ASSUME NEW i \in J
      PROVE  \E s \in SlotRange, x \in Columns, y \in Rows : CellW(i) = W(s, x, y)
  BY WeightIndex, PixelOfIndex
<1>5. ASSUME NEW s \in SlotRange, NEW c \in Channels, NEW x \in Columns, NEW y \in Rows
      PROVE  \E i \in I : CellN(i) = N(s, c, x, y)
  <2> DEFINE r == y * j.width + x
             i == (c * Slots + s) * Pixels + r
  <2>1. r \in 0..(Pixels - 1) /\ r % j.width = x /\ r \div j.width = y
    BY PixelIndex, IndexOfPixel
  <2> HIDE DEF r
  <2>2. i \in I /\ (i \div Pixels) % Slots = s /\ (i \div Pixels) \div Slots = c /\ i % Pixels = r
    BY <2>1, NumeratorIndex
  <2> HIDE DEF i, I
  <2> QED BY <2>1, <2>2
<1>6. ASSUME NEW s \in SlotRange, NEW x \in Columns, NEW y \in Rows
      PROVE  \E i \in J : CellW(i) = W(s, x, y)
  <2> DEFINE r == y * j.width + x
             i == s * Pixels + r
  <2>1. r \in 0..(Pixels - 1) /\ r % j.width = x /\ r \div j.width = y
    BY PixelIndex, IndexOfPixel
  <2> HIDE DEF r
  <2>2. i \in J /\ i \div Pixels = s /\ i % Pixels = r
    BY <2>1, WeightIndex
  <2> HIDE DEF i, J
  <2> QED BY <2>1, <2>2
<1> HIDE DEF N, W, CellN, CellW, I, J
<1>7. ASSUME NEW cell \in OwnCells PROVE cell \in ClearedByDevice
  BY <1>1, <1>2, <1>5, <1>6
<1>8. ASSUME NEW cell \in ClearedByDevice PROVE cell \in OwnCells
  BY <1>1, <1>2, <1>3, <1>4
<1> QED BY <1>7, <1>8

\* By two memsets.
LEMMA DenseIsCleared ==
  ASSUME job \in DOMAIN AllJobs, OnDevice, View = [ContiguousView EXCEPT !.weights = View.weights]
  PROVE  ClearedByDevice = OwnCells
<1> DEFINE NIndex(s, c, r) == (c * Slots + s) * Pixels + r
           WIndex(s, r) == s * Pixels + r
           B == View.weights
           I == 0..(NumeratorValues - 1)
           J == B..(B + WeightValues - 1)
<1>1. ClearedByDevice = {0} \X (I \cup J)
  BY DEF ClearedByDevice
<1>2. /\ View.row = j.width /\ View.slot = Pixels /\ View.channel = Pixels * Slots
      /\ View.weightRow = j.width /\ View.weightSlot = Pixels /\ B \in Nat
  BY ViewIs DEF ContiguousView
<1>3. Pixels \in Nat /\ Slots \in Nat /\ j.width \in Nat
  BY Numbers
<1>4. ASSUME NEW s \in SlotRange, NEW c \in Channels, NEW x \in Columns, NEW y \in Rows
      PROVE  /\ NumeratorOffset(s, c, x, y) = <<0, NIndex(s, c, y * j.width + x)>>
             /\ WeightOffset(s, x, y) = <<0, B + WIndex(s, y * j.width + x)>>
  <2>1. s \in Int /\ c \in Int /\ x \in Int /\ y \in Int
    BY DEF SlotRange, Channels, Columns, Rows
  <2>2. c * (Pixels * Slots) = (c * Slots) * Pixels
    BY <1>3, <2>1
  <2>3. (c * Slots + s) * Pixels = (c * Slots) * Pixels + s * Pixels
    <3>1. c * Slots \in Int
      BY <1>3, <2>1
    <3> QED BY <1>3, <2>1, <3>1, Distributes
  <2>4. (c * Slots) * Pixels \in Int /\ s * Pixels \in Int /\ y * j.width \in Int
    BY <1>3, <2>1
  <2>5. c * (Pixels * Slots) + s * Pixels + y * j.width + x = NIndex(s, c, y * j.width + x)
    BY <2>1, <2>2, <2>3, <2>4
  <2>6. B + s * Pixels + y * j.width + x = B + WIndex(s, y * j.width + x)
    BY <1>2, <2>1, <2>4
  <2> HIDE DEF NIndex, WIndex, B
  <2>7. NumeratorOffset(s, c, x, y) = <<0, c * (Pixels * Slots) + s * Pixels + y * j.width + x>>
    BY <1>2, Zenon DEF NumeratorOffset
  <2>8. WeightOffset(s, x, y) = <<0, B + s * Pixels + y * j.width + x>>
    BY <1>2, Zenon DEF WeightOffset, B
  <2> QED BY <2>5, <2>6, <2>7, <2>8
<1>5. \A s \in SlotRange, c \in Channels, r \in 0..(Pixels - 1) : NIndex(s, c, r) \in I
  BY NumeratorIndex
<1>6. \A s \in SlotRange, r \in 0..(Pixels - 1) : WIndex(s, r) \in 0..(WeightValues - 1)
  BY WeightIndex
<1>7. WeightValues \in Int
  BY <1>3 DEF WeightValues
<1>8. ASSUME NEW i \in I PROVE \E s \in SlotRange, c \in Channels, r \in 0..(Pixels - 1) : i = NIndex(s, c, r)
  BY NumeratorIndex
<1>9. ASSUME NEW i \in J PROVE \E s \in SlotRange, r \in 0..(Pixels - 1) : i = B + WIndex(s, r)
  <2>1. i - B \in 0..(WeightValues - 1) /\ i \in Int
    BY <1>2, <1>7
  <2>2. PICK s \in SlotRange, r \in 0..(Pixels - 1) : i - B = WIndex(s, r)
    BY <2>1, WeightIndex
  <2> HIDE DEF WIndex, B
  <2> QED BY <1>2, <2>1, <2>2
<1> HIDE DEF NIndex, WIndex, B
<1>10. \A cell : cell \in OwnCells <=>
         \/ \E s \in SlotRange, c \in Channels, x \in Columns, y \in Rows : cell = NumeratorOffset(s, c, x, y)
         \/ \E s \in SlotRange, x \in Columns, y \in Rows : cell = WeightOffset(s, x, y)
  BY DeviceCells
<1>11. ASSUME NEW cell \in OwnCells PROVE cell \in ClearedByDevice
  <2>1. \A x \in Columns, y \in Rows : y * j.width + x \in 0..(Pixels - 1)
    BY PixelIndex
  <2>2. CASE \E s \in SlotRange, c \in Channels, x \in Columns, y \in Rows : cell = NumeratorOffset(s, c, x, y)
    BY <1>1, <1>4, <1>5, <2>1, <2>2
  <2>3. CASE \E s \in SlotRange, x \in Columns, y \in Rows : cell = WeightOffset(s, x, y)
    <3>1. PICK s \in SlotRange, x \in Columns, y \in Rows : cell = WeightOffset(s, x, y)
      BY <2>3
    <3>2. cell = <<0, B + WIndex(s, y * j.width + x)>>
      BY <1>4, <3>1, Numbers
    <3>3. WIndex(s, y * j.width + x) \in 0..(WeightValues - 1)
      BY <1>6, <2>1
    <3>4. B + WIndex(s, y * j.width + x) \in J
      BY <1>2, <1>7, <3>3
    <3> QED BY <1>1, <3>2, <3>4
  <2> QED BY <1>10, <2>2, <2>3
<1>12. ASSUME NEW cell \in ClearedByDevice PROVE cell \in OwnCells
  <2> HIDE DEF I, J
  <2>1. PICK i \in I \cup J : cell = <<0, i>>
    BY <1>1
  <2>2. CASE i \in I
    <3>1. PICK s \in SlotRange, c \in Channels, r \in 0..(Pixels - 1) : i = NIndex(s, c, r)
      BY <1>8, <2>2
    <3>2. PICK x \in Columns, y \in Rows : r = y * j.width + x
      BY PixelOfIndex
    <3>3. cell = NumeratorOffset(s, c, x, y)
      BY <1>4, <2>1, <3>1, <3>2
    <3> QED BY <1>10, <3>3
  <2>3. CASE i \in J
    <3>1. PICK s \in SlotRange, r \in 0..(Pixels - 1) : i = B + WIndex(s, r)
      BY <1>9, <2>3
    <3>2. PICK x \in Columns, y \in Rows : r = y * j.width + x
      BY PixelOfIndex
    <3>3. cell = WeightOffset(s, x, y)
      BY <1>4, <2>1, <3>1, <3>2, Numbers
    <3> QED BY <1>10, <3>3
  <2> QED BY <2>1, <2>2, <2>3
<1> QED BY <1>11, <1>12

\* Whoever clears.
LEMMA ClearingIsExact ==
  ASSUME job \in DOMAIN AllJobs
  PROVE  IF OnDevice THEN ClearedByDevice = OwnCells ELSE ClearedByCpu = OwnCells
<1>1. ~OnDevice => j.storage \in {"planes", "contiguous"}
  BY JobFits DEF OnDevice
<1> QED BY <1>1, PlanesAreCleared, ArrayIsCleared, StridedIsCleared, DenseIsCleared

-----------------------------------------------------------------------------
(* What one sample adds. *)

\* The positions in a patch that fall on a frame with a slot.
Places(a, sample) ==
    {e \in (0..(j.p.pt - 1)) \X (0..(j.patch - 1)) \X (0..(j.patch - 1)) :
        SlotForOutput(j.p, a, sample.frame + e[1]) \in SlotRange}
ScaleOf(sample, e) == PatchWeight(sample) * WindowWeight(e[2], e[3])

NumeratorEntry(a, sample, c, e) ==
    [cell |-> NumeratorCell(SlotForOutput(j.p, a, sample.frame + e[1]), c, sample.x + e[2], sample.y + e[3]),
     of |-> <<"numerator", c, e>>, amount |-> ScaleOf(sample, e) * SampleValue(sample, c, e[2], e[3], e[1])]
WeightEntry(a, sample, c, e) ==
    [cell |-> WeightCell(SlotForOutput(j.p, a, sample.frame + e[1]), c, sample.x + e[2], sample.y + e[3]),
     of |-> <<"weight", c, e>>, amount |-> ScaleOf(sample, e)]
Added(a, sample) == {NumeratorEntry(a, sample, c, e) : c \in Channels, e \in Places(a, sample)}
                    \cup {WeightEntry(a, sample, c, e) : c \in Planes, e \in Places(a, sample)}

\* A place lies in the frame.
LEMMA PlacesFit ==
  ASSUME job \in DOMAIN AllJobs, NEW a \in Nat, NEW sample, ValidSample(j, sample), NEW e \in Places(a, sample)
  PROVE  /\ e[1] \in 0..(j.p.pt - 1) /\ e[2] \in 0..(j.patch - 1) /\ e[3] \in 0..(j.patch - 1)
         /\ e = <<e[1], e[2], e[3]>>
         /\ SlotForOutput(j.p, a, sample.frame + e[1]) \in SlotRange
         /\ sample.x \in Nat /\ sample.y \in Nat /\ sample.frame \in Nat
         /\ sample.x + e[2] \in Columns /\ sample.y + e[3] \in Rows
<1>1. /\ e[1] \in 0..(j.p.pt - 1) /\ e[2] \in 0..(j.patch - 1) /\ e[3] \in 0..(j.patch - 1)
      /\ e = <<e[1], e[2], e[3]>>
      /\ SlotForOutput(j.p, a, sample.frame + e[1]) \in SlotRange
  BY DEF Places
<1>2. sample.x \in 0..(j.width - j.patch) /\ sample.y \in 0..(j.height - j.patch) /\ sample.frame \in 0..(j.p.frames - j.p.pt)
  BY DEF ValidSample
<1>3. j.width \in Nat /\ j.height \in Nat /\ j.patch \in Nat /\ j.p.frames \in Nat /\ j.p.pt \in Nat
  BY JobFits, Numbers
<1> QED BY <1>1, <1>2, <1>3 DEF Columns, Rows

\* The places are those with a slot, whoever tests for it.
LEMMA PlacesAllowed ==
  ASSUME job \in DOMAIN AllJobs, NEW a \in Nat, NEW sample, ValidSample(j, sample),
         NEW e \in (0..(j.p.pt - 1)) \X (0..(j.patch - 1)) \X (0..(j.patch - 1))
  PROVE  /\ CpuAllowed(sample.frame + e[1] - a, sample.x + e[2], sample.y + e[3])
              <=> SlotForOutput(j.p, a, sample.frame + e[1]) \in SlotRange
         /\ ScatterAllowed(sample.frame + e[1] - a, sample.x + e[2], sample.y + e[3])
              <=> SlotForOutput(j.p, a, sample.frame + e[1]) \in SlotRange
<1>1. e[1] \in 0..(j.p.pt - 1) /\ e[2] \in 0..(j.patch - 1) /\ e[3] \in 0..(j.patch - 1)
  OBVIOUS
<1>2. sample.x \in 0..(j.width - j.patch) /\ sample.y \in 0..(j.height - j.patch) /\ sample.frame \in 0..(j.p.frames - j.p.pt)
  BY DEF ValidSample
<1>3. j.width \in Nat /\ j.height \in Nat /\ j.patch \in Nat /\ j.p.frames \in Nat /\ j.p.pt \in Nat /\ j.p.bwd \in Nat
      /\ Slots \in Nat
  BY JobFits, Numbers
<1>4. sample.x + e[2] \in Columns /\ sample.y + e[3] \in Rows
  BY <1>1, <1>2, <1>3 DEF Columns, Rows
<1>5. SlotForOutput(j.p, a, sample.frame + e[1]) = sample.frame + e[1] - a + j.p.bwd
  BY <1>1, <1>2, <1>3 DEF SlotForOutput
<1>6. sample.frame + e[1] - a + j.p.bwd \in Int
  BY <1>1, <1>2, <1>3
<1> QED BY <1>3, <1>4, <1>5, <1>6 DEF CpuAllowed, ScatterAllowed, SlotRange

\* write_group_contributions.
LEMMA GroupAdds ==
  ASSUME job \in DOMAIN AllJobs, ~OnDevice, NEW a \in Nat, NEW sample, ValidSample(j, sample)
  PROVE  GroupAdditions(a, sample) = Added(a, sample)
<1> DEFINE G == {e \in (0..(j.p.pt - 1)) \X (0..(j.patch - 1)) \X (0..(j.patch - 1)) :
                    CpuAllowed(sample.frame + e[1] - a, sample.x + e[2], sample.y + e[3])}
           N(c, e) == [cell |-> ViewNumerator(SlotForOutput(j.p, a, sample.frame + e[1]), c, sample.x + e[2], sample.y + e[3]),
                       of |-> <<"numerator", c, e>>,
                       amount |-> (PatchWeight(sample) * WindowWeight(e[2], e[3])) * SampleValue(sample, c, e[2], e[3], e[1])]
           W(c, e) == [cell |-> ViewWeight(SlotForOutput(j.p, a, sample.frame + e[1]), c, sample.x + e[2], sample.y + e[3]),
                       of |-> <<"weight", c, e>>,
                       amount |-> PatchWeight(sample) * WindowWeight(e[2], e[3])]
<1>1. GroupAdditions(a, sample) = {N(c, e) : c \in Channels, e \in G} \cup {W(c, e) : c \in WeightPlanes, e \in G}
  BY SMT DEF GroupAdditions, Additions
<1>2. G = Places(a, sample)
  BY PlacesAllowed DEF Places
<1>3. WeightPlanes = Planes
  BY DEF WeightPlanes, Planes
<1>4. \A c, e : N(c, e) = NumeratorEntry(a, sample, c, e) /\ W(c, e) = WeightEntry(a, sample, c, e)
  BY DEF NumeratorEntry, WeightEntry, NumeratorCell, WeightCell, ScaleOf
<1> HIDE DEF N, W, G
<1> QED BY <1>1, <1>2, <1>3, <1>4 DEF Added

\* write_sample_contributions_coupled: its rows are the same.
LEMMA SampleAdds ==
  ASSUME job \in DOMAIN AllJobs, ~OnDevice, NEW a \in Nat, NEW sample, ValidSample(j, sample)
  PROVE  SampleAdditions(a, sample) = Added(a, sample)
<1> DEFINE G == {e \in (0..(j.p.pt - 1)) \X (0..(j.patch - 1)) \X (0..(j.patch - 1)) :
                    CpuAllowed(sample.frame + e[1] - a, sample.x + e[2], sample.y + e[3])}
           N(c, e) == [cell |-> SampleNumerator(SlotForOutput(j.p, a, sample.frame + e[1]), c, sample.x + e[2], sample.y + e[3]),
                       of |-> <<"numerator", c, e>>,
                       amount |-> (PatchWeight(sample) * WindowWeight(e[2], e[3])) * SampleValue(sample, c, e[2], e[3], e[1])]
           W(c, e) == [cell |-> SampleWeight(SlotForOutput(j.p, a, sample.frame + e[1]), c, sample.x + e[2], sample.y + e[3]),
                       of |-> <<"weight", c, e>>,
                       amount |-> PatchWeight(sample) * WindowWeight(e[2], e[3])]
<1>1. SampleAdditions(a, sample) = {N(c, e) : c \in Channels, e \in G} \cup {W(c, e) : c \in WeightPlanes, e \in G}
  BY SMT DEF SampleAdditions, Additions
<1>2. G = Places(a, sample)
  BY PlacesAllowed DEF Places
<1>3. WeightPlanes = Planes
  BY DEF WeightPlanes, Planes
<1>4. ASSUME NEW s \in Int, NEW c, NEW x, NEW y \in Int
      PROVE  SampleNumerator(s, c, x, y) = ViewNumerator(s, c, x, y) /\ SampleWeight(s, c, x, y) = ViewWeight(s, c, x, y)
  <2>1. j.height \in Int /\ s * 2 * j.height \in Int
    BY JobFits
  <2>2. s * 2 * j.height + y + j.height = s * 2 * j.height + (j.height + y)
    BY <2>1
  <2> QED BY <2>2, Zenon DEF SampleNumerator, ViewNumerator, SampleWeight, ViewWeight, PlaneRow
<1>5. ASSUME NEW c, NEW e \in Places(a, sample)
      PROVE  N(c, e) = NumeratorEntry(a, sample, c, e) /\ W(c, e) = WeightEntry(a, sample, c, e)
  <2>1. SlotForOutput(j.p, a, sample.frame + e[1]) \in Int /\ sample.y + e[3] \in Int
    BY PlacesFit DEF SlotRange, Rows
  <2>2. \A x : /\ SampleNumerator(SlotForOutput(j.p, a, sample.frame + e[1]), c, x, sample.y + e[3])
                  = NumeratorCell(SlotForOutput(j.p, a, sample.frame + e[1]), c, x, sample.y + e[3])
               /\ SampleWeight(SlotForOutput(j.p, a, sample.frame + e[1]), c, x, sample.y + e[3])
                  = WeightCell(SlotForOutput(j.p, a, sample.frame + e[1]), c, x, sample.y + e[3])
    BY <1>4, <2>1 DEF NumeratorCell, WeightCell
  <2> QED BY <2>2, Zenon DEF NumeratorEntry, WeightEntry, ScaleOf
<1> HIDE DEF N, W, G
<1> QED BY <1>1, <1>2, <1>3, <1>5 DEF Added

\* scatter_direct_kernel.
LEMMA ScatterAdds ==
  ASSUME job \in DOMAIN AllJobs, OnDevice, NEW a \in Nat, NEW sample, ValidSample(j, sample)
  PROVE  ScatterAdditions(a, sample) = Added(a, sample)
<1> DEFINE G == {e \in (0..(j.p.pt - 1)) \X (0..(j.patch - 1)) \X (0..(j.patch - 1)) :
                    ScatterAllowed(sample.frame + e[1] - a, sample.x + e[2], sample.y + e[3])}
           N(c, e) == [cell |-> NumeratorOffset(SlotForOutput(j.p, a, sample.frame + e[1]), c, sample.x + e[2], sample.y + e[3]),
                       of |-> <<"numerator", c, e>>,
                       amount |-> (PatchWeight(sample) * WindowWeight(e[2], e[3])) * SampleValue(sample, c, e[2], e[3], e[1])]
           W(c, e) == [cell |-> WeightOffset(SlotForOutput(j.p, a, sample.frame + e[1]), sample.x + e[2], sample.y + e[3]),
                       of |-> <<"weight", c, e>>,
                       amount |-> PatchWeight(sample) * WindowWeight(e[2], e[3])]
<1>1. ScatterAdditions(a, sample) = {N(c, e) : c \in Channels, e \in G} \cup {W(c, e) : c \in {0}, e \in G}
  BY SMT DEF ScatterAdditions, Additions
<1>2. G = Places(a, sample)
  BY PlacesAllowed DEF Places
<1>3. Planes = {0}
  BY DEF OnDevice, Planes
<1>4. \A c, e : N(c, e) = NumeratorEntry(a, sample, c, e) /\ W(c, e) = WeightEntry(a, sample, c, e)
  BY DEF NumeratorEntry, WeightEntry, NumeratorCell, WeightCell, ScaleOf
<1> HIDE DEF N, W, G
<1> QED BY <1>1, <1>2, <1>3, <1>4 DEF Added
\* Weights are positive and values integers, wherever they are read.
LEMMA SampleTypes ==
  ASSUME job \in DOMAIN AllJobs, NEW sample, ValidSample(j, sample)
  PROVE  /\ PatchWeight(sample) \in Nat \ {0}
         /\ \A dx \in 0..(j.patch - 1), dy \in 0..(j.patch - 1) :
               /\ WindowWeight(dx, dy) \in Nat \ {0}
               /\ \A c \in Channels, delta \in 0..(j.p.pt - 1) : SampleValue(sample, c, dx, dy, delta) \in Int
<1>1. j.patch \in Nat \ {0} /\ j.p.pt \in Nat \ {0} /\ j.channels \in Nat \ {0}
  BY JobFits, Numbers
<1>2. PatchWeight(sample) \in Nat \ {0}
  BY DEF PatchWeight, ValidSample
<1>3. ASSUME NEW dx \in 0..(j.patch - 1), NEW dy \in 0..(j.patch - 1)
      PROVE  WindowWeight(dx, dy) \in Nat \ {0}
  <2>1. dy * j.patch + dx \in 0..(j.patch * j.patch - 1)
    BY <1>1, TwoDigits
  <2>2. j.patch * j.patch \in Nat
    BY <1>1
  <2>3. dy * j.patch + dx + 1 \in 1..(j.patch * j.patch)
    <3> DEFINE i == dy * j.patch + dx
               n == j.patch * j.patch
    <3>1. i \in 0..(n - 1) /\ n \in Nat
      BY <2>1, <2>2, Zenon
    <3> HIDE DEF i, n
    <3>2. i + 1 \in 1..n
      BY <3>1
    <3>3. i + 1 = dy * j.patch + dx + 1
      BY DEF i
    <3> QED BY <3>2, <3>3, Zenon DEF n
  <2>4. j.gaussian \in [1..(j.patch * j.patch) -> Nat \ {0}]
    BY JobFits
  <2>5. j.gaussian[dy * j.patch + dx + 1] \in Nat \ {0}
    BY <2>3, <2>4, Zenon
  <2> QED BY <2>5 DEF WindowWeight
<1>4. ASSUME NEW dx \in 0..(j.patch - 1), NEW dy \in 0..(j.patch - 1), NEW c \in Channels, NEW delta \in 0..(j.p.pt - 1)
      PROVE  SampleValue(sample, c, dx, dy, delta) \in Int
  <2> DEFINE position == PatchPosition(dx, dy, delta)
             n == PatchDim
  <2>1. delta * j.patch + dy \in 0..(j.p.pt * j.patch - 1)
    BY <1>1, TwoDigits
  <2>2. j.p.pt * j.patch \in Nat
    BY <1>1
  <2>3. position \in 0..((j.p.pt * j.patch) * j.patch - 1)
    <3> DEFINE A == delta * j.patch + dy
               N == j.p.pt * j.patch
    <3>1. A \in 0..(N - 1) /\ N \in Nat
      BY <2>1, <2>2, Zenon
    <3> HIDE DEF A, N
    <3>2. A * j.patch + dx \in 0..(N * j.patch - 1)
      BY <1>1, <3>1, TwoDigits
    <3> QED BY <3>2, Zenon DEF PatchPosition, A, N
  <2>4. n = (j.p.pt * j.patch) * j.patch /\ n \in Nat
    <3>1. j.patch * j.patch * j.p.pt = (j.p.pt * j.patch) * j.patch
      BY <1>1
    <3>2. j.patch * j.patch \in Nat
      BY <1>1
    <3>3. (j.patch * j.patch) * j.p.pt \in Nat
      BY <1>1, <3>2
    <3> QED BY <3>1, <3>3, Zenon DEF PatchDim
  <2>5. position \in 0..(n - 1)
    BY <2>3, <2>4, Zenon
  <2> HIDE DEF position, n
  <2>6. c * n + position \in 0..(j.channels * n - 1)
    BY <1>1, <2>4, <2>5, TwoDigits DEF Channels
  <2>7. j.channels * n \in Nat
    BY <1>1, <2>4
  <2>8. c * n + position + 1 \in 1..(j.channels * n)
    <3> DEFINE i == c * n + position
               N == j.channels * n
    <3>1. i \in 0..(N - 1) /\ N \in Nat
      BY <2>6, <2>7, Zenon
    <3> HIDE DEF i, N
    <3>2. i + 1 \in 1..N
      BY <3>1
    <3>3. i + 1 = c * n + position + 1
      BY DEF i
    <3> QED BY <3>2, <3>3, Zenon DEF N
  <2>9. sample.values \in [1..(j.channels * n) -> Int]
    BY DEF ValidSample, n, PatchDim
  <2>10. SampleValue(sample, c, dx, dy, delta) = sample.values[c * n + position + 1]
    BY Zenon DEF SampleValue, n, position
  <2> QED BY <2>8, <2>9, <2>10, Zenon
<1> QED BY <1>2, <1>3, <1>4, Zenon

-----------------------------------------------------------------------------
(* Adding a sample to the cells. *)

\* Adding touches the cells of its entries and no others.
LEMMA AddAllDomain ==
  ASSUME NEW m, NEW E
  PROVE  DOMAIN AddAll(m, E) = DOMAIN m \cup {e.cell : e \in E}
BY DEF AddAll

\* A cell that no entry is for.
LEMMA AddsNone ==
  ASSUME NEW m, NEW E, NEW cell \in DOMAIN m, m[cell] \in Int, \A e \in E : e.cell # cell
  PROVE  AddAll(m, E)[cell] = m[cell]
<1>1. cell \notin {e.cell : e \in E}
  OBVIOUS
<1>2. AddAll(m, E)[cell] = At(m, cell) + 0
  BY <1>1 DEF AddAll
<1> QED BY <1>2 DEF At

\* A cell that one entry is for.
LEMMA AddsOne ==
  ASSUME NEW m, NEW E, NEW n \in E, n.cell \in DOMAIN m, m[n.cell] \in Int, n.amount \in Int,
         \A e \in E : e.cell = n.cell => e = n
  PROVE  AddAll(m, E)[n.cell] = m[n.cell] + n.amount
<1> DEFINE amount == [e \in E |-> e.amount]
<1>1. n.cell \in {e.cell : e \in E}
  OBVIOUS
<1>2. {e \in E : e.cell = n.cell} = {n}
  OBVIOUS
<1>3. amount[n] = n.amount
  OBVIOUS
<1>4. AddAll(m, E)[n.cell] = At(m, n.cell) + SumFunctionOnSet(amount, {e \in E : e.cell = n.cell})
  BY <1>1 DEF AddAll
<1> HIDE DEF amount
<1>5. SumFunctionOnSet(amount, {n}) = n.amount
  BY <1>3, SumOfOne
<1> QED BY <1>2, <1>4, <1>5 DEF At
\* The frames a contribution has a slot for.
Touched(a) == (a - j.p.bwd)..(a + j.p.fwd + j.p.pt - 1)
SlotAt(a, f) == SlotForOutput(j.p, a, f)

\* What a sample that covers a pixel has there.
ShareOf(sample, x, y) == PatchWeight(sample) * WindowWeight(x - sample.x, y - sample.y)
ValueOf(sample, f, c, x, y) ==
    ShareOf(sample, x, y) * SampleValue(sample, c, x - sample.x, y - sample.y, f - sample.frame)
PlaceOf(sample, f, x, y) == <<f - sample.frame, x - sample.x, y - sample.y>>

\* Every frame touched has a slot of its own.
LEMMA SlotsOfFrames ==
  ASSUME job \in DOMAIN AllJobs, NEW a \in Nat
  PROVE  /\ \A f \in Int : f \in Touched(a) <=> SlotAt(a, f) \in SlotRange
         /\ \A f, g \in Int : SlotAt(a, f) = SlotAt(a, g) => f = g
<1>1. Slots = j.p.bwd + j.p.fwd + j.p.pt /\ j.p.bwd \in Nat /\ j.p.fwd \in Nat /\ j.p.pt \in Nat
  BY Numbers
<1>2. \A f : SlotAt(a, f) = f - a + j.p.bwd
  BY Zenon DEF SlotAt, SlotForOutput
<1> QED BY <1>1, <1>2 DEF Touched, SlotRange

\* The entries of a sample are for cells of the contribution.
LEMMA EntriesFit ==
  ASSUME job \in DOMAIN AllJobs, NEW a \in Nat, NEW sample, ValidSample(j, sample), NEW n \in Added(a, sample)
  PROVE  n.cell \in OwnCells /\ n.amount \in Int
<1>1. PICK e \in Places(a, sample) : \/ \E c \in Channels : n = NumeratorEntry(a, sample, c, e)
                                     \/ \E c \in Planes : n = WeightEntry(a, sample, c, e)
  BY DEF Added
<1>2. /\ e[1] \in 0..(j.p.pt - 1) /\ e[2] \in 0..(j.patch - 1) /\ e[3] \in 0..(j.patch - 1)
      /\ SlotForOutput(j.p, a, sample.frame + e[1]) \in SlotRange
      /\ sample.x + e[2] \in Columns /\ sample.y + e[3] \in Rows
  BY PlacesFit
<1>3. ScaleOf(sample, e) \in Int
  <2>1. PatchWeight(sample) \in Int /\ WindowWeight(e[2], e[3]) \in Int
    BY <1>2, SampleTypes
  <2> QED BY <2>1 DEF ScaleOf
<1>4. CASE \E c \in Channels : n = NumeratorEntry(a, sample, c, e)
  <2>1. PICK c \in Channels : n = NumeratorEntry(a, sample, c, e)
    BY <1>4
  <2>2. n.cell \in OwnCells
    BY <1>2, <2>1, CellsAreOwn DEF NumeratorEntry
  <2>3. SampleValue(sample, c, e[2], e[3], e[1]) \in Int
    BY <1>2, SampleTypes
  <2>4. n.amount = ScaleOf(sample, e) * SampleValue(sample, c, e[2], e[3], e[1])
    BY <2>1 DEF NumeratorEntry
  <2>5. n.amount \in Int
    BY <1>3, <2>3, <2>4
  <2> QED BY <2>2, <2>5
<1>5. CASE \E c \in Planes : n = WeightEntry(a, sample, c, e)
  <2>1. PICK c \in Planes : n = WeightEntry(a, sample, c, e)
    BY <1>5
  <2>2. c \in Channels
    BY Numbers DEF Planes
  <2> QED BY <1>2, <1>3, <2>1, <2>2, CellsAreOwn DEF WeightEntry
<1> QED BY <1>1, <1>4, <1>5

\* A sample that covers a pixel has one place there; one that does not has none.
LEMMA PlaceOfPixel ==
  ASSUME job \in DOMAIN AllJobs, NEW a \in Nat, NEW sample, ValidSample(j, sample),
         NEW f \in Touched(a), NEW x \in Columns, NEW y \in Rows
  PROVE  /\ Covers(sample, f, x, y) =>
               LET o == PlaceOf(sample, f, x, y)
               IN  /\ o \in Places(a, sample)
                   /\ SlotForOutput(j.p, a, sample.frame + o[1]) = SlotAt(a, f)
                   /\ sample.x + o[2] = x /\ sample.y + o[3] = y
         /\ \A e \in Places(a, sample) :
               SlotForOutput(j.p, a, sample.frame + e[1]) = SlotAt(a, f) /\ sample.x + e[2] = x /\ sample.y + e[3] = y
                  => Covers(sample, f, x, y) /\ e = PlaceOf(sample, f, x, y)
<1>1. sample.x \in Nat /\ sample.y \in Nat /\ sample.frame \in Nat /\ f \in Int /\ x \in Int /\ y \in Int
      /\ j.p.pt \in Nat /\ j.patch \in Nat
  <2>1. sample.x \in Nat /\ sample.y \in Nat /\ sample.frame \in Nat
    BY JobFits, Numbers DEF ValidSample
  <2>2. f \in Int /\ x \in Int /\ y \in Int
    BY DEF Touched, Columns, Rows
  <2>3. j.p.pt \in Nat /\ j.patch \in Nat
    BY JobFits, Numbers
  <2> QED BY <2>1, <2>2, <2>3
<1>2. ASSUME Covers(sample, f, x, y)
      PROVE  LET o == PlaceOf(sample, f, x, y)
             IN  /\ o \in Places(a, sample)
                 /\ SlotForOutput(j.p, a, sample.frame + o[1]) = SlotAt(a, f)
                 /\ sample.x + o[2] = x /\ sample.y + o[3] = y
  <2> DEFINE o == PlaceOf(sample, f, x, y)
  <2>1. o = <<f - sample.frame, x - sample.x, y - sample.y>>
    BY DEF PlaceOf
  <2>2. o[1] = f - sample.frame /\ o[2] = x - sample.x /\ o[3] = y - sample.y
    BY <2>1
  <2>3. o[1] \in 0..(j.p.pt - 1) /\ o[2] \in 0..(j.patch - 1) /\ o[3] \in 0..(j.patch - 1)
    BY <1>1, <1>2, <2>2 DEF Covers
  <2>4. sample.frame + o[1] = f /\ sample.x + o[2] = x /\ sample.y + o[3] = y
    BY <1>1, <2>2
  <2>5. SlotForOutput(j.p, a, sample.frame + o[1]) = SlotAt(a, f) /\ SlotAt(a, f) \in SlotRange
    BY <1>1, <2>4, SlotsOfFrames DEF SlotAt
  <2>6. o \in (0..(j.p.pt - 1)) \X (0..(j.patch - 1)) \X (0..(j.patch - 1))
    <3>1. o = <<o[1], o[2], o[3]>>
      BY <2>1, <2>2
    <3> HIDE DEF o
    <3> QED BY <2>3, <3>1
  <2> HIDE DEF o
  <2>7. o \in Places(a, sample)
    BY <2>5, <2>6 DEF Places
  <2> QED BY <2>4, <2>5, <2>7 DEF o
<1>3. ASSUME NEW e \in Places(a, sample),
             SlotForOutput(j.p, a, sample.frame + e[1]) = SlotAt(a, f), sample.x + e[2] = x, sample.y + e[3] = y
      PROVE  Covers(sample, f, x, y) /\ e = PlaceOf(sample, f, x, y)
  <2>1. /\ e[1] \in 0..(j.p.pt - 1) /\ e[2] \in 0..(j.patch - 1) /\ e[3] \in 0..(j.patch - 1)
        /\ e = <<e[1], e[2], e[3]>>
    BY PlacesFit
  <2>2. sample.frame + e[1] = f
    <3>1. sample.frame + e[1] \in Int /\ SlotAt(a, sample.frame + e[1]) = SlotAt(a, f)
      BY <1>1, <1>3, <2>1 DEF SlotAt
    <3> QED BY <1>1, <3>1, SlotsOfFrames
  <2>3. e[1] = f - sample.frame /\ e[2] = x - sample.x /\ e[3] = y - sample.y
    BY <1>1, <1>3, <2>1, <2>2
  <2>4. e = PlaceOf(sample, f, x, y)
    BY <2>1, <2>3 DEF PlaceOf
  <2>5. Covers(sample, f, x, y)
    BY <1>1, <2>1, <2>3 DEF Covers
  <2> QED BY <2>4, <2>5
<1> QED BY <1>2, <1>3
\* One sample: every pixel it covers gets its value and its share, no other cell changes.
LEMMA OneSample ==
  ASSUME job \in DOMAIN AllJobs, ViewFits, NEW a \in Nat, NEW sample, ValidSample(j, sample), NEW m \in [OwnCells -> Int]
  PROVE  /\ AddAll(m, Added(a, sample)) \in [OwnCells -> Int]
         /\ \A f \in Touched(a), x \in Columns, y \in Rows :
               /\ \A c \in Channels :
                     AddAll(m, Added(a, sample))[NumeratorCell(SlotAt(a, f), c, x, y)]
                       = m[NumeratorCell(SlotAt(a, f), c, x, y)]
                         + IF Covers(sample, f, x, y) THEN ValueOf(sample, f, c, x, y) ELSE 0
               /\ \A d \in Planes :
                     AddAll(m, Added(a, sample))[WeightCell(SlotAt(a, f), d, x, y)]
                       = m[WeightCell(SlotAt(a, f), d, x, y)]
                         + IF Covers(sample, f, x, y) THEN ShareOf(sample, x, y) ELSE 0
<1> DEFINE E == Added(a, sample)
           after == AddAll(m, E)
           N(s, c, x, y) == NumeratorCell(s, c, x, y)
           W(s, c, x, y) == WeightCell(s, c, x, y)
           SlotOf(e) == SlotForOutput(j.p, a, sample.frame + e[1])
<1>1. CellsDiffer
  BY AllCellsDiffer
<1>2. \A n \in E : n.cell \in OwnCells /\ n.amount \in Int
  BY EntriesFit
<1>3. Planes \subseteq Channels
  BY Numbers DEF Planes
<1>4. \A e \in Places(a, sample) : SlotOf(e) \in SlotRange /\ sample.x + e[2] \in Columns /\ sample.y + e[3] \in Rows
  BY PlacesFit
<1>5. \A n \in E : \E e \in Places(a, sample) :
         \/ \E c \in Channels : n = NumeratorEntry(a, sample, c, e) /\ n.cell = N(SlotOf(e), c, sample.x + e[2], sample.y + e[3])
         \/ \E c \in Planes : n = WeightEntry(a, sample, c, e) /\ n.cell = W(SlotOf(e), c, sample.x + e[2], sample.y + e[3])
  <2>1. \A c, e : NumeratorEntry(a, sample, c, e).cell = N(SlotOf(e), c, sample.x + e[2], sample.y + e[3])
    BY DEF NumeratorEntry
  <2>2. \A c, e : WeightEntry(a, sample, c, e).cell = W(SlotOf(e), c, sample.x + e[2], sample.y + e[3])
    BY DEF WeightEntry
  <2> HIDE DEF N, W, SlotOf
  <2> QED BY <2>1, <2>2 DEF Added
<1>6. ASSUME NEW f \in Touched(a), NEW x \in Columns, NEW y \in Rows, NEW c \in Channels
      PROVE  after[N(SlotAt(a, f), c, x, y)]
               = m[N(SlotAt(a, f), c, x, y)] + IF Covers(sample, f, x, y) THEN ValueOf(sample, f, c, x, y) ELSE 0
  <2> DEFINE o == PlaceOf(sample, f, x, y)
             n == NumeratorEntry(a, sample, c, o)
             cell == N(SlotAt(a, f), c, x, y)
  <2>1. SlotAt(a, f) \in SlotRange
    BY SlotsOfFrames DEF Touched
  <2>2. cell \in OwnCells /\ cell \in DOMAIN m /\ m[cell] \in Int
    BY <2>1, CellsAreOwn
  <2>3. ASSUME NEW k \in E, k.cell = cell
        PROVE  Covers(sample, f, x, y) /\ k = n
    <3>1. PICK e \in Places(a, sample) :
         \/ \E d \in Channels : k = NumeratorEntry(a, sample, d, e) /\ k.cell = N(SlotOf(e), d, sample.x + e[2], sample.y + e[3])
         \/ \E d \in Planes : k = WeightEntry(a, sample, d, e) /\ k.cell = W(SlotOf(e), d, sample.x + e[2], sample.y + e[3])
      BY <1>5
    <3>2. SlotOf(e) \in SlotRange /\ sample.x + e[2] \in Columns /\ sample.y + e[3] \in Rows
      BY <1>4
    <3>3. PICK d \in Channels : k = NumeratorEntry(a, sample, d, e) /\ cell = N(SlotOf(e), d, sample.x + e[2], sample.y + e[3])
      <4>1. ASSUME NEW d \in Planes PROVE cell # W(SlotOf(e), d, sample.x + e[2], sample.y + e[3])
        <5>1. d \in Channels
          BY <1>3
        <5> QED BY <1>1, <2>1, <3>2, <5>1 DEF CellsDiffer
      <4> HIDE DEF cell, N, W, SlotOf
      <4> QED BY <2>3, <3>1, <4>1
    <3>4. SlotOf(e) = SlotAt(a, f) /\ d = c /\ sample.x + e[2] = x /\ sample.y + e[3] = y
      BY <1>1, <2>1, <3>2, <3>3 DEF CellsDiffer
    <3>5. Covers(sample, f, x, y) /\ e = o
      BY <3>4, PlaceOfPixel
    <3> HIDE DEF o
    <3> QED BY <3>3, <3>4, <3>5
  <2>4. CASE ~Covers(sample, f, x, y)
    <3>1. \A k \in E : k.cell # cell
      BY <2>3, <2>4
    <3> HIDE DEF cell, E, N
    <3>2. after[cell] = m[cell]
      BY <2>2, <3>1, AddsNone
    <3>3. after[cell] = m[cell] + 0
      BY <2>2, <3>2
    <3> QED BY <2>4, <3>3 DEF cell
  <2>5. CASE Covers(sample, f, x, y)
    <3>1. o \in Places(a, sample) /\ SlotOf(o) = SlotAt(a, f) /\ sample.x + o[2] = x /\ sample.y + o[3] = y
      BY <2>5, PlaceOfPixel
    <3>2. o[1] = f - sample.frame /\ o[2] = x - sample.x /\ o[3] = y - sample.y
      BY DEF PlaceOf
    <3>3. n.amount = ValueOf(sample, f, c, x, y)
      <4>1. n.amount = ScaleOf(sample, o) * SampleValue(sample, c, o[2], o[3], o[1])
        BY DEF NumeratorEntry
      <4>2. ScaleOf(sample, o) = ShareOf(sample, x, y)
        BY <3>2 DEF ScaleOf, ShareOf
      <4> QED BY <3>2, <4>1, <4>2 DEF ValueOf
    <3>4. n.cell = cell
      BY <3>1 DEF NumeratorEntry
    <3>5. n \in E
      BY <3>1 DEF Added
    <3>6. n.amount \in Int
      BY <1>2, <3>5
    <3>7. \A k \in E : k.cell = n.cell => k = n
      BY <2>3, <3>4
    <3> HIDE DEF E, n, cell, N, o
    <3>8. after[n.cell] = m[n.cell] + n.amount
      BY <2>2, <3>4, <3>5, <3>6, <3>7, AddsOne
    <3> QED BY <2>5, <3>3, <3>4, <3>8 DEF cell
  <2> QED BY <2>4, <2>5
<1>7. ASSUME NEW f \in Touched(a), NEW x \in Columns, NEW y \in Rows, NEW c \in Planes
      PROVE  after[W(SlotAt(a, f), c, x, y)]
               = m[W(SlotAt(a, f), c, x, y)] + IF Covers(sample, f, x, y) THEN ShareOf(sample, x, y) ELSE 0
  <2> DEFINE o == PlaceOf(sample, f, x, y)
             n == WeightEntry(a, sample, c, o)
             cell == W(SlotAt(a, f), c, x, y)
  <2>1. SlotAt(a, f) \in SlotRange /\ c \in Channels
    BY <1>3, SlotsOfFrames DEF Touched
  <2>2. cell \in OwnCells /\ cell \in DOMAIN m /\ m[cell] \in Int
    BY <2>1, CellsAreOwn
  <2>3. ASSUME NEW k \in E, k.cell = cell
        PROVE  Covers(sample, f, x, y) /\ k = n
    <3>1. PICK e \in Places(a, sample) :
         \/ \E d \in Channels : k = NumeratorEntry(a, sample, d, e) /\ k.cell = N(SlotOf(e), d, sample.x + e[2], sample.y + e[3])
         \/ \E d \in Planes : k = WeightEntry(a, sample, d, e) /\ k.cell = W(SlotOf(e), d, sample.x + e[2], sample.y + e[3])
      BY <1>5
    <3>2. SlotOf(e) \in SlotRange /\ sample.x + e[2] \in Columns /\ sample.y + e[3] \in Rows
      BY <1>4
    <3>3. PICK d \in Planes : k = WeightEntry(a, sample, d, e) /\ cell = W(SlotOf(e), d, sample.x + e[2], sample.y + e[3])
      <4>1. ASSUME NEW d \in Channels PROVE cell # N(SlotOf(e), d, sample.x + e[2], sample.y + e[3])
        <5>1. N(SlotOf(e), d, sample.x + e[2], sample.y + e[3]) # cell
          BY <1>1, <2>1, <3>2 DEF CellsDiffer
        <5> QED BY <5>1
      <4> HIDE DEF cell, N, W, SlotOf
      <4> QED BY <2>3, <3>1, <4>1
    <3>4. SlotOf(e) = SlotAt(a, f) /\ d = c /\ sample.x + e[2] = x /\ sample.y + e[3] = y
      BY <1>1, <2>1, <3>2, <3>3 DEF CellsDiffer
    <3>5. Covers(sample, f, x, y) /\ e = o
      BY <3>4, PlaceOfPixel
    <3> HIDE DEF o
    <3> QED BY <3>3, <3>4, <3>5
  <2>4. CASE ~Covers(sample, f, x, y)
    <3>1. \A k \in E : k.cell # cell
      BY <2>3, <2>4
    <3> HIDE DEF cell, E, W
    <3>2. after[cell] = m[cell]
      BY <2>2, <3>1, AddsNone
    <3>3. after[cell] = m[cell] + 0
      BY <2>2, <3>2
    <3> QED BY <2>4, <3>3 DEF cell
  <2>5. CASE Covers(sample, f, x, y)
    <3>1. o \in Places(a, sample) /\ SlotOf(o) = SlotAt(a, f) /\ sample.x + o[2] = x /\ sample.y + o[3] = y
      BY <2>5, PlaceOfPixel
    <3>2. o[1] = f - sample.frame /\ o[2] = x - sample.x /\ o[3] = y - sample.y
      BY DEF PlaceOf
    <3>3. n.amount = ShareOf(sample, x, y)
      BY <3>2 DEF WeightEntry, ScaleOf, ShareOf
    <3>4. n.cell = cell
      BY <3>1 DEF WeightEntry
    <3>5. n \in E
      BY <3>1 DEF Added
    <3>6. n.amount \in Int
      BY <1>2, <3>5
    <3>7. \A k \in E : k.cell = n.cell => k = n
      BY <2>3, <3>4
    <3> HIDE DEF E, n, cell, W, o
    <3>8. after[n.cell] = m[n.cell] + n.amount
      BY <2>2, <3>4, <3>5, <3>6, <3>7, AddsOne
    <3> QED BY <2>5, <3>3, <3>4, <3>8 DEF cell
  <2> QED BY <2>4, <2>5
<1>8. after \in [OwnCells -> Int]
  <2>1. \A cell \in OwnCells : \E f \in Touched(a), x \in Columns, y \in Rows :
           \/ \E c \in Channels : cell = N(SlotAt(a, f), c, x, y)
           \/ \E d \in Planes : cell = W(SlotAt(a, f), d, x, y)
    <3>1. ASSUME NEW cell \in OwnCells
          PROVE  \E s \in SlotRange, x \in Columns, y \in Rows :
                    \/ \E c \in Channels : cell = N(s, c, x, y)
                    \/ \E d \in Planes : cell = W(s, d, x, y)
      <4>1. PICK e \in SlotRange \X Channels \X Columns \X Rows :
               cell = NumeratorCell(e[1], e[2], e[3], e[4]) \/ cell = WeightCell(e[1], e[2], e[3], e[4])
        BY OwnCellsAre
      <4>2. e[1] \in SlotRange /\ e[2] \in Channels /\ e[3] \in Columns /\ e[4] \in Rows
        OBVIOUS
      <4>3. PICK d \in Planes : \A s, x, y : WeightCell(s, e[2], x, y) = WeightCell(s, d, x, y)
        BY <4>2, WeightPlaneOf
      <4>4. cell = N(e[1], e[2], e[3], e[4]) \/ cell = W(e[1], d, e[3], e[4])
        BY <4>1, <4>3
      <4> HIDE DEF N, W
      <4> QED BY <4>2, <4>4
    <3>2. \A s \in SlotRange : \E f \in Touched(a) : SlotAt(a, f) = s
      <4>1. ASSUME NEW s \in SlotRange PROVE \E f \in Touched(a) : SlotAt(a, f) = s
        <5>1. s + a - j.p.bwd \in Int /\ SlotAt(a, s + a - j.p.bwd) = s
          BY Numbers DEF SlotAt, SlotForOutput, SlotRange
        <5>2. s + a - j.p.bwd \in Touched(a)
          BY <5>1, SlotsOfFrames
        <5> QED BY <5>1, <5>2
      <4> QED BY <4>1
    <3> HIDE DEF N, W
    <3> QED BY <3>1, <3>2
  <2>2. \A f \in Touched(a), x \in Columns, y \in Rows :
           Covers(sample, f, x, y) => /\ ShareOf(sample, x, y) \in Int
                                      /\ \A c \in Channels : ValueOf(sample, f, c, x, y) \in Int
    <3>1. ASSUME NEW f \in Touched(a), NEW x \in Columns, NEW y \in Rows, Covers(sample, f, x, y)
          PROVE  ShareOf(sample, x, y) \in Int /\ \A c \in Channels : ValueOf(sample, f, c, x, y) \in Int
      <4>1. f - sample.frame \in 0..(j.p.pt - 1) /\ x - sample.x \in 0..(j.patch - 1) /\ y - sample.y \in 0..(j.patch - 1)
        <5> DEFINE o == PlaceOf(sample, f, x, y)
        <5>1. o \in Places(a, sample)
          BY <3>1, PlaceOfPixel
        <5>2. o[1] = f - sample.frame /\ o[2] = x - sample.x /\ o[3] = y - sample.y
          BY DEF PlaceOf
        <5> HIDE DEF o
        <5> QED BY <5>1, <5>2, PlacesFit
      <4>2. PatchWeight(sample) \in Int /\ WindowWeight(x - sample.x, y - sample.y) \in Int
        BY <4>1, SampleTypes
      <4>3. ShareOf(sample, x, y) \in Int
        BY <4>2 DEF ShareOf
      <4>4. ASSUME NEW c \in Channels PROVE ValueOf(sample, f, c, x, y) \in Int
        <5>1. SampleValue(sample, c, x - sample.x, y - sample.y, f - sample.frame) \in Int
          BY <4>1, SampleTypes
        <5> QED BY <4>3, <5>1 DEF ValueOf
      <4> QED BY <4>3, <4>4
    <3> QED BY <3>1
  <2>3. ASSUME NEW cell \in OwnCells PROVE after[cell] \in Int
    <3>1. PICK f \in Touched(a), x \in Columns, y \in Rows :
           \/ \E c \in Channels : cell = N(SlotAt(a, f), c, x, y)
           \/ \E d \in Planes : cell = W(SlotAt(a, f), d, x, y)
      BY <2>1
    <3>2. m[cell] \in Int
      OBVIOUS
    <3> HIDE DEF N, W, after
    <3> QED BY <1>6, <1>7, <2>2, <3>1, <3>2
  <2>4. DOMAIN after = OwnCells
    <3>1. DOMAIN after = DOMAIN m \cup {e.cell : e \in E}
      BY AddAllDomain
    <3> HIDE DEF E, after
    <3> QED BY <1>2, <3>1
  <2>5. after = [cell \in DOMAIN after |-> after[cell]]
    BY DEF AddAll
  <2> HIDE DEF after
  <2> QED BY <2>3, <2>4, <2>5
<1> QED BY <1>6, <1>7, <1>8
-----------------------------------------------------------------------------
(* Sums over samples. *)

\* The samples of a set over a pixel, and their sums there.
Over(T, f, x, y) == {e \in T : Covers(SampleOf(e), f, x, y)}
ValueSum(T, f, c, x, y) == SumFunctionOnSet([e \in Over(T, f, x, y) |-> Value(e, f, c, x, y)], Over(T, f, x, y))
ShareSum(T, f, x, y) == SumFunctionOnSet([e \in Over(T, f, x, y) |-> Share(e, x, y)], Over(T, f, x, y))

\* The samples of an anchor are finitely many, and valid.
LEMMA SamplesFit ==
  ASSUME job \in DOMAIN AllJobs, NEW a \in Nat
  PROVE  /\ IsFiniteSet(AllOf(a))
         /\ \A e \in AllOf(a) : ValidSample(j, SampleOf(e)) /\ e[1] = a
         /\ \A g, i : <<a, g, i>> \in AllOf(a) <=>
               g \in 1..Len(GroupsOf(a)) /\ GroupsOf(a)[g].active /\ i \in 1..GroupsOf(a)[g].retained
<1> DEFINE Live == {h \in 1..Len(GroupsOf(a)) : GroupsOf(a)[h].active}
           Of(g) == {<<a, g, i>> : i \in 1..GroupsOf(a)[g].retained}
<1>1. AllOf(a) = UNION {Of(g) : g \in Live}
  BY DEF AllOf
<1>2. \A g, i : <<a, g, i>> \in AllOf(a) <=>
               g \in 1..Len(GroupsOf(a)) /\ GroupsOf(a)[g].active /\ i \in 1..GroupsOf(a)[g].retained
  BY <1>1
<1>3. ASSUME NEW e \in AllOf(a) PROVE ValidSample(j, SampleOf(e)) /\ e[1] = a
  <2>1. PICK g \in Live : \E k \in 1..GroupsOf(a)[g].retained : e = <<a, g, k>>
    BY <1>1
  <2>4. PICK i \in 1..GroupsOf(a)[g].retained : e = <<a, g, i>>
    BY <2>1
  <2>2. ValidSample(j, GroupsOf(a)[g].samples[i])
    BY GroupsFit
  <2>3. e[1] = a /\ e[2] = g /\ e[3] = i
    BY <2>4
  <2> QED BY <2>2, <2>3 DEF SampleOf
<1>4. IsFiniteSet(Live)
  <2> DEFINE n == Len(GroupsOf(a))
  <2>1. n \in Int /\ 1 \in Int /\ Live \in SUBSET (1..n)
    BY GroupsFit
  <2> HIDE DEF n, Live
  <2>2. IsFiniteSet(1..n)
    BY <2>1, FS_Interval
  <2> QED BY <2>1, <2>2, FS_Subset
<1>5. ASSUME NEW g \in Live PROVE IsFiniteSet(Of(g))
  <2> DEFINE n == GroupsOf(a)[g].retained
             I == 1..n
             h == [i \in I |-> <<a, g, i>>]
  <2>1. n \in Int /\ 1 \in Int
    <3>1. g \in 1..Len(GroupsOf(a))
      OBVIOUS
    <3> DEFINE group == GroupsOf(a)[g]
    <3>2. group.retained \in 0..Len(group.samples)
      BY <3>1, GroupsFit
    <3> HIDE DEF group
    <3>3. group.retained \in Int
      BY <3>2
    <3> QED BY <3>3 DEF group
  <2>2. IsFiniteSet(I)
    <3> HIDE DEF n, Live, Of, h
    <3> QED BY <2>1, FS_Interval
  <2>3. h \in Surjection(I, Of(g))
    BY DEF Surjection
  <2> HIDE DEF I, h, Of
  <2> QED BY <2>2, <2>3, FS_Surjection
<1>6. IsFiniteSet({Of(g) : g \in Live})
  <2> DEFINE B == {Of(g) : g \in Live}
             h == [g \in Live |-> Of(g)]
  <2>1. h \in Surjection(Live, B)
    BY DEF Surjection
  <2> HIDE DEF Live, h, B
  <2>2. IsFiniteSet(B)
    BY <1>4, <2>1, FS_Surjection
  <2> QED BY <2>2 DEF B
<1>7. IsFiniteSet(AllOf(a))
  <2> DEFINE B == {Of(g) : g \in Live}
  <2>1. \A s \in B : IsFiniteSet(s)
    BY <1>5
  <2> HIDE DEF B
  <2>2. IsFiniteSet(UNION B)
    BY <1>6, <2>1, FS_UNION DEF B
  <2> QED BY <1>1, <2>2 DEF B
<1> QED BY <1>2, <1>3, <1>7

\* What a sample over a pixel has there.
LEMMA ShareTypes ==
  ASSUME job \in DOMAIN AllJobs, NEW e, ValidSample(j, SampleOf(e)), NEW f, NEW x, NEW y, Covers(SampleOf(e), f, x, y)
  PROVE  /\ Share(e, x, y) = ShareOf(SampleOf(e), x, y) /\ Share(e, x, y) \in Nat \ {0}
         /\ \A c \in Channels : Value(e, f, c, x, y) = ValueOf(SampleOf(e), f, c, x, y) /\ Value(e, f, c, x, y) \in Int
<1> DEFINE sample == SampleOf(e)
<1>1. sample.x \in Nat /\ sample.y \in Nat /\ sample.frame \in Nat /\ j.p.pt \in Nat /\ j.patch \in Nat
  <2>1. sample.x \in Nat /\ sample.y \in Nat /\ sample.frame \in Nat
    BY DEF ValidSample
  <2> QED BY <2>1, JobFits, Numbers
<1>2. f - sample.frame \in 0..(j.p.pt - 1) /\ x - sample.x \in 0..(j.patch - 1) /\ y - sample.y \in 0..(j.patch - 1)
  BY <1>1 DEF Covers
<1>3. Share(e, x, y) = ShareOf(sample, x, y) /\ \A c : Value(e, f, c, x, y) = ValueOf(sample, f, c, x, y)
  BY DEF Share, ShareOf, Value, ValueOf
<1> HIDE DEF sample
<1>4. PatchWeight(sample) \in Nat \ {0} /\ WindowWeight(x - sample.x, y - sample.y) \in Nat \ {0}
  BY <1>2, SampleTypes DEF sample
<1>5. ShareOf(sample, x, y) \in Nat \ {0}
  <2> DEFINE A == PatchWeight(sample)
             B == WindowWeight(x - sample.x, y - sample.y)
  <2>1. A \in Nat \ {0} /\ B \in Nat \ {0}
    BY <1>4
  <2> HIDE DEF A, B
  <2>2. A * B \in Nat \ {0}
    <3>1. 1 * B <= A * B
      BY <2>1, Scale
    <3>2. A * B \in Int
      BY <2>1
    <3> QED BY <2>1, <3>1, <3>2
  <2> QED BY <2>2 DEF ShareOf, A, B
<1>6. ASSUME NEW c \in Channels PROVE ValueOf(sample, f, c, x, y) \in Int
  <2>1. SampleValue(sample, c, x - sample.x, y - sample.y, f - sample.frame) \in Int
    BY <1>2, SampleTypes DEF sample
  <2>2. ShareOf(sample, x, y) \in Int
    BY <1>5
  <2> QED BY <2>1, <2>2 DEF ValueOf
<1> QED BY <1>3, <1>5, <1>6 DEF sample

\* The cells of an anchor's contribution hold the sums over some of its samples.
Holds(a, m, T) ==
    /\ m \in [OwnCells -> Int]
    /\ \A f \in Touched(a), x \in Columns, y \in Rows :
          /\ \A c \in Channels : m[NumeratorCell(SlotAt(a, f), c, x, y)] = ValueSum(T, f, c, x, y)
          /\ \A d \in Planes : m[WeightCell(SlotAt(a, f), d, x, y)] = ShareSum(T, f, x, y)

\* A cleared contribution holds the sums over no sample.
LEMMA ClearedHolds ==
  ASSUME job \in DOMAIN AllJobs, NEW a \in Nat, NEW m, m = [cell \in OwnCells |-> 0]
  PROVE  Holds(a, m, {})
<1>1. \A f, c, x, y : ValueSum({}, f, c, x, y) = 0 /\ ShareSum({}, f, x, y) = 0
  <2>1. \A f, x, y : Over({}, f, x, y) = {}
    BY DEF Over
  <2>2. \A h : SumFunctionOnSet(h, {}) = 0
    BY FS_EmptySet, SumTakesFirst
  <2> QED BY <2>1, <2>2, Zenon DEF ValueSum, ShareSum
<1>2. ASSUME NEW f \in Touched(a), NEW x \in Columns, NEW y \in Rows
      PROVE  /\ \A c \in Channels : m[NumeratorCell(SlotAt(a, f), c, x, y)] = 0
             /\ \A d \in Planes : m[WeightCell(SlotAt(a, f), d, x, y)] = 0
  <2>1. SlotAt(a, f) \in SlotRange /\ Planes \subseteq Channels
    <3>1. f \in Int
      BY Numbers DEF Touched
    <3> QED BY <3>1, SlotsOfFrames, Numbers DEF Planes
  <2>2. \A cell \in OwnCells : m[cell] = 0
    OBVIOUS
  <2>3. ASSUME NEW c \in Channels
        PROVE  NumeratorCell(SlotAt(a, f), c, x, y) \in OwnCells /\ WeightCell(SlotAt(a, f), c, x, y) \in OwnCells
    BY <2>1, CellsAreOwn
  <2> QED BY <2>1, <2>2, <2>3
<1>3. m \in [OwnCells -> Int]
  OBVIOUS
<1> QED BY <1>1, <1>2, <1>3 DEF Holds
\* What a sample adds at a pixel.
AddedShare(sample, f, x, y)    == IF Covers(sample, f, x, y) THEN ShareOf(sample, x, y) ELSE 0
AddedValue(sample, f, c, x, y) == IF Covers(sample, f, x, y) THEN ValueOf(sample, f, c, x, y) ELSE 0

\* The sums over one sample more.
LEMMA SumsGrow ==
  ASSUME job \in DOMAIN AllJobs, NEW T, IsFiniteSet(T), \A e \in T : ValidSample(j, SampleOf(e)),
         NEW n, n \notin T, ValidSample(j, SampleOf(n)), NEW f, NEW x, NEW y
  PROVE  /\ ShareSum(T \cup {n}, f, x, y)
              = ShareSum(T, f, x, y) + AddedShare(SampleOf(n), f, x, y)
         /\ \A c \in Channels :
               ValueSum(T \cup {n}, f, c, x, y)
                 = ValueSum(T, f, c, x, y) + AddedValue(SampleOf(n), f, c, x, y)
<1> DEFINE U == T \cup {n}
           O == Over(T, f, x, y)
           P == Over(U, f, x, y)
<1>1. IsFiniteSet(O) /\ n \notin O /\ \A e \in O : ValidSample(j, SampleOf(e)) /\ Covers(SampleOf(e), f, x, y)
  <2>1. O \subseteq T /\ n \notin O /\ \A e \in O : ValidSample(j, SampleOf(e)) /\ Covers(SampleOf(e), f, x, y)
    BY DEF Over
  <2> HIDE DEF O
  <2> QED BY <2>1, FS_Subset
<1>2. P = IF Covers(SampleOf(n), f, x, y) THEN O \cup {n} ELSE O
  BY DEF Over
<1> HIDE DEF O, P
<1>3. ASSUME NEW h, NEW k, \A e \in O : h[e] = k[e] /\ k[e] \in Int,
             NEW v, Covers(SampleOf(n), f, x, y) => h[n] = v /\ v \in Int, ~Covers(SampleOf(n), f, x, y) => v = 0
      PROVE  SumFunctionOnSet(h, P) = SumFunctionOnSet(k, O) + v
  <2>1. SumFunctionOnSet(h, O) = SumFunctionOnSet(k, O) /\ SumFunctionOnSet(k, O) \in Int
    BY <1>1, <1>3, SumCongruence, SumIsInt
  <2>2. CASE Covers(SampleOf(n), f, x, y)
    <3>1. \A e \in O \cup {n} : h[e] \in Int
      BY <1>3, <2>2
    <3>2. SumFunctionOnSet(h, O \cup {n}) = SumFunctionOnSet(h, O) + h[n]
      BY <1>1, <3>1, SumOfOneMore
    <3> QED BY <1>2, <1>3, <2>1, <2>2, <3>2
  <2>3. CASE ~Covers(SampleOf(n), f, x, y)
    <3>1. P = O
      BY <1>2, <2>3
    <3> QED BY <1>3, <2>1, <2>3, <3>1
  <2> QED BY <2>2, <2>3
<1>4. \A e \in O \cup {n} : Covers(SampleOf(e), f, x, y) =>
         /\ Share(e, x, y) = ShareOf(SampleOf(e), x, y) /\ Share(e, x, y) \in Int
         /\ \A c \in Channels : Value(e, f, c, x, y) = ValueOf(SampleOf(e), f, c, x, y) /\ Value(e, f, c, x, y) \in Int
  BY <1>1, ShareTypes
<1>5. O \subseteq P /\ (Covers(SampleOf(n), f, x, y) => n \in P)
  BY <1>2
<1>6. ShareSum(U, f, x, y)
        = ShareSum(T, f, x, y) + AddedShare(SampleOf(n), f, x, y)
  <2> DEFINE h == [e \in P |-> Share(e, x, y)]
             k == [e \in O |-> Share(e, x, y)]
             v == AddedShare(SampleOf(n), f, x, y)
  <2>1. /\ \A e \in O : h[e] = k[e] /\ k[e] \in Int
        /\ Covers(SampleOf(n), f, x, y) => h[n] = v /\ v \in Int
        /\ ~Covers(SampleOf(n), f, x, y) => v = 0
    BY <1>1, <1>4, <1>5 DEF AddedShare, AddedValue
  <2>2. ShareSum(U, f, x, y) = SumFunctionOnSet(h, P) /\ ShareSum(T, f, x, y) = SumFunctionOnSet(k, O)
    BY DEF ShareSum, O, P
  <2> HIDE DEF h, k, v
  <2>3. SumFunctionOnSet(h, P) = SumFunctionOnSet(k, O) + v
    BY <1>3, <2>1
  <2> QED BY <2>2, <2>3 DEF v
<1>7. ASSUME NEW c \in Channels
      PROVE  ValueSum(U, f, c, x, y)
               = ValueSum(T, f, c, x, y) + AddedValue(SampleOf(n), f, c, x, y)
  <2> DEFINE h == [e \in P |-> Value(e, f, c, x, y)]
             k == [e \in O |-> Value(e, f, c, x, y)]
             v == AddedValue(SampleOf(n), f, c, x, y)
  <2>1. /\ \A e \in O : h[e] = k[e] /\ k[e] \in Int
        /\ Covers(SampleOf(n), f, x, y) => h[n] = v /\ v \in Int
        /\ ~Covers(SampleOf(n), f, x, y) => v = 0
    BY <1>1, <1>4, <1>5 DEF AddedShare, AddedValue
  <2>2. ValueSum(U, f, c, x, y) = SumFunctionOnSet(h, P) /\ ValueSum(T, f, c, x, y) = SumFunctionOnSet(k, O)
    BY DEF ValueSum, O, P
  <2> HIDE DEF h, k, v
  <2>3. SumFunctionOnSet(h, P) = SumFunctionOnSet(k, O) + v
    BY <1>3, <2>1
  <2> QED BY <2>2, <2>3 DEF v
<1> QED BY <1>6, <1>7

\* After one sample more is added the cells hold the sums over it too.
LEMMA HoldsMore ==
  ASSUME job \in DOMAIN AllJobs, ViewFits, NEW a \in Nat, NEW T \in SUBSET AllOf(a), NEW n \in AllOf(a) \ T,
         NEW m, Holds(a, m, T)
  PROVE  Holds(a, AddAll(m, Added(a, SampleOf(n))), T \cup {n})
<1> DEFINE sample == SampleOf(n)
           after == AddAll(m, Added(a, SampleOf(n)))
<1>1. ValidSample(j, sample) /\ (\A e \in T : ValidSample(j, SampleOf(e))) /\ IsFiniteSet(T)
  BY SamplesFit, FS_Subset
<1>2. m \in [OwnCells -> Int]
  BY DEF Holds
<1>3. /\ after \in [OwnCells -> Int]
      /\ \A f \in Touched(a), x \in Columns, y \in Rows :
               /\ \A c \in Channels :
                     after[NumeratorCell(SlotAt(a, f), c, x, y)]
                       = m[NumeratorCell(SlotAt(a, f), c, x, y)]
                         + AddedValue(sample, f, c, x, y)
               /\ \A d \in Planes :
                     after[WeightCell(SlotAt(a, f), d, x, y)]
                       = m[WeightCell(SlotAt(a, f), d, x, y)]
                         + AddedShare(sample, f, x, y)
  BY <1>1, <1>2, OneSample DEF AddedShare, AddedValue
<1>4. \A f, x, y :
         /\ ShareSum(T \cup {n}, f, x, y)
              = ShareSum(T, f, x, y) + AddedShare(sample, f, x, y)
         /\ \A c \in Channels :
               ValueSum(T \cup {n}, f, c, x, y)
                 = ValueSum(T, f, c, x, y) + AddedValue(sample, f, c, x, y)
  BY <1>1, SumsGrow
<1>5. \A f \in Touched(a), x \in Columns, y \in Rows :
          /\ \A c \in Channels : m[NumeratorCell(SlotAt(a, f), c, x, y)] = ValueSum(T, f, c, x, y)
          /\ \A d \in Planes : m[WeightCell(SlotAt(a, f), d, x, y)] = ShareSum(T, f, x, y)
  BY DEF Holds
<1> HIDE DEF sample, after
<1>6. ASSUME NEW f \in Touched(a), NEW x \in Columns, NEW y \in Rows, NEW c \in Channels
      PROVE  after[NumeratorCell(SlotAt(a, f), c, x, y)] = ValueSum(T \cup {n}, f, c, x, y)
  <2>1. m[NumeratorCell(SlotAt(a, f), c, x, y)] = ValueSum(T, f, c, x, y)
    BY <1>5
  <2>2. ValueSum(T \cup {n}, f, c, x, y) = ValueSum(T, f, c, x, y) + AddedValue(sample, f, c, x, y)
    BY <1>4
  <2>3. after[NumeratorCell(SlotAt(a, f), c, x, y)]
          = m[NumeratorCell(SlotAt(a, f), c, x, y)] + AddedValue(sample, f, c, x, y)
    BY <1>3
  <2> QED BY <2>1, <2>2, <2>3, Zenon
<1>7. ASSUME NEW f \in Touched(a), NEW x \in Columns, NEW y \in Rows, NEW d \in Planes
      PROVE  after[WeightCell(SlotAt(a, f), d, x, y)] = ShareSum(T \cup {n}, f, x, y)
  <2>1. m[WeightCell(SlotAt(a, f), d, x, y)] = ShareSum(T, f, x, y)
    BY <1>5
  <2>2. ShareSum(T \cup {n}, f, x, y) = ShareSum(T, f, x, y) + AddedShare(sample, f, x, y)
    BY <1>4
  <2>3. after[WeightCell(SlotAt(a, f), d, x, y)]
          = m[WeightCell(SlotAt(a, f), d, x, y)] + AddedShare(sample, f, x, y)
    BY <1>3
  <2> QED BY <2>1, <2>2, <2>3, Zenon
<1>8. Holds(a, after, T \cup {n})
  BY <1>3, <1>6, <1>7 DEF Holds
<1> QED BY <1>8 DEF after

-----------------------------------------------------------------------------
(* A group, sample by sample. *)

\* h[i] is the value reached after i steps from base.
Iterates(h, S, base, n, after) ==
    h \in [0..n -> S] /\ h = [i \in 0..n |-> IF i = 0 THEN base ELSE after[<<i, h[i - 1]>>]]

\* The values reached step by step exist.
LEMMA StepsExist ==
  ASSUME NEW S, NEW base \in S, NEW n \in Nat, NEW after \in [(1..n) \X S -> S]
  PROVE  \E h : Iterates(h, S, base, n, after)
<1> DEFINE Solved(k) == \E h \in [0..k -> S] :
                           h = [i \in 0..k |-> IF i = 0 THEN base ELSE after[<<i, h[i - 1]>>]]
           Unsolved == {k \in 0..n : ~Solved(k)}
<1>1. Solved(0)
  <2> DEFINE h == [i \in 0..0 |-> base]
  <2>1. h \in [0..0 -> S] /\ h = [i \in 0..0 |-> IF i = 0 THEN base ELSE after[<<i, h[i - 1]>>]]
    OBVIOUS
  <2> QED BY <2>1
<1>2. ASSUME NEW k \in 1..n, Solved(k - 1) PROVE Solved(k)
  <2>1. PICK g \in [0..(k - 1) -> S] :
           g = [i \in 0..(k - 1) |-> IF i = 0 THEN base ELSE after[<<i, g[i - 1]>>]]
    BY <1>2
  <2> DEFINE h == [i \in 0..k |-> IF i = k THEN after[<<k, g[k - 1]>>] ELSE g[i]]
  <2>2. g[k - 1] \in S /\ after[<<k, g[k - 1]>>] \in S
    BY <2>1
  <2>3. h \in [0..k -> S]
    BY <2>1, <2>2
  <2>4. ASSUME NEW i \in 0..k
        PROVE  h[i] = IF i = 0 THEN base ELSE after[<<i, h[i - 1]>>]
    <3>1. CASE i = k
      <4>1. h[i] = after[<<k, g[k - 1]>>] /\ h[k - 1] = g[k - 1] /\ i # 0
        BY <1>2, <3>1
      <4> HIDE DEF h
      <4> QED BY <3>1, <4>1
    <3>2. CASE i # k
      <4>1. i \in 0..(k - 1) /\ h[i] = g[i] /\ (i # 0 => h[i - 1] = g[i - 1])
        BY <1>2, <2>4, <3>2
      <4>2. g[i] = IF i = 0 THEN base ELSE after[<<i, g[i - 1]>>]
        BY <2>1, <4>1
      <4> HIDE DEF h
      <4> QED BY <4>1, <4>2
    <3> QED BY <3>1, <3>2
  <2> HIDE DEF h
  <2> QED BY <2>3, <2>4
<1>3. Unsolved = {}
  <2> SUFFICES ASSUME Unsolved # {} PROVE FALSE
    OBVIOUS
  <2> HIDE DEF Solved
  <2>1. Unsolved \subseteq Nat /\ \A k : k \in Unsolved <=> k \in 0..n /\ ~Solved(k)
    OBVIOUS
  <2> HIDE DEF Unsolved
  <2>2. PICK k \in Unsolved : \A l \in Unsolved : k <= l
    BY <2>1, LeastNatural
  <2>3. k \in 1..n /\ Solved(k - 1)
    BY <1>1, <2>1, <2>2
  <2> QED BY <1>2, <2>1, <2>2, <2>3
<1> QED BY <1>3 DEF Iterates

\* What holds at 0 and passes from each step to the next holds after n steps.
LEMMA StepByStep ==
  ASSUME NEW n \in Nat, NEW T, 0 \in T, \A i \in 1..n : i - 1 \in T => i \in T
  PROVE  \A i \in 0..n : i \in T
<1> DEFINE Left == {i \in 0..n : i \notin T}
<1> SUFFICES ASSUME Left # {} PROVE FALSE
  OBVIOUS
<1>1. Left \subseteq Nat /\ \A i : i \in Left <=> i \in 0..n /\ i \notin T
  OBVIOUS
<1> HIDE DEF Left
<1>2. PICK i \in Left : \A l \in Left : i <= l
  BY <1>1, LeastNatural
<1>3. i \in 1..n /\ i - 1 \in T
  BY <1>1, <1>2
<1> QED BY <1>1, <1>2, <1>3

\* The cells after i samples of a group.
IsRun(h, a, g, m) ==
    h = [i \in 0..GroupsOf(a)[g].retained |->
            IF i = 0 THEN m
            ELSE AddAll(h[i - 1], IF GroupsOf(a)[g].sampleMajor THEN SampleAdditions(a, GroupsOf(a)[g].samples[i])
                                  ELSE GroupAdditions(a, GroupsOf(a)[g].samples[i]))]
GroupSamples(a, g, n) == {<<a, g, i>> : i \in 1..n}

\* A run over a group exists, and leaves the sums over the group's samples too.
LEMMA GroupRuns ==
  ASSUME job \in DOMAIN AllJobs, ViewFits, ~OnDevice, NEW a \in Nat, NEW T \in SUBSET AllOf(a), NEW m, Holds(a, m, T),
         NEW g \in 1..Len(GroupsOf(a)), GroupsOf(a)[g].active, \A i : <<a, g, i>> \notin T
  PROVE  /\ \E h : IsRun(h, a, g, m)
         /\ \A h : IsRun(h, a, g, m) =>
               Holds(a, h[GroupsOf(a)[g].retained], T \cup GroupSamples(a, g, GroupsOf(a)[g].retained))
<1> DEFINE group == GroupsOf(a)[g]
           n == group.retained
           S == [OwnCells -> Int]
           E(i) == IF group.sampleMajor THEN SampleAdditions(a, group.samples[i]) ELSE GroupAdditions(a, group.samples[i])
           F(i) == Added(a, SampleOf(<<a, g, i>>))
<1>1. n \in Nat
  <2>1. group.retained \in 0..Len(group.samples)
    BY GroupsFit
  <2> HIDE DEF group
  <2> QED BY <2>1
<1>2. \A i \in 1..n : <<a, g, i>> \in AllOf(a) /\ ValidSample(j, SampleOf(<<a, g, i>>))
  BY SamplesFit
<1>3. ASSUME NEW i \in 1..n PROVE E(i) = F(i)
  <2>1. SampleOf(<<a, g, i>>) = group.samples[i]
    BY DEF SampleOf
  <2>2. ValidSample(j, group.samples[i])
    BY <1>2, <2>1
  <2> HIDE DEF group
  <2>3. SampleAdditions(a, group.samples[i]) = Added(a, group.samples[i])
    BY <2>2, SampleAdds
  <2>4. GroupAdditions(a, group.samples[i]) = Added(a, group.samples[i])
    BY <2>2, GroupAdds
  <2> QED BY <2>1, <2>3, <2>4
<1>4. \A h : IsRun(h, a, g, m) <=> h = [i \in 0..n |-> IF i = 0 THEN m ELSE AddAll(h[i - 1], E(i))]
  BY DEF IsRun
<1>5. m \in S
  BY DEF Holds
<1>6. ASSUME NEW i \in 1..n, NEW k \in S PROVE AddAll(k, F(i)) \in S
  BY <1>2, OneSample
<1> HIDE DEF E, F, n, S, group
<1>7. \E h : IsRun(h, a, g, m)
  <2> DEFINE after == [p \in (1..n) \X S |-> AddAll(p[2], F(p[1]))]
  <2>1. after \in [(1..n) \X S -> S]
    BY <1>6
  <2>2. \A i \in 1..n, k \in S : after[<<i, k>>] = AddAll(k, F(i))
    OBVIOUS
  <2> HIDE DEF after
  <2>7. PICK h : Iterates(h, S, m, n, after)
    BY <1>1, <1>5, <2>1, StepsExist
  <2>3. h \in [0..n -> S] /\ h = [i \in 0..n |-> IF i = 0 THEN m ELSE after[<<i, h[i - 1]>>]]
    BY <2>7 DEF Iterates
  <2>4. \A i \in 0..n : i # 0 => i \in 1..n /\ h[i - 1] \in S
    BY <1>1, <2>3
  <2>5. \A i \in 0..n : i # 0 => after[<<i, h[i - 1]>>] = AddAll(h[i - 1], E(i))
    BY <1>3, <2>2, <2>4
  <2>6. h = [i \in 0..n |-> IF i = 0 THEN m ELSE AddAll(h[i - 1], E(i))]
    <3>1. [i \in 0..n |-> IF i = 0 THEN m ELSE after[<<i, h[i - 1]>>]] = [i \in 0..n |-> IF i = 0 THEN m ELSE AddAll(h[i - 1], E(i))]
      BY <2>5
    <3> QED BY <2>3, <3>1
  <2> QED BY <1>4, <2>6
<1>8. ASSUME NEW h, IsRun(h, a, g, m)
      PROVE  Holds(a, h[n], T \cup GroupSamples(a, g, n))
  <2> DEFINE Good == {i \in 0..n : Holds(a, h[i], T \cup GroupSamples(a, g, i))}
  <2>1. \A i \in 0..n : h[i] = IF i = 0 THEN m ELSE AddAll(h[i - 1], E(i))
    BY <1>4, <1>8
  <2>2. 0 \in Good
    <3>1. h[0] = m /\ 0 \in 0..n
      BY <1>1, <2>1
    <3>2. T \cup GroupSamples(a, g, 0) = T
      BY DEF GroupSamples
    <3> QED BY <3>1, <3>2
  <2>3. ASSUME NEW i \in 1..n, i - 1 \in Good PROVE i \in Good
    <3> DEFINE U == T \cup GroupSamples(a, g, i - 1)
               e == <<a, g, i>>
    <3>1. i \in 0..n /\ i # 0 /\ h[i] = AddAll(h[i - 1], E(i)) /\ E(i) = F(i)
      BY <1>1, <1>3, <2>1
    <3>2. Holds(a, h[i - 1], U)
      BY <2>3
    <3>3. \A k \in 1..(i - 1) : k \in 1..n /\ k # i
      BY <1>1
    <3>4. U \in SUBSET AllOf(a)
      BY <1>2, <3>3 DEF GroupSamples
    <3>5. e \in AllOf(a) \ U
      BY <1>2, <3>3 DEF GroupSamples
    <3>6. U \cup {e} = T \cup GroupSamples(a, g, i)
      <4>1. 1..i = (1..(i - 1)) \cup {i}
        BY <1>1
      <4> QED BY <4>1 DEF GroupSamples
    <3> HIDE DEF U, e
    <3>7. Holds(a, AddAll(h[i - 1], Added(a, SampleOf(e))), U \cup {e})
      BY <3>2, <3>4, <3>5, HoldsMore
    <3>8. Holds(a, h[i], T \cup GroupSamples(a, g, i))
      BY <3>1, <3>6, <3>7 DEF F, e
    <3> QED BY <3>1, <3>8
  <2>4. \A i \in 0..n : i \in Good
    <3> HIDE DEF Good
    <3> QED BY <1>1, <2>2, <2>3, StepByStep
  <2>5. n \in 0..n
    BY <1>1
  <2> QED BY <2>4, <2>5
<1> QED BY <1>7, <1>8 DEF n, group
-----------------------------------------------------------------------------
(* The job never changes, and what depends on it alone does not either. *)

\* Sizes and addresses.
LEMMA SameCells ==
  ASSUME job' = job
  PROVE  /\ j' = j /\ Slots' = Slots /\ Pixels' = Pixels /\ Channels' = Channels /\ Columns' = Columns /\ Rows' = Rows
         /\ (OnDevice' <=> OnDevice) /\ AnchorCount' = AnchorCount
         /\ SlotRange' = SlotRange /\ Planes' = Planes /\ OwnCells' = OwnCells
         /\ (ViewFits' <=> ViewFits)
         /\ \A s, c, x, y : NumeratorCell(s, c, x, y)' = NumeratorCell(s, c, x, y)
         /\ \A s, c, x, y : WeightCell(s, c, x, y)' = WeightCell(s, c, x, y)
         /\ \A a : Touched(a)' = Touched(a)
         /\ \A a, f : SlotAt(a, f)' = SlotAt(a, f)
<1>1. j' = j
  BY DEF j
<1>2. Slots' = Slots /\ Pixels' = Pixels /\ Channels' = Channels /\ Columns' = Columns /\ Rows' = Rows
  BY <1>1 DEF Slots, Pixels, Channels, Columns, Rows
<1>3. OnDevice' <=> OnDevice
  BY <1>1 DEF OnDevice
<1>4. AnchorCount' = AnchorCount
  BY <1>1, <1>3 DEF AnchorCount
<1>5. SlotRange' = SlotRange /\ Planes' = Planes
  BY <1>1, <1>2 DEF SlotRange, Planes
<1>6. PlanePixels' = PlanePixels /\ SlotStride' = SlotStride /\ NumeratorValues' = NumeratorValues
  BY <1>1, <1>2 DEF PlanePixels, SlotStride, NumeratorValues
<1>7. \A s, y : PlaneRow(s, y)' = PlaneRow(s, y)
  BY <1>1 DEF PlaneRow
<1>8. View' = View
  BY <1>1, <1>2, <1>6 DEF View, ContiguousView
<1>9. \A s, c, x, y : /\ NumeratorOffset(s, c, x, y)' = NumeratorOffset(s, c, x, y)
                      /\ WeightOffset(s, x, y)' = WeightOffset(s, x, y)
  BY <1>8 DEF NumeratorOffset, WeightOffset
<1>10. \A s, c, x, y : /\ ViewNumerator(s, c, x, y)' = ViewNumerator(s, c, x, y)
                       /\ ViewWeight(s, c, x, y)' = ViewWeight(s, c, x, y)
  BY <1>1, <1>2, <1>6, <1>7 DEF ViewNumerator, ViewWeight
<1>11. \A s, c, x, y : /\ NumeratorCell(s, c, x, y)' = NumeratorCell(s, c, x, y)
                       /\ WeightCell(s, c, x, y)' = WeightCell(s, c, x, y)
  BY <1>3, <1>9, <1>10 DEF NumeratorCell, WeightCell
<1>12. OwnCells' = OwnCells
  <2>1. CASE OnDevice
    BY <1>2, <1>3, <1>9, <2>1 DEF OwnCells
  <2>2. CASE ~OnDevice
    BY <1>2, <1>3, <1>10, <2>2 DEF OwnCells
  <2> QED BY <2>1, <2>2
<1>13. ViewFits' <=> ViewFits
  BY <1>1, <1>2, <1>3, <1>8 DEF ViewFits, ValidView
<1>14. /\ \A a : Touched(a)' = Touched(a)
       /\ \A a, f : SlotAt(a, f)' = SlotAt(a, f)
  BY <1>1 DEF Touched, SlotAt
<1> QED BY <1>1, <1>2, <1>3, <1>4, <1>5, <1>11, <1>12, <1>13, <1>14

\* Samples and their sums.
LEMMA SameSums ==
  ASSUME job' = job
  PROVE  /\ \A a : GroupsOf(a)' = GroupsOf(a) /\ AllOf(a)' = AllOf(a) /\ Touching(a)' = Touching(a)
         /\ \A T, f, x, y : Over(T, f, x, y)' = Over(T, f, x, y) /\ ShareSum(T, f, x, y)' = ShareSum(T, f, x, y)
         /\ \A T, f, c, x, y : ValueSum(T, f, c, x, y)' = ValueSum(T, f, c, x, y)
         /\ \A T, f, c, x, y : Mean(T, f, c, x, y)' = Mean(T, f, c, x, y)
         /\ \A a, m, T : Holds(a, m, T)' <=> Holds(a, m, T)
<1>1. j' = j
  BY SameCells
<1>2. \A a : GroupsOf(a)' = GroupsOf(a) /\ Touching(a)' = Touching(a)
  BY <1>1 DEF GroupsOf, Touching
<1>3. \A a : AllOf(a)' = AllOf(a)
  BY <1>2 DEF AllOf
<1>4. \A e : SampleOf(e)' = SampleOf(e)
  BY <1>2 DEF SampleOf
<1>5. \A sample, f, x, y : Covers(sample, f, x, y)' <=> Covers(sample, f, x, y)
  BY <1>1 DEF Covers
<1>6. \A T, f, x, y : Over(T, f, x, y)' = Over(T, f, x, y)
  BY <1>4, <1>5 DEF Over
<1>7. PatchDim' = PatchDim /\ \A dx, dy, delta : PatchPosition(dx, dy, delta)' = PatchPosition(dx, dy, delta)
  BY <1>1 DEF PatchDim, PatchPosition
<1>8. \A sample, c, dx, dy, delta : SampleValue(sample, c, dx, dy, delta)' = SampleValue(sample, c, dx, dy, delta)
  BY <1>7 DEF SampleValue
<1>9. (\A sample : PatchWeight(sample)' = PatchWeight(sample)) /\ \A dx, dy : WindowWeight(dx, dy)' = WindowWeight(dx, dy)
  BY <1>1 DEF PatchWeight, WindowWeight
<1>10. \A e, x, y : Share(e, x, y)' = Share(e, x, y)
  BY <1>4, <1>9 DEF Share
<1>11. \A e, f, c, x, y : Value(e, f, c, x, y)' = Value(e, f, c, x, y)
  BY <1>4, <1>8, <1>10 DEF Value
<1>12. \A T, f, x, y : ShareSum(T, f, x, y)' = ShareSum(T, f, x, y)
  <2> SUFFICES ASSUME NEW T, NEW f, NEW x, NEW y PROVE ShareSum(T, f, x, y)' = ShareSum(T, f, x, y)
    OBVIOUS
  <2>1. [e \in Over(T, f, x, y) |-> Share(e, x, y)]' = [e \in Over(T, f, x, y) |-> Share(e, x, y)]
    BY <1>6, <1>10
  <2> QED BY <1>6, <2>1 DEF ShareSum
<1>13. \A T, f, c, x, y : ValueSum(T, f, c, x, y)' = ValueSum(T, f, c, x, y)
  <2> SUFFICES ASSUME NEW T, NEW f, NEW c, NEW x, NEW y PROVE ValueSum(T, f, c, x, y)' = ValueSum(T, f, c, x, y)
    OBVIOUS
  <2>1. [e \in Over(T, f, x, y) |-> Value(e, f, c, x, y)]' = [e \in Over(T, f, x, y) |-> Value(e, f, c, x, y)]
    BY <1>6, <1>11
  <2> QED BY <1>6, <2>1 DEF ValueSum
<1>14. \A T, f, x, y : SamplesOn(T, f, x, y)' = SamplesOn(T, f, x, y)
  BY <1>3, <1>4, <1>5 DEF SamplesOn
<1>15. \A T, f, c, x, y : Mean(T, f, c, x, y)' = Mean(T, f, c, x, y)
  <2> SUFFICES ASSUME NEW T, NEW f, NEW c, NEW x, NEW y PROVE Mean(T, f, c, x, y)' = Mean(T, f, c, x, y)
    OBVIOUS
  <2>1. [e \in SamplesOn(T, f, x, y) |-> Value(e, f, c, x, y)]' = [e \in SamplesOn(T, f, x, y) |-> Value(e, f, c, x, y)]
    BY <1>11, <1>14
  <2>2. [e \in SamplesOn(T, f, x, y) |-> Share(e, x, y)]' = [e \in SamplesOn(T, f, x, y) |-> Share(e, x, y)]
    BY <1>10, <1>14
  <2> QED BY <1>1, <1>14, <2>1, <2>2 DEF Mean
<1>16. \A a, m, T : Holds(a, m, T)' <=> Holds(a, m, T)
  BY <1>12, <1>13, SameCells DEF Holds
<1> QED BY <1>2, <1>3, <1>6, <1>12, <1>13, <1>15, <1>16
-----------------------------------------------------------------------------
(* The inductive invariant. *)

\* The samples of an anchor up to a step, but for the pending ones.
WrittenAt(a, s, p) == {e \in AllOf(a) : e[2] <= s /\ <<e[2], e[3]>> \notin p}

\* How far the production is.
ProgressFits ==
    /\ job \in DOMAIN AllJobs /\ current \in 0..AnchorCount
    /\ step = -1 \/ (current < AnchorCount /\ step \in 0..Len(GroupsOf(current)))
    /\ \A p \in pending : p = <<p[1], p[2]>> /\ <<current, p[1], p[2]>> \in AllOf(current) /\ p[1] <= step
    /\ pending # {} => OnDevice /\ step # -1
    /\ current > 0 \/ step # -1 => ViewFits

\* The contributions hold the sums over what was written.
SumsHold ==
    /\ memory \in [0..(AnchorCount - 1) -> [OwnCells -> Int]]
    /\ \A a \in 0..(AnchorCount - 1) : a < current => Holds(a, memory[a], AllOf(a))
    /\ step # -1 => Holds(current, memory[current], WrittenAt(current, step, pending))

\* So does a packed one.
PackedIndex(c, s, r, x) == ((c * Slots + s) * 2 * j.height + r) * j.width + x
PackedHolds ==
    packed # <<>> =>
        /\ OnDevice /\ current = AnchorCount /\ packed.anchor \in 0..(AnchorCount - 1)
        /\ \A f \in Touched(packed.anchor), x \in Columns, y \in Rows, c \in Channels :
              /\ packed.cells[PackedIndex(c, SlotAt(packed.anchor, f), y, x)] = ValueSum(AllOf(packed.anchor), f, c, x, y)
              /\ packed.cells[PackedIndex(c, SlotAt(packed.anchor, f), j.height + y, x)]
                    = ShareSum(AllOf(packed.anchor), f, x, y)

Production == ProgressFits /\ SumsHold /\ PackedHolds

\* A sample is its anchor, its group and its number.
LEMMA SampleTriples ==
  ASSUME job \in DOMAIN AllJobs, NEW a \in Nat, NEW e \in AllOf(a)
  PROVE  /\ e = <<a, e[2], e[3]>> /\ e[2] \in 1..Len(GroupsOf(a)) /\ e[2] \in Nat \ {0}
         /\ GroupsOf(a)[e[2]].active /\ e[3] \in 1..GroupsOf(a)[e[2]].retained
<1>1. PICK g \in {h \in 1..Len(GroupsOf(a)) : GroupsOf(a)[h].active} : \E k \in 1..GroupsOf(a)[g].retained : e = <<a, g, k>>
  BY DEF AllOf
<1>2. PICK i \in 1..GroupsOf(a)[g].retained : e = <<a, g, i>>
  BY <1>1
<1>3. e[2] = g /\ e[3] = i
  BY <1>2
<1>4. g \in Nat \ {0}
  OBVIOUS
<1> QED BY <1>2, <1>3, <1>4

\* An anchor is a natural number.
LEMMA AnchorsAreNat ==
  ASSUME ProgressFits
  PROVE  /\ current \in Nat /\ AnchorCount \in Nat /\ AnchorCount > 0 /\ \A a \in 0..(AnchorCount - 1) : a \in Nat
         /\ step \in Int /\ (step # -1 => step \in Nat) /\ Len(GroupsOf(current)) \in Nat
         /\ (current < AnchorCount => current \in 0..(AnchorCount - 1))
<1>1. AnchorCount \in Nat /\ AnchorCount > 0
  BY Numbers DEF ProgressFits
<1>2. current \in Nat
  BY <1>1 DEF ProgressFits
<1>3. Len(GroupsOf(current)) \in Nat
  BY <1>2, GroupsFit DEF ProgressFits
<1> QED BY <1>1, <1>2, <1>3 DEF ProgressFits

\* The empty memory.
LEMMA ProductionInit ==
  ASSUME AggregationInit
  PROVE  Production
<1>1. AnchorCount \in Nat \ {0}
  BY Numbers DEF AggregationInit
<1>2. ProgressFits
  BY <1>1 DEF AggregationInit, ProgressFits
<1>3. SumsHold
  <2>1. \A a \in 0..(AnchorCount - 1) : ~(a < current) /\ memory[a] \in [OwnCells -> Int]
    BY DEF AggregationInit, Junk
  <2>2. memory \in [0..(AnchorCount - 1) -> [OwnCells -> Int]]
    BY <2>1 DEF AggregationInit
  <2>3. step = -1
    BY DEF AggregationInit
  <2> QED BY <2>1, <2>2, <2>3 DEF SumsHold
<1> QED BY <1>2, <1>3 DEF AggregationInit, PackedHolds, Production

\* While a contribution is in production nothing is packed.
LEMMA NothingPacked ==
  ASSUME Production, current < AnchorCount
  PROVE  packed = <<>>
BY AnchorsAreNat DEF Production, PackedHolds

\* Production goes on: what to show of a step that changes the cells of the current anchor.
LEMMA ProductionGoesOn ==
  ASSUME Production, current < AnchorCount, job' = job, current' = current, packed' = packed,
         step' \in 0..Len(GroupsOf(current)), ViewFits,
         \A p \in pending' : p = <<p[1], p[2]>> /\ <<current, p[1], p[2]>> \in AllOf(current) /\ p[1] <= step',
         pending' # {} => OnDevice,
         NEW m, memory' = [memory EXCEPT ![current] = m], Holds(current, m, WrittenAt(current, step', pending'))
  PROVE  Production'
<1>1. /\ current \in 0..(AnchorCount - 1) /\ step' # -1
  BY AnchorsAreNat DEF Production
<1>2. ProgressFits'
  BY <1>1, SameCells, SameSums DEF Production, ProgressFits
<1>3. SumsHold'
  <2>1. m \in [OwnCells -> Int]
    BY DEF Holds
  <2>2. /\ memory' \in [0..(AnchorCount - 1) -> [OwnCells -> Int]]
        /\ memory'[current] = m /\ \A a \in 0..(AnchorCount - 1) : a # current => memory'[a] = memory[a]
    BY <1>1, <2>1 DEF Production, SumsHold
  <2>3. \A a \in 0..(AnchorCount - 1) : a < current => a # current
    BY AnchorsAreNat DEF Production
  <2>4. \A a \in 0..(AnchorCount - 1) : a < current' => Holds(a, memory'[a], AllOf(a))
    BY <2>2, <2>3 DEF Production, SumsHold
  <2>5. WrittenAt(current, step, pending)' = WrittenAt(current, step', pending')
    BY SameSums DEF WrittenAt
  <2> QED BY <2>2, <2>4, <2>5, SameCells, SameSums DEF SumsHold
<1>4. PackedHolds'
  BY NothingPacked DEF PackedHolds
<1> QED BY <1>2, <1>3, <1>4 DEF Production

\* Clearing.
LEMMA ClearKeeps ==
  ASSUME Production, Clear
  PROVE  Production'
<1> DEFINE cells == IF OnDevice THEN ClearedByDevice ELSE ClearedByCpu
           m == Cleared(memory[current], cells)
<1>1. job \in DOMAIN AllJobs /\ current < AnchorCount /\ step = -1 /\ pending = {}
  BY DEF Production, ProgressFits, Clear
<1>2. current \in 0..(AnchorCount - 1) /\ current \in Nat /\ Len(GroupsOf(current)) \in Nat
  BY <1>1, AnchorsAreNat DEF Production
<1>3. cells = OwnCells
  BY <1>1, ClearingIsExact
<1>4. DOMAIN memory[current] = OwnCells
  BY <1>2 DEF Production, SumsHold
<1>5. m = [cell \in OwnCells |-> 0]
  <2> HIDE DEF cells
  <2> QED BY <1>3, <1>4 DEF Cleared
<1>6. WrittenAt(current, 0, {}) = {}
  <2>1. \A e \in AllOf(current) : e[2] \in Nat \ {0}
    BY <1>1, <1>2, SampleTriples
  <2> QED BY <2>1 DEF WrittenAt
<1>7. Holds(current, m, WrittenAt(current, 0, {}))
  <2> HIDE DEF m
  <2> QED BY <1>1, <1>2, <1>5, <1>6, ClearedHolds
<1>8. ViewFits
  BY <1>1, ViewIs DEF Clear, ViewFits
<1>9. memory' = [memory EXCEPT ![current] = m] /\ step' = 0 /\ pending' = {}
  BY <1>1 DEF Clear
<1>10. 0 \in 0..Len(GroupsOf(current))
  BY <1>2
<1> HIDE DEF m
<1> QED BY <1>1, <1>7, <1>8, <1>9, <1>10, ProductionGoesOn DEF Clear
\* Where the current anchor stands.
LEMMA Underway ==
  ASSUME Production, current < AnchorCount, step \in 0..(Len(GroupsOf(current)) - 1)
  PROVE  /\ job \in DOMAIN AllJobs /\ ViewFits /\ current \in 0..(AnchorCount - 1) /\ current \in Nat
         /\ step \in Nat /\ step # -1 /\ Len(GroupsOf(current)) \in Nat
         /\ step + 1 \in 1..Len(GroupsOf(current)) /\ step + 1 \in 0..Len(GroupsOf(current))
         /\ Holds(current, memory[current], WrittenAt(current, step, pending))
         /\ memory = [memory EXCEPT ![current] = memory[current]]
<1>1. current \in 0..(AnchorCount - 1) /\ current \in Nat /\ Len(GroupsOf(current)) \in Nat
  BY AnchorsAreNat DEF Production
<1>2. step \in Nat /\ step # -1
  BY <1>1
<1>3. step + 1 \in 1..Len(GroupsOf(current)) /\ step + 1 \in 0..Len(GroupsOf(current))
  BY <1>1
<1>4. job \in DOMAIN AllJobs /\ ViewFits
  BY <1>2 DEF Production, ProgressFits
<1>5. Holds(current, memory[current], WrittenAt(current, step, pending))
  BY <1>2 DEF Production, SumsHold
<1>6. memory = [memory EXCEPT ![current] = memory[current]]
  BY DEF Production, SumsHold
<1> QED BY <1>1, <1>2, <1>3, <1>4, <1>5, <1>6

\* A group that is masked out adds nothing.
LEMMA SkipGroupKeeps ==
  ASSUME Production, SkipGroup
  PROVE  Production'
<1>1. /\ current < AnchorCount /\ step \in 0..(Len(GroupsOf(current)) - 1) /\ ~GroupsOf(current)[step + 1].active
      /\ step' = step + 1 /\ pending' = pending /\ memory' = memory /\ ~OnDevice
  BY DEF SkipGroup, NextGroup
<1>2. /\ job \in DOMAIN AllJobs /\ ViewFits /\ current \in Nat /\ step \in Nat /\ step + 1 \in 0..Len(GroupsOf(current))
      /\ Holds(current, memory[current], WrittenAt(current, step, pending))
      /\ memory = [memory EXCEPT ![current] = memory[current]]
  BY <1>1, Underway
<1>3. pending = {}
  BY <1>1 DEF Production, ProgressFits
<1>4. WrittenAt(current, step + 1, pending) = WrittenAt(current, step, pending)
  <2>1. \A e \in AllOf(current) : e[2] \in Nat /\ e[2] # step + 1
    BY <1>1, <1>2, SampleTriples
  <2>2. \A e \in AllOf(current) : e[2] <= step + 1 <=> e[2] <= step
    BY <1>2, <2>1
  <2> QED BY <2>2 DEF WrittenAt
<1>5. Holds(current, memory[current], WrittenAt(current, step', pending'))
  BY <1>1, <1>2, <1>4
<1>6. memory' = [memory EXCEPT ![current] = memory[current]]
  BY <1>1, <1>2
<1> QED BY <1>1, <1>2, <1>3, <1>5, <1>6, ProductionGoesOn DEF SkipGroup

\* A group written by the CPU.
LEMMA WriteGroupKeeps ==
  ASSUME Production, WriteGroup
  PROVE  Production'
<1> DEFINE g == step + 1
           n == GroupsOf(current)[g].retained
           T == WrittenAt(current, step, pending)
           h == CHOOSE k : IsRun(k, current, g, memory[current])
           m == h[n]
<1>1. /\ current < AnchorCount /\ step \in 0..(Len(GroupsOf(current)) - 1) /\ GroupsOf(current)[g].active
      /\ step' = step + 1 /\ pending' = pending /\ ~OnDevice
  BY DEF WriteGroup, NextGroup
<1>2. /\ job \in DOMAIN AllJobs /\ ViewFits /\ current \in Nat /\ step \in Nat
      /\ g \in 1..Len(GroupsOf(current)) /\ g \in 0..Len(GroupsOf(current))
      /\ Holds(current, memory[current], T)
  BY <1>1, Underway
<1>3. memory' = [memory EXCEPT ![current] = m]
  BY DEF WriteGroup, NextGroup, IsRun
<1>4. pending = {}
  BY <1>1 DEF Production, ProgressFits
<1>5. T \in SUBSET AllOf(current) /\ \A i : <<current, g, i>> \notin T
  <2>1. \A i : ~(<<current, g, i>>[2] <= step)
    BY <1>2
  <2> QED BY <2>1 DEF WrittenAt
<1>6. WrittenAt(current, g, pending) = T \cup GroupSamples(current, g, n)
  <2>1. ASSUME NEW e \in AllOf(current), e[2] <= g PROVE e[2] <= step \/ e \in GroupSamples(current, g, n)
    <3>1. e = <<current, e[2], e[3]>> /\ e[2] \in Nat /\ e[3] \in 1..GroupsOf(current)[e[2]].retained
      BY <1>2, SampleTriples
    <3>2. CASE e[2] = g
      BY <3>1, <3>2 DEF GroupSamples
    <3>3. CASE e[2] # g
      BY <1>2, <2>1, <3>1, <3>3
    <3> QED BY <3>2, <3>3
  <2>2. ASSUME NEW e \in GroupSamples(current, g, n) PROVE e \in AllOf(current) /\ e[2] <= g
    <3>1. PICK i \in 1..n : e = <<current, g, i>>
      BY DEF GroupSamples
    <3>2. e \in AllOf(current)
      BY <1>1, <1>2, <3>1, SamplesFit
    <3>3. e[2] = g /\ g <= g
      BY <1>2, <3>1
    <3> QED BY <3>2, <3>3
  <2>3. ASSUME NEW e \in AllOf(current), e[2] <= step PROVE e[2] <= g
    <3>1. e[2] \in Nat
      BY <1>2, SampleTriples
    <3> QED BY <1>2, <2>3, <3>1
  <2> HIDE DEF g, n
  <2> QED BY <1>4, <2>1, <2>2, <2>3 DEF WrittenAt
<1> HIDE DEF T, n
<1>7. /\ \E k : IsRun(k, current, g, memory[current])
      /\ \A k : IsRun(k, current, g, memory[current]) =>
            Holds(current, k[n], T \cup GroupSamples(current, g, n))
  <2> HIDE DEF g, h
  <2>1. GroupsOf(current)[g].active
    BY <1>1
  <2> QED BY <1>1, <1>2, <1>5, <2>1, GroupRuns DEF n
<1> HIDE DEF g
<1>8. IsRun(h, current, g, memory[current])
  BY <1>7
<1> HIDE DEF h
<1>9. Holds(current, m, WrittenAt(current, g, pending))
  BY <1>6, <1>7, <1>8
<1>10. step' = g
  BY <1>1 DEF g
<1> HIDE DEF m
<1> QED BY <1>1, <1>2, <1>3, <1>4, <1>9, <1>10, ProductionGoesOn DEF WriteGroup

\* A chunk enqueued: its samples are pending, so nothing more is written yet.
LEMMA EnqueueChunkKeeps ==
  ASSUME Production, EnqueueChunk
  PROVE  Production'
<1> DEFINE n == Len(GroupsOf(current))
           last == Least(step + j.chunk, n)
           groups == {g \in (step + 1)..last : GroupsOf(current)[g].active}
           P == UNION {{g} \X (1..RetainedCount(GroupsOf(current)[g])) : g \in groups}
<1>1. /\ current < AnchorCount /\ step \in 0..(n - 1) /\ pending = {} /\ OnDevice
      /\ step' = last /\ pending' = P /\ memory' = memory
  BY DEF EnqueueChunk
<1>2. /\ job \in DOMAIN AllJobs /\ ViewFits /\ current \in Nat /\ step \in Nat /\ n \in Nat
      /\ Holds(current, memory[current], WrittenAt(current, step, pending))
      /\ memory = [memory EXCEPT ![current] = memory[current]]
  BY <1>1, Underway
<1>3. last \in step..n /\ last \in 0..n
  <2>1. j.chunk \in Nat \ {0}
    BY <1>2, JobFits
  <2> DEFINE k == j.chunk
  <2>2. k \in Nat \ {0} /\ last = Least(step + k, n)
    BY <2>1
  <2> HIDE DEF n, k, last
  <2>3. step \in 0..(n - 1)
    BY <1>1
  <2> QED BY <1>2, <2>2, <2>3 DEF Least
<1>4. ASSUME NEW g \in 1..n PROVE RetainedCount(GroupsOf(current)[g]) = GroupsOf(current)[g].retained
  <2> DEFINE group == GroupsOf(current)[g]
  <2>1. Len(group.samples) \in Nat /\ group.retained \in 0..Len(group.samples)
    BY <1>2, GroupsFit
  <2> HIDE DEF group
  <2>2. RetainedCount(group) = group.retained
    BY <2>1 DEF RetainedCount, Greatest, Least
  <2> QED BY <2>2 DEF group
<1>5. ASSUME NEW p
      PROVE  p \in P <=> \E g \in (step + 1)..last : /\ GroupsOf(current)[g].active
                                                     /\ \E i \in 1..GroupsOf(current)[g].retained : p = <<g, i>>
  <2>1. \A g \in groups : RetainedCount(GroupsOf(current)[g]) = GroupsOf(current)[g].retained
    BY <1>2, <1>3, <1>4
  <2>2. p \in P <=> \E g \in groups : p \in {g} \X (1..RetainedCount(GroupsOf(current)[g]))
    OBVIOUS
  <2>3. \A g \in groups : p \in {g} \X (1..RetainedCount(GroupsOf(current)[g]))
                            <=> \E i \in 1..GroupsOf(current)[g].retained : p = <<g, i>>
    BY <2>1
  <2> HIDE DEF P
  <2> QED BY <2>2, <2>3
<1> HIDE DEF P, last, n
<1>6. ASSUME NEW p \in P
      PROVE  p = <<p[1], p[2]>> /\ <<current, p[1], p[2]>> \in AllOf(current) /\ p[1] <= last
  <2>1. PICK g \in (step + 1)..last : /\ GroupsOf(current)[g].active
                                      /\ \E i \in 1..GroupsOf(current)[g].retained : p = <<g, i>>
    BY <1>5
  <2>2. PICK i \in 1..GroupsOf(current)[g].retained : p = <<g, i>>
    BY <2>1
  <2>3. p[1] = g /\ p[2] = i /\ g \in 1..n /\ g <= last
    BY <1>2, <1>3, <2>2
  <2>4. <<current, g, i>> \in AllOf(current)
    BY <1>2, <2>1, <2>2, <2>3, SamplesFit DEF n
  <2> QED BY <2>2, <2>3, <2>4
<1>7. WrittenAt(current, last, P) = WrittenAt(current, step, {})
  <2>1. ASSUME NEW e \in AllOf(current) PROVE (e[2] <= last /\ <<e[2], e[3]>> \notin P) <=> e[2] <= step
    <3>1. e[2] \in Nat /\ GroupsOf(current)[e[2]].active /\ e[3] \in 1..GroupsOf(current)[e[2]].retained
      BY <1>2, SampleTriples
    <3>2. CASE e[2] <= step
      <4>1. e[2] <= last
        BY <1>2, <1>3, <3>1, <3>2
      <4>2. \A g \in (step + 1)..last : g # e[2]
        BY <1>2, <1>3, <3>1, <3>2
      <4>3. \A g, i : <<e[2], e[3]>> = <<g, i>> => g = e[2]
        OBVIOUS
      <4> QED BY <1>5, <3>2, <4>1, <4>2, <4>3
    <3>3. CASE ~(e[2] <= step)
      <4>1. e[2] <= last => e[2] \in (step + 1)..last
        BY <1>2, <1>3, <3>1, <3>3
      <4> QED BY <1>5, <3>1, <3>3, <4>1
    <3> QED BY <3>2, <3>3
  <2> QED BY <2>1 DEF WrittenAt
<1>8. Holds(current, memory[current], WrittenAt(current, step', pending'))
  BY <1>1, <1>2, <1>7
<1>9. memory' = [memory EXCEPT ![current] = memory[current]]
  BY <1>1, <1>2
<1>10. \A p \in pending' : p = <<p[1], p[2]>> /\ <<current, p[1], p[2]>> \in AllOf(current) /\ p[1] <= step'
  BY <1>1, <1>6
<1>11. step' \in 0..Len(GroupsOf(current))
  BY <1>1, <1>3 DEF n
<1> QED BY <1>1, <1>2, <1>8, <1>9, <1>10, <1>11, ProductionGoesOn DEF EnqueueChunk

\* A sample scattered is pending no more.
LEMMA ScatterKeeps ==
  ASSUME Production, NEW e \in pending, Scatter(e[1], e[2])
  PROVE  Production'
<1> DEFINE g == e[1]
           i == e[2]
           n == <<current, g, i>>
           T == WrittenAt(current, step, pending)
           m == AddAll(memory[current], ScatterAdditions(current, GroupsOf(current)[g].samples[i]))
<1>1. /\ job \in DOMAIN AllJobs /\ e = <<g, i>> /\ n \in AllOf(current) /\ g <= step
      /\ OnDevice /\ step # -1 /\ current < AnchorCount /\ step \in 0..Len(GroupsOf(current)) /\ ViewFits
  BY DEF Production, ProgressFits
<1>2. pending' = pending \ {e} /\ memory' = [memory EXCEPT ![current] = m] /\ UNCHANGED <<job, current, step, packed>>
  BY <1>1 DEF Scatter
<1>3. current \in Nat
  BY AnchorsAreNat DEF Production
<1>4. Holds(current, memory[current], T)
  BY <1>1 DEF Production, SumsHold
<1>5. T \in SUBSET AllOf(current) /\ n \in AllOf(current) \ T
  <2>1. n[2] = g /\ n[3] = i
    OBVIOUS
  <2> HIDE DEF n
  <2> QED BY <1>1, <2>1 DEF WrittenAt
<1>6. m = AddAll(memory[current], Added(current, SampleOf(n)))
  <2>1. SampleOf(n) = GroupsOf(current)[g].samples[i]
    BY DEF SampleOf
  <2>2. ValidSample(j, SampleOf(n))
    <3> HIDE DEF n
    <3> QED BY <1>1, <1>3, SamplesFit
  <2> QED BY <1>1, <1>3, <2>1, <2>2, ScatterAdds
<1>7. WrittenAt(current, step, pending \ {e}) = T \cup {n}
  <2>1. ASSUME NEW k \in AllOf(current) PROVE <<k[2], k[3]>> \in pending \ {e} <=> <<k[2], k[3]>> \in pending /\ k # n
    <3>1. k = <<current, k[2], k[3]>>
      BY <1>1, <1>3, SampleTriples
    <3>2. k = n <=> <<k[2], k[3]>> = <<g, i>>
      BY <3>1
    <3> HIDE DEF n, g, i
    <3> QED BY <1>1, <3>2
  <2>2. n[2] <= step /\ <<n[2], n[3]>> = e
    BY <1>1
  <2> HIDE DEF n, g, i
  <2> QED BY <1>1, <2>1, <2>2 DEF WrittenAt
<1>8. Holds(current, m, WrittenAt(current, step', pending'))
  <2> HIDE DEF m, n, T
  <2>1. Holds(current, AddAll(memory[current], Added(current, SampleOf(n))), T \cup {n})
    BY <1>1, <1>3, <1>4, <1>5, HoldsMore
  <2> QED BY <1>2, <1>6, <1>7, <2>1
<1>9. \A p \in pending' : p = <<p[1], p[2]>> /\ <<current, p[1], p[2]>> \in AllOf(current) /\ p[1] <= step'
  BY <1>2 DEF Production, ProgressFits
<1> HIDE DEF m
<1> QED BY <1>1, <1>2, <1>8, <1>9, ProductionGoesOn

\* A contribution delivered is complete.
LEMMA DeliverKeeps ==
  ASSUME Production, Deliver
  PROVE  Production'
<1>1. /\ current < AnchorCount /\ step = Len(GroupsOf(current)) /\ pending = {} /\ current' = current + 1 /\ step' = -1
      /\ job' = job /\ pending' = pending /\ memory' = memory /\ packed' = packed
  BY DEF Deliver
<1>2. current \in Nat /\ AnchorCount \in Nat /\ step \in Int /\ Len(GroupsOf(current)) \in Nat /\ job \in DOMAIN AllJobs
  BY AnchorsAreNat DEF Production, ProgressFits
<1>3. step # -1
  BY <1>1, <1>2
<1>4. ViewFits /\ Holds(current, memory[current], WrittenAt(current, step, {}))
  BY <1>1, <1>3 DEF Production, ProgressFits, SumsHold
<1>5. WrittenAt(current, step, {}) = AllOf(current)
  <2>1. \A e \in AllOf(current) : e[2] \in 1..Len(GroupsOf(current))
    BY <1>2, SampleTriples
  <2>2. \A e \in AllOf(current) : e[2] <= step
    BY <1>1, <1>2, <2>1
  <2> QED BY <2>2 DEF WrittenAt
<1>6. ProgressFits'
  <2>1. current' \in 0..AnchorCount /\ current' \in Nat
    BY <1>1, <1>2
  <2> QED BY <1>1, <1>2, <1>4, <2>1, SameCells, SameSums DEF ProgressFits
<1>7. SumsHold'
  <2>1. \A a \in 0..(AnchorCount - 1) : a < current' => a < current \/ a = current
    BY <1>1, <1>2
  <2>2. \A a \in 0..(AnchorCount - 1) : a < current' => Holds(a, memory[a], AllOf(a))
    BY <1>4, <1>5, <2>1 DEF Production, SumsHold
  <2>3. memory \in [0..(AnchorCount - 1) -> [OwnCells -> Int]]
    BY DEF Production, SumsHold
  <2> QED BY <1>1, <2>2, <2>3, SameCells, SameSums DEF SumsHold
<1>8. PackedHolds'
  BY <1>1, NothingPacked DEF PackedHolds
<1> QED BY <1>6, <1>7, <1>8 DEF Production
-----------------------------------------------------------------------------
(* Combining contributions. *)

\* Parts that share nothing, their union, and the sums over them.
PartsFit(A, part, h) ==
    /\ \A a \in A : IsFiniteSet(part[a]) /\ \A e \in part[a] : h[e] \in Int
    /\ \A a, b \in A : a # b => part[a] \cap part[b] = {}
Whole(A, part) == UNION {part[a] : a \in A}
SumsOfParts(A, part, h, t) == \A a \in A : t[a] = SumFunctionOnSet(h, part[a])

\* The sum of sums over disjoint parts is the sum over all of them.
LEMMA SumOverParts ==
  ASSUME NEW A, IsFiniteSet(A), NEW part, NEW h, PartsFit(A, part, h), NEW t, SumsOfParts(A, part, h, t)
  PROVE  IsFiniteSet(Whole(A, part)) /\ SumFunctionOnSet(t, A) = SumFunctionOnSet(h, Whole(A, part))
<1>a. /\ \A a \in A : IsFiniteSet(part[a])
      /\ \A a, b \in A : a # b => part[a] \cap part[b] = {}
      /\ \A a \in A : \A e \in part[a] : h[e] \in Int
  BY DEF PartsFit
<1>b. \A a \in A : t[a] = SumFunctionOnSet(h, part[a])
  BY DEF SumsOfParts
<1> USE <1>a, <1>b
<1> DEFINE All(s) == UNION {part[a] : a \in s}
           Agrees(s) == SumFunctionOnSet(t, s) = SumFunctionOnSet(h, All(s))
           B == {s \in SUBSET A : ~Agrees(s)}
<1>1. ASSUME NEW s \in SUBSET A PROVE IsFiniteSet(s) /\ IsFiniteSet(All(s))
  <2> DEFINE P == {part[a] : a \in s}
             k == [a \in s |-> part[a]]
  <2>1. IsFiniteSet(s)
    BY FS_Subset
  <2>2. k \in Surjection(s, P)
    BY DEF Surjection
  <2> HIDE DEF k, P
  <2>3. IsFiniteSet(P)
    BY <2>1, <2>2, FS_Surjection
  <2>4. \A T \in P : IsFiniteSet(T)
    BY DEF P
  <2>5. IsFiniteSet(UNION P)
    BY <2>3, <2>4, FS_UNION
  <2> QED BY <2>1, <2>5 DEF P
<1>2. \A a \in A : t[a] \in Int
  BY SumIsInt
<1>3. B = {}
  <2> SUFFICES ASSUME B # {} PROVE FALSE
    BY Zenon
  <2>1. PICK s \in B : \A U \in SUBSET s : U # s => U \notin B
    <3>1. B \subseteq SUBSET A
      OBVIOUS
    <3> HIDE DEF B
    <3> QED BY <3>1, SmallestSet
  <2>2. s \in SUBSET A /\ ~Agrees(s)
    OBVIOUS
  <2>3. s # {}
    <3> SUFFICES ASSUME s = {} PROVE FALSE
      OBVIOUS
    <3>1. All(s) = {}
      OBVIOUS
    <3>2. \A g : SumFunctionOnSet(g, {}) = 0
      BY FS_EmptySet, SumTakesFirst
    <3> HIDE DEF All
    <3> QED BY <2>2, <3>1, <3>2
  <2>4. PICK a \in s : TRUE
    BY <2>3
  <2> DEFINE r == s \ {a}
  <2>5. r \in SUBSET A /\ r \in SUBSET s /\ r # s /\ a \in A
    BY <2>2, <2>4
  <2>6. Agrees(r)
    <3>1. r \notin B
      BY <2>1, <2>5
    <3> HIDE DEF r, Agrees
    <3> QED BY <2>5, <3>1
  <2>7. SumFunctionOnSet(t, s) = t[a] + SumFunctionOnSet(t, r)
    <3>1. IsFiniteSet(s) /\ \A x \in s : t[x] \in Int
      BY <1>1, <1>2, <2>2
    <3> QED BY <2>4, <3>1, SumTakesAny
  <2>8. All(s) = part[a] \cup All(r)
    BY <2>4
  <2>9. part[a] \cap All(r) = {}
    BY <2>2, <2>4
  <2>10. IsFiniteSet(part[a]) /\ IsFiniteSet(All(r)) /\ \A e \in part[a] \cup All(r) : h[e] \in Int
    <3>1. \A e \in All(r) : h[e] \in Int
      BY <2>5
    <3> HIDE DEF All, r
    <3> QED BY <1>1, <2>5, <3>1
  <2>11. SumFunctionOnSet(h, part[a] \cup All(r)) = SumFunctionOnSet(h, part[a]) + SumFunctionOnSet(h, All(r))
    <3> HIDE DEF All, r
    <3> QED BY <2>9, <2>10, SumOfUnion
  <2>12. t[a] = SumFunctionOnSet(h, part[a])
    BY <2>5
  <2> HIDE DEF All, r
  <2> QED BY <2>2, <2>6, <2>7, <2>8, <2>11, <2>12
<1>4. A \in SUBSET A
  OBVIOUS
<1>5. Agrees(A)
  <2> HIDE DEF Agrees
  <2> QED BY <1>3, <1>4
<1>6. IsFiniteSet(All(A))
  BY <1>1, <1>4
<1> QED BY <1>5, <1>6 DEF Whole

\* Read of some anchors: the sums over their samples.
SumsRead(A, numerator, weight, f, c, x, y) ==
    \A a \in A : numerator[a] = ValueSum(AllOf(a), f, c, x, y) /\ weight[a] = ShareSum(AllOf(a), f, x, y)

\* The quotient of the sums of some anchors' sums is the mean over their samples.
LEMMA SumIsMean ==
  ASSUME job \in DOMAIN AllJobs, NEW A, IsFiniteSet(A), A \subseteq Nat, NEW f, NEW x, NEW y, NEW c \in Channels,
         NEW numerator, NEW weight,
         SumsRead(A, numerator, weight, f, c, x, y)
  PROVE  Sum(A, numerator, weight, f, c, x, y) = Mean(A, f, c, x, y)
<1> DEFINE part == [a \in A |-> Over(AllOf(a), f, x, y)]
           S == SamplesOn(A, f, x, y)
           value == [e \in S |-> Value(e, f, c, x, y)]
           share == [e \in S |-> Share(e, x, y)]
<1>1. S = UNION {part[a] : a \in A}
  BY DEF SamplesOn, Over
<1>2. ASSUME NEW a \in A
      PROVE  /\ IsFiniteSet(part[a]) /\ part[a] \subseteq AllOf(a) /\ part[a] \subseteq S
             /\ \A e \in part[a] : ValidSample(j, SampleOf(e)) /\ Covers(SampleOf(e), f, x, y) /\ e[1] = a
  <2>1. IsFiniteSet(AllOf(a)) /\ \A e \in AllOf(a) : ValidSample(j, SampleOf(e)) /\ e[1] = a
    BY SamplesFit
  <2>2. part[a] \subseteq AllOf(a) /\ \A e \in part[a] : Covers(SampleOf(e), f, x, y)
    BY DEF Over
  <2>3. part[a] \subseteq S
    BY <1>1
  <2> HIDE DEF part
  <2> QED BY <2>1, <2>2, <2>3, FS_Subset
<1>3. \A a, b \in A : a # b => part[a] \cap part[b] = {}
  <2> HIDE DEF part
  <2> QED BY <1>2
<1>4. ASSUME NEW e \in S
      PROVE  value[e] = Value(e, f, c, x, y) /\ value[e] \in Int /\ share[e] = Share(e, x, y) /\ share[e] \in Nat \ {0}
  <2>1. PICK a \in A : e \in part[a]
    BY <1>1
  <2>2. ValidSample(j, SampleOf(e)) /\ Covers(SampleOf(e), f, x, y)
    BY <1>2, <2>1
  <2>3. Value(e, f, c, x, y) \in Int /\ Share(e, x, y) \in Nat \ {0}
    BY <2>2, ShareTypes
  <2> QED BY <2>3
<1>5. ASSUME NEW a \in A
      PROVE  numerator[a] = SumFunctionOnSet(value, part[a]) /\ weight[a] = SumFunctionOnSet(share, part[a])
  <2> DEFINE v == [e \in Over(AllOf(a), f, x, y) |-> Value(e, f, c, x, y)]
             s == [e \in Over(AllOf(a), f, x, y) |-> Share(e, x, y)]
  <2>1. part[a] = Over(AllOf(a), f, x, y)
    OBVIOUS
  <2>2. \A e \in part[a] : v[e] = value[e] /\ s[e] = share[e]
    BY <1>2, <1>4, <2>1
  <2>3. numerator[a] = SumFunctionOnSet(v, part[a]) /\ weight[a] = SumFunctionOnSet(s, part[a])
    BY <2>1 DEF ValueSum, ShareSum, SumsRead
  <2> HIDE DEF v, s, value, share, part
  <2>4. SumFunctionOnSet(v, part[a]) = SumFunctionOnSet(value, part[a])
    BY <1>2, <2>2, SumCongruence
  <2>5. SumFunctionOnSet(s, part[a]) = SumFunctionOnSet(share, part[a])
    BY <1>2, <2>2, SumCongruence
  <2> QED BY <2>3, <2>4, <2>5
<1>6. Mean(A, f, c, x, y) = IF S = {} THEN <<j.source[<<f, c, x, y>>], 1>>
                            ELSE <<SumFunctionOnSet(value, S), SumFunctionOnSet(share, S)>>
  BY DEF Mean
<1> HIDE DEF part, S, value, share
<1>7. IsFiniteSet(S) /\ SumFunctionOnSet(numerator, A) = SumFunctionOnSet(value, S)
  <2>1. PartsFit(A, part, value)
    BY <1>2, <1>3, <1>4 DEF PartsFit
  <2>2. SumsOfParts(A, part, value, numerator)
    BY <1>5 DEF SumsOfParts
  <2>3. IsFiniteSet(Whole(A, part)) /\ SumFunctionOnSet(numerator, A) = SumFunctionOnSet(value, Whole(A, part))
    BY <2>1, <2>2, SumOverParts
  <2> QED BY <1>1, <2>3 DEF Whole
<1>8. SumFunctionOnSet(weight, A) = SumFunctionOnSet(share, S)
  <2>1. PartsFit(A, part, share)
    BY <1>2, <1>3, <1>4 DEF PartsFit
  <2>2. SumsOfParts(A, part, share, weight)
    BY <1>5 DEF SumsOfParts
  <2>3. SumFunctionOnSet(weight, A) = SumFunctionOnSet(share, Whole(A, part))
    BY <2>1, <2>2, SumOverParts
  <2> QED BY <1>1, <2>3 DEF Whole
<1>9. CASE S = {}
  <2>1. SumFunctionOnSet(share, S) = 0
    BY <1>9, FS_EmptySet, SumTakesFirst
  <2> QED BY <1>6, <1>8, <1>9, <2>1 DEF Sum, Quotient
<1>10. CASE S # {}
  <2>1. SumFunctionOnSet(share, S) \in Nat \ {0}
    BY <1>4, <1>7, <1>10, SumIsPositive
  <2> QED BY <1>6, <1>7, <1>8, <1>10, <2>1 DEF Sum, Quotient
<1> QED BY <1>9, <1>10

\* The anchors with a weight.
Weighty(A, weight) == {a \in A : weight[a] # 0}

\* Anchors without weight may be passed over.
LEMMA SumSkipsZeros ==
  ASSUME job \in DOMAIN AllJobs, NEW A, IsFiniteSet(A), A \subseteq Nat, NEW f, NEW x, NEW y, NEW c \in Channels,
         NEW numerator, NEW weight,
         SumsRead(A, numerator, weight, f, c, x, y)
  PROVE  Sum(Weighty(A, weight), numerator, weight, f, c, x, y) = Mean(A, f, c, x, y)
<1> DEFINE Z == Weighty(A, weight)
<1>6. Z = {a \in A : weight[a] # 0}
  BY DEF Weighty
<1>1. Z \subseteq A /\ IsFiniteSet(Z)
  BY <1>6, FS_Subset
<1>2. ASSUME NEW a \in A, a \notin Z PROVE Over(AllOf(a), f, x, y) = {}
  <2> DEFINE O == Over(AllOf(a), f, x, y)
             share == [e \in O |-> Share(e, x, y)]
  <2>1. SumFunctionOnSet(share, O) = 0
    BY <1>2, <1>6 DEF ShareSum, SumsRead
  <2>2. O \subseteq AllOf(a) /\ \A e \in O : Covers(SampleOf(e), f, x, y)
    BY DEF Over
  <2>3. IsFiniteSet(AllOf(a)) /\ \A e \in AllOf(a) : ValidSample(j, SampleOf(e))
    BY SamplesFit
  <2> HIDE DEF O
  <2>4. IsFiniteSet(O)
    BY <2>2, <2>3, FS_Subset
  <2>5. \A e \in O : Share(e, x, y) \in Nat \ {0}
    BY <2>2, <2>3, ShareTypes
  <2>6. \A e \in O : share[e] \in Nat \ {0}
    BY <2>5
  <2> HIDE DEF share
  <2>7. O = {}
    BY <2>1, <2>4, <2>6, SumIsPositive
  <2> QED BY <2>7 DEF O
<1>3. SamplesOn(A, f, x, y) = SamplesOn(Z, f, x, y)
  <2>1. ASSUME NEW e \in SamplesOn(A, f, x, y) PROVE e \in SamplesOn(Z, f, x, y)
    <3>1. PICK a \in A : e \in AllOf(a) /\ Covers(SampleOf(e), f, x, y)
      BY DEF SamplesOn
    <3>2. a \in Z
      BY <1>2, <1>6, <3>1 DEF Over
    <3> QED BY <3>1, <3>2 DEF SamplesOn
  <2>2. ASSUME NEW e \in SamplesOn(Z, f, x, y) PROVE e \in SamplesOn(A, f, x, y)
    BY <1>1 DEF SamplesOn
  <2> QED BY <2>1, <2>2
<1>4. Mean(A, f, c, x, y) = Mean(Z, f, c, x, y)
  BY <1>3 DEF Mean
<1> HIDE DEF Z
<1>5. Sum(Z, numerator, weight, f, c, x, y) = Mean(Z, f, c, x, y)
  <2>1. SumsRead(Z, numerator, weight, f, c, x, y)
    BY <1>1 DEF SumsRead
  <2>2. Z \subseteq Nat
    BY <1>1
  <2> QED BY <1>1, <2>1, <2>2, SumIsMean
<1> QED BY <1>4, <1>5 DEF Z

\* What is read back of the finished contributions.
LEMMA CellsRead ==
  ASSUME Production, current = AnchorCount, NEW a \in 0..(AnchorCount - 1), NEW f \in Touched(a),
         NEW x \in Columns, NEW y \in Rows, NEW c \in Channels
  PROVE  /\ At(memory[a], NumeratorCell(SlotAt(a, f), c, x, y)) = ValueSum(AllOf(a), f, c, x, y)
         /\ At(memory[a], WeightCell(SlotAt(a, f), c, x, y)) = ShareSum(AllOf(a), f, x, y)
<1>1. job \in DOMAIN AllJobs /\ a \in Nat /\ a < current
  BY AnchorsAreNat DEF Production, ProgressFits
<1>2. Holds(a, memory[a], AllOf(a))
  BY <1>1 DEF Production, SumsHold
<1>3. SlotAt(a, f) \in SlotRange
  BY <1>1, SlotsOfFrames, Numbers DEF Touched
<1>4. DOMAIN memory[a] = OwnCells
  BY <1>2 DEF Holds
<1>5. NumeratorCell(SlotAt(a, f), c, x, y) \in OwnCells /\ WeightCell(SlotAt(a, f), c, x, y) \in OwnCells
  BY <1>1, <1>3, CellsAreOwn
<1>6. PICK d \in Planes : \A s, u, v : WeightCell(s, c, u, v) = WeightCell(s, d, u, v)
  BY <1>1, WeightPlaneOf
<1>7. /\ memory[a][NumeratorCell(SlotAt(a, f), c, x, y)] = ValueSum(AllOf(a), f, c, x, y)
      /\ memory[a][WeightCell(SlotAt(a, f), d, x, y)] = ShareSum(AllOf(a), f, x, y)
  BY <1>2 DEF Holds
<1> QED BY <1>4, <1>5, <1>6, <1>7 DEF At

\* The anchors whose contribution has a slot for a frame, however a reader finds them.
AnchorsOf(f) == {a \in 0..(AnchorCount - 1) : f \in Touched(a)}

\* AggregateAnchors, StacksWith and Anchors are those anchors, and Touching those of them that patches start at.
LEMMA FrameAnchors ==
  ASSUME job \in DOMAIN AllJobs, NEW f \in Nat
  PROVE  /\ IsFiniteSet(AnchorsOf(f)) /\ AnchorsOf(f) \subseteq Nat
         /\ ~OnDevice => AggregateAnchors(f) = AnchorsOf(f)
         /\ StacksWith(f) = AnchorsOf(f)
         /\ OnDevice => Anchors(j.p, f) = AnchorsOf(f)
         /\ Touching(f) = AnchorsOf(f) \cap 0..(ValidAnchorFrames(j.p) - 1)
<1> DEFINE n == AnchorCount
           v == ValidAnchorFrames(j.p)
           b == j.p.bwd
           w == j.p.fwd
           k == j.p.pt
<1>1. n \in Nat \ {0} /\ v \in Nat \ {0} /\ b \in Nat /\ w \in Nat /\ k \in Nat \ {0} /\ v <= n
      /\ v = j.p.frames - k + 1 /\ j.p.frames \in Nat /\ Slots = b + w + k
  BY Numbers
<1>2. (~OnDevice => n = j.p.frames) /\ (OnDevice => n = v)
  BY DEF AnchorCount
<1>3. AnchorsOf(f) = {a \in 0..(n - 1) : f \in (a - b)..(a + w + k - 1)}
  BY DEF AnchorsOf, Touched
<1>4. Touching(f) = {a \in 0..(v - 1) : f \in (a - b)..(a + w + k - 1)}
  BY DEF Touching
<1>5. IsFiniteSet(AnchorsOf(f)) /\ AnchorsOf(f) \subseteq Nat
  <2>1. n - 1 \in Int /\ 0 \in Int
    BY <1>1
  <2> DEFINE m == n - 1
  <2> HIDE DEF n, v, b, w, k
  <2>2. AnchorsOf(f) \subseteq 0..m
    BY <1>3
  <2> HIDE DEF m
  <2>3. IsFiniteSet(0..m)
    BY <2>1, FS_Interval DEF m
  <2>4. 0..m \subseteq Nat
    OBVIOUS
  <2> QED BY <2>2, <2>3, <2>4, FS_Subset
<1>6. ASSUME ~OnDevice PROVE AggregateAnchors(f) = AnchorsOf(f)
  <2>1. AggregateAnchors(f) = Greatest(0, f - (w + k - 1)) .. Least(n - 1, f + b)
    BY <1>2, <1>6 DEF AggregateAnchors, AggregateFirstAnchor, AggregateLastAnchor
  <2> HIDE DEF n, v, b, w, k
  <2> QED BY <1>1, <1>3, <2>1 DEF Greatest, Least
<1>7. StacksWith(f) = AnchorsOf(f)
  <2>1. StacksWith(f) = {a \in 0..(n - 1) : f - a + b >= 0 /\ f - a + b < Slots}
    BY DEF StacksWith, ContainsOutput, Slots
  <2> HIDE DEF n, v, b, w, k
  <2> QED BY <1>1, <1>3, <2>1
<1>8. ASSUME OnDevice PROVE Anchors(j.p, f) = AnchorsOf(f)
  <2>1. Anchors(j.p, f) = Greatest(0, f - w - (k - 1)) .. Least(v - 1, Greatest(0, f + b))
    BY DEF Anchors, ContributingAnchors
  <2>2. n = v
    BY <1>2, <1>8
  <2> HIDE DEF n, v, b, w, k
  <2>3. Greatest(0, f + b) = f + b
    BY <1>1 DEF Greatest
  <2>4. Anchors(j.p, f) = Greatest(0, f - w - (k - 1)) .. Least(v - 1, f + b)
    BY <2>1, <2>3
  <2>5. \A a \in 0..(v - 1) : f - w - (k - 1) <= a /\ a <= f + b <=> f \in (a - b)..(a + w + k - 1)
    BY <1>1
  <2>6. Anchors(j.p, f) = {a \in 0..(v - 1) : f - w - (k - 1) <= a /\ a <= f + b}
    <3> DEFINE low == f - w - (k - 1)
               high == f + b
    <3>1. low \in Int /\ high \in Int /\ v - 1 \in Int
      BY <1>1
    <3> HIDE DEF low, high
    <3>2. Greatest(0, low) .. Least(v - 1, high) = {a \in 0..(v - 1) : low <= a /\ a <= high}
      BY <3>1 DEF Greatest, Least
    <3> QED BY <2>4, <3>2 DEF low, high
  <2> QED BY <1>3, <2>2, <2>5, <2>6
<1>9. Touching(f) = AnchorsOf(f) \cap 0..(v - 1)
  <2> HIDE DEF n, v, b, w, k
  <2> QED BY <1>1, <1>3, <1>4
<1> QED BY <1>5, <1>6, <1>7, <1>8, <1>9

\* An anchor at which no patch starts adds nothing.
LEMMA MeanOfTouching ==
  ASSUME job \in DOMAIN AllJobs, NEW f \in Nat, NEW x, NEW y, NEW c
  PROVE  Mean(AnchorsOf(f), f, c, x, y) = Mean(Touching(f), f, c, x, y)
<1>1. AnchorsOf(f) \subseteq Nat /\ Touching(f) = AnchorsOf(f) \cap 0..(ValidAnchorFrames(j.p) - 1)
  BY FrameAnchors
<1>2. ASSUME NEW a \in AnchorsOf(f), a \notin Touching(f) PROVE AllOf(a) = {}
  <2>1. ValidAnchorFrames(j.p) \in Int /\ a \in Nat
    BY <1>1, Numbers
  <2>2. ~(a < ValidAnchorFrames(j.p))
    BY <1>1, <1>2, <2>1
  <2>3. GroupsOf(a) = <<>>
    BY <2>2 DEF GroupsOf
  <2>4. 1..Len(GroupsOf(a)) = {}
    BY <2>3
  <2> QED BY <2>4 DEF AllOf
<1>3. UNION {AllOf(a) : a \in AnchorsOf(f)} = UNION {AllOf(a) : a \in Touching(f)}
  <2>1. Touching(f) \subseteq AnchorsOf(f)
    BY <1>1
  <2> QED BY <1>2, <2>1
<1>4. SamplesOn(AnchorsOf(f), f, x, y) = SamplesOn(Touching(f), f, x, y)
  BY <1>3 DEF SamplesOn
<1> QED BY <1>4 DEF Mean

\* vnlb.Aggregate finds the cells the writers wrote.
LEMMA AggregatedIsMean ==
  ASSUME Production, current = AnchorCount, j.storage = "planes", NEW f \in Nat,
         NEW c \in Channels, NEW x \in Columns, NEW y \in Rows
  PROVE  AggregatedPixel(f, c, x, y) = Mean(AnchorsOf(f), f, c, x, y)
<1> DEFINE A == AnchorsOf(f)
           Base(a) == SlotForOutput(j.p, a, f) * 2 * j.height
           numerator == [a \in A |-> At(memory[a], <<c, (Base(a) + y) * j.stride + x>>)]
           weight == [a \in A |-> At(memory[a], <<c, (Base(a) + j.height + y) * j.stride + x>>)]
<1>1. job \in DOMAIN AllJobs /\ ~OnDevice
  BY DEF Production, ProgressFits, OnDevice
<1>2. IsFiniteSet(A) /\ A \subseteq Nat /\ AggregateAnchors(f) = A
  BY <1>1, FrameAnchors
<1>3. AggregatedPixel(f, c, x, y) = Sum(A, numerator, weight, f, c, x, y)
  BY <1>2 DEF AggregatedPixel
<1>4. ASSUME NEW a \in A
      PROVE  numerator[a] = ValueSum(AllOf(a), f, c, x, y) /\ weight[a] = ShareSum(AllOf(a), f, x, y)
  <2>1. a \in 0..(AnchorCount - 1) /\ f \in Touched(a) /\ a \in Nat
    BY <1>2 DEF AnchorsOf
  <2>2. NumeratorCell(SlotAt(a, f), c, x, y) = <<c, (Base(a) + y) * j.stride + x>>
    BY <1>1 DEF NumeratorCell, ViewNumerator, PlaneRow, SlotAt
  <2>3. WeightCell(SlotAt(a, f), c, x, y) = <<c, (Base(a) + j.height + y) * j.stride + x>>
    <3>1. WeightCell(SlotAt(a, f), c, x, y) = <<c, (Base(a) + (j.height + y)) * j.stride + x>>
      BY <1>1 DEF WeightCell, ViewWeight, PlaneRow, SlotAt
    <3>2. SlotForOutput(j.p, a, f) \in Int /\ j.height \in Int /\ y \in Int
      BY <1>1, <2>1, Numbers DEF SlotForOutput, Rows
    <3>3. Base(a) + (j.height + y) = Base(a) + j.height + y
      BY <3>2
    <3> HIDE DEF Base
    <3> QED BY <3>1, <3>3
  <2> QED BY <1>2, <2>1, <2>2, <2>3, CellsRead
<1> HIDE DEF numerator, weight, A
<1>5. Sum(A, numerator, weight, f, c, x, y) = Mean(A, f, c, x, y)
  <2>1. SumsRead(A, numerator, weight, f, c, x, y)
    BY <1>4 DEF SumsRead
  <2> QED BY <1>1, <1>2, <2>1, SumIsMean
<1> QED BY <1>3, <1>5 DEF A

\* So does aggregate_frame, which passes over stacks without weight,
LEMMA StackedIsMean ==
  ASSUME Production, current = AnchorCount, ~OnDevice, NEW f \in Nat,
         NEW c \in Channels, NEW x \in Columns, NEW y \in Rows
  PROVE  StackedPixel(f, c, x, y) = Mean(AnchorsOf(f), f, c, x, y)
<1> DEFINE A == AnchorsOf(f)
           weight == [a \in A |-> At(memory[a], ViewWeight(SlotForOutput(j.p, a, f), 0, x, y))]
           numerator == [a \in A |-> At(memory[a], ViewNumerator(SlotForOutput(j.p, a, f), c, x, y))]
<1>1. job \in DOMAIN AllJobs
  BY DEF Production, ProgressFits
<1>6. 0 \in Channels
  BY <1>1, Numbers
<1>2. IsFiniteSet(A) /\ A \subseteq Nat /\ StacksWith(f) = A
  BY <1>1, FrameAnchors
<1>3. StackedPixel(f, c, x, y) = Sum({a \in A : weight[a] # 0}, numerator, weight, f, c, x, y)
  BY <1>2 DEF StackedPixel
<1>4. ASSUME NEW a \in A
      PROVE  numerator[a] = ValueSum(AllOf(a), f, c, x, y) /\ weight[a] = ShareSum(AllOf(a), f, x, y)
  <2>1. a \in 0..(AnchorCount - 1) /\ f \in Touched(a)
    BY DEF AnchorsOf
  <2>2. NumeratorCell(SlotAt(a, f), c, x, y) = ViewNumerator(SlotForOutput(j.p, a, f), c, x, y)
    BY DEF NumeratorCell, SlotAt
  <2>3. WeightCell(SlotAt(a, f), 0, x, y) = ViewWeight(SlotForOutput(j.p, a, f), 0, x, y)
    BY DEF WeightCell, SlotAt
  <2>4. /\ At(memory[a], NumeratorCell(SlotAt(a, f), c, x, y)) = ValueSum(AllOf(a), f, c, x, y)
        /\ At(memory[a], WeightCell(SlotAt(a, f), 0, x, y)) = ShareSum(AllOf(a), f, x, y)
    BY <1>6, <2>1, CellsRead
  <2> QED BY <2>2, <2>3, <2>4
<1> HIDE DEF numerator, weight, A
<1>5. Sum(Weighty(A, weight), numerator, weight, f, c, x, y) = Mean(A, f, c, x, y)
  <2>1. SumsRead(A, numerator, weight, f, c, x, y)
    BY <1>4 DEF SumsRead
  <2> QED BY <1>1, <1>2, <2>1, SumSkipsZeros
<1> QED BY <1>3, <1>5 DEF A, Weighty

\* and the kernel that normalises over many anchors, whose sources begin at the slot.
LEMMA NormalizedIsMean ==
  ASSUME Production, current = AnchorCount, OnDevice, NEW f \in Nat,
         NEW c \in Channels, NEW x \in Columns, NEW y \in Rows
  PROVE  NormalizedPixel(f, c, x, y) = Mean(AnchorsOf(f), f, c, x, y)
<1> DEFINE A == AnchorsOf(f)
           Of(a) == Source(a, SlotForOutput(j.p, a, f))
           weight == [a \in A |-> At(memory[a], <<0, Of(a).weights + y * View.weightRow + x>>)]
           numerator == [a \in A |-> At(memory[a], <<0, Of(a).numerators + c * View.channel + y * View.row + x>>)]
<1>1. job \in DOMAIN AllJobs
  BY DEF Production, ProgressFits
<1>2. IsFiniteSet(A) /\ A \subseteq Nat /\ Anchors(j.p, f) = A
  BY <1>1, FrameAnchors
<1>3. NormalizedPixel(f, c, x, y) = Sum({a \in A : weight[a] # 0}, numerator, weight, f, c, x, y)
  BY <1>2 DEF NormalizedPixel
<1>4. ASSUME NEW a \in A
      PROVE  numerator[a] = ValueSum(AllOf(a), f, c, x, y) /\ weight[a] = ShareSum(AllOf(a), f, x, y)
  <2>1. a \in 0..(AnchorCount - 1) /\ f \in Touched(a) /\ a \in Nat
    BY <1>2 DEF AnchorsOf
  <2> DEFINE s == SlotForOutput(j.p, a, f)
  <2>2. NumeratorCell(SlotAt(a, f), c, x, y) = <<0, Of(a).numerators + c * View.channel + y * View.row + x>>
    <3>1. NumeratorCell(SlotAt(a, f), c, x, y) = <<0, c * View.channel + s * View.slot + y * View.row + x>>
      BY DEF NumeratorCell, NumeratorOffset, SlotAt
    <3>2. Of(a).numerators = s * View.slot
      BY DEF Source
    <3>3. s \in Int /\ c \in Int /\ y \in Int /\ x \in Int
      BY <1>1, <2>1, Numbers DEF SlotForOutput, Rows, Columns
    <3>4. View.slot \in Int /\ View.channel \in Int /\ View.row \in Int
      BY <1>1, ViewIs
    <3> DEFINE p == c * View.channel
               q == s * View.slot
               r == y * View.row
    <3>5. p \in Int /\ q \in Int /\ r \in Int
      <4> HIDE DEF s
      <4> QED BY <3>3, <3>4
    <3>6. Of(a).numerators = q
      BY <3>2
    <3> HIDE DEF p, q, r, s, Of
    <3>7. q + p + r + x = p + q + r + x
      BY <3>3, <3>5
    <3> QED BY <3>1, <3>6, <3>7 DEF p, q, r
  <2>3. WeightCell(SlotAt(a, f), c, x, y) = <<0, Of(a).weights + y * View.weightRow + x>>
    BY DEF WeightCell, WeightOffset, SlotAt, Source
  <2> HIDE DEF Of
  <2> QED BY <2>1, <2>2, <2>3, CellsRead
<1> HIDE DEF numerator, weight, A
<1>5. Sum(Weighty(A, weight), numerator, weight, f, c, x, y) = Mean(A, f, c, x, y)
  <2>1. SumsRead(A, numerator, weight, f, c, x, y)
    BY <1>4 DEF SumsRead
  <2> QED BY <1>1, <1>2, <2>1, SumSkipsZeros
<1> QED BY <1>3, <1>5 DEF A, Weighty

\* One contribution alone.
LEMMA QuotientIsMean ==
  ASSUME job \in DOMAIN AllJobs, NEW a \in Nat, NEW f, NEW c \in Channels, NEW x, NEW y
  PROVE  Quotient(ValueSum(AllOf(a), f, c, x, y), ShareSum(AllOf(a), f, x, y), f, c, x, y) = Mean({a}, f, c, x, y)
<1> DEFINE numerator == [k \in {a} |-> ValueSum(AllOf(a), f, c, x, y)]
           weight == [k \in {a} |-> ShareSum(AllOf(a), f, x, y)]
<1>1. ValueSum(AllOf(a), f, c, x, y) \in Int /\ ShareSum(AllOf(a), f, x, y) \in Int
  <2> DEFINE O == Over(AllOf(a), f, x, y)
             value == [e \in O |-> Value(e, f, c, x, y)]
             share == [e \in O |-> Share(e, x, y)]
  <2>1. O \subseteq AllOf(a) /\ \A e \in O : Covers(SampleOf(e), f, x, y)
    BY DEF Over
  <2>2. IsFiniteSet(AllOf(a)) /\ \A e \in AllOf(a) : ValidSample(j, SampleOf(e))
    BY SamplesFit
  <2>3. ValueSum(AllOf(a), f, c, x, y) = SumFunctionOnSet(value, O) /\ ShareSum(AllOf(a), f, x, y) = SumFunctionOnSet(share, O)
    BY DEF ValueSum, ShareSum
  <2> HIDE DEF O
  <2>4. IsFiniteSet(O)
    BY <2>1, <2>2, FS_Subset
  <2>5. \A e \in O : value[e] \in Int /\ share[e] \in Int
    BY <2>1, <2>2, ShareTypes
  <2> HIDE DEF value, share
  <2> QED BY <2>3, <2>4, <2>5, SumIsInt
<1>2. /\ \A k \in {a} : numerator[k] = ValueSum(AllOf(k), f, c, x, y) /\ weight[k] = ShareSum(AllOf(k), f, x, y)
      /\ numerator[a] = ValueSum(AllOf(a), f, c, x, y) /\ weight[a] = ShareSum(AllOf(a), f, x, y)
  OBVIOUS
<1> HIDE DEF numerator, weight
<1>3. SumFunctionOnSet(numerator, {a}) = numerator[a] /\ SumFunctionOnSet(weight, {a}) = weight[a]
  BY <1>1, <1>2, SumOfOne
<1>4. Sum({a}, numerator, weight, f, c, x, y) = Mean({a}, f, c, x, y)
  <2>1. IsFiniteSet({a}) /\ {a} \subseteq Nat
    BY FS_Singleton
  <2>2. SumsRead({a}, numerator, weight, f, c, x, y)
    BY <1>2 DEF SumsRead
  <2> QED BY <2>1, <2>2, SumIsMean
<1> QED BY <1>2, <1>3, <1>4 DEF Sum

\* The kernel that normalises one contribution.
LEMMA SlotIsMean ==
  ASSUME Production, current = AnchorCount, OnDevice, NEW a \in 0..(AnchorCount - 1), NEW f \in Touched(a),
         NEW c \in Channels, NEW x \in Columns, NEW y \in Rows
  PROVE  SlotPixel(a, f, c, x, y) = Mean({a}, f, c, x, y)
<1>1. job \in DOMAIN AllJobs /\ a \in Nat
  BY AnchorsAreNat DEF Production, ProgressFits
<1>2. /\ NumeratorCell(SlotAt(a, f), c, x, y) = NumeratorOffset(SlotForOutput(j.p, a, f), c, x, y)
      /\ WeightCell(SlotAt(a, f), c, x, y) = WeightOffset(SlotForOutput(j.p, a, f), x, y)
  BY DEF NumeratorCell, WeightCell, SlotAt
<1>3. SlotPixel(a, f, c, x, y) = Quotient(ValueSum(AllOf(a), f, c, x, y), ShareSum(AllOf(a), f, x, y), f, c, x, y)
  BY <1>2, CellsRead DEF SlotPixel
<1> QED BY <1>1, <1>3, QuotientIsMean

\* pack_kernel decodes the index of a row of numerators, and of weights, to the pixel it stands for.
LEMMA PackedDigits ==
  ASSUME job \in DOMAIN AllJobs, NEW c \in Channels, NEW s \in SlotRange, NEW x \in Columns, NEW y \in Rows
  PROVE  LET plane == c * Slots + s
             i == PackedIndex(c, s, y, x)
             k == PackedIndex(c, s, j.height + y, x)
         IN  /\ plane % Slots = s /\ plane \div Slots = c
             /\ i \in 0..(2 * NumeratorValues - 1) /\ k \in 0..(2 * NumeratorValues - 1)
             /\ i \div (2 * Pixels) = plane /\ k \div (2 * Pixels) = plane
             /\ i % (2 * Pixels) < Pixels /\ ~(k % (2 * Pixels) < Pixels)
             /\ i % Pixels = y * j.width + x /\ k % Pixels = y * j.width + x
<1> DEFINE plane == c * Slots + s
           n == j.channels * Slots
           r == y * j.width + x
           w == j.width
           h == j.height
           P == Pixels
           D == 2 * P
           A == plane * D
           i == PackedIndex(c, s, y, x)
           k == PackedIndex(c, s, j.height + y, x)
<1>1. Slots \in Nat \ {0} /\ P \in Nat \ {0} /\ w \in Nat \ {0} /\ h \in Nat \ {0} /\ j.channels \in Nat \ {0}
  BY Numbers, JobFits
<1>2. c \in Nat /\ c \in 0..(j.channels - 1) /\ s \in 0..(Slots - 1) /\ s \in Nat /\ x \in Nat /\ y \in Nat
  BY <1>1 DEF Channels, SlotRange, Columns, Rows
<1>3. plane % Slots = s /\ plane \div Slots = c
  BY <1>1, <1>2, DivMod
<1>4. plane \in 0..(n - 1) /\ plane \in Nat /\ n \in Nat
  <2>1. plane \in 0..(n - 1)
    BY <1>1, <1>2, TwoDigits
  <2>2. n \in Nat
    <3> HIDE DEF plane
    <3> QED BY <1>1
  <2> HIDE DEF plane, n
  <2> QED BY <2>1, <2>2
<1>5. r \in 0..(P - 1) /\ r \in Nat
  <2>1. r \in 0..(P - 1)
    BY PixelIndex
  <2> HIDE DEF r, P
  <2> QED BY <2>1
<1>6. D \in Nat \ {0} /\ r \in 0..(D - 1) /\ P + r \in 0..(D - 1)
  <2> HIDE DEF r, P
  <2> QED BY <1>1, <1>5
<1>7. P = h * w
  BY <1>1 DEF Pixels
<1>8. i = A + r
  <2>1. i = (plane * 2 * h + y) * w + x
    BY DEF PackedIndex
  <2> HIDE DEF i, plane, P, w, h
  <2>2. (plane * 2 * h + y) * w = plane * 2 * h * w + y * w
    <3> DEFINE q == plane * 2 * h
    <3>1. q \in Int
      BY <1>1, <1>4
    <3> HIDE DEF q
    <3>2. (q + y) * w = q * w + y * w
      BY <1>1, <1>2, <3>1, Distributes
    <3> QED BY <3>2 DEF q
  <2>3. plane * 2 * h * w = plane * (2 * (h * w))
    BY <1>1, <1>4
  <2>4. plane * (2 * (h * w)) = A
    BY <1>7
  <2>5. A \in Int /\ y * w \in Int
    BY <1>1, <1>2, <1>4
  <2>6. r = y * w + x
    BY DEF w
  <2>7. i = A + y * w + x
    BY <2>1, <2>2, <2>3, <2>4
  <2> HIDE DEF A, r
  <2> QED BY <1>2, <2>5, <2>6, <2>7
<1>9. k = A + (P + r)
  <2>1. k = (plane * 2 * h + (h + y)) * w + x
    BY DEF PackedIndex
  <2> HIDE DEF k, plane, P, w, h
  <2>2. (plane * 2 * h + (h + y)) * w = plane * 2 * h * w + h * w + y * w
    <3> DEFINE q == plane * 2 * h
    <3>1. q \in Int
      BY <1>1, <1>4
    <3> HIDE DEF q
    <3>2. (q + (h + y)) * w = q * w + (h + y) * w /\ (h + y) * w = h * w + y * w
      BY <1>1, <1>2, <3>1, Distributes
    <3>3. q * w \in Int /\ h * w \in Int /\ y * w \in Int
      BY <1>1, <1>2, <3>1
    <3> QED BY <3>2, <3>3 DEF q
  <2>3. plane * 2 * h * w = plane * (2 * (h * w))
    BY <1>1, <1>4
  <2>4. plane * (2 * (h * w)) = A /\ h * w = P
    BY <1>7
  <2>5. A \in Int /\ y * w \in Int
    BY <1>1, <1>2, <1>4
  <2>6. r = y * w + x
    BY DEF w
  <2>7. k = A + P + y * w + x
    BY <2>1, <2>2, <2>3, <2>4
  <2> HIDE DEF A, r
  <2> QED BY <1>1, <1>2, <2>5, <2>6, <2>7
<1>10. A = (plane * 2) * P /\ A + P = (plane * 2 + 1) * P /\ plane * 2 \in Nat /\ plane * 2 + 1 \in Nat
  <2> HIDE DEF plane, P
  <2> QED BY <1>1, <1>4
<1>11. A + r \in 0..(n * D - 1) /\ A + (P + r) \in 0..(n * D - 1)
  <2> HIDE DEF plane, P, n, D, r
  <2> QED BY <1>4, <1>6, TwoDigits
<1>12. n * D = 2 * NumeratorValues
  <2>1. NumeratorValues = n * P
    BY DEF NumeratorValues
  <2> HIDE DEF n, P
  <2> QED BY <1>1, <1>4, <2>1
<1>13. /\ (A + r) \div D = plane /\ (A + r) % D = r
       /\ (A + (P + r)) \div D = plane /\ (A + (P + r)) % D = P + r
  <2> HIDE DEF plane, P, D, r
  <2> QED BY <1>4, <1>6, DivMod
<1>14. (A + r) % P = r /\ (A + (P + r)) % P = r
  <2> DEFINE a == plane * 2
  <2>1. A + r = a * P + r /\ A + (P + r) = (a + 1) * P + r /\ a \in Nat /\ a + 1 \in Nat
    <3>1. A \in Int
      <4> HIDE DEF plane, P
      <4> QED BY <1>1, <1>4
    <3>2. A = a * P /\ A + P = (a + 1) * P /\ a \in Nat /\ a + 1 \in Nat
      BY <1>10
    <3> HIDE DEF A, P, r, plane, a
    <3>3. A + (P + r) = (A + P) + r
      BY <1>1, <1>5, <3>1
    <3> DEFINE u == a * P
               v == (a + 1) * P
    <3>4. A = u /\ A + P = v
      BY <3>2
    <3> HIDE DEF u, v
    <3>5. A + r = u + r /\ A + (P + r) = v + r
      BY <3>3, <3>4
    <3> QED BY <3>2, <3>5, Zenon DEF u, v
  <2> DEFINE b == a + 1
  <2> HIDE DEF plane, P, D, r, a, A
  <2>2. (a * P + r) % P = r
    BY <1>1, <1>5, <2>1, DivMod
  <2>3. b \in Nat /\ A + (P + r) = b * P + r
    BY <2>1
  <2> HIDE DEF b
  <2>4. (b * P + r) % P = r
    BY <1>1, <1>5, <2>3, DivMod
  <2> QED BY <2>1, <2>2, <2>3, <2>4, Zenon
<1> HIDE DEF plane, P, D, r, A, n, i, k
<1>15. r < P /\ ~(P + r < P)
  BY <1>1, <1>5
<1> QED BY <1>3, <1>8, <1>9, <1>11, <1>12, <1>13, <1>14, <1>15 DEF plane, P, D, r, i, k

\* Packing moves every row.
LEMMA PackedRows ==
  ASSUME job \in DOMAIN AllJobs, OnDevice, NEW a, NEW c \in Channels, NEW s \in SlotRange, NEW x \in Columns, NEW y \in Rows
  PROVE  /\ PackedCells(a)[PackedIndex(c, s, y, x)] = At(memory[a], NumeratorCell(s, c, x, y))
         /\ PackedCells(a)[PackedIndex(c, s, j.height + y, x)] = At(memory[a], WeightCell(s, c, x, y))
<1> DEFINE plane == c * Slots + s
           i == PackedIndex(c, s, y, x)
           k == PackedIndex(c, s, j.height + y, x)
           pixel == y * j.width + x
<1>1. /\ plane % Slots = s /\ plane \div Slots = c
      /\ i \in 0..(2 * NumeratorValues - 1) /\ k \in 0..(2 * NumeratorValues - 1)
      /\ i \div (2 * Pixels) = plane /\ k \div (2 * Pixels) = plane
      /\ i % (2 * Pixels) < Pixels /\ ~(k % (2 * Pixels) < Pixels)
      /\ i % Pixels = pixel /\ k % Pixels = pixel
  BY PackedDigits
<1>2. pixel % j.width = x /\ pixel \div j.width = y
  BY IndexOfPixel
<1> HIDE DEF plane, i, k, pixel
<1>3. PackedCells(a)[i] = At(memory[a], NumeratorOffset(s, c, x, y))
  BY <1>1, <1>2, Zenon DEF PackedCells
<1>4. PackedCells(a)[k] = At(memory[a], WeightOffset(s, x, y))
  BY <1>1, <1>2, Zenon DEF PackedCells
<1> QED BY <1>3, <1>4 DEF i, k, NumeratorCell, WeightCell

\* Steps that change nothing but what is packed and what is put out.
LEMMA ProductionStays ==
  ASSUME Production, job' = job, current' = current, step' = step, pending' = pending, memory' = memory
  PROVE  /\ ProgressFits' /\ SumsHold'
         /\ packed' = packed => PackedHolds'
<1>1. ProgressFits'
  BY SameCells, SameSums DEF Production, ProgressFits
<1>2. SumsHold'
  <2>1. WrittenAt(current, step, pending)' = WrittenAt(current, step, pending)
    BY SameSums DEF WrittenAt
  <2> QED BY <2>1, SameCells, SameSums DEF Production, SumsHold
<1>3. ASSUME packed' = packed PROVE PackedHolds'
  <2>1. \A c, s, r, x : PackedIndex(c, s, r, x)' = PackedIndex(c, s, r, x)
    BY SameCells DEF PackedIndex
  <2>2. j'.height = j.height
    BY SameCells
  <2> QED BY <1>3, <2>1, <2>2, SameCells, SameSums DEF Production, PackedHolds
<1> QED BY <1>1, <1>2, <1>3

\* Packing.
LEMMA PackKeeps ==
  ASSUME Production, NEW a \in 0..(AnchorCount - 1), Pack(a)
  PROVE  Production'
<1>1. /\ OnDevice /\ current = AnchorCount /\ packed' = [anchor |-> a, cells |-> PackedCells(a)]
      /\ job' = job /\ current' = current /\ step' = step /\ pending' = pending /\ memory' = memory
  BY DEF Pack
<1>2. ProgressFits' /\ SumsHold'
  BY <1>1, ProductionStays
<1>3. job \in DOMAIN AllJobs /\ a \in Nat
  BY AnchorsAreNat DEF Production, ProgressFits
<1>4. ASSUME NEW f \in Touched(a), NEW x \in Columns, NEW y \in Rows, NEW c \in Channels
      PROVE  /\ PackedCells(a)[PackedIndex(c, SlotAt(a, f), y, x)] = ValueSum(AllOf(a), f, c, x, y)
             /\ PackedCells(a)[PackedIndex(c, SlotAt(a, f), j.height + y, x)] = ShareSum(AllOf(a), f, x, y)
  <2>1. SlotAt(a, f) \in SlotRange
    <3>1. f \in Int
      BY <1>3, Numbers DEF Touched
    <3> QED BY <1>3, <3>1, SlotsOfFrames
  <2>2. /\ PackedCells(a)[PackedIndex(c, SlotAt(a, f), y, x)] = At(memory[a], NumeratorCell(SlotAt(a, f), c, x, y))
        /\ PackedCells(a)[PackedIndex(c, SlotAt(a, f), j.height + y, x)] = At(memory[a], WeightCell(SlotAt(a, f), c, x, y))
    BY <1>1, <1>3, <2>1, PackedRows
  <2> QED BY <1>1, <2>2, CellsRead
<1>5. PackedHolds'
  <2>1. \A c, s, r, x : PackedIndex(c, s, r, x)' = PackedIndex(c, s, r, x)
    BY <1>1, SameCells DEF PackedIndex
  <2>2. j'.height = j.height
    BY <1>1, SameCells
  <2>3. packed'.anchor = a /\ packed'.cells = PackedCells(a)
    BY <1>1
  <2> QED BY <1>1, <1>4, <2>1, <2>2, <2>3, SameCells, SameSums DEF PackedHolds
<1> QED BY <1>2, <1>5 DEF Production

\* What is read of a packed contribution.
LEMMA PackedIsMean ==
  ASSUME Production, packed # <<>>, NEW f \in Touched(packed.anchor),
         NEW c \in Channels, NEW x \in Columns, NEW y \in Rows
  PROVE  PackedPixel(f, c, x, y) = Mean({packed.anchor}, f, c, x, y)
<1> DEFINE a == packed.anchor
<1>1. /\ a \in 0..(AnchorCount - 1)
      /\ packed.cells[PackedIndex(c, SlotAt(a, f), y, x)] = ValueSum(AllOf(a), f, c, x, y)
      /\ packed.cells[PackedIndex(c, SlotAt(a, f), j.height + y, x)] = ShareSum(AllOf(a), f, x, y)
  BY DEF Production, PackedHolds
<1>2. job \in DOMAIN AllJobs /\ a \in Nat
  BY <1>1, AnchorsAreNat DEF Production, ProgressFits
<1>3. PackedPixel(f, c, x, y) = Quotient(packed.cells[PackedIndex(c, SlotAt(a, f), y, x)],
                                         packed.cells[PackedIndex(c, SlotAt(a, f), j.height + y, x)], f, c, x, y)
  BY DEF PackedPixel, PackedIndex, SlotAt
<1> HIDE DEF a
<1>4. PackedPixel(f, c, x, y) = Mean({a}, f, c, x, y)
  BY <1>1, <1>2, <1>3, QuotientIsMean
<1> QED BY <1>4 DEF a

-----------------------------------------------------------------------------
(* The output. *)

\* The anchors a frame is the mean of: all that touch it, unless one is read alone.
Meant(anchor, f) == IF anchor = EveryAnchor THEN Touching(f) ELSE {anchor} \cap Touching(f)
Alone(a) == {a}

\* What FramesAreWeightedMeans says of an output.
IsMean(o) ==
    o.frame >= 0 => \A e \in DOMAIN o.value : o.value[e] = Mean(Meant(o.anchor, o.frame), o.frame, e[1], e[2], e[3])

\* It speaks of the job alone.
LEMMA SameMeans ==
  ASSUME job' = job
  PROVE  \A o : IsMean(o)' <=> IsMean(o)
<1>1. /\ \A f : Touching(f)' = Touching(f)
      /\ \A T, f, c, x, y : Mean(T, f, c, x, y)' = Mean(T, f, c, x, y)
  BY SameSums
<1>2. \A T, f : Meant(T, f)' = Meant(T, f)
  BY <1>1 DEF Meant
<1> QED BY <1>1, <1>2 DEF IsMean

\* A combined frame is the mean, over the anchors meant, of its reader's pixels.
LEMMA CombinedIsMean ==
  ASSUME Production, NEW f \in Nat, NEW anchor, NEW value, Combine(f, anchor, value),
         \A e \in DOMAIN value : value[e] = Mean(Meant(anchor, f), f, e[1], e[2], e[3])
  PROVE  Production' /\ FramesAreWeightedMeans'
<1>1. /\ output' = [frame |-> f, anchor |-> anchor, value |-> value] /\ packed' = packed
      /\ job' = job /\ current' = current /\ step' = step /\ pending' = pending /\ memory' = memory
  BY DEF Combine
<1>2. Production'
  BY <1>1, ProductionStays DEF Production
<1>3. IsMean(output')
  BY <1>1 DEF IsMean
<1>4. IsMean(output)'
  BY <1>1, <1>3, SameMeans
<1>5. FramesAreWeightedMeans'
  BY <1>4 DEF FramesAreWeightedMeans, IsMean, Meant
<1> QED BY <1>2, <1>5

\* All the anchors of the frame are combined.
LEMMA WholeFrame ==
  ASSUME Production, NEW f \in Nat, NEW value, Combine(f, EveryAnchor, value),
         DOMAIN value = Samples, \A c \in Channels, x \in Columns, y \in Rows :
            value[<<c, x, y>>] = Mean(AnchorsOf(f), f, c, x, y)
  PROVE  Production' /\ FramesAreWeightedMeans'
<1>1. job \in DOMAIN AllJobs
  BY DEF Production, ProgressFits
<1>2. Touching(f) = Meant(EveryAnchor, f)
  BY DEF Meant
<1>3. ASSUME NEW e \in DOMAIN value PROVE value[e] = Mean(Touching(f), f, e[1], e[2], e[3])
  <2>1. e = <<e[1], e[2], e[3]>> /\ e[1] \in Channels /\ e[2] \in Columns /\ e[3] \in Rows
    BY DEF Samples
  <2>2. value[e] = Mean(AnchorsOf(f), f, e[1], e[2], e[3])
    BY <2>1
  <2> QED BY <1>1, <2>2, MeanOfTouching
<1> QED BY <1>2, <1>3, CombinedIsMean

\* The same, when one contribution that touches the frame is normalised alone.
LEMMA OneContribution ==
  ASSUME Production, NEW f \in Nat, OnDevice, NEW a \in 0..(AnchorCount - 1), f \in Touched(a),
         NEW value, Combine(f, a, value),
         DOMAIN value = Samples, \A c \in Channels, x \in Columns, y \in Rows :
            value[<<c, x, y>>] = Mean(Alone(a), f, c, x, y)
  PROVE  Production' /\ FramesAreWeightedMeans'
<1>1. job \in DOMAIN AllJobs /\ AnchorCount = ValidAnchorFrames(j.p)
  BY DEF Production, ProgressFits, AnchorCount
<1>2. a \in Touching(f)
  BY <1>1 DEF Touching, Touched
<1>3. a # EveryAnchor /\ {a} \cap Touching(f) = Alone(a)
  BY <1>2 DEF Alone, EveryAnchor
<1>4. Alone(a) = Meant(a, f)
  BY <1>3 DEF Meant
<1>5. ASSUME NEW e \in DOMAIN value PROVE value[e] = Mean(Alone(a), f, e[1], e[2], e[3])
  <2>1. e = <<e[1], e[2], e[3]>> /\ e[1] \in Channels /\ e[2] \in Columns /\ e[3] \in Rows
    BY DEF Samples
  <2> QED BY <2>1
<1> QED BY <1>4, <1>5, CombinedIsMean

\* vnlb.Aggregate puts out means, and so do the other readers.
LEMMA AggregateFrameIsMean ==
  ASSUME Production, NEW f \in Nat, AggregateFrame(f)
  PROVE  Production' /\ FramesAreWeightedMeans'
<1> DEFINE value == [e \in Samples |-> AggregatedPixel(f, e[1], e[2], e[3])]
<1>1. job \in DOMAIN AllJobs /\ ~OnDevice /\ j.storage = "planes"
  BY DEF Production, ProgressFits, AggregateFrame, OnDevice
<1>2. Combine(f, EveryAnchor, value) /\ current = AnchorCount
  BY DEF AggregateFrame, Combine
<1>3. DOMAIN value = Samples
  OBVIOUS
<1>4. ASSUME NEW c \in Channels, NEW x \in Columns, NEW y \in Rows
      PROVE  value[<<c, x, y>>] = Mean(AnchorsOf(f), f, c, x, y)
  <2>1. value[<<c, x, y>>] = AggregatedPixel(f, c, x, y)
    BY DEF Samples
  <2> QED BY <1>1, <1>2, <2>1, AggregatedIsMean
<1> HIDE DEF value
<1> QED BY <1>2, <1>3, <1>4, WholeFrame

\* aggregate_frame of the core.
LEMMA AggregateStacksIsMean ==
  ASSUME Production, NEW f \in Nat, AggregateStacks(f)
  PROVE  Production' /\ FramesAreWeightedMeans'
<1> DEFINE value == [e \in Samples |-> StackedPixel(f, e[1], e[2], e[3])]
<1>1. job \in DOMAIN AllJobs /\ ~OnDevice
  BY DEF Production, ProgressFits, AggregateStacks
<1>2. Combine(f, EveryAnchor, value) /\ current = AnchorCount
  BY DEF AggregateStacks, Combine
<1>3. DOMAIN value = Samples
  OBVIOUS
<1>4. ASSUME NEW c \in Channels, NEW x \in Columns, NEW y \in Rows
      PROVE  value[<<c, x, y>>] = Mean(AnchorsOf(f), f, c, x, y)
  <2>1. value[<<c, x, y>>] = StackedPixel(f, c, x, y)
    BY DEF Samples
  <2> QED BY <1>1, <1>2, <2>1, StackedIsMean
<1> HIDE DEF value
<1> QED BY <1>2, <1>3, <1>4, WholeFrame

\* normalize_many_channels_kernel.
LEMMA NormalizeManyIsMean ==
  ASSUME Production, NEW f \in Nat, NormalizeMany(f)
  PROVE  Production' /\ FramesAreWeightedMeans'
<1> DEFINE value == [e \in Samples |-> NormalizedPixel(f, e[1], e[2], e[3])]
<1>1. job \in DOMAIN AllJobs /\ OnDevice
  BY DEF Production, ProgressFits, NormalizeMany
<1>2. Combine(f, EveryAnchor, value) /\ current = AnchorCount
  BY DEF NormalizeMany, Combine
<1>3. DOMAIN value = Samples
  OBVIOUS
<1>4. ASSUME NEW c \in Channels, NEW x \in Columns, NEW y \in Rows
      PROVE  value[<<c, x, y>>] = Mean(AnchorsOf(f), f, c, x, y)
  <2>1. value[<<c, x, y>>] = NormalizedPixel(f, c, x, y)
    BY DEF Samples
  <2> QED BY <1>1, <1>2, <2>1, NormalizedIsMean
<1> HIDE DEF value
<1> QED BY <1>2, <1>3, <1>4, WholeFrame

\* normalize_kernel.
LEMMA NormalizeIsMean ==
  ASSUME Production, NEW f \in Nat, NEW a \in 0..(AnchorCount - 1), Normalize(a, f)
  PROVE  Production' /\ FramesAreWeightedMeans'
<1> DEFINE value == [e \in Samples |-> SlotPixel(a, f, e[1], e[2], e[3])]
<1>1. job \in DOMAIN AllJobs /\ OnDevice /\ a \in Nat /\ f \in Int
  BY AnchorsAreNat DEF Production, ProgressFits, Normalize
<1>2. SlotAt(a, f) \in SlotRange
  BY DEF Normalize, SlotAt, SlotRange
<1>3. f \in Touched(a)
  BY <1>1, <1>2, SlotsOfFrames
<1>4. Combine(f, a, value) /\ current = AnchorCount
  BY DEF Normalize, Combine
<1>5. DOMAIN value = Samples
  OBVIOUS
<1>6. ASSUME NEW c \in Channels, NEW x \in Columns, NEW y \in Rows
      PROVE  value[<<c, x, y>>] = Mean({a}, f, c, x, y)
  <2>1. value[<<c, x, y>>] = SlotPixel(a, f, c, x, y)
    BY DEF Samples
  <2> QED BY <1>1, <1>3, <1>4, <2>1, SlotIsMean
<1>7. ASSUME NEW c \in Channels, NEW x \in Columns, NEW y \in Rows
      PROVE  value[<<c, x, y>>] = Mean(Alone(a), f, c, x, y)
  BY <1>6 DEF Alone
<1> HIDE DEF value
<1> QED BY <1>1, <1>3, <1>4, <1>5, <1>7, OneContribution

\* The packed contribution.
LEMMA ReadPackedIsMean ==
  ASSUME Production, NEW f \in Nat, ReadPacked(f)
  PROVE  Production' /\ FramesAreWeightedMeans'
<1> DEFINE a == packed.anchor
           value == [e \in Samples |-> PackedPixel(f, e[1], e[2], e[3])]
<1>1. packed # <<>> /\ OnDevice /\ a \in 0..(AnchorCount - 1)
  BY DEF Production, PackedHolds, ReadPacked
<1>2. job \in DOMAIN AllJobs /\ a \in Nat /\ f \in Int
  BY <1>1, AnchorsAreNat DEF Production, ProgressFits
<1>3. f \in Touched(a)
  <2>1. SlotAt(a, f) >= 0 /\ SlotAt(a, f) < Slots
    BY DEF ReadPacked, ContainsOutput, SlotAt, SlotForOutput, Slots
  <2>2. SlotAt(a, f) \in Int /\ Slots \in Nat
    BY <1>2, Numbers DEF SlotAt, SlotForOutput
  <2>3. SlotAt(a, f) \in SlotRange
    BY <2>1, <2>2 DEF SlotRange
  <2> QED BY <1>2, <2>3, SlotsOfFrames
<1>4. Combine(f, a, value) /\ current = AnchorCount
  BY DEF ReadPacked, Combine
<1>5. DOMAIN value = Samples
  OBVIOUS
<1>6. ASSUME NEW c \in Channels, NEW x \in Columns, NEW y \in Rows
      PROVE  value[<<c, x, y>>] = Mean({a}, f, c, x, y)
  <2>1. value[<<c, x, y>>] = PackedPixel(f, c, x, y)
    BY DEF Samples
  <2> QED BY <1>1, <1>3, <2>1, PackedIsMean
<1>7. ASSUME NEW c \in Channels, NEW x \in Columns, NEW y \in Rows
      PROVE  value[<<c, x, y>>] = Mean(Alone(a), f, c, x, y)
  BY <1>6 DEF Alone
<1> HIDE DEF value, a
<1> QED BY <1>1, <1>3, <1>4, <1>5, <1>7, OneContribution

\* A step that puts nothing out leaves the last output a mean.
LEMMA OutputStays ==
  ASSUME FramesAreWeightedMeans, job' = job, output' = output
  PROVE  FramesAreWeightedMeans'
<1>1. IsMean(output)
  BY DEF FramesAreWeightedMeans, IsMean, Meant
<1>2. IsMean(output)'
  BY <1>1, SameMeans
<1> QED BY <1>2 DEF FramesAreWeightedMeans, IsMean, Meant

\* Every step.
LEMMA StepKeeps ==
  ASSUME Production, FramesAreWeightedMeans, [AggregationNext]_aggregationVars
  PROVE  Production' /\ FramesAreWeightedMeans'
<1>1. CASE Clear
  <2>1. job' = job /\ output' = output
    BY <1>1 DEF Clear
  <2> QED BY <1>1, <2>1, ClearKeeps, OutputStays
<1>2. CASE SkipGroup
  <2>1. job' = job /\ output' = output
    BY <1>2 DEF SkipGroup
  <2> QED BY <1>2, <2>1, SkipGroupKeeps, OutputStays
<1>3. CASE WriteGroup
  <2>1. job' = job /\ output' = output
    BY <1>3, Zenon DEF WriteGroup
  <2> QED BY <1>3, <2>1, WriteGroupKeeps, OutputStays
<1>4. CASE EnqueueChunk
  <2>1. job' = job /\ output' = output
    BY <1>4, Zenon DEF EnqueueChunk
  <2> QED BY <1>4, <2>1, EnqueueChunkKeeps, OutputStays
<1>5. CASE Deliver
  <2>1. job' = job /\ output' = output
    BY <1>5 DEF Deliver
  <2> QED BY <1>5, <2>1, DeliverKeeps, OutputStays
<1>6. ASSUME NEW e \in pending, Scatter(e[1], e[2]) PROVE Production' /\ FramesAreWeightedMeans'
  <2>1. job' = job /\ output' = output
    BY <1>6 DEF Scatter
  <2> QED BY <1>6, <2>1, ScatterKeeps, OutputStays
<1>7. ASSUME NEW a \in 0..(AnchorCount - 1), Pack(a) PROVE Production' /\ FramesAreWeightedMeans'
  <2>1. job' = job /\ output' = output
    BY <1>7 DEF Pack
  <2> QED BY <1>7, <2>1, PackKeeps, OutputStays
<1>8. ASSUME NEW f \in 0..(j.p.frames - 1),
             \/ AggregateFrame(f) \/ AggregateStacks(f) \/ NormalizeMany(f) \/ ReadPacked(f)
             \/ \E a \in 0..(AnchorCount - 1) : Normalize(a, f)
      PROVE  Production' /\ FramesAreWeightedMeans'
  <2>1. f \in Nat
    BY Numbers DEF Production, ProgressFits
  <2> QED BY <1>8, <2>1, AggregateFrameIsMean, AggregateStacksIsMean, NormalizeManyIsMean, ReadPackedIsMean, NormalizeIsMean
<1>9. CASE UNCHANGED aggregationVars
  <2>1. /\ job' = job /\ current' = current /\ step' = step /\ pending' = pending /\ memory' = memory
        /\ packed' = packed /\ output' = output
    BY <1>9 DEF aggregationVars
  <2> QED BY <2>1, ProductionStays, OutputStays DEF Production
<1> QED BY <1>1, <1>2, <1>3, <1>4, <1>5, <1>6, <1>7, <1>8, <1>9 DEF AggregationNext

\* While contributions are produced, in whatever order, cleared cells hold the sums over the samples written so far.
THEOREM ContributionsHold == AggregationSpec => [](Production /\ FramesAreWeightedMeans)
<1>1. AggregationInit => Production /\ FramesAreWeightedMeans
  <2>1. AggregationInit => FramesAreWeightedMeans
    BY DEF AggregationInit, NoFrame, FramesAreWeightedMeans
  <2> QED BY <2>1, ProductionInit
<1>2. Production /\ FramesAreWeightedMeans /\ [AggregationNext]_aggregationVars => (Production /\ FramesAreWeightedMeans)'
  BY StepKeeps
<1> QED BY <1>1, <1>2, PTL DEF AggregationSpec

\* Every output frame is, pixel by pixel, the weighted mean of the patches of its
\* anchors, for every clip, layout, window and weight, whichever writer wrote and
\* whichever reader combines: the CPU's and the device's, in whatever order.
THEOREM FramesAreMeans == AggregationSpec => []FramesAreWeightedMeans
BY ContributionsHold, PTL

\* Clearing and adding write the cells of the contribution and no others, in every
\* layout: no padding of a frame, nothing behind a slot of the cache.
THEOREM WritesInside == AggregationSpec => []WritesStayInside
<1>1. Production => WritesStayInside
  BY DEF Production, SumsHold, WritesStayInside
<1> QED BY <1>1, ContributionsHold, PTL
=============================================================================
