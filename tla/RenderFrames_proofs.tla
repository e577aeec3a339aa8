-------------------------- MODULE RenderFrames_proofs --------------------------
(***************************************************************************)
(* Theorems about RenderFrames, for every set of threads and workers, every *)
(* clip and search window, any caches at least as large as initialize_cuda *)
(* makes them and any number of requests and faults.                       *)
(*                                                                         *)
(* The invariant has four layers, each proved from the ones before it:     *)
(* Control (who is where, with which worker), Windows (what is leased, by  *)
(* the point a thread has reached), Streams (what is queued, and who has   *)
(* waited for what) and Verdicts (what the history variables say).         *)
(***************************************************************************)
EXTENDS RenderFrames, SequenceTheorems, TLAPS

Keys    == 0..(p.frames - 1)
Sources == 1..Len(SourceCaches)
Last    == Len(SourceCaches) + 1

\* The caches in the order their windows are opened, the contributions last.
CacheAt(i) == IF i > Len(SourceCaches) THEN "contribution" ELSE SourceCaches[i]

-----------------------------------------------------------------------------
(* Control *)

Ahead        == {"idle", "worker", "fetch", "copy", "returnWorker"}
SourcePoints == {"claim", "upload", "publish", "waitReady"}
Computed     == {"waitHits", "normalize", "sync", "check", "publishContributions"}
Computing    == {"compute"} \cup Computed
AfterSources == {"claimContributions"} \cup Computing
Rendering    == {"worker", "fetch", "copy"} \cup SourcePoints \cup AfterSources
Unwinding    == {"drain", "abandon", "release"}
Points       == Ahead \cup SourcePoints \cup AfterSources \cup Unwinding
\* Where a thread's stream may still have work.
Busy         == SourcePoints \cup {"claimContributions", "compute", "waitHits",
                                   "normalize", "sync", "drain"}

ControlTypes ==
    /\ pc \in [Threads -> Points]
    /\ at \in [Threads -> 1..Last]
    /\ frame \in [Threads -> Keys]
    /\ failed \in [Threads -> BOOLEAN]
    /\ worker \in [Threads -> Workers \cup {NoWorker}]

\* A worker has one render at a time, and a render has one from AcquireWorker on.
WorkersAreExclusive ==
    /\ \A t \in Threads : worker[t] = NoWorker <=> pc[t] \in {"idle", "worker"}
    /\ \A t, u \in Threads : worker[t] = worker[u] /\ worker[t] # NoWorker => t = u

FailuresAreCaught ==
    \A t \in Threads : /\ pc[t] \in SourcePoints => at[t] \in Sources
                       /\ pc[t] \in {"drain", "abandon"} => failed[t]
                       /\ pc[t] \in Rendering => ~failed[t]

Control == ControlTypes /\ WorkersAreExclusive /\ FailuresAreCaught

\* The geometry of FrameGeometry, for the parameters of this filter.
Geometry == INSTANCE FrameRequests_proofs
            WITH filter <- Parameters, frame <- 0, Filters <- {Parameters}

LEMMA SameAnchors ==
  ASSUME NEW f
  PROVE  Anchors(p, f) = Geometry!Anchors(p, f)
  BY DEF Anchors, Geometry!Anchors, ContributingAnchors, Geometry!ContributingAnchors,
         ValidAnchorFrames, Geometry!ValidAnchorFrames, Least, Geometry!Least,
         Greatest, Geometry!Greatest

LEMMA SameRange ==
  ASSUME NEW a
  PROVE  AnchorSourceRange(p, a) = Geometry!AnchorSourceRange(p, a)
  BY DEF AnchorSourceRange, Geometry!AnchorSourceRange, SearchWindow, Geometry!SearchWindow,
         Shift, Geometry!Shift, ValidAnchorFrames, Geometry!ValidAnchorFrames,
         Least, Geometry!Least, Greatest, Geometry!Greatest

LEMMA SameWindow ==
  ASSUME NEW f
  PROVE  RequiredSourceRange(p, f) = Geometry!RequiredSourceRange(p, f)
<1>1. \A S : Lowest(S) = Geometry!Lowest(S) /\ Highest(S) = Geometry!Highest(S)
  BY DEF Lowest, Geometry!Lowest, Highest, Geometry!Highest
<1>2. {AnchorSourceRange(p, a).first : a \in Anchors(p, f)}
        = {Geometry!AnchorSourceRange(p, a).first : a \in Geometry!Anchors(p, f)}
  BY SameAnchors, SameRange
<1>3. {AnchorSourceRange(p, a).last : a \in Anchors(p, f)}
        = {Geometry!AnchorSourceRange(p, a).last : a \in Geometry!Anchors(p, f)}
  BY SameAnchors, SameRange
<1> QED BY <1>1, <1>2, <1>3 DEF RequiredSourceRange, Geometry!RequiredSourceRange

\* What the geometry promises the renderer: all keys are frames of the clip, a
\* window of sources holds the frame itself and all its anchors read.
LEMMA KeysAreFrames ==
  ASSUME NEW f \in Keys
  PROVE  /\ \A c : KeysFor(c, f) \subseteq Keys
         /\ \A c \in Range(SourceCaches) : f \in KeysFor(c, f)
         /\ \A c \in Range(SourceCaches) : \A a \in KeysFor("contribution", f) :
               Span(AnchorSourceRange(p, a)) \subseteq KeysFor(c, f)
<1>1. Geometry!ValidParameters(p) /\ p.frames \in Nat /\ p.pt \in Nat /\ 1 <= p.pt
  BY ParametersAssumption DEF ValidParameters, Geometry!ValidParameters, p
<1>2. f \in 0..(p.frames - 1)
  BY DEF Keys
<1>3. /\ RequiredSourceRange(p, f).first \in 0..f
      /\ RequiredSourceRange(p, f).last \in f..(p.frames - 1)
      /\ \A a \in Anchors(p, f) :
            /\ RequiredSourceRange(p, f).first <= AnchorSourceRange(p, a).first
            /\ AnchorSourceRange(p, a).last <= RequiredSourceRange(p, f).last
  BY <1>1, <1>2, Geometry!WindowOfFrame, SameAnchors, SameRange, SameWindow
<1>4. \A a \in Anchors(p, f) : a \in 0..(p.frames - p.pt)
  <2>1. /\ ContributingAnchors(p, f).first \in 0..(ValidAnchorFrames(p) - 1)
        /\ ContributingAnchors(p, f).last \in 0..(ValidAnchorFrames(p) - 1)
    BY <1>1, <1>2, ParametersAssumption
       DEF ContributingAnchors, ValidAnchorFrames, Least, Greatest, ValidParameters, p
  <2> QED BY <1>1, <2>1 DEF Anchors, ValidAnchorFrames
<1>5. \A a \in Anchors(p, f) : /\ AnchorSourceRange(p, a).first \in Int
                              /\ AnchorSourceRange(p, a).last \in Int
  BY <1>1, <1>4, ParametersAssumption
     DEF AnchorSourceRange, SearchWindow, Shift, ValidAnchorFrames, Least, Greatest,
         ValidParameters, p
<1>6. Anchors(p, f) \subseteq Keys
  BY <1>1, <1>4 DEF Keys
<1>7. Span(RequiredSourceRange(p, f)) \subseteq Keys /\ f \in Span(RequiredSourceRange(p, f))
  BY <1>1, <1>2, <1>3 DEF Span, Keys
<1>8. \A a \in Anchors(p, f) :
         Span(AnchorSourceRange(p, a)) \subseteq Span(RequiredSourceRange(p, f))
  BY <1>1, <1>2, <1>3, <1>5 DEF Span
<1>9. "contribution" \notin Range(SourceCaches)
  BY SourceCachesAssumption
<1> QED BY <1>6, <1>7, <1>8, <1>9 DEF KeysFor

LEMMA CacheIndices ==
  /\ Len(SourceCaches) \in Nat \ {0} /\ DOMAIN SourceCaches = Sources
  /\ Last \in Nat /\ Last > Len(SourceCaches)
  /\ \A i \in Sources : /\ CacheAt(i) = SourceCaches[i]
                        /\ SourceCaches[i] \in Range(SourceCaches)
                        /\ SourceCaches[i] # "contribution"
  /\ CacheAt(Last) = "contribution"
  /\ \A i \in 1..Last : CacheAt(i) \in Caches
  /\ \A c \in Caches : \E i \in 1..Last : c = CacheAt(i)
  /\ \A i, j \in 1..Last : CacheAt(i) = CacheAt(j) => i = j
<1>1. /\ Len(SourceCaches) \in Nat \ {0} /\ DOMAIN SourceCaches = Sources
      /\ \A i, j \in Sources : SourceCaches[i] = SourceCaches[j] => i = j
  BY SourceCachesAssumption DEF Sources
<1>2. /\ \A i \in Sources : SourceCaches[i] \in Range(SourceCaches)
      /\ \A c \in Range(SourceCaches) : \E i \in Sources : c = SourceCaches[i]
      /\ \A c \in Range(SourceCaches) : c # "contribution"
  BY <1>1, SourceCachesAssumption DEF Range
<1>3. Last \in Nat /\ Last > Len(SourceCaches) /\ 1..Last = Sources \cup {Last}
      /\ Last \notin Sources
  BY <1>1 DEF Last, Sources
<1>4. \A i \in Sources : CacheAt(i) = SourceCaches[i]
  BY <1>1 DEF CacheAt, Sources
<1>5. CacheAt(Last) = "contribution"
  BY <1>1, <1>3 DEF CacheAt
<1>6. \A i \in 1..Last : CacheAt(i) \in Caches
  BY <1>2, <1>3, <1>4, <1>5 DEF Caches
<1>7. \A c \in Caches : \E i \in 1..Last : c = CacheAt(i)
  BY <1>2, <1>3, <1>4, <1>5 DEF Caches
<1>8. \A i, j \in 1..Last : CacheAt(i) = CacheAt(j) => i = j
  BY <1>1, <1>2, <1>3, <1>4, <1>5
<1> QED BY <1>1, <1>2, <1>3, <1>4, <1>5, <1>6, <1>7, <1>8

LEMMA ControlInit == RenderInit => Control
<1>1. 1 \in 1..Last /\ 0 \in Keys
  BY CacheIndices, ParametersAssumption DEF Keys, ValidParameters, p
<1> QED BY <1>1, NoWorkerAssumption
        DEF RenderInit, Control, ControlTypes, WorkersAreExclusive, FailuresAreCaught, Points,
            Ahead, SourcePoints, AfterSources, Computing, Computed, Unwinding, Rendering

\* A call of render_frame: only where the thread is and whether it failed change.
Moves(t, q, i, b) ==
    /\ pc' = [pc EXCEPT ![t] = q] /\ at' = [at EXCEPT ![t] = i]
    /\ failed' = [failed EXCEPT ![t] = b] /\ UNCHANGED <<frame, worker>>
    /\ pc[t] \notin {"idle", "worker"}
    /\ q \in Points \ {"idle", "worker"} /\ i \in 1..Last /\ b \in BOOLEAN
    /\ q \in SourcePoints => i \in Sources
    /\ q \in {"drain", "abandon"} => b
    /\ q \in Rendering => ~b

LEMMA MovesKeepControl ==
  ASSUME Control, NEW t \in Threads, NEW q, NEW i, NEW b, Moves(t, q, i, b)
  PROVE  Control'
<1>1. ControlTypes'
  BY DEF Control, ControlTypes, Moves
<1>2. WorkersAreExclusive'
  BY DEF Control, ControlTypes, WorkersAreExclusive, Moves
<1>3. FailuresAreCaught'
  BY DEF Control, ControlTypes, FailuresAreCaught, Moves
<1> QED BY <1>1, <1>2, <1>3 DEF Control

LEMMA ControlStep ==
  ASSUME Control, [RenderNext]_renderVars
  PROVE  Control'
<1> USE DEF Points, Ahead, SourcePoints, AfterSources, Computing, Computed, Unwinding, Rendering
<1>1. /\ Len(SourceCaches) \in Nat \ {0} /\ Last = Len(SourceCaches) + 1
      /\ Sources = 1..Len(SourceCaches) /\ Wanted \subseteq Keys
  BY CacheIndices, WantedAssumption DEF Last, Sources, Keys, p
<1>2. ASSUME NEW t \in Threads, HostStep(t) PROVE Control'
  <2>0. /\ pc[t] \in Points /\ at[t] \in 1..Last /\ failed[t] \in BOOLEAN
        /\ at = [at EXCEPT ![t] = at[t]] /\ failed = [failed EXCEPT ![t] = failed[t]]
        /\ pc[t] \in SourcePoints => at[t] \in Sources
        /\ pc[t] \in {"drain", "abandon"} => failed[t]
        /\ pc[t] \in Rendering => ~failed[t]
        /\ worker[t] = NoWorker <=> pc[t] \in {"idle", "worker"}
    BY DEF Control, ControlTypes, FailuresAreCaught, WorkersAreExclusive
  <2>1. ASSUME NEW f \in Wanted, GetFrame(t, f) PROVE Control'
    BY <1>1, <2>0, <2>1
       DEF GetFrame, Control, ControlTypes, WorkersAreExclusive, FailuresAreCaught
  <2>2. CASE AcquireWorker(t)
    BY <2>2, NoWorkerAssumption
       DEF AcquireWorker, Control, ControlTypes, WorkersAreExclusive, FailuresAreCaught
  <2>3. CASE ReturnWorker(t)
    BY <1>1, <2>3, NoWorkerAssumption
       DEF ReturnWorker, Control, ControlTypes, WorkersAreExclusive, FailuresAreCaught
  <2>4. SUFFICES ASSUME \A f \in Wanted : ~GetFrame(t, f), ~AcquireWorker(t), ~ReturnWorker(t)
                 PROVE  \E q, i, b : Moves(t, q, i, b)
    BY <2>1, <2>2, <2>3, MovesKeepControl
  <2>5. CASE FetchFrames(t)
    <3>1. Moves(t, "claim", 1, failed[t])
      BY <1>1, <2>0, <2>5 DEF FetchFrames, Goto, Moves
    <3> QED BY <3>1
  <2>6. CASE FetchFails(t)
    <3>1. Moves(t, "returnWorker", at[t], TRUE)
      BY <2>0, <2>6 DEF FetchFails, Fault, Moves
    <3> QED BY <3>1
  <2>7. CASE ClaimSource(t)
    <3>1. Moves(t, "upload", at[t], failed[t])
      BY <2>0, <2>7 DEF ClaimSource, Goto, Moves
    <3> QED BY <3>1
  <2>8. CASE Upload(t)
    <3>1. Moves(t, "publish", at[t], failed[t])
      BY <2>0, <2>8 DEF Upload, Goto, Moves
    <3> QED BY <3>1
  <2>9. CASE PublishSource(t)
    <3>1. Moves(t, "waitReady", at[t], failed[t])
      BY <2>0, <2>9 DEF PublishSource, Goto, Moves
    <3> QED BY <3>1
  <2>10. CASE WaitReady(t)
    <3>1. CASE at[t] < Len(SourceCaches)
      <4>1. Moves(t, "claim", at[t] + 1, failed[t])
        BY <1>1, <2>0, <2>10, <3>1 DEF WaitReady, Goto, Moves
      <4> QED BY <4>1
    <3>2. CASE ~(at[t] < Len(SourceCaches))
      <4>1. Moves(t, "claimContributions", at[t], failed[t])
        BY <2>0, <2>10, <3>2 DEF WaitReady, Goto, Moves
      <4> QED BY <4>1
    <3> QED BY <3>1, <3>2
  <2>11. CASE ClaimContributions(t)
    <3>1. Moves(t, "compute", at[t], failed[t])
      BY <2>0, <2>11 DEF ClaimContributions, Goto, Moves
    <3> QED BY <3>1
  <2>12. CASE Compute(t)
    <3>1. Moves(t, "waitHits", at[t], failed[t])
      BY <2>0, <2>12 DEF Compute, Goto, Moves
    <3> QED BY <3>1
  <2>13. CASE WaitHits(t)
    <3>1. Moves(t, "normalize", at[t], failed[t])
      BY <2>0, <2>13 DEF WaitHits, Goto, Moves
    <3> QED BY <3>1
  <2>14. CASE Normalize(t)
    <3>1. Moves(t, "sync", at[t], failed[t])
      BY <2>0, <2>14 DEF Normalize, Goto, Moves
    <3> QED BY <3>1
  <2>15. CASE Synchronize(t)
    <3>1. Moves(t, "check", at[t], failed[t])
      BY <2>0, <2>15 DEF Synchronize, Goto, Moves
    <3> QED BY <3>1
  <2>16. CASE CheckSolver(t)
    <3>1. Moves(t, "publishContributions", at[t], failed[t])
      BY <2>0, <2>16 DEF CheckSolver, Goto, Moves
    <3> QED BY <3>1
  <2>17. CASE PublishContributions(t) \/ Abandon(t)
    <3>1. Moves(t, "release", Last, failed[t])
      BY <1>1, <2>0, <2>17 DEF PublishContributions, Abandon, Goto, Moves
    <3> QED BY <3>1
  <2>18. CASE UploadFails(t) \/ ComputeFails(t) \/ CallFails(t)
    <3>1. Fault(t) /\ pc' = [pc EXCEPT ![t] = "drain"] /\ pc[t] \notin {"idle", "worker"}
      BY <2>18 DEF UploadFails, ComputeFails, CallFails
    <3>2. Moves(t, "drain", at[t], TRUE)
      BY <2>0, <3>1 DEF Fault, Moves
    <3> QED BY <3>2
  <2>19. CASE HitsLost(t) \/ SolverFails(t)
    <3>1. Raise(t) /\ pc[t] \notin {"idle", "worker"}
      BY <2>19 DEF HitsLost, SolverFails
    <3>2. Moves(t, "drain", at[t], TRUE)
      BY <2>0, <3>1 DEF Raise, Moves
    <3> QED BY <3>2
  <2>20. CASE Drain(t)
    <3>1. Moves(t, "abandon", at[t], failed[t])
      BY <2>0, <2>20 DEF Drain, Moves
    <3> QED BY <3>1
  <2>21. CASE Release(t)
    <3>1. CASE at[t] > 1
      <4>1. Moves(t, "release", at[t] - 1, failed[t])
        BY <1>1, <2>0, <2>21, <3>1 DEF Release, Goto, Moves
      <4> QED BY <4>1
    <3>2. CASE ~(at[t] > 1) /\ failed[t]
      <4>1. Moves(t, "returnWorker", at[t], failed[t])
        BY <2>0, <2>21, <3>2 DEF Release, Goto, Moves
      <4> QED BY <4>1
    <3>3. CASE ~(at[t] > 1) /\ ~failed[t]
      <4>1. Moves(t, "copy", at[t], failed[t])
        BY <2>0, <2>21, <3>3 DEF Release, Goto, Moves
      <4> QED BY <4>1
    <3> QED BY <3>1, <3>2, <3>3
  <2>22. CASE CopyOutput(t)
    <3>1. Moves(t, "returnWorker", at[t], failed[t])
      BY <2>0, <2>22 DEF CopyOutput, Goto, Moves
    <3> QED BY <3>1
  <2> QED BY <1>2, <2>4, <2>5, <2>6, <2>7, <2>8, <2>9, <2>10, <2>11, <2>12, <2>13,
             <2>14, <2>15, <2>16, <2>17, <2>18, <2>19, <2>20, <2>21, <2>22 DEF HostStep
<1>3. ASSUME NEW w \in Workers, Execute(w) PROVE Control'
  BY <1>3 DEF Execute, hostVars, Control, ControlTypes, WorkersAreExclusive, FailuresAreCaught
<1>4. CASE UNCHANGED renderVars
  BY <1>4 DEF renderVars, Control, ControlTypes, WorkersAreExclusive, FailuresAreCaught
<1> QED BY <1>2, <1>3, <1>4 DEF RenderNext, Finished

-----------------------------------------------------------------------------
(* Windows *)

Closed(t, c) == lease[t][c] = <<>> /\ loads[t][c] = {}
Open(t, c) ==
    /\ DOMAIN lease[t][c] = KeysFor(c, frame[t])
    /\ \A k \in DOMAIN lease[t][c] : lease[t][c][k] \in Buffers[c]
    /\ \A j, k \in DOMAIN lease[t][c] : lease[t][c][j] = lease[t][c][k] => j = k
    /\ loads[t][c] \subseteq DOMAIN lease[t][c]

\* What the point a thread has reached says of its window of the i-th cache.
SourceDone(t, i) ==
    /\ i \in Sources
    /\ pc[t] \in AfterSources \/ (pc[t] \in SourcePoints /\ i < at[t])
MustBeClosed(t, i) ==
    \/ pc[t] \in Ahead
    \/ pc[t] \in SourcePoints /\ i > at[t]
    \/ pc[t] = "claim" /\ i = at[t]
    \/ pc[t] = "claimContributions" /\ i = Last
    \/ pc[t] = "release" /\ i > at[t]
MustBeOpen(t, i) ==
    \/ SourceDone(t, i)
    \/ pc[t] \in {"upload", "publish", "waitReady"} /\ i = at[t]
    \/ pc[t] \in Computing /\ i = Last
MustBeLoaded(t, i) ==
    \/ SourceDone(t, i)
    \/ pc[t] = "waitReady" /\ i = at[t]
    \/ pc[t] = "release" /\ ~failed[t]

PathOf(t) ==
    \A i \in 1..Last : /\ MustBeClosed(t, i) => Closed(t, CacheAt(i))
                       /\ MustBeOpen(t, i) => Open(t, CacheAt(i))
                       /\ MustBeLoaded(t, i) => loads[t][CacheAt(i)] = {}

PerWindow(f) == f = [t \in Threads |-> [c \in Caches |-> f[t][c]]]
PerSlot(f)   == f = [c \in Caches |-> [s \in Buffers[c] |-> f[c][s]]]
SetWindow(g, f, t, c, v) == g = [f EXCEPT ![t][c] = v]
SetSlots(g, f, c, v)     == g = [f EXCEPT ![c] = v]
CacheTypes   == PerWindow(lease) /\ PerWindow(loads) /\ PerSlot(holds) /\ PerSlot(state) /\ PerSlot(mark)

\* A leased slot holds its key or has been dropped; a load is Loading and has one
\* producer; the hits of a source window are Ready, however others fail.
WindowIsSound(t, c) ==
    /\ Closed(t, c) \/ Open(t, c)
    /\ \A k \in DOMAIN lease[t][c] :
          state[c][lease[t][c][k]] # "Empty" => holds[c][lease[t][c][k]] = k
    /\ \A k \in loads[t][c] : state[c][lease[t][c][k]] = "Loading"
    /\ c # "contribution" =>
          \A k \in DOMAIN lease[t][c] \ loads[t][c] : state[c][lease[t][c][k]] = "Ready"
SlotStates == \A c \in Caches : \A s \in Buffers[c] : state[c][s] \in {"Empty", "Loading", "Ready"}
OneProducer ==
    \A t, u \in Threads, c \in Caches : \A j \in loads[t][c], k \in loads[u][c] :
        lease[t][c][j] = lease[u][c][k] => t = u
SlotsFollowTheirWindows ==
    SlotStates /\ OneProducer /\ \A t \in Threads, c \in Caches : WindowIsSound(t, c)

Windows == CacheTypes /\ SlotsFollowTheirWindows /\ \A t \in Threads : PathOf(t)

\* No window but t's window of c changes.
OnlyWindow(t, c) ==
    \A u \in Threads, d \in Caches :
        u # t \/ d # c => lease'[u][d] = lease[u][d] /\ loads'[u][d] = loads[u][d]

\* The slots of t's loads in its window of c.
LoadSlots(t, c) == {lease[t][c][k] : k \in loads[t][c]}

\* What a claim does to the window and to the slots.
ClaimOutcome(t, c, deferred) ==
    LET K == KeysFor(c, frame[t])
    IN  /\ OnlyWindow(t, c) /\ CacheTypes' /\ mark' = mark
        /\ DOMAIN lease'[t][c] = K /\ loads'[t][c] \subseteq K
        /\ \A k \in K : lease'[t][c][k] \in Buffers[c]
        /\ \A j, k \in K : lease'[t][c][j] = lease'[t][c][k] => j = k
        /\ \A k \in loads'[t][c] :
              /\ state'[c][lease'[t][c][k]] = "Loading" /\ holds'[c][lease'[t][c][k]] = k
              /\ state[c][lease'[t][c][k]] # "Loading" /\ ~Leased(c, lease'[t][c][k])
        /\ \A k \in K \ loads'[t][c] :
              /\ state[c][lease'[t][c][k]] # "Empty" /\ holds[c][lease'[t][c][k]] = k
              /\ deferred \/ state[c][lease'[t][c][k]] # "Loading"
        /\ \A d \in Caches : \A s \in Buffers[d] :
              d # c \/ s \notin {lease'[t][c][k] : k \in loads'[t][c]} =>
                 state'[d][s] = state[d][s] /\ holds'[d][s] = holds[d][s]
        /\ \A k \in K \ loads'[t][c] : \A j \in loads'[t][c] :
              lease'[t][c][k] # lease'[t][c][j]

LEMMA WindowUpdate ==
  ASSUME NEW f, PerWindow(f), NEW t \in Threads, NEW c \in Caches, NEW v,
         NEW g, SetWindow(g, f, t, c, v)
  PROVE  /\ PerWindow(g)
         /\ \A u \in Threads, d \in Caches : g[u][d] = IF u = t /\ d = c THEN v ELSE f[u][d]
<1> USE DEF PerWindow, SetWindow
<1>1. \A u \in Threads, d \in Caches : g[u][d] = IF u = t /\ d = c THEN v ELSE f[u][d]
  OBVIOUS
<1>2. \A u \in Threads : g[u] = [d \in Caches |-> g[u][d]]
  <2> TAKE u \in Threads
  <2>1. CASE u # t
    <3>1. g[u] = f[u] /\ f[u] = [d \in Caches |-> f[u][d]]
      BY <2>1
    <3> QED BY <3>1
  <2>2. CASE u = t
    <3>1. g[u] = [f[u] EXCEPT ![c] = v] /\ f[u] = [d \in Caches |-> f[u][d]]
      BY <2>2
    <3> QED BY <3>1
  <2> QED BY <2>1, <2>2
<1>3. g = [u \in Threads |-> g[u]]
  OBVIOUS
<1> QED BY <1>1, <1>2, <1>3

LEMMA SlotUpdate ==
  ASSUME NEW f, PerSlot(f), NEW c \in Caches, NEW v, v = [s \in Buffers[c] |-> v[s]],
         NEW g, SetSlots(g, f, c, v)
  PROVE  /\ PerSlot(g)
         /\ \A d \in Caches : \A s \in Buffers[d] : g[d][s] = IF d = c THEN v[s] ELSE f[d][s]
<1> USE DEF PerSlot, SetSlots
<1>1. \A d \in Caches : g[d] = IF d = c THEN v ELSE f[d]
  OBVIOUS
<1>2. \A d \in Caches : g[d] = [s \in Buffers[d] |-> g[d][s]]
  <2> TAKE d \in Caches
  <2>1. CASE d = c
    BY <1>1, <2>1
  <2>2. CASE d # c
    <3>1. g[d] = f[d] /\ f[d] = [s \in Buffers[d] |-> f[d][s]]
      BY <1>1, <2>2
    <3> QED BY <3>1
  <2> QED BY <2>1, <2>2
<1>3. g = [d \in Caches |-> g[d]]
  OBVIOUS
<1> QED BY <1>1, <1>2, <1>3

LEMMA ClaimEffect ==
  ASSUME CacheTypes, NEW t \in Threads, NEW c \in Caches, NEW deferred \in BOOLEAN,
         Claim(t, c, deferred)
  PROVE  ClaimOutcome(t, c, deferred)
<1> DEFINE K == KeysFor(c, frame[t])
           missing == Missing(c, K)
           hit(k) == CHOOSE s \in Holder(c, k) : TRUE
<1>1. deferred \/ \A k \in K : ~Loading(c, k)
  BY DEF Claim
<1>2. PICK b \in [missing -> Victims(c, K)] :
         /\ \A j, k \in missing : b[j] = b[k] => j = k
         /\ lease' = [lease EXCEPT ![t][c] = [k \in K |-> IF k \in missing THEN b[k] ELSE hit(k)]]
         /\ holds' = [holds EXCEPT ![c] =
                [s \in Buffers[c] |-> IF s \in Range(b) THEN CHOOSE k \in missing : b[k] = s
                                      ELSE holds[c][s]]]
         /\ state' = [state EXCEPT ![c] =
                [s \in Buffers[c] |-> IF s \in Range(b) THEN "Loading" ELSE state[c][s]]]
  BY DEF Claim
<1>3. loads' = [loads EXCEPT ![t][c] = missing] /\ mark' = mark
  BY DEF Claim
<1>4. missing \subseteq K /\ \A k \in K \ missing : hit(k) \in Holder(c, k)
  BY DEF Missing
<1>5. \A s : s \in Range(b) <=> \E k \in missing : b[k] = s
  BY <1>2 DEF Range
<1>6. \A k \in missing : /\ b[k] \in Buffers[c] /\ ~Leased(c, b[k]) /\ state[c][b[k]] # "Loading"
                         /\ \A j \in K : b[k] \notin Holder(c, j)
  BY <1>2 DEF Victims
<1>7. /\ PerWindow(lease') /\ PerWindow(loads')
      /\ lease'[t][c] = [k \in K |-> IF k \in missing THEN b[k] ELSE hit(k)]
      /\ loads'[t][c] = missing
      /\ OnlyWindow(t, c)
  <2> DEFINE chosen == [k \in K |-> IF k \in missing THEN b[k] ELSE hit(k)]
  <2>1. SetWindow(lease', lease, t, c, chosen) /\ SetWindow(loads', loads, t, c, missing)
    BY <1>2, <1>3 DEF SetWindow
  <2> HIDE DEF chosen, missing
  <2>2. /\ PerWindow(lease') /\ PerWindow(loads')
        /\ \A u \in Threads, d \in Caches :
              /\ lease'[u][d] = IF u = t /\ d = c THEN chosen ELSE lease[u][d]
              /\ loads'[u][d] = IF u = t /\ d = c THEN missing ELSE loads[u][d]
    BY <2>1, WindowUpdate DEF CacheTypes
  <2> QED BY <2>2 DEF OnlyWindow, chosen
<1>8. /\ PerSlot(state') /\ PerSlot(holds')
      /\ \A d \in Caches : \A s \in Buffers[d] :
            /\ d # c => state'[d][s] = state[d][s] /\ holds'[d][s] = holds[d][s]
            /\ d = c => /\ state'[d][s] = IF s \in Range(b) THEN "Loading" ELSE state[d][s]
                        /\ holds'[d][s] = IF s \in Range(b) THEN CHOOSE k \in missing : b[k] = s
                                          ELSE holds[d][s]
  <2> DEFINE states == [s \in Buffers[c] |-> IF s \in Range(b) THEN "Loading" ELSE state[c][s]]
             keys == [s \in Buffers[c] |-> IF s \in Range(b) THEN CHOOSE k \in missing : b[k] = s
                                           ELSE holds[c][s]]
  <2>1. SetSlots(state', state, c, states) /\ SetSlots(holds', holds, c, keys)
    BY <1>2 DEF SetSlots
  <2>2. states = [s \in Buffers[c] |-> states[s]] /\ keys = [s \in Buffers[c] |-> keys[s]]
    OBVIOUS
  <2> HIDE DEF states, keys
  <2>3. /\ PerSlot(state') /\ PerSlot(holds')
        /\ \A d \in Caches : \A s \in Buffers[d] :
              /\ state'[d][s] = IF d = c THEN states[s] ELSE state[d][s]
              /\ holds'[d][s] = IF d = c THEN keys[s] ELSE holds[d][s]
    BY <2>1, <2>2, SlotUpdate DEF CacheTypes
  <2> QED BY <2>3 DEF states, keys
<1>9. CacheTypes'
  BY <1>3, <1>7, <1>8 DEF CacheTypes
<1> HIDE DEF hit, missing, K
<1>10. /\ DOMAIN lease'[t][c] = K
       /\ \A k \in missing : lease'[t][c][k] = b[k]
       /\ \A k \in K \ missing : lease'[t][c][k] = hit(k)
  BY <1>4, <1>7
<1>11. \A k \in K \ missing : /\ hit(k) \in Buffers[c] /\ state[c][hit(k)] # "Empty"
                              /\ holds[c][hit(k)] = k
                              /\ deferred \/ state[c][hit(k)] # "Loading"
  BY <1>1, <1>4 DEF Holder, Loading
<1>12. \A j \in missing, k \in K \ missing : b[j] # hit(k)
  BY <1>4, <1>6
<1>13. \A j, k \in K : lease'[t][c][j] = lease'[t][c][k] => j = k
  <2> SUFFICES ASSUME NEW j \in K, NEW k \in K, lease'[t][c][j] = lease'[t][c][k] PROVE j = k
    OBVIOUS
  <2>1. CASE j \in missing /\ k \in missing
    BY <1>2, <1>10, <2>1
  <2>2. CASE j \notin missing /\ k \notin missing
    BY <1>10, <1>11, <2>2
  <2>3. CASE j \in missing /\ k \notin missing
    BY <1>10, <1>12, <2>3
  <2>4. CASE j \notin missing /\ k \in missing
    BY <1>10, <1>12, <2>4
  <2> QED BY <2>1, <2>2, <2>3, <2>4
<1>14. \A k \in missing : (CHOOSE j \in missing : b[j] = b[k]) = k
  BY <1>2
<1>15. \A k \in missing : state'[c][b[k]] = "Loading" /\ holds'[c][b[k]] = k
  BY <1>5, <1>6, <1>8, <1>14
<1>16. \A d \in Caches : \A s \in Buffers[d] :
         d # c \/ s \notin {lease'[t][c][k] : k \in loads'[t][c]} =>
            state'[d][s] = state[d][s] /\ holds'[d][s] = holds[d][s]
  BY <1>5, <1>7, <1>8, <1>10
<1>17. \A k \in loads'[t][c] :
         /\ state'[c][lease'[t][c][k]] = "Loading" /\ holds'[c][lease'[t][c][k]] = k
         /\ state[c][lease'[t][c][k]] # "Loading" /\ ~Leased(c, lease'[t][c][k])
  BY <1>6, <1>7, <1>10, <1>15
<1>18. \A k \in K \ loads'[t][c] :
         /\ state[c][lease'[t][c][k]] # "Empty" /\ holds[c][lease'[t][c][k]] = k
         /\ deferred \/ state[c][lease'[t][c][k]] # "Loading"
         /\ \A j \in loads'[t][c] : lease'[t][c][k] # lease'[t][c][j]
  BY <1>7, <1>10, <1>11, <1>12
<1>19. \A k \in K : lease'[t][c][k] \in Buffers[c]
  BY <1>6, <1>10, <1>11
<1>20. DOMAIN lease'[t][c] = K /\ loads'[t][c] \subseteq K /\ OnlyWindow(t, c)
  BY <1>4, <1>7, <1>10
<1> QED BY <1>3, <1>9, <1>13, <1>16, <1>17, <1>18, <1>19, <1>20 DEF ClaimOutcome, K

\* Publishing and dropping change the slots of t's loads only.
SlotsOutcome(t, c, outcome) ==
    /\ CacheTypes'
    /\ \A d \in Caches : \A s \in Buffers[d] :
          /\ d # c \/ s \notin LoadSlots(t, c) =>
                /\ state'[d][s] = state[d][s] /\ holds'[d][s] = holds[d][s]
                /\ mark'[d][s] = mark[d][s]
          /\ d = c /\ s \in LoadSlots(t, c) => state'[d][s] = outcome
    /\ \A u \in Threads, d \in Caches :
          loads'[u][d] = IF u = t /\ d = c THEN {} ELSE loads[u][d]

LEMMA PublishEffect ==
  ASSUME CacheTypes, NEW t \in Threads, NEW c \in Caches, Publish(t, c)
  PROVE  /\ SlotsOutcome(t, c, "Ready") /\ lease' = lease /\ holds' = holds
         /\ \A s \in Buffers[c] : s \in LoadSlots(t, c) => mark'[c][s] = EventNow(worker[t])
<1>1. /\ mark' = [mark EXCEPT ![c] = [s \in Buffers[c] |->
                    IF s \in LoadSlots(t, c) THEN EventNow(worker[t]) ELSE mark[c][s]]]
      /\ state' = [state EXCEPT ![c] = [s \in Buffers[c] |->
                    IF s \in LoadSlots(t, c) THEN "Ready" ELSE state[c][s]]]
      /\ loads' = [loads EXCEPT ![t][c] = {}] /\ lease' = lease /\ holds' = holds
  BY DEF Publish, LoadSlots
<1>2. CacheTypes'
  BY <1>1 DEF CacheTypes, PerWindow, PerSlot
<1> QED BY <1>1, <1>2 DEF CacheTypes, PerWindow, PerSlot, SlotsOutcome

LEMMA DropEffect ==
  ASSUME CacheTypes, NEW t \in Threads, NEW c \in Caches, DropLoads(t, c), mark' = mark,
         lease' = lease \/ SetWindow(lease', lease, t, c, <<>>)
  PROVE  /\ SlotsOutcome(t, c, "Empty") /\ mark' = mark
         /\ \A u \in Threads, d \in Caches : u # t \/ d # c => lease'[u][d] = lease[u][d]
         /\ lease'[t][c] = <<>> \/ lease' = lease
<1>1. /\ holds' = [holds EXCEPT ![c] = [s \in Buffers[c] |->
                    IF s \in LoadSlots(t, c) THEN NoKey ELSE holds[c][s]]]
      /\ state' = [state EXCEPT ![c] = [s \in Buffers[c] |->
                    IF s \in LoadSlots(t, c) THEN "Empty" ELSE state[c][s]]]
      /\ loads' = [loads EXCEPT ![t][c] = {}]
  BY DEF DropLoads, LoadSlots
<1>2. /\ PerWindow(lease') /\ PerWindow(loads')
      /\ \A u \in Threads, d \in Caches :
            /\ u # t \/ d # c => lease'[u][d] = lease[u][d]
            /\ loads'[u][d] = IF u = t /\ d = c THEN {} ELSE loads[u][d]
      /\ lease'[t][c] = <<>> \/ lease' = lease
  <2>1. SetWindow(loads', loads, t, c, {})
    BY <1>1 DEF SetWindow
  <2> QED BY <2>1, WindowUpdate DEF CacheTypes
<1>3. /\ PerSlot(state') /\ PerSlot(holds')
      /\ \A d \in Caches : \A s \in Buffers[d] :
            /\ d # c \/ s \notin LoadSlots(t, c) =>
                  state'[d][s] = state[d][s] /\ holds'[d][s] = holds[d][s]
            /\ d = c /\ s \in LoadSlots(t, c) => state'[d][s] = "Empty"
  <2> DEFINE states == [s \in Buffers[c] |-> IF s \in LoadSlots(t, c) THEN "Empty" ELSE state[c][s]]
             keys == [s \in Buffers[c] |-> IF s \in LoadSlots(t, c) THEN NoKey ELSE holds[c][s]]
  <2>1. SetSlots(state', state, c, states) /\ SetSlots(holds', holds, c, keys)
    BY <1>1 DEF SetSlots
  <2>2. states = [s \in Buffers[c] |-> states[s]] /\ keys = [s \in Buffers[c] |-> keys[s]]
    OBVIOUS
  <2> HIDE DEF states, keys
  <2>3. /\ PerSlot(state') /\ PerSlot(holds')
        /\ \A d \in Caches : \A s \in Buffers[d] :
              /\ state'[d][s] = IF d = c THEN states[s] ELSE state[d][s]
              /\ holds'[d][s] = IF d = c THEN keys[s] ELSE holds[d][s]
    BY <2>1, <2>2, SlotUpdate DEF CacheTypes
  <2> QED BY <2>3 DEF states, keys
<1>4. CacheTypes'
  BY <1>2, <1>3 DEF CacheTypes
<1> QED BY <1>2, <1>3, <1>4 DEF SlotsOutcome

LEMMA LeasedSlots ==
  ASSUME SlotsFollowTheirWindows, NEW t \in Threads, NEW c \in Caches
  PROVE  /\ loads[t][c] \subseteq DOMAIN lease[t][c]
         /\ \A k \in DOMAIN lease[t][c] : lease[t][c][k] \in Buffers[c] /\ Leased(c, lease[t][c][k])
         /\ \A j, k \in DOMAIN lease[t][c] : lease[t][c][j] = lease[t][c][k] => j = k
<1>1. CASE Closed(t, c)
  BY <1>1 DEF Closed
<1>2. CASE Open(t, c)
  BY <1>2 DEF Open, Leased, Range
<1> QED BY <1>1, <1>2 DEF SlotsFollowTheirWindows, WindowIsSound

LEMMA ClaimKeepsSlots ==
  ASSUME SlotsFollowTheirWindows, NEW t \in Threads, NEW c \in Caches, NEW deferred \in BOOLEAN,
         Closed(t, c), ClaimOutcome(t, c, deferred), c # "contribution" => ~deferred, frame' = frame
  PROVE  SlotsFollowTheirWindows' /\ Open(t, c)'
<1> DEFINE K == KeysFor(c, frame[t])
<1>1. /\ OnlyWindow(t, c)
      /\ DOMAIN lease'[t][c] = K /\ loads'[t][c] \subseteq K
      /\ \A k \in K : lease'[t][c][k] \in Buffers[c]
      /\ \A j, k \in K : lease'[t][c][j] = lease'[t][c][k] => j = k
      /\ \A k \in loads'[t][c] :
            /\ state'[c][lease'[t][c][k]] = "Loading" /\ holds'[c][lease'[t][c][k]] = k
            /\ ~Leased(c, lease'[t][c][k])
      /\ \A k \in K \ loads'[t][c] :
            /\ state[c][lease'[t][c][k]] # "Empty" /\ holds[c][lease'[t][c][k]] = k
            /\ deferred \/ state[c][lease'[t][c][k]] # "Loading"
      /\ \A d \in Caches : \A s \in Buffers[d] :
            d # c \/ s \notin {lease'[t][c][k] : k \in loads'[t][c]} =>
               state'[d][s] = state[d][s] /\ holds'[d][s] = holds[d][s]
      /\ \A k \in K \ loads'[t][c] : \A j \in loads'[t][c] : lease'[t][c][k] # lease'[t][c][j]
  BY DEF ClaimOutcome
<1> HIDE DEF K
<1>2. Open(t, c)'
  BY <1>1 DEF Open, K
<1>3. SlotStates'
  <2> SUFFICES ASSUME NEW d \in Caches, NEW s \in Buffers[d]
               PROVE  state'[d][s] \in {"Empty", "Loading", "Ready"}
    BY DEF SlotStates
  <2>1. CASE d # c \/ s \notin {lease'[t][c][k] : k \in loads'[t][c]}
    BY <1>1, <2>1 DEF SlotsFollowTheirWindows, SlotStates
  <2>2. CASE d = c /\ s \in {lease'[t][c][k] : k \in loads'[t][c]}
    BY <1>1, <2>2
  <2> QED BY <2>1, <2>2
<1>4. ASSUME NEW u \in Threads, NEW d \in Caches, u # t \/ d # c
      PROVE  /\ lease'[u][d] = lease[u][d] /\ loads'[u][d] = loads[u][d]
             /\ \A k \in DOMAIN lease[u][d] :
                   /\ state'[d][lease[u][d][k]] = state[d][lease[u][d][k]]
                   /\ holds'[d][lease[u][d][k]] = holds[d][lease[u][d][k]]
  <2>1. lease'[u][d] = lease[u][d] /\ loads'[u][d] = loads[u][d]
    BY <1>1, <1>4 DEF OnlyWindow
  <2>2. \A k \in DOMAIN lease[u][d] : lease[u][d][k] \in Buffers[d] /\ Leased(d, lease[u][d][k])
    BY LeasedSlots
  <2> QED BY <1>1, <2>1, <2>2
<1>5. OneProducer'
  <2> SUFFICES ASSUME NEW u \in Threads, NEW v \in Threads, NEW d \in Caches,
                      NEW j \in loads'[u][d], NEW k \in loads'[v][d],
                      lease'[u][d][j] = lease'[v][d][k], u # v
               PROVE  FALSE
    BY DEF OneProducer
  <2>1. CASE d # c \/ (u # t /\ v # t)
    BY <1>4, <2>1 DEF SlotsFollowTheirWindows, OneProducer
  <2>2. CASE d = c /\ u = t
    <3>1. k \in DOMAIN lease[v][c] /\ Leased(c, lease[v][c][k])
      BY <1>4, <2>2, LeasedSlots
    <3> QED BY <1>1, <1>4, <2>2, <3>1
  <2>3. CASE d = c /\ v = t
    <3>1. j \in DOMAIN lease[u][c] /\ Leased(c, lease[u][c][j])
      BY <1>4, <2>3, LeasedSlots
    <3> QED BY <1>1, <1>4, <2>3, <3>1
  <2> QED BY <2>1, <2>2, <2>3
<1>6. ASSUME NEW u \in Threads, NEW d \in Caches
      PROVE  WindowIsSound(u, d)'
  <2>1. CASE u # t \/ d # c
    <3>1. WindowIsSound(u, d) /\ loads[u][d] \subseteq DOMAIN lease[u][d]
      BY LeasedSlots DEF SlotsFollowTheirWindows
    <3>2. (Closed(u, d) \/ Open(u, d))'
      BY <1>4, <2>1, <3>1 DEF WindowIsSound, Closed, Open
    <3> QED BY <1>4, <2>1, <3>1, <3>2 DEF WindowIsSound
  <2>2. CASE u = t /\ d = c
    <3>1. \A k \in K \ loads'[t][c] : /\ state'[c][lease'[t][c][k]] = state[c][lease'[t][c][k]]
                                      /\ holds'[c][lease'[t][c][k]] = holds[c][lease'[t][c][k]]
      BY <1>1
    <3>2. c # "contribution" => \A k \in K \ loads'[t][c] : state[c][lease'[t][c][k]] = "Ready"
      BY <1>1 DEF SlotsFollowTheirWindows, SlotStates
    <3> QED BY <1>1, <1>2, <2>2, <3>1, <3>2 DEF WindowIsSound
  <2> QED BY <2>1, <2>2
<1> QED BY <1>2, <1>3, <1>5, <1>6 DEF SlotsFollowTheirWindows

LEMMA PublishKeepsSlots ==
  ASSUME SlotsFollowTheirWindows, NEW t \in Threads, NEW c \in Caches,
         SlotsOutcome(t, c, "Ready"), lease' = lease, holds' = holds, frame' = frame
  PROVE  SlotsFollowTheirWindows'
<1>1. /\ \A d \in Caches : \A s \in Buffers[d] :
            /\ d # c \/ s \notin LoadSlots(t, c) => state'[d][s] = state[d][s]
            /\ d = c /\ s \in LoadSlots(t, c) => state'[d][s] = "Ready"
      /\ \A u \in Threads, d \in Caches :
            loads'[u][d] = IF u = t /\ d = c THEN {} ELSE loads[u][d]
  BY DEF SlotsOutcome
<1>2. SlotStates'
  BY <1>1 DEF SlotsFollowTheirWindows, SlotStates
<1>3. OneProducer'
  BY <1>1 DEF SlotsFollowTheirWindows, OneProducer
<1>4. ASSUME NEW u \in Threads, NEW d \in Caches
      PROVE  WindowIsSound(u, d)'
  <2>1. WindowIsSound(u, d) /\ loads[u][d] \subseteq DOMAIN lease[u][d] /\ loads'[u][d] \subseteq loads[u][d]
        /\ \A k \in DOMAIN lease[u][d] : lease[u][d][k] \in Buffers[d]
    BY <1>1, LeasedSlots DEF SlotsFollowTheirWindows
  <2>2. (Closed(u, d) \/ Open(u, d))'
    BY <2>1 DEF WindowIsSound, Closed, Open
  <2>3. \A s \in LoadSlots(t, c) : state[c][s] = "Loading"
    BY DEF LoadSlots, SlotsFollowTheirWindows, WindowIsSound
  <2>4. \A k \in DOMAIN lease[u][d] :
           state'[d][lease[u][d][k]] # "Empty" => holds[d][lease[u][d][k]] = k
    BY <1>1, <2>1, <2>3 DEF WindowIsSound
  <2>5. \A k \in loads'[u][d] : state'[d][lease[u][d][k]] = "Loading"
    <3> SUFFICES ASSUME NEW k \in loads'[u][d] PROVE state'[d][lease[u][d][k]] = "Loading"
      OBVIOUS
    <3>1. d # c \/ lease[u][d][k] \notin LoadSlots(t, c)
      BY <1>1, <2>1 DEF LoadSlots, SlotsFollowTheirWindows, OneProducer
    <3> QED BY <1>1, <2>1, <3>1 DEF WindowIsSound
  <2>6. d # "contribution" =>
          \A k \in DOMAIN lease[u][d] \ loads'[u][d] : state'[d][lease[u][d][k]] = "Ready"
    <3> SUFFICES ASSUME d # "contribution", NEW k \in DOMAIN lease[u][d] \ loads'[u][d]
                 PROVE  state'[d][lease[u][d][k]] = "Ready"
      OBVIOUS
    <3>1. CASE k \in loads[u][d]
      BY <1>1, <2>1, <3>1 DEF LoadSlots
    <3>2. CASE k \notin loads[u][d]
      BY <1>1, <2>1, <3>2 DEF WindowIsSound
    <3> QED BY <3>1, <3>2
  <2> QED BY <2>2, <2>4, <2>5, <2>6 DEF WindowIsSound
<1> QED BY <1>2, <1>3, <1>4 DEF SlotsFollowTheirWindows

LEMMA DropKeepsSlots ==
  ASSUME SlotsFollowTheirWindows, NEW t \in Threads, NEW c \in Caches,
         SlotsOutcome(t, c, "Empty"), frame' = frame,
         \A u \in Threads, d \in Caches : u # t \/ d # c => lease'[u][d] = lease[u][d],
         lease'[t][c] = <<>> \/ (lease' = lease /\ c = "contribution")
  PROVE  SlotsFollowTheirWindows'
<1>1. /\ \A d \in Caches : \A s \in Buffers[d] :
            /\ d # c \/ s \notin LoadSlots(t, c) =>
                  state'[d][s] = state[d][s] /\ holds'[d][s] = holds[d][s]
            /\ d = c /\ s \in LoadSlots(t, c) => state'[d][s] = "Empty"
      /\ \A u \in Threads, d \in Caches :
            loads'[u][d] = IF u = t /\ d = c THEN {} ELSE loads[u][d]
  BY DEF SlotsOutcome
<1>2. SlotStates'
  BY <1>1 DEF SlotsFollowTheirWindows, SlotStates
<1>3. OneProducer'
  BY <1>1 DEF SlotsFollowTheirWindows, OneProducer
<1>4. ASSUME NEW u \in Threads, NEW d \in Caches
      PROVE  WindowIsSound(u, d)'
  <2>1. CASE lease'[u][d] = <<>> /\ u = t /\ d = c
    BY <1>1, <2>1 DEF WindowIsSound, Closed
  <2>2. CASE lease'[u][d] = lease[u][d] /\ (u # t \/ d # c \/ c = "contribution")
    <3>1. WindowIsSound(u, d) /\ loads[u][d] \subseteq DOMAIN lease[u][d] /\ loads'[u][d] \subseteq loads[u][d]
          /\ \A k \in DOMAIN lease[u][d] : lease[u][d][k] \in Buffers[d]
      BY <1>1, LeasedSlots DEF SlotsFollowTheirWindows
    <3>2. (Closed(u, d) \/ Open(u, d))'
      BY <2>2, <3>1 DEF WindowIsSound, Closed, Open
    <3>3. \A s \in LoadSlots(t, c) : state[c][s] = "Loading"
      BY DEF LoadSlots, SlotsFollowTheirWindows, WindowIsSound
    <3>4. \A k \in DOMAIN lease[u][d] :
             state'[d][lease[u][d][k]] # "Empty" => holds'[d][lease[u][d][k]] = k
      BY <1>1, <3>1 DEF WindowIsSound
    <3>5. \A k \in loads'[u][d] : state'[d][lease[u][d][k]] = "Loading"
      <4> SUFFICES ASSUME NEW k \in loads'[u][d] PROVE state'[d][lease[u][d][k]] = "Loading"
        OBVIOUS
      <4>1. d # c \/ lease[u][d][k] \notin LoadSlots(t, c)
        BY <1>1, <3>1 DEF LoadSlots, SlotsFollowTheirWindows, OneProducer
      <4> QED BY <1>1, <3>1, <4>1 DEF WindowIsSound
    <3>6. d # "contribution" =>
            \A k \in DOMAIN lease[u][d] \ loads'[u][d] : state'[d][lease[u][d][k]] = "Ready"
      BY <1>1, <2>2, <3>1, <3>3 DEF WindowIsSound
    <3> QED BY <2>2, <3>2, <3>4, <3>5, <3>6 DEF WindowIsSound
  <2> QED BY <2>1, <2>2
<1> QED BY <1>2, <1>3, <1>4 DEF SlotsFollowTheirWindows

\* What t's next point says of a window, its present point says already.
Carried(t, i) ==
    /\ MustBeClosed(t, i)' => MustBeClosed(t, i)
    /\ MustBeOpen(t, i)' => MustBeOpen(t, i)
    /\ MustBeLoaded(t, i)' => MustBeLoaded(t, i)

LEMMA PathIsKept ==
  ASSUME NEW t \in Threads, PathOf(t), frame'[t] = frame[t], NEW j,
         \A i \in 1..Last : i # j =>
            /\ Carried(t, i)
            /\ lease'[t][CacheAt(i)] = lease[t][CacheAt(i)]
            /\ loads'[t][CacheAt(i)] = loads[t][CacheAt(i)],
         j \in 1..Last =>
            /\ MustBeClosed(t, j)' => Closed(t, CacheAt(j))'
            /\ MustBeOpen(t, j)' => Open(t, CacheAt(j))'
            /\ MustBeLoaded(t, j)' => loads'[t][CacheAt(j)] = {}
  PROVE  PathOf(t)'
<1> SUFFICES ASSUME NEW i \in 1..Last
             PROVE  /\ MustBeClosed(t, i)' => Closed(t, CacheAt(i))'
                    /\ MustBeOpen(t, i)' => Open(t, CacheAt(i))'
                    /\ MustBeLoaded(t, i)' => loads'[t][CacheAt(i)] = {}
  BY DEF PathOf, CacheAt
<1>1. CASE i = j
  BY <1>1
<1>2. CASE i # j
  BY <1>2 DEF PathOf, Carried, Closed, Open
<1> QED BY <1>1, <1>2

LEMMA OtherPaths ==
  ASSUME NEW t \in Threads, NEW u \in Threads, u # t, PathOf(u), NEW c \in Caches,
         OnlyWindow(t, c), pc'[u] = pc[u], at'[u] = at[u], failed'[u] = failed[u],
         frame'[u] = frame[u]
  PROVE  PathOf(u)'
<1>1. \A i \in 1..Last : /\ lease'[u][CacheAt(i)] = lease[u][CacheAt(i)]
                         /\ loads'[u][CacheAt(i)] = loads[u][CacheAt(i)]
  BY CacheIndices DEF OnlyWindow
<1>2. \A i \in 1..Last : Carried(u, i)
  BY DEF Carried, MustBeClosed, MustBeOpen, MustBeLoaded, SourceDone
<1> QED BY <1>1, <1>2, PathIsKept

\* A step of the host that leaves the caches alone.
LEMMA SteadyWindows ==
  ASSUME Control, Windows, NEW t \in Threads, UNCHANGED cacheVars, frame' = frame,
         \A u \in Threads \ {t} : pc'[u] = pc[u] /\ at'[u] = at[u] /\ failed'[u] = failed[u],
         \A i \in 1..Last : Carried(t, i)
  PROVE  Windows'
<1>1. CacheTypes' /\ SlotsFollowTheirWindows'
  BY DEF Windows, CacheTypes, cacheVars, SlotsFollowTheirWindows, SlotStates, OneProducer,
         WindowIsSound, Closed, Open
<1>2. OnlyWindow(t, "contribution")
  BY DEF OnlyWindow, cacheVars
<1>3. ASSUME NEW u \in Threads PROVE PathOf(u)'
  <2>1. PathOf(u)
    BY DEF Windows
  <2>2. CASE u # t
    BY <1>2, <2>1, <2>2, OtherPaths DEF Caches
  <2>3. CASE u = t
    <3>1. \A i \in 1..Last : /\ lease'[t][CacheAt(i)] = lease[t][CacheAt(i)]
                             /\ loads'[t][CacheAt(i)] = loads[t][CacheAt(i)]
      BY DEF cacheVars
    <3>2. 0 \notin 1..Last
      BY CacheIndices
    <3> QED BY <2>1, <2>3, <3>1, <3>2, PathIsKept
  <2> QED BY <2>2, <2>3
<1> QED BY <1>1, <1>3 DEF Windows

LEMMA WindowsInit == RenderInit => Windows
<1> SUFFICES ASSUME RenderInit PROVE Windows
  OBVIOUS
<1>1. CacheTypes
  BY DEF RenderInit, CacheTypes, PerWindow, PerSlot
<1>2. \A t \in Threads, c \in Caches : Closed(t, c)
  BY DEF RenderInit, Closed
<1>3. SlotsFollowTheirWindows
  BY <1>2 DEF RenderInit, SlotsFollowTheirWindows, SlotStates, OneProducer, WindowIsSound, Closed
<1>4. \A t \in Threads : PathOf(t)
  BY <1>2, CacheIndices
     DEF RenderInit, PathOf, MustBeOpen, MustBeLoaded, SourceDone, SourcePoints, AfterSources,
         Computing, Computed, Closed
<1> QED BY <1>1, <1>3, <1>4 DEF Windows

\* A step of t that changes its window of the j-th cache.
LEMMA WindowMoves ==
  ASSUME Windows, NEW t \in Threads, NEW j \in 1..Last, OnlyWindow(t, CacheAt(j)),
         frame' = frame, CacheTypes', SlotsFollowTheirWindows',
         \A u \in Threads \ {t} : pc'[u] = pc[u] /\ at'[u] = at[u] /\ failed'[u] = failed[u],
         \A i \in 1..Last : i # j => Carried(t, i),
         /\ MustBeClosed(t, j)' => Closed(t, CacheAt(j))'
         /\ MustBeOpen(t, j)' => Open(t, CacheAt(j))'
         /\ MustBeLoaded(t, j)' => loads'[t][CacheAt(j)] = {}
  PROVE  Windows'
<1>1. CacheAt(j) \in Caches
  BY CacheIndices
<1>2. ASSUME NEW u \in Threads PROVE PathOf(u)'
  <2>1. PathOf(u)
    BY DEF Windows
  <2>2. CASE u # t
    BY <1>1, <2>1, <2>2, OtherPaths
  <2>3. CASE u = t
    <3>1. \A i \in 1..Last : i # j => /\ lease'[t][CacheAt(i)] = lease[t][CacheAt(i)]
                                     /\ loads'[t][CacheAt(i)] = loads[t][CacheAt(i)]
      BY CacheIndices DEF OnlyWindow
    <3> QED BY <2>1, <2>3, <3>1, PathIsKept
  <2> QED BY <2>2, <2>3
<1> QED BY <1>2 DEF Windows

\* The index of the cache a thread is at, as a constant of the step.
LEMMA AtSource ==
  ASSUME Control, NEW t \in Threads, pc[t] \in SourcePoints
  PROVE  \E j \in Sources : /\ j = at[t] /\ Source(t) = CacheAt(j)
                            /\ j \in 1..Last /\ j # Last /\ CacheAt(j) \in Caches
                            /\ CacheAt(j) \in Range(SourceCaches) /\ CacheAt(j) # "contribution"
<1>1. at[t] \in Sources
  BY DEF Control, FailuresAreCaught
<1>2. at[t] \in 1..Last /\ at[t] # Last
  BY <1>1, CacheIndices DEF Sources
<1> QED BY <1>1, <1>2, CacheIndices DEF Source

LEMMA ClaimSourceWindows ==
  ASSUME Control, Windows, NEW t \in Threads, ClaimSource(t)
  PROVE  /\ Windows' /\ Closed(t, Source(t))
         /\ \A c : c = Source(t) => ClaimOutcome(t, c, FALSE)
<1> USE DEF SourcePoints, AfterSources, Computing, Computed, Ahead
<1>0. Claim(t, Source(t), FALSE)
  BY DEF ClaimSource
<1>1. /\ pc[t] = "claim" /\ at' = at
      /\ pc' = [pc EXCEPT ![t] = "upload"] /\ frame' = frame /\ failed' = failed
      /\ pc \in [Threads -> Points] /\ at[t] \in Nat /\ ~failed[t] /\ Last \in Nat
  BY CacheIndices DEF ClaimSource, Goto, Control, ControlTypes, FailuresAreCaught, Rendering
<1>2. PICK j \in Sources : /\ j = at[t] /\ Source(t) = CacheAt(j) /\ j \in 1..Last /\ j # Last
                          /\ CacheAt(j) \in Caches /\ CacheAt(j) # "contribution"
  BY <1>1, AtSource
<1>3. Closed(t, CacheAt(j))
  BY <1>1, <1>2 DEF Windows, PathOf, MustBeClosed
<1>4. ClaimOutcome(t, CacheAt(j), FALSE)
  BY <1>0, <1>2, ClaimEffect DEF Windows
<1>5. SlotsFollowTheirWindows' /\ Open(t, CacheAt(j))'
  BY <1>1, <1>2, <1>3, <1>4, ClaimKeepsSlots DEF Windows
<1>6. CacheTypes' /\ OnlyWindow(t, CacheAt(j))
  BY <1>4 DEF ClaimOutcome
<1>7. \A i \in 1..Last : i # j => Carried(t, i)
  BY <1>1, <1>2 DEF Carried, MustBeClosed, MustBeOpen, MustBeLoaded, SourceDone
<1>8. ~MustBeClosed(t, j)' /\ ~MustBeLoaded(t, j)'
  BY <1>1, <1>2 DEF MustBeClosed, MustBeLoaded, SourceDone
<1>9. Windows'
  BY <1>1, <1>2, <1>5, <1>6, <1>7, <1>8, WindowMoves
<1> QED BY <1>2, <1>3, <1>4, <1>9

LEMMA ClaimContributionsWindows ==
  ASSUME Control, Windows, NEW t \in Threads, ClaimContributions(t)
  PROVE  Windows' /\ Closed(t, "contribution") /\ ClaimOutcome(t, "contribution", TRUE)
<1> USE DEF SourcePoints, AfterSources, Computing, Computed, Ahead
<1>0. Claim(t, "contribution", TRUE)
  BY DEF ClaimContributions
<1>1. /\ pc[t] = "claimContributions" /\ at' = at
      /\ pc' = [pc EXCEPT ![t] = "compute"] /\ frame' = frame /\ failed' = failed
      /\ pc \in [Threads -> Points] /\ at[t] \in Nat /\ ~failed[t] /\ Last \in Nat
  BY CacheIndices DEF ClaimContributions, Goto, Control, ControlTypes, FailuresAreCaught, Rendering
<1>2. Last \in 1..Last /\ CacheAt(Last) = "contribution" /\ "contribution" \in Caches /\ Last \notin Sources
  BY CacheIndices DEF Caches, Sources
<1>3. Closed(t, "contribution")
  BY <1>1, <1>2 DEF Windows, PathOf, MustBeClosed
<1>4. ClaimOutcome(t, "contribution", TRUE)
  BY <1>0, <1>2, ClaimEffect DEF Windows
<1>5. SlotsFollowTheirWindows' /\ Open(t, "contribution")'
  BY <1>1, <1>2, <1>3, <1>4, ClaimKeepsSlots DEF Windows
<1>6. CacheTypes' /\ OnlyWindow(t, CacheAt(Last))
  BY <1>2, <1>4 DEF ClaimOutcome
<1>7. \A i \in 1..Last : i # Last => Carried(t, i)
  BY <1>1, <1>2 DEF Carried, MustBeClosed, MustBeOpen, MustBeLoaded, SourceDone
<1>8. ~MustBeClosed(t, Last)' /\ ~MustBeLoaded(t, Last)'
  BY <1>1, <1>2 DEF MustBeClosed, MustBeLoaded, SourceDone
<1>9. Windows'
  BY <1>1, <1>2, <1>5, <1>6, <1>7, <1>8, WindowMoves
<1> QED BY <1>3, <1>4, <1>9

LEMMA PublishSourceWindows ==
  ASSUME Control, Windows, NEW t \in Threads, PublishSource(t)
  PROVE  Windows'
<1> USE DEF SourcePoints, AfterSources, Computing, Computed, Ahead
<1>1. /\ pc[t] = "publish" /\ Publish(t, Source(t)) /\ at' = at
      /\ pc' = [pc EXCEPT ![t] = "waitReady"] /\ frame' = frame /\ failed' = failed
      /\ pc \in [Threads -> Points] /\ at[t] \in Nat /\ ~failed[t] /\ Last \in Nat
  BY CacheIndices DEF PublishSource, Goto, Control, ControlTypes, FailuresAreCaught, Rendering
<1>2. PICK j \in Sources : /\ j = at[t] /\ Source(t) = CacheAt(j) /\ j \in 1..Last /\ j # Last
                          /\ CacheAt(j) \in Caches
  BY <1>1, AtSource
<1>3. SlotsOutcome(t, CacheAt(j), "Ready") /\ lease' = lease /\ holds' = holds
  BY <1>1, <1>2, PublishEffect DEF Windows
<1>4. SlotsFollowTheirWindows'
  BY <1>1, <1>2, <1>3, PublishKeepsSlots DEF Windows
<1>5. CacheTypes' /\ OnlyWindow(t, CacheAt(j)) /\ loads'[t][CacheAt(j)] = {}
  BY <1>2, <1>3 DEF SlotsOutcome, OnlyWindow
<1>6. \A i \in 1..Last : i # j => Carried(t, i)
  BY <1>1, <1>2 DEF Carried, MustBeClosed, MustBeOpen, MustBeLoaded, SourceDone
<1>7. ~MustBeClosed(t, j)'
  BY <1>1, <1>2 DEF MustBeClosed, SourceDone
<1>8. Open(t, CacheAt(j))'
  <2>1. Open(t, CacheAt(j))
    BY <1>1, <1>2 DEF Windows, PathOf, MustBeOpen
  <2> QED BY <1>1, <1>3, <1>5, <2>1 DEF Open
<1> QED BY <1>1, <1>2, <1>4, <1>5, <1>6, <1>7, <1>8, WindowMoves

LEMMA PublishContributionsWindows ==
  ASSUME Control, Windows, NEW t \in Threads, PublishContributions(t)
  PROVE  Windows'
<1> USE DEF SourcePoints, AfterSources, Computing, Computed, Ahead
<1>1. /\ pc[t] = "publishContributions" /\ Publish(t, "contribution") /\ at' = [at EXCEPT ![t] = Last]
      /\ pc' = [pc EXCEPT ![t] = "release"] /\ frame' = frame /\ failed' = failed
      /\ pc \in [Threads -> Points] /\ at \in [Threads -> 1..Last] /\ ~failed[t] /\ Last \in Nat
  BY CacheIndices DEF PublishContributions, Goto, Control, ControlTypes, FailuresAreCaught, Rendering, Last
<1>2. Last \in 1..Last /\ CacheAt(Last) = "contribution" /\ "contribution" \in Caches
      /\ 1..Last = Sources \cup {Last} /\ Last \notin Sources
  BY CacheIndices DEF Caches, Sources, Last
<1>3. SlotsOutcome(t, "contribution", "Ready") /\ lease' = lease /\ holds' = holds
  BY <1>1, <1>2, PublishEffect DEF Windows
<1>4. SlotsFollowTheirWindows'
  BY <1>1, <1>2, <1>3, PublishKeepsSlots DEF Windows
<1>5. CacheTypes' /\ OnlyWindow(t, CacheAt(Last)) /\ loads'[t][CacheAt(Last)] = {}
  BY <1>2, <1>3 DEF SlotsOutcome, OnlyWindow
<1>6. \A i \in 1..Last : i # Last => Carried(t, i)
  BY <1>1, <1>2 DEF Carried, MustBeClosed, MustBeOpen, MustBeLoaded, SourceDone
<1>7. ~MustBeClosed(t, Last)' /\ ~MustBeOpen(t, Last)'
  BY <1>1, <1>2 DEF MustBeClosed, MustBeOpen, SourceDone
<1> QED BY <1>1, <1>2, <1>4, <1>5, <1>6, <1>7, WindowMoves

LEMMA AbandonWindows ==
  ASSUME Control, Windows, NEW t \in Threads, Abandon(t)
  PROVE  Windows'
<1> USE DEF SourcePoints, AfterSources, Computing, Computed, Ahead
<1>1. /\ pc[t] = "abandon" /\ DropLoads(t, "contribution") /\ at' = [at EXCEPT ![t] = Last]
      /\ pc' = [pc EXCEPT ![t] = "release"] /\ frame' = frame /\ failed' = failed
      /\ lease' = lease /\ mark' = mark
      /\ pc \in [Threads -> Points] /\ at \in [Threads -> 1..Last] /\ failed[t] /\ Last \in Nat
  BY CacheIndices DEF Abandon, Goto, Control, ControlTypes, FailuresAreCaught, Last
<1>2. Last \in 1..Last /\ CacheAt(Last) = "contribution" /\ "contribution" \in Caches
  BY CacheIndices DEF Caches
<1>3. SlotsOutcome(t, "contribution", "Empty")
  BY <1>1, <1>2, DropEffect DEF Windows
<1>4. SlotsFollowTheirWindows'
  BY <1>1, <1>2, <1>3, DropKeepsSlots DEF Windows
<1>5. CacheTypes' /\ OnlyWindow(t, CacheAt(Last)) /\ loads'[t][CacheAt(Last)] = {}
  BY <1>1, <1>2, <1>3 DEF SlotsOutcome, OnlyWindow
<1>6. \A i \in 1..Last : ~MustBeClosed(t, i)' /\ ~MustBeOpen(t, i)' /\ ~MustBeLoaded(t, i)'
  BY <1>1 DEF MustBeClosed, MustBeOpen, MustBeLoaded, SourceDone
<1>7. \A i \in 1..Last : Carried(t, i)
  BY <1>6 DEF Carried
<1> QED BY <1>1, <1>2, <1>4, <1>5, <1>6, <1>7, WindowMoves

LEMMA ReleaseEffect ==
  ASSUME Control, Windows, NEW t \in Threads, Release(t)
  PROVE  \E j \in 1..Last :
            /\ j = at[t] /\ CacheAt(j) \in Caches
            /\ SlotsOutcome(t, CacheAt(j), "Empty") /\ lease'[t][CacheAt(j)] = <<>>
            /\ \A u \in Threads, d \in Caches : u # t \/ d # CacheAt(j) => lease'[u][d] = lease[u][d]
<1>1. /\ DropLoads(t, Released(t)) /\ mark' = mark /\ lease' = [lease EXCEPT ![t][Released(t)] = <<>>]
      /\ at[t] \in 1..Last
  BY DEF Release, Control, ControlTypes
<1>2. PICK j \in 1..Last : j = at[t]
  BY <1>1
<1>3. Released(t) = CacheAt(j) /\ CacheAt(j) \in Caches
  BY <1>2, CacheIndices DEF Released, CacheAt, Source
<1>4. SetWindow(lease', lease, t, CacheAt(j), <<>>)
  BY <1>1, <1>3 DEF SetWindow
<1>5. \A u \in Threads, d \in Caches :
         lease'[u][d] = IF u = t /\ d = CacheAt(j) THEN <<>> ELSE lease[u][d]
  BY <1>3, <1>4, WindowUpdate DEF Windows, CacheTypes
<1>6. DropLoads(t, CacheAt(j))
  BY <1>1, <1>3
<1>7. SlotsOutcome(t, CacheAt(j), "Empty")
  BY <1>1, <1>3, <1>4, <1>6, DropEffect DEF Windows
<1> QED BY <1>2, <1>3, <1>5, <1>7

LEMMA ReleaseWindows ==
  ASSUME Control, Windows, NEW t \in Threads, Release(t)
  PROVE  Windows'
<1> USE DEF SourcePoints, AfterSources, Computing, Computed, Ahead
<1>1. /\ pc[t] = "release" /\ frame' = frame /\ failed' = failed
      /\ at[t] > 1 => at' = [at EXCEPT ![t] = @ - 1] /\ pc' = [pc EXCEPT ![t] = "release"]
      /\ ~(at[t] > 1) => /\ at' = at
                         /\ pc' = [pc EXCEPT ![t] = IF failed[t] THEN "returnWorker" ELSE "copy"]
      /\ pc \in [Threads -> Points] /\ at \in [Threads -> 1..Last] /\ Last \in Nat
      /\ failed[t] \in BOOLEAN
  BY CacheIndices DEF Release, Goto, Control, ControlTypes
<1>2. PICK j \in 1..Last :
         /\ j = at[t] /\ CacheAt(j) \in Caches
         /\ SlotsOutcome(t, CacheAt(j), "Empty") /\ lease'[t][CacheAt(j)] = <<>>
         /\ \A u \in Threads, d \in Caches : u # t \/ d # CacheAt(j) => lease'[u][d] = lease[u][d]
  BY ReleaseEffect
<1>3. SlotsFollowTheirWindows'
  BY <1>1, <1>2, DropKeepsSlots DEF Windows
<1>4. CacheTypes' /\ OnlyWindow(t, CacheAt(j)) /\ Closed(t, CacheAt(j))'
  BY <1>2 DEF SlotsOutcome, OnlyWindow, Closed
<1>5. ASSUME NEW i \in 1..Last, i # j PROVE Carried(t, i)
  <2>1. CASE at[t] > 1
    BY <1>1, <1>2, <1>5, <2>1 DEF Carried, MustBeClosed, MustBeOpen, MustBeLoaded, SourceDone
  <2>2. CASE ~(at[t] > 1)
    BY <1>1, <1>2, <1>5, <2>2 DEF Carried, MustBeClosed, MustBeOpen, MustBeLoaded, SourceDone
  <2> QED BY <2>1, <2>2
<1>6. ~MustBeOpen(t, j)'
  BY <1>1 DEF MustBeOpen, SourceDone
<1> QED BY <1>1, <1>2, <1>3, <1>4, <1>5, <1>6, WindowMoves DEF Closed

\* The calls of render_frame that leave the caches alone: where they take t.
LEMMA SteadyCalls ==
  ASSUME Control, Windows, NEW t \in Threads,
         \/ AcquireWorker(t) \/ FetchFrames(t) \/ FetchFails(t) \/ Upload(t) \/ UploadFails(t)
         \/ WaitReady(t) \/ Compute(t) \/ ComputeFails(t) \/ WaitHits(t) \/ HitsLost(t)
         \/ Normalize(t) \/ Synchronize(t) \/ CheckSolver(t) \/ SolverFails(t) \/ CallFails(t)
         \/ Drain(t) \/ CopyOutput(t) \/ ReturnWorker(t)
  PROVE  Windows'
<1> USE DEF SourcePoints, AfterSources, Computing, Computed, Ahead
<1>1. /\ pc \in [Threads -> Points] /\ at \in [Threads -> 1..Last] /\ failed \in [Threads -> BOOLEAN]
      /\ Last \in Nat /\ Last = Len(SourceCaches) + 1 /\ Len(SourceCaches) \in Nat
      /\ Sources = 1..Len(SourceCaches)
  BY CacheIndices DEF Control, ControlTypes, Last, Sources
<1>2. SUFFICES /\ UNCHANGED cacheVars /\ frame' = frame
               /\ \A u \in Threads \ {t} : pc'[u] = pc[u] /\ at'[u] = at[u] /\ failed'[u] = failed[u]
               /\ \A i \in 1..Last : Carried(t, i)
  BY SteadyWindows
<1> USE DEF Goto, Carried, MustBeClosed, MustBeOpen, MustBeLoaded, SourceDone
<1>3. CASE AcquireWorker(t)
  BY <1>1, <1>3 DEF AcquireWorker
<1>4. CASE FetchFrames(t)
  BY <1>1, <1>4 DEF FetchFrames
<1>5. CASE FetchFails(t)
  BY <1>1, <1>5 DEF FetchFails, Fault
<1>6. CASE Upload(t)
  BY <1>1, <1>6 DEF Upload
<1>7. CASE UploadFails(t) \/ ComputeFails(t) \/ CallFails(t)
  <2>1. Fault(t) /\ pc' = [pc EXCEPT ![t] = "drain"] /\ UNCHANGED cacheVars
    BY <1>7 DEF UploadFails, ComputeFails, CallFails
  <2> QED BY <1>1, <2>1 DEF Fault
<1>8. CASE WaitReady(t)
  <2>1. pc[t] = "waitReady" /\ at[t] \in Sources
    BY <1>8 DEF WaitReady, Control, FailuresAreCaught
  <2>2. CASE at[t] < Len(SourceCaches)
    BY <1>1, <1>8, <2>1, <2>2 DEF WaitReady
  <2>3. CASE ~(at[t] < Len(SourceCaches))
    BY <1>1, <1>8, <2>1, <2>3 DEF WaitReady
  <2> QED BY <2>2, <2>3
<1>9. CASE Compute(t)
  BY <1>1, <1>9 DEF Compute
<1>10. CASE WaitHits(t)
  BY <1>1, <1>10 DEF WaitHits
<1>11. CASE HitsLost(t) \/ SolverFails(t)
  <2>1. Raise(t) /\ UNCHANGED cacheVars
    BY <1>11 DEF HitsLost, SolverFails
  <2> QED BY <1>1, <2>1 DEF Raise
<1>12. CASE Normalize(t)
  BY <1>1, <1>12 DEF Normalize
<1>13. CASE Synchronize(t)
  BY <1>1, <1>13 DEF Synchronize
<1>14. CASE CheckSolver(t)
  BY <1>1, <1>14 DEF CheckSolver
<1>15. CASE Drain(t)
  BY <1>1, <1>15 DEF Drain
<1>16. CASE CopyOutput(t)
  BY <1>1, <1>16 DEF CopyOutput
<1>17. CASE ReturnWorker(t)
  BY <1>1, <1>17 DEF ReturnWorker
<1> QED BY <1>3, <1>4, <1>5, <1>6, <1>7, <1>8, <1>9, <1>10, <1>11, <1>12, <1>13, <1>14, <1>15,
           <1>16, <1>17

\* A new request finds all windows of its thread closed.
LEMMA GetFrameWindows ==
  ASSUME Control, Windows, NEW t \in Threads, NEW f \in Wanted, GetFrame(t, f)
  PROVE  Windows'
<1>1. /\ pc[t] = "idle" /\ pc' = [pc EXCEPT ![t] = "worker"] /\ frame' = [frame EXCEPT ![t] = f]
      /\ failed' = [failed EXCEPT ![t] = FALSE] /\ at' = at /\ UNCHANGED cacheVars
      /\ pc \in [Threads -> Points] /\ frame \in [Threads -> Keys] /\ failed \in [Threads -> BOOLEAN]
  BY DEF GetFrame, Control, ControlTypes
<1>2. \A i \in 1..Last : Closed(t, CacheAt(i))
  BY <1>1 DEF Windows, PathOf, MustBeClosed, Ahead
<1>3. \A c \in Caches : Closed(t, c)
  BY <1>2, CacheIndices
<1>4. CacheTypes'
  BY <1>1 DEF Windows, CacheTypes, cacheVars
<1>5. SlotsFollowTheirWindows'
  <2>1. ASSUME NEW u \in Threads, NEW c \in Caches PROVE WindowIsSound(u, c)'
    <3>1. WindowIsSound(u, c)
      BY DEF Windows, SlotsFollowTheirWindows
    <3>2. (Closed(u, c) \/ Open(u, c))'
      BY <1>1, <1>3, <3>1 DEF WindowIsSound, Closed, Open, cacheVars
    <3> QED BY <1>1, <3>1, <3>2 DEF WindowIsSound, cacheVars
  <2> QED BY <1>1, <2>1 DEF Windows, SlotsFollowTheirWindows, SlotStates, OneProducer, cacheVars
<1>6. ASSUME NEW u \in Threads PROVE PathOf(u)'
  <2>1. CASE u # t
    BY <1>1, <2>1, OtherPaths DEF Windows, OnlyWindow, Caches, cacheVars
  <2>2. CASE u = t
    <3>1. \A i \in 1..Last : Closed(t, CacheAt(i))'
      BY <1>1, <1>2 DEF Closed, cacheVars
    <3>2. \A i \in 1..Last : ~MustBeOpen(t, i)'
      BY <1>1 DEF MustBeOpen, SourceDone, SourcePoints, AfterSources, Computing, Computed
    <3> QED BY <2>2, <3>1, <3>2 DEF PathOf, Closed
  <2> QED BY <2>1, <2>2
<1> QED BY <1>4, <1>5, <1>6 DEF Windows

LEMMA WindowsStep ==
  ASSUME Control, Windows, [RenderNext]_renderVars
  PROVE  Windows'
<1>1. ASSUME NEW t \in Threads, HostStep(t) PROVE Windows'
  BY <1>1, GetFrameWindows, SteadyCalls, ClaimSourceWindows, ClaimContributionsWindows,
     PublishSourceWindows, PublishContributionsWindows, AbandonWindows, ReleaseWindows
     DEF HostStep
<1>2. ASSUME UNCHANGED <<pc, at, frame, failed, cacheVars>> PROVE Windows'
  BY <1>2 DEF Windows, CacheTypes, SlotsFollowTheirWindows, SlotStates, OneProducer, WindowIsSound,
         Closed, Open, PathOf, MustBeClosed, MustBeOpen, MustBeLoaded, SourceDone, cacheVars
<1>3. ASSUME NEW w \in Workers, Execute(w) PROVE Windows'
  BY <1>2, <1>3 DEF Execute, hostVars
<1> QED BY <1>1, <1>2, <1>3 DEF RenderNext, Finished, renderVars, cacheVars

-----------------------------------------------------------------------------
(* Streams *)

Slots      == UNION {Buffers[c] : c \in Caches}
EventRecords    == [stream : Workers \cup {NoWorker}, position : Nat]
Operations == [waits : SUBSET EventRecords, reads : SUBSET (Caches \X Slots \X Keys),
               writes : SUBSET (Caches \X Slots \X Keys)]

\* An operation keeps its position from Enqueue to Execute.
Live(w)  == (done[w] + 1)..issued[w]
Op(w, n) == queue[w][n - done[w]]
Writes(w, n, c, s, k) == n \in Live(w) /\ <<c, s, k>> \in Op(w, n).writes
Reads(w, n, c, s, k)  == n \in Live(w) /\ <<c, s, k>> \in Op(w, n).reads
Waits(w, n, v, i) == n \in Live(w) /\ \E e \in Op(w, n).waits : e.stream = v /\ e.position >= i
Quiet(c, s) == \A v \in Workers, i \in Nat, m \in Keys : ~Writes(v, i, c, s, m)
Holds(c, s, k) == mem[c][s] = [key |-> k, sound |-> TRUE]

StreamTypes ==
    /\ issued \in [Workers -> Nat] /\ done \in [Workers -> Nat]
    /\ info \in [Workers -> BOOLEAN]
    /\ queue \in [Workers -> Seq(Operations)]
    /\ \A w \in Workers : issued[w] = done[w] + Len(queue[w])
    /\ \A c \in Caches : \A s \in Buffers[c] : mark[c][s] \in EventRecords
    /\ PerSlot(mem)

QueuesAreOwned ==
    \A w \in Workers : queue[w] # <<>> => \E t \in Threads : worker[t] = w /\ pc[t] \in Busy

\* A render's operations use its own windows: they write what it loads, and read
\* Ready slots or, at the end, the contributions it computes itself.
OperationsOf(t) ==
    worker[t] \in Workers =>
        \A n \in Nat, c \in Caches, s \in Slots, k \in Keys :
            /\ Writes(worker[t], n, c, s, k) =>
                  /\ k \in DOMAIN lease[t][c] /\ s = lease[t][c][k]
                  /\ k \in loads[t][c] \/ state[c][s] = "Ready"
            /\ Reads(worker[t], n, c, s, k) =>
                  /\ k \in DOMAIN lease[t][c] /\ s = lease[t][c][k]
                  /\ (c = "contribution" /\ k \in loads[t][c]) \/ state[c][s] = "Ready"
                  /\ c = "contribution" => pc[t] \in {"sync", "drain"}
                  /\ \A d \in Caches, r \in Slots, m \in Keys :
                        Writes(worker[t], n, d, r, m) => c # "contribution" /\ d = "contribution"

OneWrite ==
    \A v, w \in Workers, i, j \in Nat, c \in Caches, s \in Slots, k, m \in Keys :
        Writes(v, i, c, s, k) /\ Writes(w, j, c, s, m) => v = w /\ i = j /\ k = m

\* What is still to be written to s is k, and stream w has it behind it before
\* position n: earlier in its own queue, or behind a wait for another stream.
Settled(w, n, c, s, k) ==
    /\ \A v \in Workers, i \in Nat, m \in Keys : Writes(v, i, c, s, m) =>
          /\ m = k
          /\ (v = w /\ i < n) \/ \E h \in Nat : h < n /\ Waits(w, h, v, i)
    /\ Quiet(c, s) => mem[c][s].key = k
ReadsAreSettled ==
    \A w \in Workers, n \in Nat, c \in Caches, s \in Slots, k \in Keys :
        Reads(w, n, c, s, k) => Settled(w, n, c, s, k)

\* The same for what t queues next.
SettledFor(t, c, k) == Settled(worker[t], issued[worker[t]] + 1, c, lease[t][c][k], k)
WindowsAreSettled(t) ==
    /\ \A i \in Sources : SourceDone(t, i) =>
          \A k \in DOMAIN lease[t][CacheAt(i)] : SettledFor(t, CacheAt(i), k)
    /\ pc[t] \in {"waitHits", "normalize"} =>
          \A k \in loads[t]["contribution"] : SettledFor(t, "contribution", k)
    /\ pc[t] = "normalize" =>
          \A k \in DOMAIN lease[t]["contribution"] \ loads[t]["contribution"] :
              /\ SettledFor(t, "contribution", k)
              /\ state["contribution"][lease[t]["contribution"][k]] = "Ready"

\* What a render is about to produce is not on its way yet.
LoadsAreUnqueued(t) ==
    \A c \in Caches :
        (pc[t] = "upload" /\ c = Source(t)) \/ (pc[t] = "compute" /\ c = "contribution") =>
            \A k \in loads[t][c] : Quiet(c, lease[t][c][k])

\* What it has produced is right, or its solver has reported the failure.
LoadsArrive(t) ==
    /\ pc[t] = "publish" =>
          \A k \in loads[t][Source(t)] :
              Quiet(Source(t), lease[t][Source(t)][k]) => Holds(Source(t), lease[t][Source(t)][k], k)
    /\ pc[t] \in Computed =>
          \A k \in loads[t]["contribution"] :
              Quiet("contribution", lease[t]["contribution"][k]) =>
                  \/ Holds("contribution", lease[t]["contribution"][k], k)
                  \/ info[worker[t]]
    /\ pc[t] = "publishContributions" => ~info[worker[t]]

\* A Ready slot is written at most by what its event stands for, and then right.
ReadyIsMarked ==
    \A c \in Caches : \A s \in Buffers[c] : state[c][s] = "Ready" =>
        /\ \A v \in Workers, i \in Nat, m \in Keys : Writes(v, i, c, s, m) =>
              /\ m = holds[c][s]
              /\ mark[c][s].stream = v /\ mark[c][s].position >= i
              /\ \A d \in Caches, r \in Slots, j \in Keys : ~Reads(v, i, d, r, j)
        /\ Quiet(c, s) => Holds(c, s, holds[c][s])

Progress(t) == OperationsOf(t) /\ WindowsAreSettled(t) /\ LoadsAreUnqueued(t) /\ LoadsArrive(t)
Streams == /\ StreamTypes /\ QueuesAreOwned /\ OneWrite /\ ReadsAreSettled /\ ReadyIsMarked
           /\ \A t \in Threads : Progress(t)

\* Steps that queue and run nothing.
StreamsRest == queue' = queue /\ issued' = issued /\ done' = done /\ mem' = mem

LEMMA RestEffect ==
  ASSUME StreamsRest
  PROVE  /\ \A w, n, c, s, k : Writes(w, n, c, s, k)' <=> Writes(w, n, c, s, k)
         /\ \A w, n, c, s, k : Reads(w, n, c, s, k)' <=> Reads(w, n, c, s, k)
         /\ \A w, n, v, i : Waits(w, n, v, i)' <=> Waits(w, n, v, i)
         /\ \A c, s : Quiet(c, s)' <=> Quiet(c, s)
         /\ \A c, s, k : Holds(c, s, k)' <=> Holds(c, s, k)
         /\ \A w, n, c, s, k : Settled(w, n, c, s, k)' <=> Settled(w, n, c, s, k)
<1>1. \A w, n, c, s, k : Writes(w, n, c, s, k)' <=> Writes(w, n, c, s, k)
  BY DEF StreamsRest, Writes, Live, Op
<1>2. \A w, n, c, s, k : Reads(w, n, c, s, k)' <=> Reads(w, n, c, s, k)
  BY DEF StreamsRest, Reads, Live, Op
<1>3. \A w, n, v, i : Waits(w, n, v, i)' <=> Waits(w, n, v, i)
  BY DEF StreamsRest, Waits, Live, Op
<1>4. \A c, s : Quiet(c, s)' <=> Quiet(c, s)
  BY <1>1 DEF Quiet
<1>5. \A c, s, k : Holds(c, s, k)' <=> Holds(c, s, k)
  BY DEF StreamsRest, Holds
<1>6. \A w, n, c, s, k : Settled(w, n, c, s, k)' <=> Settled(w, n, c, s, k)
  BY <1>1, <1>3, <1>4 DEF Settled, StreamsRest
<1> QED BY <1>1, <1>2, <1>3, <1>4, <1>5, <1>6

\* What Enqueue does to the queues, operation by operation.
EnqueueOutcome(w, op) ==
    /\ \A v \in Workers : issued'[v] = IF v = w THEN issued[v] + 1 ELSE issued[v]
    /\ done' = done /\ mem' = mem /\ info' = info
    /\ issued' \in [Workers -> Nat] /\ queue' \in [Workers -> Seq(Operations)]
    /\ \A v \in Workers : issued'[v] = done'[v] + Len(queue'[v])
    /\ \A v \in Workers : v # w => queue'[v] = queue[v]
    /\ \A v \in Workers, n \in Nat : \A c, s, k :
          Writes(v, n, c, s, k)' <=>
             (Writes(v, n, c, s, k) \/ (v = w /\ n = issued[w] + 1 /\ <<c, s, k>> \in op.writes))
    /\ \A v \in Workers, n \in Nat : \A c, s, k :
          Reads(v, n, c, s, k)' <=>
             (Reads(v, n, c, s, k) \/ (v = w /\ n = issued[w] + 1 /\ <<c, s, k>> \in op.reads))
    /\ \A v \in Workers, n \in Nat : \A x, i :
          Waits(v, n, x, i)' <=>
             (Waits(v, n, x, i) \/ (v = w /\ n = issued[w] + 1 /\ \E e \in op.waits : e.stream = x /\ e.position >= i))

LEMMA EnqueueEffect ==
  ASSUME StreamTypes, NEW w \in Workers, NEW op \in Operations, Enqueue(w, op)
  PROVE  EnqueueOutcome(w, op)
<1>1. /\ queue' = [queue EXCEPT ![w] = Append(@, op)] /\ issued' = [issued EXCEPT ![w] = @ + 1]
      /\ done' = done /\ info' = info /\ mem' = mem
  BY DEF Enqueue
<1>2. /\ queue \in [Workers -> Seq(Operations)] /\ issued \in [Workers -> Nat] /\ done \in [Workers -> Nat]
      /\ \A v \in Workers : issued[v] = done[v] + Len(queue[v]) /\ Len(queue[v]) \in Nat
  BY DEF StreamTypes
<1>3. /\ issued' \in [Workers -> Nat] /\ queue' \in [Workers -> Seq(Operations)]
      /\ \A v \in Workers : issued'[v] = done'[v] + Len(queue'[v])
      /\ \A v \in Workers : issued'[v] = IF v = w THEN issued[v] + 1 ELSE issued[v]
      /\ \A v \in Workers : v # w => queue'[v] = queue[v]
  BY <1>1, <1>2
<1>4. ASSUME NEW v \in Workers, NEW n \in Nat
      PROVE  /\ n \in Live(v)' <=> n \in Live(v) \/ (v = w /\ n = issued[w] + 1)
             /\ n \in Live(v) => Op(v, n)' = Op(v, n) /\ n # issued[v] + 1
             /\ v = w /\ n = issued[w] + 1 => Op(v, n)' = op
  <2>1. CASE v # w
    BY <1>1, <1>2, <1>3, <2>1 DEF Live, Op
  <2>2. CASE v = w
    <3>1. /\ queue'[w] = Append(queue[w], op) /\ done'[w] = done[w]
          /\ issued'[w] = issued[w] + 1 /\ issued[w] = done[w] + Len(queue[w])
          /\ queue[w] \in Seq(Operations) /\ done[w] \in Nat /\ Len(queue[w]) \in Nat
      BY <1>1, <1>2
    <3>2. n \in Live(w) => n - done[w] \in 1..Len(queue[w])
      BY <3>1 DEF Live
    <3>3. \A j \in 1..Len(queue[w]) : Append(queue[w], op)[j] = queue[w][j]
      BY <3>1
    <3>4. Append(queue[w], op)[Len(queue[w]) + 1] = op
      BY <3>1
    <3>5. n = issued[w] + 1 => n - done[w] = Len(queue[w]) + 1
      BY <3>1
    <3>6. n \in Live(w)' <=> n \in Live(w) \/ n = issued[w] + 1
      BY <3>1 DEF Live
    <3>7. n \in Live(w) => n # issued[w] + 1
      BY <3>1 DEF Live
    <3>8. n \in Live(w) => Op(w, n)' = Op(w, n)
      BY <3>1, <3>2, <3>3 DEF Op
    <3>9. n = issued[w] + 1 => Op(w, n)' = op
      BY <3>1, <3>4, <3>5 DEF Op
    <3> QED BY <2>2, <3>6, <3>7, <3>8, <3>9
  <2> QED BY <2>1, <2>2
<1>5. \A v \in Workers, n \in Nat : \A c, s, k :
         Writes(v, n, c, s, k)' <=>
             (Writes(v, n, c, s, k) \/ (v = w /\ n = issued[w] + 1 /\ <<c, s, k>> \in op.writes))
  BY <1>4 DEF Writes
<1>6. \A v \in Workers, n \in Nat : \A c, s, k :
         Reads(v, n, c, s, k)' <=>
             (Reads(v, n, c, s, k) \/ (v = w /\ n = issued[w] + 1 /\ <<c, s, k>> \in op.reads))
  BY <1>4 DEF Reads
<1>7. \A v \in Workers, n \in Nat : \A x, i :
         Waits(v, n, x, i)' <=>
             (Waits(v, n, x, i) \/ (v = w /\ n = issued[w] + 1 /\ \E e \in op.waits : e.stream = x /\ e.position >= i))
  BY <1>4 DEF Waits
<1> QED BY <1>1, <1>3, <1>5, <1>6, <1>7 DEF EnqueueOutcome

\* What Execute does, for the operation at the head of stream w.
Now(w) == done[w] + 1
Fine(w) == \A c \in Caches, s \in Slots, k \in Keys : Reads(w, Now(w), c, s, k) => Holds(c, s, k)
ExecuteOutcome(w, verdict) ==
    /\ \A v \in Workers : done'[v] = IF v = w THEN done[v] + 1 ELSE done[v]
    /\ issued' = issued /\ done' \in [Workers -> Nat] /\ queue' \in [Workers -> Seq(Operations)]
    /\ \A v \in Workers : issued'[v] = done'[v] + Len(queue'[v])
    /\ \A v \in Workers : queue'[v] # <<>> => queue[v] # <<>>
    /\ queue[w] # <<>> /\ Now(w) \in Live(w)
    /\ \A v \in Workers, n \in Nat : \A c, s, k :
          Writes(v, n, c, s, k)' <=> Writes(v, n, c, s, k) /\ ~(v = w /\ n = Now(w))
    /\ \A v \in Workers, n \in Nat : \A c, s, k :
          Reads(v, n, c, s, k)' <=> Reads(v, n, c, s, k) /\ ~(v = w /\ n = Now(w))
    /\ \A v \in Workers, n \in Nat : \A x, i :
          Waits(v, n, x, i)' <=> Waits(v, n, x, i) /\ ~(v = w /\ n = Now(w))
    /\ \A v \in Workers, i \in Nat : Waits(w, Now(w), v, i) => i <= done[v]
    /\ PerSlot(mem')
    /\ \A c \in Caches : \A s \in Buffers[c] :
          \/ mem'[c][s] = mem[c][s] /\ \A k \in Keys : ~Writes(w, Now(w), c, s, k)
          \/ \E k \in Keys : /\ Writes(w, Now(w), c, s, k) /\ mem'[c][s].key = k
                             /\ Fine(w) /\ verdict = "solved" => Holds(c, s, k)'
    /\ verdict = "broken" =>
          /\ \E c \in Caches, s \in Slots, k \in Keys : Reads(w, Now(w), c, s, k)
          /\ \E c \in Caches, s \in Slots, k \in Keys : Writes(w, Now(w), c, s, k)
    /\ info' \in [Workers -> BOOLEAN]
    /\ \A v \in Workers : info'[v] <=> info[v] \/ (v = w /\ verdict = "broken")

LEMMA ExecuteEffect ==
  ASSUME StreamTypes, NEW w \in Workers, Execute(w)
  PROVE  \E verdict \in {"solved", "broken"} : ExecuteOutcome(w, verdict)
<1> DEFINE op == Head(queue[w])
           fine == \A piece \in op.reads : Intact(piece)
<1>1. PICK breaks \in BOOLEAN :
         /\ breaks => op.writes # {} /\ op.reads # {}
         /\ info' = [info EXCEPT ![w] = @ \/ breaks]
         /\ mem' = [c \in Caches |-> [s \in Buffers[c] |->
                LET written == {piece \in op.writes : piece[1] = c /\ piece[2] = s}
                IN  IF written = {} THEN mem[c][s]
                    ELSE [key |-> (CHOOSE piece \in written : TRUE)[3], sound |-> fine /\ ~breaks]]]
  BY DEF Execute
<1>2. /\ queue[w] # <<>> /\ \A e \in op.waits : Fired(e)
      /\ queue' = [queue EXCEPT ![w] = Tail(@)] /\ done' = [done EXCEPT ![w] = @ + 1]
      /\ issued' = issued
  BY DEF Execute, Runnable
<1>3. /\ queue \in [Workers -> Seq(Operations)] /\ issued \in [Workers -> Nat] /\ done \in [Workers -> Nat]
      /\ info \in [Workers -> BOOLEAN]
      /\ \A v \in Workers : issued[v] = done[v] + Len(queue[v]) /\ Len(queue[v]) \in Nat
  BY DEF StreamTypes
<1>4. /\ op \in Operations /\ op = queue[w][1] /\ Len(queue[w]) > 0
      /\ Tail(queue[w]) \in Seq(Operations) /\ Len(Tail(queue[w])) = Len(queue[w]) - 1
      /\ \A i \in 1..(Len(queue[w]) - 1) : Tail(queue[w])[i] = queue[w][i + 1]
  BY <1>2, <1>3
<1>5. /\ done' \in [Workers -> Nat] /\ queue' \in [Workers -> Seq(Operations)]
      /\ \A v \in Workers : done'[v] = IF v = w THEN done[v] + 1 ELSE done[v]
      /\ \A v \in Workers : issued'[v] = done'[v] + Len(queue'[v])
      /\ \A v \in Workers : queue'[v] # <<>> => queue[v] # <<>>
  BY <1>2, <1>3, <1>4
<1>6. Now(w) \in Live(w) /\ Op(w, Now(w)) = op /\ Now(w) \in Nat
  BY <1>3, <1>4 DEF Now, Live, Op
<1> HIDE DEF op, fine
<1>7. ASSUME NEW v \in Workers, NEW n \in Nat
      PROVE  /\ n \in Live(v)' <=> n \in Live(v) /\ ~(v = w /\ n = Now(w))
             /\ n \in Live(v) /\ ~(v = w /\ n = Now(w)) => Op(v, n)' = Op(v, n)
  <2>1. CASE v # w
    BY <1>2, <1>3, <2>1 DEF Live, Op
  <2>2. CASE v = w
    <3>1. /\ queue'[w] = Tail(queue[w]) /\ done'[w] = done[w] + 1 /\ issued'[w] = issued[w]
          /\ issued[w] = done[w] + Len(queue[w]) /\ done[w] \in Nat /\ Len(queue[w]) \in Nat
      BY <1>2, <1>3
    <3>2. n \in Live(w)' <=> n \in Live(w) /\ n # Now(w)
      BY <3>1 DEF Live, Now
    <3>3. n \in Live(w) /\ n # Now(w) => n - (done[w] + 1) \in 1..(Len(queue[w]) - 1)
      BY <3>1 DEF Live, Now
    <3>4. n \in Live(w) /\ n # Now(w) => Op(w, n)' = Op(w, n)
      <4> SUFFICES ASSUME n \in Live(w), n # Now(w)
                   PROVE  Tail(queue[w])[n - (done[w] + 1)] = queue[w][n - done[w]]
        BY <3>1 DEF Op
      <4>1. (n - (done[w] + 1)) + 1 = n - done[w]
        BY <3>1
      <4> QED BY <1>4, <3>3, <4>1
    <3> QED BY <2>2, <3>2, <3>4
  <2> QED BY <2>1, <2>2
<1>8. \A v \in Workers, n \in Nat : \A c, s, k :
         Writes(v, n, c, s, k)' <=> Writes(v, n, c, s, k) /\ ~(v = w /\ n = Now(w))
  BY <1>7 DEF Writes
<1>9. \A v \in Workers, n \in Nat : \A c, s, k :
         Reads(v, n, c, s, k)' <=> Reads(v, n, c, s, k) /\ ~(v = w /\ n = Now(w))
  BY <1>7 DEF Reads
<1>10. \A v \in Workers, n \in Nat : \A x, i :
         Waits(v, n, x, i)' <=> Waits(v, n, x, i) /\ ~(v = w /\ n = Now(w))
  BY <1>7 DEF Waits
<1>11. /\ \A c, s, k : Writes(w, Now(w), c, s, k) <=> <<c, s, k>> \in op.writes
       /\ \A c, s, k : Reads(w, Now(w), c, s, k) <=> <<c, s, k>> \in op.reads
  BY <1>6 DEF Writes, Reads
<1>12. /\ \A x \in op.writes : x \in Caches \X Slots \X Keys
       /\ \A x \in op.reads : x \in Caches \X Slots \X Keys
  BY <1>4 DEF Operations
<1>13. \A v \in Workers, i \in Nat : Waits(w, Now(w), v, i) => i <= done[v]
  <2> SUFFICES ASSUME NEW v \in Workers, NEW i \in Nat, Waits(w, Now(w), v, i) PROVE i <= done[v]
    OBVIOUS
  <2>1. PICK e \in op.waits : e.stream = v /\ e.position >= i
    BY <1>6 DEF Waits
  <2>2. e \in EventRecords
    BY <1>4, <2>1 DEF Operations
  <2>3. done[v] >= e.position
    BY <1>2, <2>1, NoWorkerAssumption DEF Fired
  <2> QED BY <1>3, <2>1, <2>2, <2>3 DEF EventRecords
<1>14. fine <=> Fine(w)
  <2>1. \A x \in op.reads : x = <<x[1], x[2], x[3]>> /\ x[1] \in Caches /\ x[2] \in Slots /\ x[3] \in Keys
    BY <1>12
  <2>2. ASSUME fine PROVE Fine(w)
    <3> SUFFICES ASSUME NEW c \in Caches, NEW s \in Slots, NEW k \in Keys, Reads(w, Now(w), c, s, k)
                 PROVE  Holds(c, s, k)
      BY DEF Fine
    <3>1. Intact(<<c, s, k>>)
      BY <1>11, <2>2 DEF fine
    <3> QED BY <3>1 DEF Intact, Holds
  <2>3. ASSUME Fine(w) PROVE fine
    <3> SUFFICES ASSUME NEW x \in op.reads PROVE Intact(x)
      BY DEF fine
    <3>1. Reads(w, Now(w), x[1], x[2], x[3])
      BY <1>11, <2>1
    <3>2. Holds(x[1], x[2], x[3])
      BY <2>1, <2>3, <3>1 DEF Fine
    <3> QED BY <3>2 DEF Intact, Holds
  <2> QED BY <2>2, <2>3
<1>15. PICK verdict \in {"solved", "broken"} : breaks <=> verdict = "broken"
  <2>1. CASE breaks
    BY <2>1
  <2>2. CASE ~breaks
    BY <2>2
  <2> QED BY <2>1, <2>2
<1>16. PerSlot(mem')
  BY <1>1 DEF PerSlot
<1>17. ASSUME NEW c \in Caches, NEW s \in Buffers[c]
       PROVE  \/ mem'[c][s] = mem[c][s] /\ \A k \in Keys : ~Writes(w, Now(w), c, s, k)
              \/ \E k \in Keys : /\ Writes(w, Now(w), c, s, k) /\ mem'[c][s].key = k
                                 /\ Fine(w) /\ verdict = "solved" => Holds(c, s, k)'
  <2> DEFINE written == {piece \in op.writes : piece[1] = c /\ piece[2] = s}
  <2>1. mem'[c][s] = IF written = {} THEN mem[c][s]
                     ELSE [key |-> (CHOOSE piece \in written : TRUE)[3], sound |-> fine /\ ~breaks]
    BY <1>1
  <2>2. CASE written = {}
    <3>1. \A k \in Keys : <<c, s, k>> \notin op.writes
      BY <2>2
    <3> QED BY <1>11, <2>1, <2>2, <3>1
  <2>3. CASE written # {}
    <3>1. PICK x \in written : x = CHOOSE piece \in written : TRUE
      BY <2>3
    <3>2. x = <<c, s, x[3]>> /\ x[3] \in Keys /\ x \in op.writes
      BY <1>12, <3>1
    <3>3. mem'[c][s] = [key |-> x[3], sound |-> fine /\ ~breaks]
      BY <2>1, <2>3, <3>1
    <3>4. Writes(w, Now(w), c, s, x[3])
      BY <1>11, <3>2
    <3>5. mem'[c][s].key = x[3]
      BY <3>3
    <3>6. Fine(w) /\ verdict = "solved" => mem'[c][s] = [key |-> x[3], sound |-> TRUE]
      BY <1>14, <1>15, <3>3
    <3> QED BY <3>2, <3>4, <3>5, <3>6 DEF Holds
  <2> QED BY <2>2, <2>3
<1>18. verdict = "broken" =>
          /\ \E c \in Caches, s \in Slots, k \in Keys : Reads(w, Now(w), c, s, k)
          /\ \E c \in Caches, s \in Slots, k \in Keys : Writes(w, Now(w), c, s, k)
  <2> SUFFICES ASSUME verdict = "broken"
               PROVE  /\ \E c \in Caches, s \in Slots, k \in Keys : Reads(w, Now(w), c, s, k)
                      /\ \E c \in Caches, s \in Slots, k \in Keys : Writes(w, Now(w), c, s, k)
    OBVIOUS
  <2>1. PICK x \in op.reads, y \in op.writes : TRUE
    BY <1>1, <1>15
  <2>2. x \in Caches \X Slots \X Keys /\ y \in Caches \X Slots \X Keys
    BY <1>12, <2>1
  <2>3. x = <<x[1], x[2], x[3]>> /\ y = <<y[1], y[2], y[3]>>
    BY <2>2
  <2> QED BY <1>11, <2>1, <2>2, <2>3
<1>19. info' \in [Workers -> BOOLEAN] /\ \A v \in Workers : info'[v] <=> info[v] \/ (v = w /\ verdict = "broken")
  BY <1>1, <1>3, <1>15
<1> QED
  <2>1. ExecuteOutcome(w, verdict)
    BY <1>2, <1>5, <1>6, <1>8, <1>9, <1>10, <1>13, <1>16, <1>17, <1>18, <1>19 DEF ExecuteOutcome
  <2> QED BY <1>15, <2>1

\* What a step of t leaves alone.
OthersStand(t) ==
    \A u \in Threads \ {t} :
        /\ pc'[u] = pc[u] /\ at'[u] = at[u] /\ worker'[u] = worker[u]
        /\ \A c \in Caches : lease'[u][c] = lease[u][c] /\ loads'[u][c] = loads[u][c]
        /\ worker[u] \in Workers => info'[worker[u]] = info[worker[u]]
LeasedStayReady ==
    \A u \in Threads, c \in Caches : \A k \in DOMAIN lease[u][c] :
        state[c][lease[u][c][k]] = "Ready" => state'[c][lease[u][c][k]] = "Ready"
NoneBecomesReady ==
    \A c \in Caches : \A s \in Buffers[c] : state'[c][s] = "Ready" =>
        state[c][s] = "Ready" /\ holds'[c][s] = holds[c][s] /\ mark'[c][s] = mark[c][s]

LEMMA StandingProgress ==
  ASSUME Control, Streams, StreamsRest, LeasedStayReady, NEW u \in Threads,
         pc'[u] = pc[u], at'[u] = at[u], worker'[u] = worker[u],
         \A c \in Caches : lease'[u][c] = lease[u][c] /\ loads'[u][c] = loads[u][c],
         worker[u] \in Workers => info'[worker[u]] = info[worker[u]]
  PROVE  Progress(u)'
<1>1. Progress(u)
  BY DEF Streams
<1>2. OperationsOf(u)'
  BY <1>1, RestEffect DEF Progress, OperationsOf, LeasedStayReady
<1>3. WindowsAreSettled(u)'
  <2>1. \A i \in Sources : CacheAt(i) \in Caches
    BY CacheIndices DEF Sources
  <2>2. "contribution" \in Caches
    BY DEF Caches
  <2>3. \A c \in Caches : \A k : SettledFor(u, c, k)' <=> SettledFor(u, c, k)
    BY RestEffect DEF SettledFor, StreamsRest
  <2>4. \A i \in Sources : SourceDone(u, i)' <=> SourceDone(u, i)
    BY DEF SourceDone
  <2>5. \A i \in Sources : SourceDone(u, i)' =>
           \A k \in DOMAIN lease'[u][CacheAt(i)] : SettledFor(u, CacheAt(i), k)'
    BY <1>1, <2>1, <2>3, <2>4 DEF Progress, WindowsAreSettled
  <2>6. pc'[u] \in {"waitHits", "normalize"} =>
          \A k \in loads'[u]["contribution"] : SettledFor(u, "contribution", k)'
    BY <1>1, <2>2, <2>3 DEF Progress, WindowsAreSettled
  <2>7. pc'[u] = "normalize" =>
          \A k \in DOMAIN lease'[u]["contribution"] \ loads'[u]["contribution"] :
              /\ SettledFor(u, "contribution", k)'
              /\ state'["contribution"][lease'[u]["contribution"][k]] = "Ready"
    BY <1>1, <2>2, <2>3 DEF Progress, WindowsAreSettled, LeasedStayReady
  <2> QED BY <2>5, <2>6, <2>7 DEF WindowsAreSettled, CacheAt
<1>4. LoadsAreUnqueued(u)'
  BY <1>1, RestEffect DEF Progress, LoadsAreUnqueued, Source
<1>5. LoadsArrive(u)'
  <2>0. pc[u] \in Computed => worker[u] \in Workers
    BY DEF Control, ControlTypes, WorkersAreExclusive, Computed
  <2>1. pc[u] = "publish" => /\ Source(u) \in Caches /\ Source(u)' = Source(u)
                             /\ loads'[u][Source(u)] = loads[u][Source(u)]
                             /\ lease'[u][Source(u)] = lease[u][Source(u)]
    BY AtSource DEF SourcePoints, Source
  <2>2. "contribution" \in Caches
    BY DEF Caches
  <2>3. (pc[u] = "publish" =>
           \A k \in loads[u][Source(u)] :
              Quiet(Source(u), lease[u][Source(u)][k]) => Holds(Source(u), lease[u][Source(u)][k], k))'
    BY <1>1, <2>1, RestEffect DEF Progress, LoadsArrive
  <2>4. pc'[u] \in Computed =>
          \A k \in loads'[u]["contribution"] :
              Quiet("contribution", lease[u]["contribution"][k])' =>
                  \/ Holds("contribution", lease[u]["contribution"][k], k)'
                  \/ info'[worker'[u]]
    BY <1>1, <2>2, <2>0, RestEffect DEF Progress, LoadsArrive
  <2>5. pc'[u] = "publishContributions" => ~info'[worker'[u]]
    BY <1>1, <2>0 DEF Progress, LoadsArrive, Computed
  <2> QED BY <2>2, <2>3, <2>4, <2>5 DEF LoadsArrive
<1> QED BY <1>2, <1>3, <1>4, <1>5 DEF Progress

LEMMA RestOfStreams ==
  ASSUME Streams, StreamsRest, NoneBecomesReady, info' \in [Workers -> BOOLEAN],
         \A c \in Caches : \A s \in Buffers[c] : mark'[c][s] \in EventRecords
  PROVE  StreamTypes' /\ OneWrite' /\ ReadsAreSettled' /\ ReadyIsMarked'
<1>1. StreamTypes'
  BY DEF Streams, StreamTypes, StreamsRest
<1>2. OneWrite'
  BY RestEffect DEF Streams, OneWrite
<1>3. ReadsAreSettled'
  BY RestEffect DEF Streams, ReadsAreSettled
<1>4. ReadyIsMarked'
  BY RestEffect DEF Streams, ReadyIsMarked, NoneBecomesReady
<1> QED BY <1>1, <1>2, <1>3, <1>4

LEMMA EmptyQueue ==
  ASSUME StreamTypes, NEW w \in Workers, queue[w] = <<>>
  PROVE  \A n \in Nat : \A c, s, k : ~Writes(w, n, c, s, k) /\ ~Reads(w, n, c, s, k)
<1>1. Live(w) = {}
  BY DEF StreamTypes, Live
<1> QED BY <1>1 DEF Writes, Reads

LEMMA IdleQueue ==
  ASSUME Control, QueuesAreOwned, NEW t \in Threads, pc[t] \notin Busy, worker[t] \in Workers
  PROVE  queue[worker[t]] = <<>>
BY NoWorkerAssumption DEF QueuesAreOwned, Control, WorkersAreExclusive, Busy

LEMMA NothingQueued ==
  ASSUME StreamTypes', NEW t \in Threads, worker'[t] \in Workers => queue'[worker'[t]] = <<>>
  PROVE  OperationsOf(t)'
<1>1. (worker[t] \in Workers => \A n : n \notin Live(worker[t]))'
  BY DEF StreamTypes, Live
<1>2. (worker[t] \in Workers => \A n, c, s, k : ~Writes(worker[t], n, c, s, k) /\ ~Reads(worker[t], n, c, s, k))'
  BY <1>1 DEF Writes, Reads
<1> QED BY <1>2 DEF OperationsOf

\* Calls that touch neither caches nor streams.
ControlCall(t) ==
    \/ AcquireWorker(t) \/ FetchFrames(t) \/ FetchFails(t) \/ HitsLost(t) \/ Synchronize(t)
    \/ CheckSolver(t) \/ SolverFails(t) \/ CallFails(t) \/ Drain(t) \/ CopyOutput(t) \/ ReturnWorker(t)
    \/ \E f \in Wanted : GetFrame(t, f)

LEMMA ControlCallEffect ==
  ASSUME Control, Streams, NEW t \in Threads, ControlCall(t)
  PROVE  /\ UNCHANGED <<cacheVars, streamVars>> /\ OthersStand(t)
         /\ pc'[t] \notin {"upload", "publish", "compute", "waitHits", "normalize", "sync"}
         /\ \A i \in Sources : SourceDone(t, i)' => SourceDone(t, i) /\ worker'[t] = worker[t]
         /\ pc'[t] \in Computed => pc[t] \in Computed /\ worker'[t] = worker[t]
         /\ pc'[t] = "publishContributions" => ~info[worker[t]]
         /\ \/ worker'[t] = NoWorker
            \/ worker'[t] \in Workers /\ queue[worker'[t]] = <<>>
            \/ worker'[t] = worker[t] /\ pc'[t] = "drain"
            \/ worker'[t] = worker[t] /\ pc[t] \notin Busy
         /\ pc[t] \in Busy => (pc'[t] \in Busy /\ worker'[t] = worker[t]) \/ queue[worker[t]] = <<>>
<1> USE DEF SourcePoints, AfterSources, Computing, Computed, Busy, SourceDone, OthersStand, cacheVars,
            streamVars, Drained
<1>1. /\ pc \in [Threads -> Points] /\ at \in [Threads -> 1..Last] /\ worker \in [Threads -> Workers \cup {NoWorker}]
      /\ worker[t] = NoWorker <=> pc[t] \in {"idle", "worker"}
      /\ Sources \subseteq Nat /\ \A i \in Sources : ~(i < 1)
  BY CacheIndices DEF Control, ControlTypes, WorkersAreExclusive, Sources
<1>2. CASE AcquireWorker(t)
  <2>1. PICK w \in Workers : worker' = [worker EXCEPT ![t] = w] /\ \A u \in Threads : worker[u] # w
    BY <1>2 DEF AcquireWorker
  <2>2. queue[w] = <<>>
    BY <2>1 DEF Streams, QueuesAreOwned
  <2>3. pc[t] = "worker" /\ pc' = [pc EXCEPT ![t] = "fetch"] /\ at' = at /\ UNCHANGED <<cacheVars, streamVars>>
    BY <1>2 DEF AcquireWorker
  <2> QED BY <1>1, <2>1, <2>2, <2>3
<1>3. CASE FetchFrames(t)
  BY <1>1, <1>3 DEF FetchFrames, Goto
<1>4. CASE FetchFails(t)
  BY <1>1, <1>4 DEF FetchFails, Fault
<1>5. CASE HitsLost(t) \/ SolverFails(t)
  <2>1. pc[t] \in {"waitHits", "check"} /\ Raise(t) /\ UNCHANGED <<cacheVars, streamVars>>
    BY <1>5 DEF HitsLost, SolverFails
  <2> QED BY <1>1, <2>1 DEF Raise
<1>6. CASE Synchronize(t)
  BY <1>1, <1>6 DEF Synchronize, Goto
<1>7. CASE CheckSolver(t)
  BY <1>1, <1>7 DEF CheckSolver, Goto, SolverFailed
<1>8. CASE CallFails(t)
  BY <1>1, <1>8 DEF CallFails, Fault
<1>9. CASE Drain(t)
  BY <1>1, <1>9 DEF Drain
<1>10. CASE CopyOutput(t)
  BY <1>1, <1>10 DEF CopyOutput, Goto
<1>11. CASE ReturnWorker(t)
  BY <1>1, <1>11 DEF ReturnWorker
<1>12. ASSUME NEW f \in Wanted, GetFrame(t, f)
       PROVE  /\ UNCHANGED <<at, worker, cacheVars, streamVars>> /\ pc[t] = "idle"
              /\ pc' = [pc EXCEPT ![t] = "worker"]
  BY <1>12 DEF GetFrame
<1>13. CASE \E f \in Wanted : GetFrame(t, f)
  BY <1>1, <1>12, <1>13
<1> QED BY <1>2, <1>3, <1>4, <1>5, <1>6, <1>7, <1>8, <1>9, <1>10, <1>11, <1>13 DEF ControlCall

LEMMA QueuesStayOwned ==
  ASSUME QueuesAreOwned, NEW t \in Threads,
         \A u \in Threads \ {t} : pc'[u] = pc[u] /\ worker'[u] = worker[u],
         \A v \in Workers : queue'[v] # <<>> =>
             queue[v] # <<>> \/ (v = worker[t] /\ pc'[t] \in Busy /\ worker'[t] = worker[t]),
         pc[t] \in Busy =>
             \/ pc'[t] \in Busy /\ worker'[t] = worker[t]
             \/ queue[worker[t]] = <<>> /\ queue' = queue
  PROVE  QueuesAreOwned'
<1> SUFFICES ASSUME NEW v \in Workers, queue'[v] # <<>>
             PROVE  \E u \in Threads : worker'[u] = v /\ pc'[u] \in Busy
  BY DEF QueuesAreOwned, Busy
<1>1. CASE v = worker[t] /\ pc'[t] \in Busy /\ worker'[t] = worker[t]
  BY <1>1
<1>2. CASE queue[v] # <<>>
  <2>1. PICK u \in Threads : worker[u] = v /\ pc[u] \in Busy
    BY <1>2 DEF QueuesAreOwned
  <2>2. CASE u = t
    BY <1>2, <2>1, <2>2
  <2>3. CASE u # t
    BY <2>1, <2>3
  <2> QED BY <2>2, <2>3
<1> QED BY <1>1, <1>2

LEMMA ControlCallStreams ==
  ASSUME Control, Windows, Streams, NEW t \in Threads, ControlCall(t)
  PROVE  Streams'
<1>1. /\ UNCHANGED <<cacheVars, streamVars>> /\ OthersStand(t) /\ StreamsRest
      /\ StreamTypes
  BY ControlCallEffect DEF StreamsRest, streamVars, Streams
<1>2. StreamTypes' /\ OneWrite' /\ ReadsAreSettled' /\ ReadyIsMarked'
  BY <1>1, RestOfStreams DEF NoneBecomesReady, Streams, StreamTypes, cacheVars, streamVars
<1>3. QueuesAreOwned'
  BY <1>1, ControlCallEffect, QueuesStayOwned DEF OthersStand, Streams, StreamsRest
<1>4. ASSUME NEW u \in Threads, u # t PROVE Progress(u)'
  BY <1>1, <1>4, StandingProgress DEF OthersStand, LeasedStayReady, cacheVars
<1>5. Progress(t)
  BY DEF Streams
<1>6. OperationsOf(t)'
  <2>1. CASE worker'[t] = worker[t] /\ pc'[t] = "drain"
    <3>1. OperationsOf(t) /\ StreamsRest /\ lease' = lease /\ loads' = loads /\ state' = state
      BY <1>1, <1>5 DEF Progress, cacheVars
    <3> QED BY <2>1, <3>1, RestEffect DEF OperationsOf
  <2>2. CASE worker'[t] = worker[t] /\ pc[t] \notin Busy
    <3>1. worker[t] \in Workers => queue[worker[t]] = <<>>
      BY <2>2, IdleQueue DEF Streams
    <3> QED BY <1>1, <1>2, <2>2, <3>1, NothingQueued DEF StreamsRest
  <2>3. CASE worker'[t] = NoWorker \/ queue[worker'[t]] = <<>>
    BY <1>1, <1>2, <2>3, NothingQueued, NoWorkerAssumption DEF StreamsRest
  <2> QED BY <2>1, <2>2, <2>3, ControlCallEffect
<1>7. WindowsAreSettled(t)'
  <2>1. \A c \in Caches : \A k : worker'[t] = worker[t] => (SettledFor(t, c, k)' <=> SettledFor(t, c, k))
    BY <1>1, RestEffect DEF SettledFor, StreamsRest, cacheVars
  <2>2. \A i \in Sources : SourceDone(t, i)' =>
           \A k \in DOMAIN lease'[t][CacheAt(i)] : SettledFor(t, CacheAt(i), k)'
    <3>1. \A i \in Sources : CacheAt(i) \in Caches
      BY CacheIndices DEF Sources
    <3> QED BY <1>1, <1>5, <2>1, <3>1, ControlCallEffect DEF Progress, WindowsAreSettled, cacheVars
  <2>3. pc'[t] \notin {"waitHits", "normalize"}
    BY ControlCallEffect
  <2> QED BY <2>2, <2>3 DEF WindowsAreSettled, CacheAt
<1>8. LoadsAreUnqueued(t)'
  BY ControlCallEffect DEF LoadsAreUnqueued
<1>9. LoadsArrive(t)'
  BY <1>1, <1>5, RestEffect, ControlCallEffect
     DEF Progress, LoadsArrive, cacheVars, streamVars, Computed
<1> QED BY <1>2, <1>3, <1>4, <1>6, <1>7, <1>8, <1>9 DEF Streams, Progress

\* Whatever is queued belongs to a render, and is written to slots it leases.
LEMMA PendingWork ==
  ASSUME Control, Streams
  PROVE  /\ \A v \in Workers, i \in Nat : \A c, s, k : Writes(v, i, c, s, k) \/ Reads(v, i, c, s, k) =>
               \E u \in Threads : worker[u] = v /\ pc[u] \in Busy
         /\ \A c \in Caches : \A s \in Buffers[c] : ~Leased(c, s) => Quiet(c, s)
<1>1. ASSUME NEW v \in Workers, NEW i \in Nat, NEW c, NEW s, NEW k,
             Writes(v, i, c, s, k) \/ Reads(v, i, c, s, k)
      PROVE  \E u \in Threads : worker[u] = v /\ pc[u] \in Busy
  <2>1. queue[v] # <<>>
    BY <1>1, EmptyQueue DEF Streams
  <2> QED BY <2>1 DEF Streams, QueuesAreOwned
<1>2. ASSUME NEW c \in Caches, NEW s \in Buffers[c], NEW v \in Workers, NEW i \in Nat, NEW m \in Keys,
             Writes(v, i, c, s, m)
      PROVE  Leased(c, s)
  <2>1. PICK u \in Threads : worker[u] = v /\ OperationsOf(u)
    BY <1>1, <1>2 DEF Streams, Progress
  <2>2. m \in DOMAIN lease[u][c] /\ s = lease[u][c][m]
    BY <1>2, <2>1 DEF OperationsOf, Slots
  <2> QED BY <2>2 DEF Leased, Range
<1> QED BY <1>1, <1>2 DEF Quiet

\* What is queued stays right where windows only grow and slots stay Ready.
WindowCarried(t, c, k) ==
    /\ k \in DOMAIN lease'[t][c] /\ lease'[t][c][k] = lease[t][c][k]
    /\ k \in loads[t][c] => k \in loads'[t][c] \/ state'[c][lease[t][c][k]] = "Ready"
    /\ state[c][lease[t][c][k]] = "Ready" => state'[c][lease[t][c][k]] = "Ready"

LEMMA OperationsCarried ==
  ASSUME NEW t \in Threads, OperationsOf(t), StreamsRest, worker'[t] = worker[t],
         pc[t] \in {"sync", "drain"} => pc'[t] \in {"sync", "drain"},
         \A c \in Caches : \A k \in DOMAIN lease[t][c] : WindowCarried(t, c, k)
  PROVE  OperationsOf(t)'
BY RestEffect DEF OperationsOf, WindowCarried

\* A claim queues nothing, and nothing is queued for the slots it takes.
LEMMA ClaimStreams ==
  ASSUME Control, Windows, Streams, NEW t \in Threads, NEW c \in Caches, NEW deferred \in BOOLEAN,
         Closed(t, c), ClaimOutcome(t, c, deferred), StreamsRest, OthersStand(t),
         worker' = worker, at' = at, info' \in [Workers -> BOOLEAN],
         pc[t] \in {"claim", "claimContributions"},
         (pc'[t] = "upload" /\ c = Source(t)) \/ (pc'[t] = "compute" /\ c = "contribution"),
         \A i \in Sources : SourceDone(t, i)' => SourceDone(t, i) /\ CacheAt(i) # c
  PROVE  Streams'
<1>1. /\ \A u \in Threads, d \in Caches :
            u # t \/ d # c => lease'[u][d] = lease[u][d] /\ loads'[u][d] = loads[u][d]
      /\ CacheTypes' /\ mark' = mark /\ DOMAIN lease[t][c] = {}
      /\ loads'[t][c] \subseteq DOMAIN lease'[t][c]
      /\ \A k \in loads'[t][c] : /\ lease'[t][c][k] \in Buffers[c] /\ ~Leased(c, lease'[t][c][k])
                                 /\ state'[c][lease'[t][c][k]] = "Loading"
      /\ \A d \in Caches : \A s \in Buffers[d] :
            d # c \/ s \notin {lease'[t][c][k] : k \in loads'[t][c]} =>
               state'[d][s] = state[d][s] /\ holds'[d][s] = holds[d][s]
  BY DEF ClaimOutcome, OnlyWindow, Closed
<1>2. \A u \in Threads, d \in Caches : \A k \in DOMAIN lease[u][d] :
         /\ lease[u][d][k] \in Buffers[d]
         /\ state'[d][lease[u][d][k]] = state[d][lease[u][d][k]]
  BY <1>1, LeasedSlots DEF Windows
<1>3. LeasedStayReady /\ NoneBecomesReady
  <2>1. LeasedStayReady
    BY <1>2 DEF LeasedStayReady
  <2>2. ASSUME NEW d \in Caches, NEW s \in Buffers[d], state'[d][s] = "Ready"
        PROVE  state[d][s] = "Ready" /\ holds'[d][s] = holds[d][s] /\ mark'[d][s] = mark[d][s]
    BY <1>1, <2>2
  <2> QED BY <2>1, <2>2 DEF NoneBecomesReady
<1>4. StreamTypes' /\ OneWrite' /\ ReadsAreSettled' /\ ReadyIsMarked'
  BY <1>1, <1>3, RestOfStreams DEF Streams, StreamTypes
<1>5. QueuesAreOwned'
  BY QueuesStayOwned DEF OthersStand, Streams, StreamsRest, Busy, SourcePoints
<1>6. ASSUME NEW u \in Threads, u # t PROVE Progress(u)'
  BY <1>1, <1>3, <1>6, StandingProgress DEF OthersStand
<1>7. OperationsOf(t)'
  <2>1. OperationsOf(t)
    BY DEF Streams, Progress
  <2>2. ASSUME NEW d \in Caches, NEW k \in DOMAIN lease[t][d] PROVE WindowCarried(t, d, k)
    <3>1. d # c
      BY <1>1, <2>2
    <3> QED BY <1>1, <1>2, <3>1 DEF WindowCarried
  <2> QED BY <2>1, <2>2, OperationsCarried
<1>8. WindowsAreSettled(t)'
  <2>1. \A i \in Sources : CacheAt(i) \in Caches
    BY CacheIndices DEF Sources
  <2>2. \A d \in Caches : \A k : d # c => (SettledFor(t, d, k)' <=> SettledFor(t, d, k))
    BY <1>1, RestEffect DEF SettledFor, StreamsRest
  <2>3. \A i \in Sources : SourceDone(t, i)' =>
           \A k \in DOMAIN lease'[t][CacheAt(i)] : SettledFor(t, CacheAt(i), k)'
    BY <1>1, <2>1, <2>2 DEF Streams, Progress, WindowsAreSettled
  <2> QED BY <2>3 DEF WindowsAreSettled, CacheAt
<1>9. LoadsAreUnqueued(t)'
  <2>1. \A k \in loads'[t][c] : Quiet(c, lease'[t][c][k])
    BY <1>1, PendingWork
  <2>2. \A k \in loads'[t][c] : Quiet(c, lease[t][c][k])'
    BY <2>1, RestEffect
  <2>3. Source(t)' = Source(t)
    BY DEF Source
  <2>4. \A d \in Caches : (pc'[t] = "upload" /\ d = Source(t)) \/ (pc'[t] = "compute" /\ d = "contribution") => d = c
    OBVIOUS
  <2> QED BY <2>2, <2>3, <2>4 DEF LoadsAreUnqueued
<1>10. LoadsArrive(t)'
  BY DEF LoadsArrive, Computed
<1> QED BY <1>4, <1>5, <1>6, <1>7, <1>8, <1>9, <1>10 DEF Streams, Progress

LEMMA ClaimSourceStreams ==
  ASSUME Control, Windows, Streams, NEW t \in Threads, ClaimSource(t)
  PROVE  Streams'
<1>1. /\ pc[t] = "claim" /\ at' = at /\ pc' = [pc EXCEPT ![t] = "upload"] /\ frame' = frame
      /\ worker' = worker /\ UNCHANGED streamVars /\ pc \in [Threads -> Points]
  BY DEF ClaimSource, Goto, Control, ControlTypes
<1>2. PICK j \in Sources : /\ j = at[t] /\ Source(t) = CacheAt(j) /\ j \in 1..Last
                          /\ CacheAt(j) \in Caches
  BY <1>1, AtSource DEF SourcePoints
<1>3. Closed(t, CacheAt(j)) /\ ClaimOutcome(t, CacheAt(j), FALSE)
  BY <1>2, ClaimSourceWindows
<1>4. OthersStand(t) /\ StreamsRest
  BY <1>1, <1>3 DEF OthersStand, StreamsRest, streamVars, ClaimOutcome, OnlyWindow
<1>5. \A i \in Sources : SourceDone(t, i)' => SourceDone(t, i) /\ CacheAt(i) # CacheAt(j)
  <2>1. \A i \in Sources : i \in 1..Last /\ i \in Nat
    BY CacheIndices DEF Sources
  <2> QED BY <1>1, <1>2, <2>1, CacheIndices DEF SourceDone, SourcePoints, AfterSources, Computing, Computed
<1>6. info' \in [Workers -> BOOLEAN]
  BY <1>1 DEF Streams, StreamTypes, streamVars
<1> QED BY <1>1, <1>2, <1>3, <1>4, <1>5, <1>6, ClaimStreams

LEMMA ClaimContributionsStreams ==
  ASSUME Control, Windows, Streams, NEW t \in Threads, ClaimContributions(t)
  PROVE  Streams'
<1>1. /\ pc[t] = "claimContributions" /\ at' = at /\ pc' = [pc EXCEPT ![t] = "compute"]
      /\ worker' = worker /\ UNCHANGED <<queue, issued, done, mem>> /\ pc \in [Threads -> Points]
      /\ info' = [info EXCEPT ![worker[t]] = FALSE] /\ worker \in [Threads -> Workers \cup {NoWorker}]
      /\ "contribution" \in Caches
  BY DEF ClaimContributions, Goto, Control, ControlTypes, ClearedInfo, Caches
<1>2. Closed(t, "contribution") /\ ClaimOutcome(t, "contribution", TRUE)
  BY ClaimContributionsWindows
<1>3. worker[t] # NoWorker /\ \A u \in Threads \ {t} : worker[u] # worker[t]
  BY <1>1 DEF Control, WorkersAreExclusive
<1>4. info \in [Workers -> BOOLEAN]
  BY DEF Streams, StreamTypes
<1>5. OthersStand(t) /\ StreamsRest /\ info' \in [Workers -> BOOLEAN]
  <2>1. info' \in [Workers -> BOOLEAN]
    BY <1>1, <1>4
  <2>2. \A u \in Threads \ {t} : worker[u] \in Workers => info'[worker[u]] = info[worker[u]]
    BY <1>1, <1>3, <1>4
  <2>3. \A u \in Threads \ {t} : pc'[u] = pc[u] /\ at'[u] = at[u] /\ worker'[u] = worker[u]
    BY <1>1
  <2>4. \A u \in Threads \ {t} : \A c \in Caches : lease'[u][c] = lease[u][c] /\ loads'[u][c] = loads[u][c]
    BY <1>2 DEF ClaimOutcome, OnlyWindow
  <2> QED BY <1>1, <2>1, <2>2, <2>3, <2>4 DEF OthersStand, StreamsRest
<1>6. \A i \in Sources : SourceDone(t, i)' => SourceDone(t, i) /\ CacheAt(i) # "contribution"
  BY <1>1, CacheIndices DEF SourceDone, SourcePoints, AfterSources, Computing, Computed
<1> QED BY <1>1, <1>2, <1>5, <1>6, ClaimStreams

\* A call that may have queued op on stream w.
QueueGrows(w, op) ==
    /\ done' = done /\ mem' = mem /\ info' = info
    /\ issued' \in [Workers -> Nat] /\ queue' \in [Workers -> Seq(Operations)]
    /\ \A v \in Workers : issued'[v] = done'[v] + Len(queue'[v])
    /\ \A v \in Workers : v # w => issued'[v] = issued[v] /\ queue'[v] = queue[v]
    /\ issued'[w] \in {issued[w], issued[w] + 1}
    /\ op # Operation({}, {}, {}) => issued'[w] = issued[w] + 1
    /\ \A v \in Workers, n \in Nat : \A c, s, k :
          Writes(v, n, c, s, k)' <=>
             (Writes(v, n, c, s, k) \/ (v = w /\ n = issued[w] + 1 /\ <<c, s, k>> \in op.writes))
    /\ \A v \in Workers, n \in Nat : \A c, s, k :
          Reads(v, n, c, s, k)' <=>
             (Reads(v, n, c, s, k) \/ (v = w /\ n = issued[w] + 1 /\ <<c, s, k>> \in op.reads))
    /\ \A v \in Workers, n \in Nat : \A x, i :
          Waits(v, n, x, i)' <=>
             (Waits(v, n, x, i) \/ (v = w /\ n = issued[w] + 1 /\ \E e \in op.waits : e.stream = x /\ e.position >= i))

LEMMA QueueGrowth ==
  ASSUME StreamTypes, NEW w \in Workers, NEW op \in Operations,
         Enqueue(w, op) \/ (UNCHANGED streamVars /\ op = Operation({}, {}, {}))
  PROVE  QueueGrows(w, op)
<1>1. CASE Enqueue(w, op)
  <2>1. EnqueueOutcome(w, op)
    BY <1>1, EnqueueEffect
  <2>2. issued \in [Workers -> Nat]
    BY DEF StreamTypes
  <2> QED BY <2>1, <2>2 DEF EnqueueOutcome, QueueGrows
<1>2. CASE UNCHANGED streamVars /\ op = Operation({}, {}, {})
  <2>1. StreamsRest /\ info' = info
    BY <1>2 DEF StreamsRest, streamVars
  <2>2. op.writes = {} /\ op.reads = {} /\ op.waits = {}
    BY <1>2 DEF Operation
  <2>3. /\ \A v, n, c, s, k : Writes(v, n, c, s, k)' <=> Writes(v, n, c, s, k)
        /\ \A v, n, c, s, k : Reads(v, n, c, s, k)' <=> Reads(v, n, c, s, k)
        /\ \A v, n, x, i : Waits(v, n, x, i)' <=> Waits(v, n, x, i)
    BY <2>1, RestEffect
  <2>4. /\ issued' \in [Workers -> Nat] /\ queue' \in [Workers -> Seq(Operations)]
        /\ \A v \in Workers : issued'[v] = done'[v] + Len(queue'[v])
        /\ issued' = issued /\ queue' = queue /\ done' = done /\ mem' = mem
    BY <2>1 DEF StreamTypes, StreamsRest
  <2> QED BY <1>2, <2>1, <2>2, <2>3, <2>4 DEF QueueGrows
<1> QED BY <1>1, <1>2

\* What t may queue: it fills loads nothing is queued for, and reads what its
\* stream has behind it.
MayFill(t, c, s, k) == k \in loads[t][c] /\ s = lease[t][c][k] /\ Quiet(c, s)
MayRead(t, c, s, k) ==
    /\ k \in DOMAIN lease[t][c] /\ s = lease[t][c][k] /\ SettledFor(t, c, k)
    /\ (c = "contribution" /\ k \in loads[t][c]) \/ state[c][s] = "Ready"
    /\ c = "contribution" => pc'[t] \in {"sync", "drain"}
OwnOperation(t, op) ==
    /\ \A c \in Caches, s \in Slots, k \in Keys : <<c, s, k>> \in op.writes => MayFill(t, c, s, k)
    /\ \A c \in Caches, s \in Slots, k \in Keys : <<c, s, k>> \in op.reads => MayRead(t, c, s, k)
    /\ \A c, d \in Caches, r, s \in Slots, k, m \in Keys :
          <<c, s, k>> \in op.reads /\ <<d, r, m>> \in op.writes => c # "contribution" /\ d = "contribution"

Grows(t, w, op) ==
    /\ w \in Workers /\ worker[t] = w /\ QueueGrows(w, op) /\ OwnOperation(t, op)
    /\ UNCHANGED cacheVars /\ worker' = worker
    /\ \A u \in Threads \ {t} : pc'[u] = pc[u] /\ at'[u] = at[u]
    /\ pc[t] \in Busy \ {"sync", "drain"} /\ pc'[t] \in Busy \ {"upload", "compute"}

\* Only t is concerned with the slots t fills.
LEMMA FreshWrites ==
  ASSUME Windows, NEW t \in Threads, NEW op, OwnOperation(t, op),
         NEW c \in Caches, NEW s \in Slots, NEW k \in Keys, <<c, s, k>> \in op.writes
  PROVE  /\ k \in loads[t][c] /\ s = lease[t][c][k] /\ Quiet(c, s) /\ state[c][s] = "Loading"
         /\ s \in Buffers[c]
         /\ \A u \in Threads : \A j \in loads[u][c] : lease[u][c][j] = s => u = t /\ j = k
<1>1. k \in loads[t][c] /\ s = lease[t][c][k] /\ Quiet(c, s)
  BY DEF OwnOperation, MayFill
<1>2. state[c][s] = "Loading"
  BY <1>1 DEF Windows, SlotsFollowTheirWindows, WindowIsSound
<1>3. s \in Buffers[c] /\ \A j \in loads[t][c] : lease[t][c][j] = s => j = k
  BY <1>1, LeasedSlots DEF Windows
<1>4. \A u \in Threads : \A j \in loads[u][c] : lease[u][c][j] = s => u = t
  BY <1>1 DEF Windows, SlotsFollowTheirWindows, OneProducer
<1> QED BY <1>1, <1>2, <1>3, <1>4

\* A slot not written by op is as settled as before, and stays so later on.
LEMMA SettledGrows ==
  ASSUME NEW w \in Workers, NEW op, QueueGrows(w, op),
         NEW v \in Workers, NEW n \in Nat, NEW m \in Nat, n <= m,
         NEW c, NEW s, NEW k,
         \A j \in Keys : <<c, s, j>> \notin op.writes, Settled(v, n, c, s, k)
  PROVE  Settled(v, m, c, s, k)'
<1>1. \A x \in Workers, i \in Nat, j \in Keys : Writes(x, i, c, s, j)' <=> Writes(x, i, c, s, j)
  BY DEF QueueGrows
<1>2. \A x \in Workers, h \in Nat, i \in Nat : Waits(v, h, x, i) => Waits(v, h, x, i)'
  BY DEF QueueGrows
<1>3. Quiet(c, s)' => Quiet(c, s)
  BY <1>1 DEF Quiet
<1>4. mem'[c][s] = mem[c][s]
  BY DEF QueueGrows
<1>5. ASSUME NEW x \in Workers, NEW i \in Nat, NEW j \in Keys, Writes(x, i, c, s, j)
      PROVE  /\ j = k
             /\ (x = v /\ i < m) \/ \E h \in Nat : h < m /\ Waits(v, h, x, i)'
  BY <1>2, <1>5 DEF Settled
<1> QED BY <1>1, <1>3, <1>4, <1>5 DEF Settled

LEMMA PositionsAreIssued ==
  ASSUME StreamTypes, NEW v \in Workers, NEW i \in Nat, NEW c, NEW s, NEW k,
         Writes(v, i, c, s, k) \/ Reads(v, i, c, s, k)
  PROVE  done[v] < i /\ i <= issued[v] /\ i # issued[v] + 1
BY DEF StreamTypes, Writes, Reads, Live

\* What was queued before reads nothing that op writes.
LEMMA NothingReadIsFilled ==
  ASSUME Control, Windows, Streams, NEW t \in Threads, NEW w, NEW op, Grows(t, w, op),
         NEW v \in Workers, NEW n \in Nat, NEW c \in Caches, NEW s \in Slots, NEW k \in Keys,
         Reads(v, n, c, s, k)
  PROVE  \A j \in Keys : <<c, s, j>> \notin op.writes
<1>1. PICK u \in Threads : worker[u] = v
  BY PendingWork
<1>2. /\ k \in DOMAIN lease[u][c] /\ s = lease[u][c][k]
      /\ (c = "contribution" /\ k \in loads[u][c]) \/ state[c][s] = "Ready"
      /\ c = "contribution" => pc[u] \in {"sync", "drain"}
  BY <1>1 DEF Streams, Progress, OperationsOf
<1> SUFFICES ASSUME NEW j \in Keys, <<c, s, j>> \in op.writes PROVE FALSE
  OBVIOUS
<1>3. OwnOperation(t, op) /\ pc[t] \notin {"sync", "drain"}
  BY DEF Grows
<1>4. /\ state[c][s] = "Loading"
      /\ \A x \in Threads : \A i \in loads[x][c] : lease[x][c][i] = s => x = t
  BY <1>3, FreshWrites
<1> QED BY <1>2, <1>3, <1>4

LEMMA GrowingQueues ==
  ASSUME Control, Windows, Streams, NEW t \in Threads, NEW w, NEW op, Grows(t, w, op)
  PROVE  StreamTypes' /\ QueuesAreOwned' /\ OneWrite' /\ ReadsAreSettled' /\ ReadyIsMarked'
<1>1. /\ w \in Workers /\ worker[t] = w /\ QueueGrows(w, op) /\ OwnOperation(t, op)
      /\ UNCHANGED cacheVars /\ worker' = worker
      /\ \A u \in Threads \ {t} : pc'[u] = pc[u] /\ at'[u] = at[u]
      /\ pc[t] \in Busy \ {"sync", "drain"} /\ pc'[t] \in Busy
  BY DEF Grows
<1>2. StreamTypes /\ issued[w] \in Nat /\ issued[w] + 1 \in Nat
  BY <1>1 DEF Streams, StreamTypes
<1>3. /\ \A v \in Workers, n \in Nat : \A c, s, k :
            Writes(v, n, c, s, k)' <=>
               (Writes(v, n, c, s, k) \/ (v = w /\ n = issued[w] + 1 /\ <<c, s, k>> \in op.writes))
      /\ \A v \in Workers, n \in Nat : \A c, s, k :
            Reads(v, n, c, s, k)' <=>
               (Reads(v, n, c, s, k) \/ (v = w /\ n = issued[w] + 1 /\ <<c, s, k>> \in op.reads))
  BY <1>1 DEF QueueGrows
<1>4. StreamTypes'
  BY <1>1, <1>2 DEF QueueGrows, StreamTypes, cacheVars
<1>5. QueuesAreOwned'
  BY <1>1, QueuesStayOwned DEF QueueGrows, Streams
<1>6. OneWrite'
  <2> SUFFICES ASSUME NEW v \in Workers, NEW x \in Workers, NEW i \in Nat, NEW j \in Nat, NEW c \in Caches,
                      NEW s \in Slots, NEW k \in Keys, NEW m \in Keys,
                      Writes(v, i, c, s, k)', Writes(x, j, c, s, m)'
               PROVE  v = x /\ i = j /\ k = m
    BY DEF OneWrite, Slots
  <2>1. CASE Writes(v, i, c, s, k) /\ Writes(x, j, c, s, m)
    BY <2>1 DEF Streams, OneWrite
  <2>2. ASSUME <<c, s, k>> \in op.writes \/ <<c, s, m>> \in op.writes
        PROVE  ~Writes(v, i, c, s, k) /\ ~Writes(x, j, c, s, m)
    BY <1>1, <2>2, FreshWrites DEF Quiet
  <2>3. CASE <<c, s, k>> \in op.writes /\ <<c, s, m>> \in op.writes
    <3>1. k = m
      BY <1>1, <2>3, FreshWrites
    <3> QED BY <1>3, <2>2, <2>3, <3>1
  <2> QED BY <1>3, <2>1, <2>2, <2>3
<1>7. ReadsAreSettled'
  <2> SUFFICES ASSUME NEW v \in Workers, NEW n \in Nat, NEW c \in Caches, NEW s \in Slots, NEW k \in Keys,
                      Reads(v, n, c, s, k)'
               PROVE  Settled(v, n, c, s, k)'
    BY DEF ReadsAreSettled, Slots
  <2>1. CASE Reads(v, n, c, s, k)
    <3>1. \A j \in Keys : <<c, s, j>> \notin op.writes
      BY <2>1, NothingReadIsFilled
    <3>2. Settled(v, n, c, s, k)
      BY <2>1 DEF Streams, ReadsAreSettled
    <3> QED BY <1>1, <3>1, <3>2, SettledGrows
  <2>2. CASE v = w /\ n = issued[w] + 1 /\ <<c, s, k>> \in op.reads
    <3>0. s = lease[t][c][k] /\ SettledFor(t, c, k)
      BY <1>1, <2>2 DEF OwnOperation, MayRead
    <3>1. Settled(w, issued[w] + 1, c, s, k)
      BY <1>1, <3>0 DEF SettledFor
    <3>2. \A j \in Keys : <<c, s, j>> \notin op.writes
      BY <1>1, <2>2 DEF OwnOperation
    <3> QED BY <1>1, <1>2, <2>2, <3>1, <3>2, SettledGrows
  <2> QED BY <1>3, <2>1, <2>2
<1>8. ReadyIsMarked'
  <2> SUFFICES ASSUME NEW c \in Caches, NEW s \in Buffers[c], state'[c][s] = "Ready"
               PROVE  (/\ \A v \in Workers, i \in Nat, m \in Keys : Writes(v, i, c, s, m) =>
                             /\ m = holds[c][s]
                             /\ mark[c][s].stream = v /\ mark[c][s].position >= i
                             /\ \A d \in Caches, r \in Slots, j \in Keys : ~Reads(v, i, d, r, j)
                       /\ Quiet(c, s) => Holds(c, s, holds[c][s]))'
    BY DEF ReadyIsMarked
  <2>1. state[c][s] = "Ready" /\ holds'[c][s] = holds[c][s] /\ mark'[c][s] = mark[c][s] /\ mem'[c][s] = mem[c][s]
    BY <1>1 DEF cacheVars, QueueGrows
  <2>2. s \in Slots /\ \A m \in Keys : <<c, s, m>> \notin op.writes
    BY <1>1, <2>1, FreshWrites DEF Slots
  <2>3. \A v \in Workers, i \in Nat, m \in Keys : Writes(v, i, c, s, m)' <=> Writes(v, i, c, s, m)
    BY <1>3, <2>2
  <2>4. Quiet(c, s)' => Holds(c, s, holds[c][s])'
    <3>1. Quiet(c, s)' => Quiet(c, s)
      BY <2>3 DEF Quiet
    <3> QED BY <2>1, <3>1 DEF Streams, ReadyIsMarked, Holds
  <2>5. ASSUME NEW v \in Workers, NEW i \in Nat, NEW m \in Keys, Writes(v, i, c, s, m)
        PROVE  /\ m = holds[c][s] /\ mark[c][s].stream = v /\ mark[c][s].position >= i
               /\ \A d \in Caches, r \in Slots, j \in Keys : ~Reads(v, i, d, r, j)'
    <3>1. i # issued[v] + 1
      BY <1>2, <2>5, PositionsAreIssued
    <3>2. /\ m = holds[c][s] /\ mark[c][s].stream = v /\ mark[c][s].position >= i
          /\ \A d \in Caches, r \in Slots, j \in Keys : ~Reads(v, i, d, r, j)
      BY <2>1, <2>5 DEF Streams, ReadyIsMarked
    <3> QED BY <1>3, <3>1, <3>2
  <2> QED BY <2>1, <2>3, <2>4, <2>5
<1> QED BY <1>4, <1>5, <1>6, <1>7, <1>8

\* Whatever op writes, another render has nothing settled or loading there.
LEMMA GrowingProgress ==
  ASSUME Control, Windows, Streams, NEW t \in Threads, NEW w, NEW op, Grows(t, w, op),
         NEW u \in Threads, u # t
  PROVE  Progress(u)'
<1>1. /\ w \in Workers /\ worker[t] = w /\ QueueGrows(w, op) /\ OwnOperation(t, op)
      /\ UNCHANGED cacheVars /\ worker' = worker /\ pc'[u] = pc[u] /\ at'[u] = at[u]
  BY DEF Grows
<1>2. StreamTypes /\ Progress(u)
  BY DEF Streams
<1>3. worker[u] # w
  BY <1>1, NoWorkerAssumption DEF Control, WorkersAreExclusive
<1>4. /\ lease' = lease /\ loads' = loads /\ state' = state /\ mem' = mem /\ info' = info
      /\ Source(u)' = Source(u)
  BY <1>1 DEF cacheVars, QueueGrows, Source
<1>5. /\ \A v \in Workers, n \in Nat : \A c, s, k :
            Writes(v, n, c, s, k)' <=>
               (Writes(v, n, c, s, k) \/ (v = w /\ n = issued[w] + 1 /\ <<c, s, k>> \in op.writes))
      /\ \A v \in Workers, n \in Nat : \A c, s, k :
            Reads(v, n, c, s, k)' <=>
               (Reads(v, n, c, s, k) \/ (v = w /\ n = issued[w] + 1 /\ <<c, s, k>> \in op.reads))
  BY <1>1 DEF QueueGrows
<1>6. ASSUME NEW c \in Caches, NEW k \in DOMAIN lease[u][c],
             k \in loads[u][c] \/ state[c][lease[u][c][k]] = "Ready"
      PROVE  /\ lease[u][c][k] \in Buffers[c] /\ lease[u][c][k] \in Slots
             /\ \A j \in Keys : <<c, lease[u][c][k], j>> \notin op.writes
  <2>1. lease[u][c][k] \in Buffers[c] /\ lease[u][c][k] \in Slots
    BY LeasedSlots DEF Windows, Slots
  <2> QED BY <1>1, <1>6, <2>1, FreshWrites
<1>7. OperationsOf(u)'
  <2>1. CASE worker[u] \in Workers
    <3>1. PICK v \in Workers : v = worker[u]
      BY <2>1
    <3>2. \A n \in Nat : \A c, s, k :
             /\ Writes(v, n, c, s, k)' <=> Writes(v, n, c, s, k)
             /\ Reads(v, n, c, s, k)' <=> Reads(v, n, c, s, k)
      BY <1>3, <1>5, <3>1
    <3> QED BY <1>1, <1>2, <1>4, <3>1, <3>2 DEF Progress, OperationsOf
  <2> QED BY <1>1, <2>1 DEF OperationsOf
<1>8. ASSUME NEW c \in Caches, NEW k \in DOMAIN lease[u][c], SettledFor(u, c, k), worker[u] \in Workers,
             k \in loads[u][c] \/ state[c][lease[u][c][k]] = "Ready"
      PROVE  SettledFor(u, c, k)'
  <2>1. PICK v \in Workers : v = worker[u] /\ v # w
    BY <1>3, <1>8
  <2>0. issued[v] \in Nat /\ issued'[v] = issued[v]
    BY <1>1, <1>2, <2>1 DEF QueueGrows, StreamTypes
  <2>2. PICK n \in Nat : n = issued[v] + 1 /\ n = issued'[v] + 1
    BY <2>0
  <2>3. Settled(v, n, c, lease[u][c][k], k)
    BY <1>8, <2>1, <2>2 DEF SettledFor
  <2>4. Settled(v, n, c, lease[u][c][k], k)'
    BY <1>1, <1>4, <1>6, <1>8, <2>2, <2>3, SettledGrows
  <2> QED BY <1>1, <1>4, <2>1, <2>2, <2>4 DEF SettledFor
<1>9. WindowsAreSettled(u)'
  <2>1. SourceDone(u, Len(SourceCaches)) \/ pc[u] \in SourcePoints \cup AfterSources => worker[u] \in Workers
    BY DEF Control, ControlTypes, WorkersAreExclusive, SourceDone, SourcePoints, AfterSources, Computing, Computed
  <2>2. ASSUME NEW i \in Sources, SourceDone(u, i)', NEW k \in DOMAIN lease[u][CacheAt(i)]
        PROVE  SettledFor(u, CacheAt(i), k)'
    <3>1. SourceDone(u, i) /\ worker[u] \in Workers
      BY <1>1, <2>1, <2>2 DEF SourceDone
    <3>2. CacheAt(i) \in Caches /\ CacheAt(i) # "contribution" /\ i \in 1..Last
      BY CacheIndices DEF Sources
    <3>3. loads[u][CacheAt(i)] = {}
      BY <3>1, <3>2 DEF Windows, PathOf, MustBeLoaded
    <3>4. state[CacheAt(i)][lease[u][CacheAt(i)][k]] = "Ready"
      BY <3>2, <3>3 DEF Windows, SlotsFollowTheirWindows, WindowIsSound
    <3>5. SettledFor(u, CacheAt(i), k)
      BY <1>2, <3>1 DEF Progress, WindowsAreSettled
    <3> QED BY <1>8, <3>1, <3>2, <3>4, <3>5
  <2>3. "contribution" \in Caches /\ loads[u]["contribution"] \subseteq DOMAIN lease[u]["contribution"]
    BY LeasedSlots DEF Windows, Caches
  <2>4. ASSUME pc'[u] \in {"waitHits", "normalize"}, NEW k \in loads[u]["contribution"]
        PROVE  SettledFor(u, "contribution", k)'
    BY <1>1, <1>2, <1>8, <2>1, <2>3, <2>4 DEF Progress, WindowsAreSettled, AfterSources, Computing, Computed
  <2>5. ASSUME pc'[u] = "normalize", NEW k \in DOMAIN lease[u]["contribution"] \ loads[u]["contribution"]
        PROVE  SettledFor(u, "contribution", k)' /\ state["contribution"][lease[u]["contribution"][k]] = "Ready"
    BY <1>1, <1>2, <1>8, <2>1, <2>3, <2>5 DEF Progress, WindowsAreSettled, AfterSources, Computing, Computed
  <2> QED BY <1>4, <2>2, <2>4, <2>5 DEF WindowsAreSettled, CacheAt
<1>10. ASSUME NEW c \in Caches, NEW k \in loads[u][c]
       PROVE  Quiet(c, lease[u][c][k])' <=> Quiet(c, lease[u][c][k])
  <2>1. k \in DOMAIN lease[u][c]
    BY LeasedSlots DEF Windows
  <2>2. PICK s : s = lease[u][c][k] /\ s = lease'[u][c][k]
    BY <1>4
  <2>3. \A v \in Workers, i \in Nat, m \in Keys : Writes(v, i, c, s, m)' <=> Writes(v, i, c, s, m)
    BY <1>5, <1>6, <2>1, <2>2
  <2>4. Quiet(c, s)' <=> Quiet(c, s)
    BY <2>3 DEF Quiet
  <2> QED BY <2>2, <2>4
<1>11. LoadsAreUnqueued(u)'
  BY <1>1, <1>2, <1>4, <1>10 DEF Progress, LoadsAreUnqueued
<1>12. LoadsArrive(u)'
  <2>1. pc[u] = "publish" => Source(u) \in Caches
    BY AtSource DEF SourcePoints
  <2>2. "contribution" \in Caches
    BY DEF Caches
  <2>3. \A c, s, k : Holds(c, s, k)' <=> Holds(c, s, k)
    BY <1>4 DEF Holds
  <2> QED BY <1>1, <1>2, <1>4, <1>10, <2>1, <2>2, <2>3 DEF Progress, LoadsArrive
<1> QED BY <1>7, <1>9, <1>11, <1>12 DEF Progress

LEMMA GrowingOwn ==
  ASSUME Control, Windows, Streams, NEW t \in Threads, NEW w, NEW op, Grows(t, w, op)
  PROVE  OperationsOf(t)' /\ LoadsAreUnqueued(t)'
<1>1. /\ w \in Workers /\ worker[t] = w /\ QueueGrows(w, op) /\ OwnOperation(t, op)
      /\ lease' = lease /\ loads' = loads /\ state' = state /\ worker' = worker
      /\ pc[t] \notin {"sync", "drain"} /\ pc'[t] \notin {"upload", "compute"}
  BY DEF Grows, cacheVars
<1>2. StreamTypes /\ OperationsOf(t)
  BY DEF Streams, Progress
<1>3. ASSUME NEW n \in Nat, NEW c \in Caches, NEW s \in Slots, NEW k \in Keys, Writes(w, n, c, s, k)'
      PROVE  /\ k \in DOMAIN lease[t][c] /\ s = lease[t][c][k]
             /\ k \in loads[t][c] \/ state[c][s] = "Ready"
  <2>1. CASE Writes(w, n, c, s, k)
    BY <1>1, <1>2, <2>1 DEF OperationsOf
  <2>2. CASE <<c, s, k>> \in op.writes
    BY <1>1, <2>2, LeasedSlots DEF OwnOperation, MayFill, Windows
  <2> QED BY <1>1, <1>3, <2>1, <2>2 DEF QueueGrows
<1>4. ASSUME NEW n \in Nat, NEW c \in Caches, NEW s \in Slots, NEW k \in Keys, Reads(w, n, c, s, k)'
      PROVE  /\ k \in DOMAIN lease[t][c] /\ s = lease[t][c][k]
             /\ (c = "contribution" /\ k \in loads[t][c]) \/ state[c][s] = "Ready"
             /\ c = "contribution" => pc'[t] \in {"sync", "drain"}
             /\ \A d \in Caches, r \in Slots, m \in Keys :
                   Writes(w, n, d, r, m)' => c # "contribution" /\ d = "contribution"
  <2>1. CASE Reads(w, n, c, s, k)
    <3>1. n # issued[w] + 1
      BY <1>1, <1>2, <2>1, PositionsAreIssued
    <3>2. \A d, r, m : Writes(w, n, d, r, m)' <=> Writes(w, n, d, r, m)
      BY <1>1, <3>1 DEF QueueGrows
    <3> QED BY <1>1, <1>2, <2>1, <3>2 DEF OperationsOf
  <2>2. CASE n = issued[w] + 1 /\ <<c, s, k>> \in op.reads
    <3>1. \A d, r, m : Writes(w, n, d, r, m)' => <<d, r, m>> \in op.writes
      BY <1>1, <1>2, <2>2, PositionsAreIssued DEF QueueGrows
    <3>2. MayRead(t, c, s, k)
      BY <1>1, <2>2 DEF OwnOperation
    <3>3. \A d \in Caches, r \in Slots, m \in Keys :
             <<d, r, m>> \in op.writes => c # "contribution" /\ d = "contribution"
      BY <1>1, <2>2 DEF OwnOperation
    <3> QED BY <3>1, <3>2, <3>3 DEF MayRead
  <2> QED BY <1>1, <1>4, <2>1, <2>2 DEF QueueGrows
<1>5. OperationsOf(t)'
  BY <1>1, <1>3, <1>4 DEF OperationsOf, Slots
<1> QED BY <1>1, <1>5 DEF LoadsAreUnqueued

LEMMA GrowingStreams ==
  ASSUME Control, Windows, Streams, NEW t \in Threads, NEW w, NEW op, Grows(t, w, op),
         WindowsAreSettled(t)', LoadsArrive(t)'
  PROVE  Streams'
<1>1. StreamTypes' /\ QueuesAreOwned' /\ OneWrite' /\ ReadsAreSettled' /\ ReadyIsMarked'
  BY GrowingQueues
<1>2. \A u \in Threads \ {t} : Progress(u)'
  BY GrowingProgress
<1>3. Progress(t)'
  BY GrowingOwn DEF Progress
<1> QED BY <1>1, <1>2, <1>3 DEF Streams

\* What t may count on after it has queued op: what it could before, what op
\* waits for and what op fills.
LEMMA StaysSettled ==
  ASSUME Streams, NEW t \in Threads, NEW w, NEW op, Grows(t, w, op), NEW c \in Caches, NEW k,
         SettledFor(t, c, k), \A j \in Keys : <<c, lease[t][c][k], j>> \notin op.writes
  PROVE  SettledFor(t, c, k)'
<1>1. /\ w \in Workers /\ worker[t] = w /\ worker'[t] = w /\ QueueGrows(w, op) /\ lease' = lease
  BY DEF Grows, cacheVars
<1>2. issued[w] \in Nat
  BY <1>1 DEF Streams, StreamTypes
<1>3. PICK n \in Nat, m \in Nat : n = issued[w] + 1 /\ m = issued'[w] + 1 /\ n <= m
  BY <1>1, <1>2 DEF QueueGrows
<1>4. Settled(w, n, c, lease[t][c][k], k)
  BY <1>1, <1>3 DEF SettledFor
<1>5. Settled(w, m, c, lease[t][c][k], k)'
  BY <1>1, <1>3, <1>4, SettledGrows
<1> QED BY <1>1, <1>3, <1>5 DEF SettledFor

LEMMA AwaitedIsSettled ==
  ASSUME Windows, Streams, NEW t \in Threads, NEW w, NEW op, Grows(t, w, op), NEW c \in Caches,
         NEW k \in DOMAIN lease[t][c], state[c][lease[t][c][k]] = "Ready",
         mark[c][lease[t][c][k]] \in op.waits
  PROVE  SettledFor(t, c, k)'
<1>1. /\ w \in Workers /\ worker[t] = w /\ worker'[t] = w /\ QueueGrows(w, op) /\ lease' = lease
      /\ OwnOperation(t, op)
  BY DEF Grows, cacheVars
<1>2. PICK s : s = lease[t][c][k] /\ s \in Buffers[c] /\ s \in Slots
  BY LeasedSlots DEF Windows, Slots
<1>3. \A j \in Keys : <<c, s, j>> \notin op.writes
  BY <1>1, <1>2, FreshWrites
<1>4. issued[w] \in Nat /\ issued'[w] = issued[w] + 1
  <2>1. op # Operation({}, {}, {})
    BY DEF Operation
  <2> QED BY <1>1, <2>1 DEF Streams, StreamTypes, QueueGrows
<1>5. PICK h \in Nat : h = issued[w] + 1 /\ h < issued'[w] + 1
  BY <1>4
<1>6. holds[c][s] = k
  BY <1>2 DEF Windows, SlotsFollowTheirWindows, WindowIsSound
<1>7. ASSUME NEW v \in Workers, NEW i \in Nat, NEW m \in Keys, Writes(v, i, c, s, m)'
      PROVE  m = k /\ Waits(w, h, v, i)'
  <2>1. Writes(v, i, c, s, m)
    BY <1>1, <1>3, <1>7 DEF QueueGrows
  <2>2. m = k /\ mark[c][s].stream = v /\ mark[c][s].position >= i
    BY <1>2, <1>6, <2>1 DEF Streams, ReadyIsMarked
  <2> QED BY <1>1, <1>2, <1>5, <2>2 DEF QueueGrows
<1>8. Quiet(c, s)' => mem'[c][s].key = k
  <2>1. Quiet(c, s)' => Quiet(c, s)
    BY <1>1, <1>3 DEF QueueGrows, Quiet
  <2>2. mem' = mem
    BY <1>1 DEF QueueGrows
  <2>3. state[c][s] = "Ready"
    BY <1>2
  <2>4. Quiet(c, s) => Holds(c, s, k)
    BY <1>2, <1>6, <2>3 DEF Streams, ReadyIsMarked
  <2> QED BY <2>1, <2>2, <2>4 DEF Holds
<1>9. PICK m \in Nat : m = issued'[w] + 1 /\ h < m
  BY <1>4, <1>5
<1>10. Settled(w, m, c, s, k)'
  BY <1>7, <1>8, <1>9 DEF Settled
<1> QED BY <1>1, <1>2, <1>9, <1>10 DEF SettledFor

LEMMA FilledIsSettled ==
  ASSUME Windows, Streams, NEW t \in Threads, NEW w, NEW op, Grows(t, w, op),
         NEW c \in Caches, NEW k \in Keys, lease[t][c][k] \in Slots,
         <<c, lease[t][c][k], k>> \in op.writes
  PROVE  SettledFor(t, c, k)' /\ ~Quiet(c, lease[t][c][k])'
<1>1. /\ w \in Workers /\ worker[t] = w /\ worker'[t] = w /\ QueueGrows(w, op) /\ lease' = lease
      /\ OwnOperation(t, op)
  BY DEF Grows, cacheVars
<1>2. PICK s \in Slots : s = lease[t][c][k]
  OBVIOUS
<1>3. issued[w] \in Nat /\ issued'[w] = issued[w] + 1
  <2>1. op # Operation({}, {}, {})
    BY DEF Operation
  <2> QED BY <1>1, <2>1 DEF Streams, StreamTypes, QueueGrows
<1>4. PICK n \in Nat, m \in Nat : n = issued[w] + 1 /\ m = issued'[w] + 1 /\ n < m
  <2>1. issued[w] + 1 \in Nat /\ issued'[w] + 1 \in Nat /\ issued[w] + 1 < issued'[w] + 1
    BY <1>3
  <2> QED BY <2>1
<1>5. Writes(w, n, c, s, k)'
  BY <1>1, <1>2, <1>4 DEF QueueGrows
<1>6. ASSUME NEW v \in Workers, NEW i \in Nat, NEW j \in Keys, Writes(v, i, c, s, j)'
      PROVE  j = k /\ v = w /\ i = n
  <2>1. ~Writes(v, i, c, s, j)
    BY <1>1, <1>2, FreshWrites DEF Quiet
  <2>2. v = w /\ i = n /\ <<c, s, j>> \in op.writes
    BY <1>1, <1>4, <1>6, <2>1 DEF QueueGrows
  <2> QED BY <1>1, <1>2, <2>2, FreshWrites
<1>7. ~Quiet(c, s)'
  BY <1>1, <1>5 DEF Quiet
<1>8. Settled(w, m, c, s, k)'
  BY <1>4, <1>6, <1>7 DEF Settled
<1> QED BY <1>1, <1>2, <1>4, <1>7, <1>8 DEF SettledFor

LEMMA SourcesStaySettled ==
  ASSUME Control, Windows, Streams, NEW t \in Threads, NEW w, NEW op, Grows(t, w, op),
         NEW i \in Sources, SourceDone(t, i), NEW k \in DOMAIN lease[t][CacheAt(i)]
  PROVE  SettledFor(t, CacheAt(i), k)'
<1>1. CacheAt(i) \in Caches /\ CacheAt(i) # "contribution" /\ i \in 1..Last
  BY CacheIndices DEF Sources
<1>2. loads[t][CacheAt(i)] = {}
  BY <1>1 DEF Windows, PathOf, MustBeLoaded
<1>3. state[CacheAt(i)][lease[t][CacheAt(i)][k]] = "Ready"
  BY <1>1, <1>2 DEF Windows, SlotsFollowTheirWindows, WindowIsSound
<1>4. lease[t][CacheAt(i)][k] \in Slots
  BY <1>1, LeasedSlots DEF Windows, Slots
<1>5. \A j \in Keys : <<CacheAt(i), lease[t][CacheAt(i)][k], j>> \notin op.writes
  BY <1>1, <1>3, <1>4, FreshWrites DEF Grows
<1>6. SettledFor(t, CacheAt(i), k)
  BY DEF Streams, Progress, WindowsAreSettled
<1> QED BY <1>1, <1>5, <1>6, StaysSettled

\* Where op writes nothing, loads stay what they were.
LEMMA UntouchedLoads ==
  ASSUME NEW t \in Threads, NEW w, NEW op, Grows(t, w, op), op.writes = {}, NEW c, NEW s
  PROVE  (Quiet(c, s)' => Quiet(c, s)) /\ \A k : Holds(c, s, k)' <=> Holds(c, s, k)
BY DEF Grows, QueueGrows, Quiet, Holds

LEMMA PiecesOfWindow ==
  ASSUME Control, Windows, NEW t \in Threads, NEW c \in Caches, NEW K, K \subseteq DOMAIN lease[t][c]
  PROVE  /\ Pieces(t, c, K) \subseteq Caches \X Slots \X Keys
         /\ \A d, s, k : <<d, s, k>> \in Pieces(t, c, K) <=> d = c /\ k \in K /\ s = lease[t][c][k]
<1>1. DOMAIN lease[t][c] \subseteq Keys
  <2>1. frame[t] \in Keys
    BY DEF Control, ControlTypes
  <2>2. CASE Closed(t, c)
    BY <2>2 DEF Closed
  <2>3. CASE Open(t, c)
    BY <2>1, <2>3, KeysAreFrames DEF Open
  <2> QED BY <2>2, <2>3 DEF Windows, SlotsFollowTheirWindows, WindowIsSound
<1>2. \A k \in K : lease[t][c][k] \in Slots
  BY LeasedSlots DEF Windows, Slots
<1> QED BY <1>1, <1>2 DEF Pieces

LEMMA PiecesOfSources ==
  ASSUME Control, Windows, NEW t \in Threads, NEW A, A \subseteq KeysFor("contribution", frame[t]),
         \A c \in Range(SourceCaches) : Open(t, c)
  PROVE  /\ SourcePieces(t, A) \subseteq Caches \X Slots \X Keys
         /\ A = {} => SourcePieces(t, A) = {}
         /\ \A c, s, k : <<c, s, k>> \in SourcePieces(t, A) =>
               c \in Range(SourceCaches) /\ k \in DOMAIN lease[t][c] /\ s = lease[t][c][k]
<1> DEFINE K == UNION {Span(AnchorSourceRange(p, a)) : a \in A}
<1>1. SourcePieces(t, A) = UNION {Pieces(t, c, K) : c \in Range(SourceCaches)}
  BY DEF SourcePieces
<1>2. A = {} => K = {}
  OBVIOUS
<1>3. \A c \in Range(SourceCaches) : K \subseteq DOMAIN lease[t][c]
  <2>1. frame[t] \in Keys
    BY DEF Control, ControlTypes
  <2> QED BY <2>1, KeysAreFrames DEF Open
<1> HIDE DEF K
<1>4. \A c \in Range(SourceCaches) :
         /\ Pieces(t, c, K) \subseteq Caches \X Slots \X Keys
         /\ \A d, s, k : <<d, s, k>> \in Pieces(t, c, K) <=> d = c /\ k \in K /\ s = lease[t][c][k]
  BY <1>3, PiecesOfWindow DEF Caches
<1>5. K = {} => \A c \in Range(SourceCaches) : Pieces(t, c, K) = {}
  BY DEF Pieces
<1> QED BY <1>1, <1>2, <1>3, <1>4, <1>5

\* The calls of render_frame that queue work.
LEMMA UploadStreams ==
  ASSUME Control, Windows, Streams, NEW t \in Threads, Upload(t) \/ UploadFails(t)
  PROVE  Streams'
<1>1. /\ pc[t] = "upload" /\ UNCHANGED cacheVars /\ worker' = worker
      /\ \A u \in Threads \ {t} : pc'[u] = pc[u] /\ at'[u] = at[u]
      /\ (pc'[t] = "publish" /\ Upload(t)) \/ (pc'[t] = "drain" /\ UploadFails(t))
      /\ at' = at
  BY DEF Upload, UploadFails, Goto, Fault, Control, ControlTypes
<1>2. PICK j \in Sources : /\ j = at[t] /\ Source(t) = CacheAt(j) /\ j \in 1..Last
                          /\ CacheAt(j) \in Caches /\ CacheAt(j) # "contribution"
  BY <1>1, AtSource DEF SourcePoints
<1>3. PICK c \in Caches : c = CacheAt(j) /\ c = Source(t)
  BY <1>2
<1>4. PICK K \in SUBSET loads[t][c] :
         /\ IF K = {} THEN UNCHANGED streamVars
            ELSE Enqueue(worker[t], Operation({}, {}, Pieces(t, c, K)))
         /\ pc'[t] = "publish" => K = loads[t][c]
  BY <1>1, <1>3 DEF Upload, UploadFails
<1>5. PICK w \in Workers : w = worker[t]
  BY <1>1 DEF Control, ControlTypes, WorkersAreExclusive
<1>6. PICK op : op = Operation({}, {}, Pieces(t, c, K))
  OBVIOUS
<1>7. op.reads = {} /\ op.waits = {} /\ op.writes = Pieces(t, c, K)
  BY <1>6 DEF Operation
<1>8. K \subseteq DOMAIN lease[t][c]
  BY LeasedSlots DEF Windows
<1>9. /\ op.writes \subseteq Caches \X Slots \X Keys
      /\ \A d, s, k : <<d, s, k>> \in op.writes <=> d = c /\ k \in K /\ s = lease[t][c][k]
  BY <1>7, <1>8, PiecesOfWindow
<1>10. op \in Operations
  BY <1>6, <1>7, <1>9 DEF Operation, Operations
<1>11. QueueGrows(w, op)
  <2>1. K = {} => op = Operation({}, {}, {})
    BY <1>6 DEF Pieces
  <2>2. Enqueue(w, op) \/ (UNCHANGED streamVars /\ op = Operation({}, {}, {}))
    BY <1>4, <1>5, <1>6, <2>1
  <2> QED BY <1>10, <2>2, QueueGrowth DEF Streams
<1>12. OwnOperation(t, op)
  <2>1. \A k \in loads[t][c] : Quiet(c, lease[t][c][k])
    BY <1>1, <1>3 DEF Streams, Progress, LoadsAreUnqueued
  <2>2. ASSUME NEW d \in Caches, NEW s \in Slots, NEW k \in Keys, <<d, s, k>> \in op.writes
        PROVE  MayFill(t, d, s, k)
    BY <1>9, <2>1, <2>2 DEF MayFill
  <2> QED BY <1>7, <2>2 DEF OwnOperation
<1>13. Grows(t, w, op)
  BY <1>1, <1>5, <1>11, <1>12 DEF Grows, Busy, SourcePoints
<1>14. WindowsAreSettled(t)'
  <2>1. \A i \in Sources : SourceDone(t, i)' => SourceDone(t, i)
    BY <1>1 DEF SourceDone, SourcePoints, AfterSources, Computing, Computed
  <2>2. \A i \in Sources : SourceDone(t, i)' => \A k \in DOMAIN lease[t][CacheAt(i)] : SettledFor(t, CacheAt(i), k)'
    BY <1>13, <2>1, SourcesStaySettled
  <2> QED BY <1>1, <2>2 DEF WindowsAreSettled, CacheAt, cacheVars
<1>15. LoadsArrive(t)'
  <2>1. ASSUME pc'[t] = "publish", NEW k \in loads[t][c] PROVE ~Quiet(c, lease[t][c][k])'
    <3>1. <<c, lease[t][c][k], k>> \in op.writes
      BY <1>4, <1>9, <2>1
    <3>2. lease[t][c][k] \in Slots /\ k \in Keys
      BY <1>9, <3>1
    <3> QED BY <1>13, <3>1, <3>2, FilledIsSettled
  <2>2. Source(t)' = c /\ lease' = lease /\ loads' = loads
    BY <1>1, <1>3 DEF Source, cacheVars
  <2> QED BY <1>1, <2>1, <2>2 DEF LoadsArrive, Computed
<1> QED BY <1>13, <1>14, <1>15, GrowingStreams

LEMMA ComputeStreams ==
  ASSUME Control, Windows, Streams, NEW t \in Threads, Compute(t) \/ ComputeFails(t)
  PROVE  Streams'
<1>1. /\ pc[t] = "compute" /\ UNCHANGED cacheVars /\ worker' = worker
      /\ \A u \in Threads \ {t} : pc'[u] = pc[u] /\ at'[u] = at[u]
      /\ (pc'[t] = "waitHits" /\ Compute(t)) \/ (pc'[t] = "drain" /\ ComputeFails(t))
      /\ at' = at
  BY DEF Compute, ComputeFails, Goto, Fault, Control, ControlTypes
<1>2. PICK c \in Caches : c = "contribution"
  BY DEF Caches
<1>3. PICK A \in SUBSET loads[t][c] : Contribute(t, A) /\ (pc'[t] = "waitHits" => A = loads[t][c])
  BY <1>1, <1>2 DEF Compute, ComputeFails
<1>4. PICK w \in Workers : w = worker[t]
  BY <1>1 DEF Control, ControlTypes, WorkersAreExclusive
<1>5. PICK op : op = Operation({}, SourcePieces(t, A), Pieces(t, c, A))
  OBVIOUS
<1>6. op.waits = {} /\ op.reads = SourcePieces(t, A) /\ op.writes = Pieces(t, c, A)
  BY <1>5 DEF Operation
<1>7. Open(t, c) /\ \A i \in Sources : SourceDone(t, i) /\ Open(t, CacheAt(i)) /\ i \in 1..Last
  <2>1. \A i \in Sources : SourceDone(t, i) /\ i \in 1..Last
    BY <1>1, CacheIndices DEF SourceDone, AfterSources, Computing, Sources
  <2>2. Last \in 1..Last /\ CacheAt(Last) = c
    BY <1>2, CacheIndices
  <2> QED BY <1>1, <2>1, <2>2 DEF Windows, PathOf, MustBeOpen, Computing
<1>8. A \subseteq DOMAIN lease[t][c] /\ A \subseteq KeysFor("contribution", frame[t])
  BY <1>2, <1>7 DEF Open
<1>9. /\ op.writes \subseteq Caches \X Slots \X Keys
      /\ \A d, s, k : <<d, s, k>> \in op.writes <=> d = c /\ k \in A /\ s = lease[t][c][k]
  BY <1>6, <1>8, PiecesOfWindow
<1>10. /\ op.reads \subseteq Caches \X Slots \X Keys
       /\ A = {} => op.reads = {}
       /\ \A d, s, k : <<d, s, k>> \in op.reads =>
             d \in Range(SourceCaches) /\ k \in DOMAIN lease[t][d] /\ s = lease[t][d][k]
  <2>1. \A d \in Range(SourceCaches) : Open(t, d)
    BY <1>7, CacheIndices DEF Range
  <2> QED BY <1>6, <1>8, <2>1, PiecesOfSources
<1>11. op \in Operations
  BY <1>5, <1>6, <1>9, <1>10 DEF Operation, Operations
<1>12. QueueGrows(w, op)
  <2>1. A = {} => op = Operation({}, {}, {})
    BY <1>5, <1>6, <1>10 DEF Pieces
  <2>2. Enqueue(w, op) \/ (UNCHANGED streamVars /\ op = Operation({}, {}, {}))
    BY <1>2, <1>3, <1>4, <1>5, <2>1 DEF Contribute
  <2> QED BY <1>11, <2>2, QueueGrowth DEF Streams
<1>13. OwnOperation(t, op)
  <2>1. \A k \in loads[t][c] : Quiet(c, lease[t][c][k])
    BY <1>1, <1>2 DEF Streams, Progress, LoadsAreUnqueued
  <2>2. ASSUME NEW d \in Caches, NEW s \in Slots, NEW k \in Keys, <<d, s, k>> \in op.writes
        PROVE  MayFill(t, d, s, k)
    BY <1>9, <2>1, <2>2 DEF MayFill
  <2>3. ASSUME NEW d \in Caches, NEW s \in Slots, NEW k \in Keys, <<d, s, k>> \in op.reads
        PROVE  MayRead(t, d, s, k) /\ d # "contribution"
    <3>1. d \in Range(SourceCaches) /\ k \in DOMAIN lease[t][d] /\ s = lease[t][d][k]
      BY <1>10, <2>3
    <3>2. PICK i \in Sources : d = CacheAt(i) /\ CacheAt(i) # "contribution"
      BY <3>1, CacheIndices DEF Range
    <3>3. SettledFor(t, d, k)
      BY <1>7, <3>1, <3>2 DEF Streams, Progress, WindowsAreSettled
    <3>4. loads[t][d] = {}
      BY <1>7, <3>2 DEF Windows, PathOf, MustBeLoaded
    <3>5. state[d][lease[t][d][k]] = "Ready"
      BY <3>1, <3>2, <3>4 DEF Windows, SlotsFollowTheirWindows, WindowIsSound
    <3> QED BY <3>1, <3>2, <3>3, <3>5 DEF MayRead
  <2> QED BY <1>2, <1>9, <2>2, <2>3 DEF OwnOperation
<1>14. Grows(t, w, op)
  BY <1>1, <1>4, <1>12, <1>13 DEF Grows, Busy, SourcePoints
<1>15. ASSUME pc'[t] = "waitHits", NEW k \in loads[t][c]
       PROVE  SettledFor(t, c, k)' /\ ~Quiet(c, lease[t][c][k])'
  <2>1. <<c, lease[t][c][k], k>> \in op.writes
    BY <1>3, <1>9, <1>15
  <2>2. lease[t][c][k] \in Slots /\ k \in Keys
    BY <1>9, <2>1
  <2> QED BY <1>14, <2>1, <2>2, FilledIsSettled
<1>16. WindowsAreSettled(t)'
  <2>1. \A i \in Sources : \A k \in DOMAIN lease[t][CacheAt(i)] : SettledFor(t, CacheAt(i), k)'
    BY <1>7, <1>14, SourcesStaySettled
  <2> QED BY <1>1, <1>2, <1>15, <2>1 DEF WindowsAreSettled, CacheAt, cacheVars
<1>17. LoadsArrive(t)'
  <2>1. lease' = lease /\ loads' = loads
    BY <1>1 DEF cacheVars
  <2> QED BY <1>1, <1>2, <1>15, <2>1 DEF LoadsArrive, Computed
<1> QED BY <1>14, <1>16, <1>17, GrowingStreams

\* Operations that fill nothing: waits and the final read.
LEMMA WaitingOperation ==
  ASSUME Control, Windows, Streams, NEW t \in Threads, pc[t] \in Busy \ {"sync", "drain"},
         pc'[t] \in Busy \ {"upload", "compute"}, UNCHANGED cacheVars, worker' = worker,
         \A u \in Threads \ {t} : pc'[u] = pc[u] /\ at'[u] = at[u],
         NEW c \in Caches, NEW K, K \subseteq DOMAIN lease[t][c],
         IF K = {} THEN UNCHANGED streamVars
         ELSE Enqueue(worker[t], Operation(Events(t, c, K), {}, {}))
  PROVE  \E w, op : /\ Grows(t, w, op) /\ op.writes = {}
                    /\ \A k \in K : mark[c][lease[t][c][k]] \in op.waits
<1>1. PICK w \in Workers : w = worker[t]
  BY DEF Control, ControlTypes, WorkersAreExclusive, Busy, SourcePoints
<1>2. PICK op : op = Operation(Events(t, c, K), {}, {})
  OBVIOUS
<1>3. op.waits = Events(t, c, K) /\ op.reads = {} /\ op.writes = {}
  BY <1>2 DEF Operation
<1>4. op.waits \subseteq EventRecords
  <2>1. \A k \in K : mark[c][lease[t][c][k]] \in EventRecords
    BY LeasedSlots DEF Windows, Streams, StreamTypes
  <2> QED BY <1>3, <2>1 DEF Events
<1>5. op \in Operations
  BY <1>2, <1>3, <1>4 DEF Operation, Operations
<1>6. Enqueue(w, op) \/ (UNCHANGED streamVars /\ op = Operation({}, {}, {}))
  <2>1. CASE K = {}
    <3>1. op = Operation({}, {}, {})
      BY <1>2, <2>1 DEF Events
    <3> QED BY <2>1, <3>1
  <2>2. CASE K # {}
    BY <1>1, <1>2, <2>2
  <2> QED BY <2>1, <2>2
<1>7. QueueGrows(w, op)
  BY <1>5, <1>6, QueueGrowth DEF Streams
<1>8. OwnOperation(t, op)
  BY <1>3 DEF OwnOperation
<1>9. Grows(t, w, op)
  BY <1>1, <1>7, <1>8 DEF Grows
<1>10. \A k \in K : mark[c][lease[t][c][k]] \in op.waits
  BY <1>3 DEF Events
<1> QED BY <1>3, <1>9, <1>10

LEMMA WaitReadyStreams ==
  ASSUME Control, Windows, Streams, NEW t \in Threads, WaitReady(t)
  PROVE  Streams'
<1> USE DEF SourcePoints, AfterSources, Computing, Computed
<1>1. /\ pc[t] = "waitReady" /\ UNCHANGED cacheVars /\ worker' = worker
      /\ \A u \in Threads \ {t} : pc'[u] = pc[u] /\ at'[u] = at[u]
      /\ \/ at[t] < Len(SourceCaches) /\ pc'[t] = "claim" /\ at'[t] = at[t] + 1
         \/ ~(at[t] < Len(SourceCaches)) /\ pc'[t] = "claimContributions"
      /\ Enqueue(worker[t], Operation(Events(t, Source(t), DOMAIN lease[t][Source(t)]), {}, {}))
  <2>1. CASE at[t] < Len(SourceCaches)
    BY <2>1 DEF WaitReady, Goto, Control, ControlTypes
  <2>2. CASE ~(at[t] < Len(SourceCaches))
    BY <2>2 DEF WaitReady, Goto, Control, ControlTypes
  <2> QED BY <2>1, <2>2
<1>2. PICK j \in Sources : /\ j = at[t] /\ Source(t) = CacheAt(j) /\ j \in 1..Last
                          /\ CacheAt(j) \in Caches /\ CacheAt(j) # "contribution"
  BY <1>1, AtSource
<1>3. PICK c \in Caches : c = CacheAt(j) /\ c = Source(t)
  BY <1>2
<1>4. PICK k0 : k0 \in DOMAIN lease[t][c]
  <2>1. Open(t, c) /\ frame[t] \in Keys
    BY <1>1, <1>2, <1>3 DEF Windows, PathOf, MustBeOpen, Control, ControlTypes
  <2>2. c \in Range(SourceCaches)
    BY <1>2, <1>3, CacheIndices
  <2> QED BY <2>1, <2>2, KeysAreFrames DEF Open
<1>5. PICK w, op : /\ Grows(t, w, op) /\ op.writes = {}
                   /\ \A k \in DOMAIN lease[t][c] : mark[c][lease[t][c][k]] \in op.waits
  <2>1. pc[t] \in Busy \ {"sync", "drain"} /\ pc'[t] \in Busy \ {"upload", "compute"}
    BY <1>1 DEF Busy
  <2>2. DOMAIN lease[t][c] # {}
    BY <1>4
  <2>3. IF DOMAIN lease[t][c] = {} THEN UNCHANGED streamVars
        ELSE Enqueue(worker[t], Operation(Events(t, c, DOMAIN lease[t][c]), {}, {}))
    BY <1>1, <1>3, <2>2
  <2> QED BY <1>1, <2>1, <2>3, WaitingOperation
<1>6. ASSUME NEW i \in Sources, SourceDone(t, i)', NEW k \in DOMAIN lease[t][CacheAt(i)]
      PROVE  SettledFor(t, CacheAt(i), k)'
  <2>1. SourceDone(t, i) \/ i = j
    <3>1. j \in Nat /\ i \in Nat /\ Len(SourceCaches) \in Nat /\ i <= Len(SourceCaches)
      BY CacheIndices DEF Sources
    <3> QED BY <1>1, <1>2, <1>6, <3>1 DEF SourceDone
  <2>2. CASE SourceDone(t, i)
    BY <1>5, <1>6, <2>2, SourcesStaySettled
  <2>3. CASE i = j
    <3>1. loads[t][c] = {}
      BY <1>1, <1>2, <1>3 DEF Windows, PathOf, MustBeLoaded
    <3>2. k \in DOMAIN lease[t][c]
      BY <1>3, <1>6, <2>3
    <3>3. state[c][lease[t][c][k]] = "Ready"
      BY <1>2, <1>3, <3>1, <3>2 DEF Windows, SlotsFollowTheirWindows, WindowIsSound
    <3>4. SettledFor(t, c, k)'
      BY <1>5, <3>2, <3>3, AwaitedIsSettled
    <3> QED BY <1>3, <2>3, <3>4
  <2> QED BY <2>1, <2>2, <2>3
<1>7. WindowsAreSettled(t)' /\ LoadsArrive(t)'
  BY <1>1, <1>6 DEF WindowsAreSettled, LoadsArrive, CacheAt, cacheVars
<1> QED BY <1>5, <1>7, GrowingStreams

LEMMA WaitHitsStreams ==
  ASSUME Control, Windows, Streams, NEW t \in Threads, WaitHits(t)
  PROVE  Streams'
<1> USE DEF SourcePoints, AfterSources, Computing, Computed
<1>1. PICK c \in Caches : c = "contribution"
  BY DEF Caches
<1>2. /\ pc[t] = "waitHits" /\ pc'[t] = "normalize" /\ UNCHANGED cacheVars /\ worker' = worker
      /\ \A u \in Threads \ {t} : pc'[u] = pc[u] /\ at'[u] = at[u]
      /\ ~StillLoading(t, c) /\ ~Lost(t, c)
      /\ IF Hits(t, c) = {} THEN UNCHANGED streamVars
         ELSE Enqueue(worker[t], Operation(Events(t, c, Hits(t, c)), {}, {}))
  BY <1>1 DEF WaitHits, Goto, Control, ControlTypes
<1>3. Hits(t, c) \subseteq DOMAIN lease[t][c] /\ loads[t][c] \subseteq DOMAIN lease[t][c]
  BY LeasedSlots DEF Hits, Windows
<1>4. PICK w, op : /\ Grows(t, w, op) /\ op.writes = {}
                   /\ \A k \in Hits(t, c) : mark[c][lease[t][c][k]] \in op.waits
  <2>1. pc[t] \in Busy \ {"sync", "drain"} /\ pc'[t] \in Busy \ {"upload", "compute"}
    BY <1>2 DEF Busy
  <2> QED BY <1>2, <1>3, <2>1, WaitingOperation
<1>5. ASSUME NEW i \in Sources, NEW k \in DOMAIN lease[t][CacheAt(i)]
      PROVE  SettledFor(t, CacheAt(i), k)'
  BY <1>2, <1>4, SourcesStaySettled DEF SourceDone
<1>6. ASSUME NEW k \in Hits(t, c)
      PROVE  SettledFor(t, c, k)' /\ state[c][lease[t][c][k]] = "Ready"
  <2>1. state[c][lease[t][c][k]] = "Ready"
    BY <1>2 DEF StillLoading, Lost
  <2> QED BY <1>3, <1>4, <2>1, AwaitedIsSettled
<1>7. ASSUME NEW k \in loads[t][c] PROVE SettledFor(t, c, k)'
  <2>1. SettledFor(t, c, k)
    BY <1>1, <1>2 DEF Streams, Progress, WindowsAreSettled
  <2> QED BY <1>4, <2>1, StaysSettled
<1>8. WindowsAreSettled(t)'
  BY <1>1, <1>2, <1>5, <1>6, <1>7 DEF WindowsAreSettled, CacheAt, cacheVars, Hits
<1>9. LoadsArrive(t)'
  <2>1. \A s : (Quiet(c, s)' => Quiet(c, s)) /\ \A k : Holds(c, s, k)' <=> Holds(c, s, k)
    BY <1>2, <1>4, UntouchedLoads
  <2>2. lease' = lease /\ loads' = loads /\ info' = info
    BY <1>2, <1>4 DEF cacheVars, Grows, QueueGrows
  <2>3. LoadsArrive(t)
    BY DEF Streams, Progress
  <2> QED BY <1>1, <1>2, <2>1, <2>2, <2>3 DEF LoadsArrive
<1> QED BY <1>4, <1>8, <1>9, GrowingStreams

LEMMA NormalizeStreams ==
  ASSUME Control, Windows, Streams, NEW t \in Threads, Normalize(t)
  PROVE  Streams'
<1> USE DEF SourcePoints, AfterSources, Computing, Computed
<1>1. PICK c \in Caches : c = "contribution"
  BY DEF Caches
<1>2. /\ pc[t] = "normalize" /\ pc'[t] = "sync" /\ UNCHANGED cacheVars /\ worker' = worker
      /\ \A u \in Threads \ {t} : pc'[u] = pc[u] /\ at'[u] = at[u]
      /\ Enqueue(worker[t], Operation({}, Pieces(t, c, DOMAIN lease[t][c])
                                          \cup Pieces(t, SourceCaches[1], {frame[t]}), {}))
  BY <1>1 DEF Normalize, Goto, Control, ControlTypes
<1>3. PICK d \in Caches : d = SourceCaches[1] /\ d = CacheAt(1) /\ d # c /\ 1 \in Sources /\ 1 \in 1..Last
                          /\ d \in Range(SourceCaches)
  <2>1. 1 \in Sources /\ 1 \in 1..Last
    BY CacheIndices DEF Sources
  <2> QED BY <1>1, <2>1, CacheIndices
<1>4. PICK w \in Workers : w = worker[t]
  BY <1>2 DEF Control, ControlTypes, WorkersAreExclusive
<1>5. PICK op : op = Operation({}, Pieces(t, c, DOMAIN lease[t][c]) \cup Pieces(t, d, {frame[t]}), {})
  OBVIOUS
<1>6. op.waits = {} /\ op.writes = {} /\ op.reads = Pieces(t, c, DOMAIN lease[t][c]) \cup Pieces(t, d, {frame[t]})
  BY <1>5 DEF Operation
<1>7. SourceDone(t, 1) /\ Open(t, d) /\ loads[t][d] = {}
  BY <1>2, <1>3 DEF SourceDone, Windows, PathOf, MustBeOpen, MustBeLoaded
<1>8. frame[t] \in DOMAIN lease[t][d]
  <2>1. frame[t] \in Keys
    BY DEF Control, ControlTypes
  <2> QED BY <1>3, <1>7, <2>1, KeysAreFrames DEF Open
<1>9. /\ op.reads \subseteq Caches \X Slots \X Keys
      /\ \A x, s, k : <<x, s, k>> \in op.reads =>
            /\ k \in DOMAIN lease[t][x] /\ s = lease[t][x][k]
            /\ x = c \/ (x = d /\ k = frame[t])
  <2>1. {frame[t]} \subseteq DOMAIN lease[t][d]
    BY <1>8
  <2>2. /\ Pieces(t, d, {frame[t]}) \subseteq Caches \X Slots \X Keys
        /\ \A x, s, k : <<x, s, k>> \in Pieces(t, d, {frame[t]})
                           <=> x = d /\ k \in {frame[t]} /\ s = lease[t][d][k]
    BY <2>1, PiecesOfWindow
  <2>3. /\ Pieces(t, c, DOMAIN lease[t][c]) \subseteq Caches \X Slots \X Keys
        /\ \A x, s, k : <<x, s, k>> \in Pieces(t, c, DOMAIN lease[t][c])
                           <=> x = c /\ k \in DOMAIN lease[t][c] /\ s = lease[t][c][k]
    BY PiecesOfWindow
  <2>4. ASSUME NEW x, NEW s, NEW k, <<x, s, k>> \in op.reads
        PROVE  /\ k \in DOMAIN lease[t][x] /\ s = lease[t][x][k]
               /\ x = c \/ (x = d /\ k = frame[t])
    <3>1. CASE <<x, s, k>> \in Pieces(t, c, DOMAIN lease[t][c])
      BY <2>3, <3>1
    <3>2. CASE <<x, s, k>> \in Pieces(t, d, {frame[t]})
      BY <1>8, <2>2, <3>2
    <3> QED BY <1>6, <2>4, <3>1, <3>2
  <2> QED BY <1>6, <2>2, <2>3, <2>4
<1>10. op \in Operations
  BY <1>5, <1>6, <1>9 DEF Operation, Operations
<1>11. QueueGrows(w, op)
  <2>1. Enqueue(w, op)
    BY <1>2, <1>3, <1>4, <1>5
  <2> QED BY <1>10, <2>1, QueueGrowth DEF Streams
<1>12. OwnOperation(t, op)
  <2>1. ASSUME NEW x \in Caches, NEW s \in Slots, NEW k \in Keys, <<x, s, k>> \in op.reads
        PROVE  MayRead(t, x, s, k)
    <3>1. k \in DOMAIN lease[t][x] /\ s = lease[t][x][k]
      BY <1>9, <2>1
    <3>2. CASE x = c
      <4>1. SettledFor(t, c, k) /\ (k \in loads[t][c] \/ state[c][lease[t][c][k]] = "Ready")
        BY <1>1, <1>2, <3>1, <3>2 DEF Streams, Progress, WindowsAreSettled
      <4> QED BY <1>1, <1>2, <3>1, <3>2, <4>1 DEF MayRead
    <3>3. CASE x = d
      <4>1. SettledFor(t, d, k)
        BY <1>3, <1>7, <3>1, <3>3 DEF Streams, Progress, WindowsAreSettled
      <4>2. state[d][lease[t][d][k]] = "Ready"
        BY <1>1, <1>3, <1>7, <3>1, <3>3 DEF Windows, SlotsFollowTheirWindows, WindowIsSound
      <4> QED BY <1>1, <1>3, <3>1, <3>3, <4>1, <4>2 DEF MayRead
    <3> QED BY <1>9, <2>1, <3>2, <3>3
  <2> QED BY <1>6, <2>1 DEF OwnOperation
<1>13. Grows(t, w, op)
  BY <1>2, <1>4, <1>11, <1>12 DEF Grows, Busy
<1>14. ASSUME NEW i \in Sources, NEW k \in DOMAIN lease[t][CacheAt(i)]
       PROVE  SettledFor(t, CacheAt(i), k)'
  BY <1>2, <1>13, SourcesStaySettled DEF SourceDone
<1>15. WindowsAreSettled(t)'
  BY <1>2, <1>14 DEF WindowsAreSettled, CacheAt, cacheVars
<1>16. LoadsArrive(t)'
  <2>1. \A s : (Quiet(c, s)' => Quiet(c, s)) /\ \A k : Holds(c, s, k)' <=> Holds(c, s, k)
    BY <1>2, <1>6, <1>13, UntouchedLoads
  <2>2. lease' = lease /\ loads' = loads /\ info' = info
    BY <1>2, <1>13 DEF cacheVars, Grows, QueueGrows
  <2>3. LoadsArrive(t)
    BY DEF Streams, Progress
  <2> QED BY <1>1, <1>2, <2>1, <2>2, <2>3 DEF LoadsArrive
<1> QED BY <1>13, <1>15, <1>16, GrowingStreams

\* The calls that give windows back or publish them.
LEMMA LoadSlotsAreLoading ==
  ASSUME Windows, NEW t \in Threads, NEW c \in Caches, NEW s, s \in LoadSlots(t, c)
  PROVE  state[c][s] = "Loading" /\ s \in Buffers[c] /\ s \in Slots
<1>1. PICK k \in loads[t][c] : s = lease[t][c][k]
  BY DEF LoadSlots
<1>2. state[c][s] = "Loading"
  BY <1>1 DEF Windows, SlotsFollowTheirWindows, WindowIsSound
<1>3. s \in Buffers[c]
  BY <1>1, LeasedSlots DEF Windows
<1> QED BY <1>2, <1>3 DEF Slots

LEMMA PublishStreams ==
  ASSUME Control, Windows, Streams, NEW t \in Threads, NEW c \in Caches, Publish(t, c),
         StreamsRest, info' = info, worker' = worker, worker[t] \in Workers,
         \A u \in Threads \ {t} : pc'[u] = pc[u] /\ at'[u] = at[u],
         pc[t] \in {"publish", "publishContributions"}, pc'[t] \in {"waitReady", "release"},
         pc'[t] = "release" \/ c = "contribution" => queue[worker[t]] = <<>>,
         \A k \in loads[t][c] : Quiet(c, lease[t][c][k]) => Holds(c, lease[t][c][k], k),
         \A i \in Sources : SourceDone(t, i)' => SourceDone(t, i)
  PROVE  Streams'
<1>1. /\ \A d \in Caches : \A s \in Buffers[d] :
            /\ d # c \/ s \notin LoadSlots(t, c) =>
                  /\ state'[d][s] = state[d][s] /\ holds'[d][s] = holds[d][s]
                  /\ mark'[d][s] = mark[d][s]
            /\ d = c /\ s \in LoadSlots(t, c) => state'[d][s] = "Ready" /\ mark'[d][s] = EventNow(worker[t])
      /\ \A u \in Threads, d \in Caches : u # t => loads'[u][d] = loads[u][d]
      /\ lease' = lease /\ holds' = holds
      /\ \A d \in Caches : d # c => loads'[t][d] = loads[t][d]
  BY PublishEffect DEF SlotsOutcome, Windows
<1>2. StreamTypes /\ issued[worker[t]] \in Nat
  BY DEF Streams, StreamTypes
<1>3. EventNow(worker[t]) \in EventRecords
  BY <1>2 DEF EventNow, EventRecords
<1>4. StreamTypes'
  <2>1. \A d \in Caches : \A s \in Buffers[d] : mark'[d][s] \in EventRecords
    BY <1>1, <1>2, <1>3 DEF StreamTypes
  <2> QED BY <1>2, <2>1 DEF StreamTypes, StreamsRest
<1>5. QueuesAreOwned'
  BY QueuesStayOwned DEF Streams, StreamsRest, Busy, SourcePoints
<1>6. OneWrite' /\ ReadsAreSettled'
  BY RestEffect DEF Streams, OneWrite, ReadsAreSettled
<1>7. LeasedStayReady
  BY <1>1, LeasedSlots DEF LeasedStayReady, Windows
<1>8. ASSUME NEW u \in Threads, u # t PROVE Progress(u)'
  BY <1>1, <1>7, <1>8, StandingProgress
<1>9. Progress(t)'
  <2>1. OperationsOf(t)'
    <3>1. ASSUME NEW d \in Caches, NEW k \in DOMAIN lease[t][d] PROVE WindowCarried(t, d, k)
      <4>1. lease[t][d][k] \in Buffers[d]
        BY LeasedSlots DEF Windows
      <4> QED BY <1>1, <3>1, <4>1 DEF WindowCarried, LoadSlots
    <3> QED BY <3>1, OperationsCarried DEF Streams, Progress
  <2>2. WindowsAreSettled(t)'
    <3>1. \A i \in Sources : CacheAt(i) \in Caches
      BY CacheIndices DEF Sources
    <3>2. \A d \in Caches : \A k : SettledFor(t, d, k)' <=> SettledFor(t, d, k)
      BY <1>1, RestEffect DEF SettledFor, StreamsRest
    <3> QED BY <1>1, <3>1, <3>2 DEF Streams, Progress, WindowsAreSettled, CacheAt
  <2>3. LoadsAreUnqueued(t)' /\ LoadsArrive(t)'
    BY DEF LoadsAreUnqueued, LoadsArrive, Computed
  <2> QED BY <2>1, <2>2, <2>3 DEF Progress
<1>10. ReadyIsMarked'
  <2> SUFFICES ASSUME NEW d \in Caches, NEW s \in Buffers[d], state'[d][s] = "Ready"
               PROVE  /\ \A v \in Workers, i \in Nat, m \in Keys : Writes(v, i, d, s, m) =>
                            /\ m = holds[d][s]
                            /\ mark'[d][s].stream = v /\ mark'[d][s].position >= i
                            /\ \A e \in Caches, r \in Slots, j \in Keys : ~Reads(v, i, e, r, j)
                      /\ Quiet(d, s) => Holds(d, s, holds[d][s])
    BY <1>1, RestEffect DEF ReadyIsMarked
  <2>1. CASE d # c \/ s \notin LoadSlots(t, c)
    BY <1>1, <2>1 DEF Streams, ReadyIsMarked
  <2>2. CASE d = c /\ s \in LoadSlots(t, c)
    <3>1. PICK k \in loads[t][c] : s = lease[t][c][k] /\ k \in DOMAIN lease[t][c]
      BY <2>2, LeasedSlots DEF LoadSlots, Windows
    <3>2. state[c][s] = "Loading" /\ s \in Slots
      BY <2>2, LoadSlotsAreLoading
    <3>3. holds[c][s] = k
      BY <3>1, <3>2 DEF Windows, SlotsFollowTheirWindows, WindowIsSound
    <3>4. ASSUME NEW v \in Workers, NEW i \in Nat, NEW m \in Keys, Writes(v, i, c, s, m)
          PROVE  /\ m = k /\ v = worker[t] /\ i <= issued[worker[t]]
                 /\ \A e \in Caches, r \in Slots, j \in Keys : ~Reads(v, i, e, r, j)
      <4>1. PICK u \in Threads : worker[u] = v
        BY <3>4, PendingWork
      <4>2. m \in DOMAIN lease[u][c] /\ s = lease[u][c][m] /\ m \in loads[u][c]
        <5>1. OperationsOf(u)
          BY DEF Streams, Progress
        <5>2. /\ m \in DOMAIN lease[u][c] /\ s = lease[u][c][m]
              /\ m \in loads[u][c] \/ state[c][s] = "Ready"
          BY <3>2, <3>4, <4>1, <5>1 DEF OperationsOf
        <5> QED BY <3>2, <5>2
      <4>3. u = t /\ m = k
        <5>1. /\ \A x \in Threads : \A j \in loads[x][c] : lease[x][c][j] = s => x = t
              /\ \A j, h \in DOMAIN lease[t][c] : lease[t][c][j] = lease[t][c][h] => j = h
          BY <3>1, LeasedSlots DEF Windows, SlotsFollowTheirWindows, OneProducer
        <5> QED BY <3>1, <4>2, <5>1
      <4>4. i <= issued[v]
        BY <1>2, <3>4, PositionsAreIssued
      <4>5. ASSUME NEW e \in Caches, NEW r \in Slots, NEW j \in Keys, Reads(v, i, e, r, j) PROVE FALSE
        <5>1. c = "contribution"
          BY <3>2, <3>4, <4>1, <4>5 DEF Streams, Progress, OperationsOf
        <5>2. queue[v] = <<>>
          BY <4>1, <4>3, <5>1
        <5> QED BY <1>2, <3>4, <5>2, EmptyQueue
      <4> QED BY <4>1, <4>3, <4>4, <4>5
    <3>5. mark'[c][s].stream = worker[t] /\ mark'[c][s].position = issued[worker[t]]
      BY <1>1, <2>2 DEF EventNow
    <3> QED BY <1>2, <2>2, <3>1, <3>3, <3>4, <3>5
  <2> QED BY <2>1, <2>2
<1> QED BY <1>4, <1>5, <1>6, <1>8, <1>9, <1>10 DEF Streams

LEMMA DropStreams ==
  ASSUME Control, Windows, Streams, NEW t \in Threads, NEW c \in Caches, SlotsOutcome(t, c, "Empty"),
         \A u \in Threads \ {t}, d \in Caches : lease'[u][d] = lease[u][d], mark' = mark,
         UNCHANGED streamVars, worker' = worker, worker[t] \in Workers,
         \A u \in Threads \ {t} : pc'[u] = pc[u] /\ at'[u] = at[u],
         pc[t] \in {"abandon", "release"}, pc'[t] \in {"release", "returnWorker", "copy"}
  PROVE  Streams'
<1>1. /\ \A d \in Caches : \A s \in Buffers[d] :
            /\ d # c \/ s \notin LoadSlots(t, c) =>
                  state'[d][s] = state[d][s] /\ holds'[d][s] = holds[d][s]
            /\ d = c /\ s \in LoadSlots(t, c) => state'[d][s] = "Empty"
      /\ \A u \in Threads \ {t}, d \in Caches : loads'[u][d] = loads[u][d]
  BY DEF SlotsOutcome
<1>2. \A s \in LoadSlots(t, c) : state[c][s] = "Loading"
  BY LoadSlotsAreLoading
<1>3. LeasedStayReady /\ NoneBecomesReady
  <2>1. LeasedStayReady
    <3>1. ASSUME NEW u \in Threads, NEW d \in Caches, NEW k \in DOMAIN lease[u][d],
                 state[d][lease[u][d][k]] = "Ready"
          PROVE  state'[d][lease[u][d][k]] = "Ready"
      <4>1. lease[u][d][k] \in Buffers[d]
        BY LeasedSlots DEF Windows
      <4> QED BY <1>1, <1>2, <3>1, <4>1
    <3> QED BY <3>1 DEF LeasedStayReady
  <2>2. NoneBecomesReady
    BY <1>1 DEF NoneBecomesReady
  <2> QED BY <2>1, <2>2
<1>4. StreamsRest /\ info' = info /\ info \in [Workers -> BOOLEAN] /\ StreamTypes
  BY DEF streamVars, StreamsRest, Streams, StreamTypes
<1>5. StreamTypes' /\ OneWrite' /\ ReadsAreSettled' /\ ReadyIsMarked'
  BY <1>3, <1>4, RestOfStreams DEF StreamTypes
<1>6. queue[worker[t]] = <<>>
  BY IdleQueue DEF Streams, Busy, SourcePoints
<1>7. QueuesAreOwned'
  BY <1>4, QueuesStayOwned DEF Streams, StreamsRest, Busy, SourcePoints
<1>8. ASSUME NEW u \in Threads, u # t PROVE Progress(u)'
  BY <1>1, <1>3, <1>4, <1>8, StandingProgress
<1>9. OperationsOf(t)'
  BY <1>4, <1>5, <1>6, NothingQueued DEF StreamsRest
<1>10. WindowsAreSettled(t)' /\ LoadsAreUnqueued(t)' /\ LoadsArrive(t)'
  BY DEF WindowsAreSettled, LoadsAreUnqueued, LoadsArrive, SourceDone, SourcePoints, AfterSources,
         Computing, Computed
<1> QED BY <1>5, <1>7, <1>8, <1>9, <1>10 DEF Streams, Progress

LEMMA PublishSourceStreams ==
  ASSUME Control, Windows, Streams, NEW t \in Threads, PublishSource(t)
  PROVE  Streams'
<1>1. /\ pc[t] = "publish" /\ pc' = [pc EXCEPT ![t] = "waitReady"] /\ at' = at /\ worker' = worker
      /\ UNCHANGED streamVars /\ Publish(t, Source(t)) /\ pc \in [Threads -> Points]
  BY DEF PublishSource, Goto, Control, ControlTypes
<1>2. PICK j \in Sources : /\ j = at[t] /\ Source(t) = CacheAt(j)
                          /\ CacheAt(j) \in Caches /\ CacheAt(j) # "contribution"
  BY <1>1, AtSource DEF SourcePoints
<1>3. Publish(t, CacheAt(j)) /\ worker[t] \in Workers
  BY <1>1, <1>2 DEF Control, ControlTypes, WorkersAreExclusive
<1>4. \A k \in loads[t][CacheAt(j)] : Quiet(CacheAt(j), lease[t][CacheAt(j)][k]) =>
                                      Holds(CacheAt(j), lease[t][CacheAt(j)][k], k)
  BY <1>1, <1>2 DEF Streams, Progress, LoadsArrive
<1>5. \A i \in Sources : SourceDone(t, i)' => SourceDone(t, i)
  BY <1>1 DEF SourceDone, SourcePoints, AfterSources, Computing, Computed
<1>6. StreamsRest /\ info' = info
  BY <1>1 DEF streamVars, StreamsRest
<1> QED BY <1>1, <1>2, <1>3, <1>4, <1>5, <1>6, PublishStreams

LEMMA PublishContributionsStreams ==
  ASSUME Control, Windows, Streams, NEW t \in Threads, PublishContributions(t)
  PROVE  Streams'
<1>1. PICK c \in Caches : c = "contribution"
  BY DEF Caches
<1>2. /\ pc[t] = "publishContributions" /\ pc' = [pc EXCEPT ![t] = "release"]
      /\ at' = [at EXCEPT ![t] = Len(SourceCaches) + 1] /\ worker' = worker
      /\ UNCHANGED streamVars /\ Publish(t, c) /\ pc \in [Threads -> Points] /\ at \in [Threads -> 1..Last]
  BY <1>1 DEF PublishContributions, Goto, Control, ControlTypes
<1>3. worker[t] \in Workers /\ queue[worker[t]] = <<>>
  BY <1>2, IdleQueue DEF Control, ControlTypes, WorkersAreExclusive, Streams, Busy, SourcePoints
<1>4. \A k \in loads[t][c] : Quiet(c, lease[t][c][k]) => Holds(c, lease[t][c][k], k)
  BY <1>1, <1>2 DEF Streams, Progress, LoadsArrive, Computed
<1>5. \A i \in Sources : ~SourceDone(t, i)'
  BY <1>2 DEF SourceDone, SourcePoints, AfterSources, Computing, Computed
<1>6. StreamsRest /\ info' = info
  BY <1>2 DEF streamVars, StreamsRest
<1>7. \A u \in Threads \ {t} : pc'[u] = pc[u] /\ at'[u] = at[u]
  BY <1>2
<1> QED BY <1>2, <1>3, <1>4, <1>5, <1>6, <1>7, PublishStreams

LEMMA AbandonStreams ==
  ASSUME Control, Windows, Streams, NEW t \in Threads, Abandon(t)
  PROVE  Streams'
<1>1. PICK c \in Caches : c = "contribution"
  BY DEF Caches
<1>2. /\ pc[t] = "abandon" /\ pc' = [pc EXCEPT ![t] = "release"] /\ DropLoads(t, c)
      /\ at' = [at EXCEPT ![t] = Len(SourceCaches) + 1] /\ worker' = worker /\ mark' = mark /\ lease' = lease
      /\ UNCHANGED streamVars /\ pc \in [Threads -> Points] /\ at \in [Threads -> 1..Last]
  BY <1>1 DEF Abandon, Goto, Control, ControlTypes
<1>3. SlotsOutcome(t, c, "Empty")
  BY <1>2, DropEffect DEF Windows
<1>4. worker[t] \in Workers
  BY <1>2 DEF Control, ControlTypes, WorkersAreExclusive
<1>5. \A u \in Threads \ {t} : pc'[u] = pc[u] /\ at'[u] = at[u]
  BY <1>2
<1> QED BY <1>2, <1>3, <1>4, <1>5, DropStreams

LEMMA ReleaseStreams ==
  ASSUME Control, Windows, Streams, NEW t \in Threads, Release(t)
  PROVE  Streams'
<1>1. /\ pc[t] = "release" /\ pc'[t] \in {"release", "returnWorker", "copy"} /\ worker' = worker
      /\ mark' = mark /\ UNCHANGED streamVars
      /\ \A u \in Threads \ {t} : pc'[u] = pc[u] /\ at'[u] = at[u]
  <2>1. CASE at[t] > 1
    BY <2>1 DEF Release, Goto, Control, ControlTypes
  <2>2. CASE ~(at[t] > 1)
    BY <2>2 DEF Release, Goto, Control, ControlTypes
  <2> QED BY <2>1, <2>2
<1>2. PICK j \in 1..Last :
         /\ CacheAt(j) \in Caches /\ SlotsOutcome(t, CacheAt(j), "Empty")
         /\ \A u \in Threads, d \in Caches : u # t \/ d # CacheAt(j) => lease'[u][d] = lease[u][d]
  BY ReleaseEffect
<1>3. worker[t] \in Workers
  BY <1>1 DEF Control, ControlTypes, WorkersAreExclusive
<1> QED BY <1>1, <1>2, <1>3, DropStreams

-----------------------------------------------------------------------------
(* Streams: an operation runs *)

\* What fills a Loading slot is queued by the thread that loads it.
LEMMA LoadersWrite ==
  ASSUME Control, Windows, Streams, NEW v \in Workers, NEW i \in Nat, NEW c \in Caches, NEW s \in Slots,
         NEW m \in Keys, Writes(v, i, c, s, m),
         NEW u \in Threads, NEW k \in loads[u][c], s = lease[u][c][k]
  PROVE  worker[u] = v /\ m = k
<1>1. PICK t \in Threads : worker[t] = v
  BY PendingWork
<1>2. state[c][s] = "Loading"
  BY DEF Windows, SlotsFollowTheirWindows, WindowIsSound
<1>3. OperationsOf(t)
  BY DEF Streams, Progress
<1>4. /\ m \in DOMAIN lease[t][c] /\ s = lease[t][c][m]
      /\ m \in loads[t][c] \/ state[c][s] = "Ready"
  BY <1>1, <1>3 DEF OperationsOf
<1>5. /\ \A x \in Threads : \A j \in loads[x][c] : lease[x][c][j] = s => x = u
      /\ \A j, h \in DOMAIN lease[u][c] : lease[u][c][j] = lease[u][c][h] => j = h
      /\ k \in DOMAIN lease[u][c]
  BY LeasedSlots DEF Windows, SlotsFollowTheirWindows, OneProducer
<1> QED BY <1>1, <1>2, <1>4, <1>5

\* What the operation at the head reads is not being written, by any stream.
LEMMA HeadReadsQuiet ==
  ASSUME Streams, NEW w \in Workers, NEW c \in Caches, NEW s \in Slots, NEW k \in Keys,
         Reads(w, Now(w), c, s, k)
  PROVE  Quiet(c, s) /\ mem[c][s].key = k
<1>1. StreamTypes /\ Now(w) \in Nat /\ done[w] \in Nat
  BY DEF Streams, StreamTypes, Now
<1>2. Settled(w, Now(w), c, s, k)
  BY <1>1 DEF Streams, ReadsAreSettled
<1>3. ASSUME NEW v \in Workers, NEW i \in Nat, NEW m \in Keys, Writes(v, i, c, s, m)
      PROVE  FALSE
  <2>1. CASE v = w /\ i < Now(w)
    <3>1. done[w] < i
      BY <1>1, <1>3, <2>1, PositionsAreIssued
    <3> QED BY <1>1, <2>1, <3>1 DEF Now
  <2>2. CASE \E h \in Nat : h < Now(w) /\ Waits(w, h, v, i)
    BY <1>1, <2>2 DEF Now, Waits, Live, StreamTypes
  <2> QED BY <1>2, <1>3, <2>1, <2>2 DEF Settled
<1> QED BY <1>2, <1>3 DEF Quiet, Settled

\* It finds what it was queued for, but for the contributions of its own render.
LEMMA HeadReads ==
  ASSUME Control, Windows, Streams, NEW w \in Workers, NEW t \in Threads, worker[t] = w,
         NEW c \in Caches, NEW s \in Slots, NEW k \in Keys, Reads(w, Now(w), c, s, k)
  PROVE  /\ Holds(c, s, k) \/ (c = "contribution" /\ k \in loads[t][c] /\ s = lease[t][c][k])
         /\ c = "contribution" => pc[t] \in {"sync", "drain"}
         /\ \A d \in Caches, r \in Slots, m \in Keys :
               Writes(w, Now(w), d, r, m) => c # "contribution" /\ d = "contribution"
<1>1. Quiet(c, s)
  BY HeadReadsQuiet
<1>2. OperationsOf(t) /\ Now(w) \in Nat
  BY DEF Streams, Progress, StreamTypes, Now
<1>3. /\ k \in DOMAIN lease[t][c] /\ s = lease[t][c][k]
      /\ (c = "contribution" /\ k \in loads[t][c]) \/ state[c][s] = "Ready"
      /\ c = "contribution" => pc[t] \in {"sync", "drain"}
      /\ \A d \in Caches, r \in Slots, m \in Keys :
            Writes(w, Now(w), d, r, m) => c # "contribution" /\ d = "contribution"
  BY <1>2 DEF OperationsOf
<1>4. state[c][s] = "Ready" => Holds(c, s, k)
  <2>1. s \in Buffers[c]
    BY <1>3, LeasedSlots DEF Windows
  <2>2. state[c][s] = "Ready" => holds[c][s] = k
    BY <1>3 DEF Windows, SlotsFollowTheirWindows, WindowIsSound
  <2> QED BY <1>1, <2>1, <2>2 DEF Streams, ReadyIsMarked
<1> QED BY <1>3, <1>4

\* A buffer the head of the queue does not write stays as it is; one it writes
\* has nothing else queued for it.
LEMMA SlotsAfterExecute ==
  ASSUME Streams, NEW w \in Workers, NEW verdict, ExecuteOutcome(w, verdict),
         NEW c \in Caches, NEW s \in Buffers[c]
  PROVE  /\ (\A k \in Keys : ~Writes(w, Now(w), c, s, k)) =>
               /\ mem'[c][s] = mem[c][s]
               /\ Quiet(c, s)' => Quiet(c, s)
         /\ \A k \in Keys : Writes(w, Now(w), c, s, k) =>
               mem'[c][s].key = k /\ (Fine(w) /\ verdict = "solved" => Holds(c, s, k)')
<1>0. s \in Slots /\ Now(w) \in Nat
  BY DEF Streams, StreamTypes, Now, Slots
<1>1. /\ \A v \in Workers, i \in Nat : \A m :
            Writes(v, i, c, s, m)' <=> Writes(v, i, c, s, m) /\ ~(v = w /\ i = Now(w))
      /\ \/ mem'[c][s] = mem[c][s] /\ \A k \in Keys : ~Writes(w, Now(w), c, s, k)
         \/ \E k \in Keys : /\ Writes(w, Now(w), c, s, k) /\ mem'[c][s].key = k
                            /\ Fine(w) /\ verdict = "solved" => Holds(c, s, k)'
  BY DEF ExecuteOutcome
<1>2. ASSUME \A k \in Keys : ~Writes(w, Now(w), c, s, k)
      PROVE  mem'[c][s] = mem[c][s] /\ (Quiet(c, s)' => Quiet(c, s))
  <2>1. \A v \in Workers, i \in Nat, m \in Keys : Writes(v, i, c, s, m)' <=> Writes(v, i, c, s, m)
    BY <1>0, <1>1, <1>2
  <2> QED BY <1>1, <1>2, <2>1 DEF Quiet
<1>3. ASSUME NEW k \in Keys, Writes(w, Now(w), c, s, k)
      PROVE  mem'[c][s].key = k /\ (Fine(w) /\ verdict = "solved" => Holds(c, s, k)')
  <2>1. PICK j \in Keys : /\ Writes(w, Now(w), c, s, j) /\ mem'[c][s].key = j
                          /\ Fine(w) /\ verdict = "solved" => Holds(c, s, j)'
    BY <1>1, <1>3
  <2>2. j = k
    BY <1>0, <1>3, <2>1 DEF Streams, OneWrite
  <2> QED BY <2>1, <2>2
<1> QED BY <1>2, <1>3

\* A wait that is over was for writes that are over: what is settled stays so.
LEMMA ExecuteSettles ==
  ASSUME Streams, NEW w \in Workers, NEW verdict, ExecuteOutcome(w, verdict),
         NEW c \in Caches, NEW s \in Buffers[c],
         NEW v \in Workers, NEW n \in Nat, NEW k, Settled(v, n, c, s, k)
  PROVE  Settled(v, n, c, s, k)'
<1>0. s \in Slots /\ Now(w) \in Nat /\ StreamTypes
  BY DEF Streams, StreamTypes, Now, Slots
<1>1. /\ \A x \in Workers, i \in Nat : \A m : Writes(x, i, c, s, m)' => Writes(x, i, c, s, m)
      /\ \A h \in Nat : \A x, i : Waits(v, h, x, i)' <=> Waits(v, h, x, i) /\ ~(v = w /\ h = Now(w))
      /\ \A x \in Workers, i \in Nat : Waits(w, Now(w), x, i) => i <= done[x]
  BY DEF ExecuteOutcome
<1>2. ASSUME NEW x \in Workers, NEW i \in Nat, NEW m \in Keys, Writes(x, i, c, s, m)'
      PROVE  /\ m = k
             /\ (x = v /\ i < n) \/ \E h \in Nat : h < n /\ Waits(v, h, x, i)'
  <2>1. Writes(x, i, c, s, m)
    BY <1>1, <1>2
  <2>2. m = k /\ ((x = v /\ i < n) \/ \E h \in Nat : h < n /\ Waits(v, h, x, i))
    BY <2>1 DEF Settled
  <2>3. done[x] < i /\ done[x] \in Nat
    BY <1>0, <2>1, PositionsAreIssued DEF StreamTypes
  <2>4. ASSUME NEW h \in Nat, Waits(v, h, x, i) PROVE Waits(v, h, x, i)'
    BY <1>1, <2>3, <2>4
  <2> QED BY <2>2, <2>4
<1>3. ASSUME Quiet(c, s)' PROVE mem'[c][s].key = k
  <2>1. CASE \E m \in Keys : Writes(w, Now(w), c, s, m)
    <3>1. PICK m \in Keys : Writes(w, Now(w), c, s, m)
      BY <2>1
    <3>2. mem'[c][s].key = m
      BY <3>1, SlotsAfterExecute
    <3>3. m = k
      BY <1>0, <3>1 DEF Settled
    <3> QED BY <3>2, <3>3
  <2>2. CASE \A m \in Keys : ~Writes(w, Now(w), c, s, m)
    <3>1. mem'[c][s] = mem[c][s] /\ Quiet(c, s)
      BY <1>3, <2>2, SlotsAfterExecute
    <3> QED BY <3>1 DEF Settled
  <2> QED BY <2>1, <2>2
<1> QED BY <1>2, <1>3 DEF Settled

\* What fills a render's buffers finds its inputs in order.
LEMMA FillersAreFine ==
  ASSUME Control, Windows, Streams, NEW w \in Workers, NEW t \in Threads,
         NEW c \in Caches, NEW k \in loads[t][c], NEW m \in Keys,
         Writes(w, Now(w), c, lease[t][c][k], m)
  PROVE  /\ worker[t] = w /\ m = k /\ Fine(w)
         /\ c # "contribution" => \A d \in Caches, r \in Slots, j \in Keys : ~Reads(w, Now(w), d, r, j)
<1>0. Now(w) \in Nat
  BY DEF Streams, StreamTypes, Now
<1>1. Now(w) \in Nat /\ lease[t][c][k] \in Slots
  BY <1>0, LeasedSlots DEF Windows, Slots
<1>2. worker[t] = w /\ m = k
  BY <1>1, LoadersWrite
<1>3. ASSUME NEW d \in Caches, NEW r \in Slots, NEW j \in Keys, Reads(w, Now(w), d, r, j)
      PROVE  Holds(d, r, j) /\ c = "contribution"
  <2>1. /\ Holds(d, r, j) \/ d = "contribution"
        /\ d # "contribution" /\ c = "contribution"
    BY <1>1, <1>2, <1>3, HeadReads
  <2> QED BY <2>1
<1> QED BY <1>2, <1>3 DEF Fine

LEMMA ExecuteProgress ==
  ASSUME Control, Windows, Streams, NEW w \in Workers, NEW verdict \in {"solved", "broken"},
         ExecuteOutcome(w, verdict), UNCHANGED <<hostVars, cacheVars>>, NEW t \in Threads
  PROVE  Progress(t)'
<1>1. /\ Progress(t) /\ Now(w) \in Nat /\ StreamTypes /\ info \in [Workers -> BOOLEAN]
  BY DEF Streams, StreamTypes, Now
<1>2. /\ \A v \in Workers, n \in Nat : \A c, s, k : Writes(v, n, c, s, k)' => Writes(v, n, c, s, k)
      /\ \A v \in Workers, n \in Nat : \A c, s, k : Reads(v, n, c, s, k)' => Reads(v, n, c, s, k)
      /\ issued' = issued /\ \A v \in Workers : info'[v] <=> info[v] \/ (v = w /\ verdict = "broken")
  BY DEF ExecuteOutcome
<1>3. /\ pc' = pc /\ at' = at /\ worker' = worker /\ lease' = lease /\ loads' = loads /\ state' = state
      /\ Source(t)' = Source(t) /\ \A i \in Sources : SourceDone(t, i)' <=> SourceDone(t, i)
  BY DEF hostVars, cacheVars, Source, SourceDone
<1>4. /\ \A c \in Caches : \A k \in DOMAIN lease[t][c] : lease[t][c][k] \in Buffers[c]
      /\ \A c \in Caches : loads[t][c] \subseteq DOMAIN lease[t][c]
      /\ \A i \in Sources : CacheAt(i) \in Caches /\ "contribution" \in Caches
  BY LeasedSlots, CacheIndices DEF Windows, Sources, Caches
<1>5. pc[t] \in AfterSources \cup SourcePoints => worker[t] \in Workers
  BY DEF Control, ControlTypes, WorkersAreExclusive, AfterSources, Computing, Computed, SourcePoints
<1>6. OperationsOf(t)'
  BY <1>1, <1>2, <1>3 DEF Progress, OperationsOf
<1>7. WindowsAreSettled(t)'
  <2>1. ASSUME NEW c \in Caches, NEW k \in DOMAIN lease[t][c], worker[t] \in Workers, SettledFor(t, c, k)
        PROVE  SettledFor(t, c, k)'
    <3>1. issued[worker[t]] + 1 \in Nat
      BY <1>1, <2>1 DEF StreamTypes
    <3>2. Settled(worker[t], issued[worker[t]] + 1, c, lease[t][c][k], k)'
      <4>1. PICK v \in Workers, n \in Nat, s \in Buffers[c] :
               v = worker[t] /\ n = issued[worker[t]] + 1 /\ s = lease[t][c][k]
        BY <1>4, <2>1, <3>1
      <4>2. Settled(v, n, c, s, k)
        BY <2>1, <4>1 DEF SettledFor
      <4>3. Settled(v, n, c, s, k)'
        BY <4>2, ExecuteSettles
      <4> QED BY <1>2, <1>3, <4>1, <4>3
    <3> QED BY <1>3, <3>2 DEF SettledFor
  <2>2. \A i \in Sources : SourceDone(t, i) =>
           \A k \in DOMAIN lease[t][CacheAt(i)] : SettledFor(t, CacheAt(i), k)'
    BY <1>1, <1>4, <1>5, <2>1 DEF Progress, WindowsAreSettled, SourceDone
  <2>3. pc[t] \in {"waitHits", "normalize"} => \A k \in loads[t]["contribution"] : SettledFor(t, "contribution", k)'
    BY <1>1, <1>4, <1>5, <2>1 DEF Progress, WindowsAreSettled, AfterSources, Computing, Computed, Caches
  <2>4. pc[t] = "normalize" =>
          \A k \in DOMAIN lease[t]["contribution"] \ loads[t]["contribution"] :
              /\ SettledFor(t, "contribution", k)'
              /\ state["contribution"][lease[t]["contribution"][k]] = "Ready"
    BY <1>1, <1>4, <1>5, <2>1 DEF Progress, WindowsAreSettled, AfterSources, Computing, Computed, Caches
  <2> QED BY <1>3, <2>2, <2>3, <2>4 DEF WindowsAreSettled, CacheAt
<1>8. LoadsAreUnqueued(t)'
  <2>1. \A c, s : Quiet(c, s) => Quiet(c, s)'
    BY <1>2 DEF Quiet
  <2> QED BY <1>1, <1>3, <2>1 DEF Progress, LoadsAreUnqueued
<1>9. LoadsArrive(t)'
  <2>1. ASSUME NEW c \in Caches, NEW k \in loads[t][c], Quiet(c, lease[t][c][k])'
        PROVE  \/ mem'[c][lease[t][c][k]] = mem[c][lease[t][c][k]] /\ Quiet(c, lease[t][c][k])
               \/ Holds(c, lease[t][c][k], k)'
               \/ c = "contribution" /\ worker[t] = w /\ verdict = "broken"
    <3>1. PICK s \in Buffers[c] : s = lease[t][c][k]
      BY <1>4
    <3>0. /\ (\A m \in Keys : ~Writes(w, Now(w), c, s, m)) =>
                mem'[c][s] = mem[c][s] /\ (Quiet(c, s)' => Quiet(c, s))
          /\ \A m \in Keys : Writes(w, Now(w), c, s, m) =>
                (Fine(w) /\ verdict = "solved" => Holds(c, s, m)')
      BY SlotsAfterExecute
    <3>2. CASE \A m \in Keys : ~Writes(w, Now(w), c, lease[t][c][k], m)
      BY <2>1, <3>0, <3>1, <3>2, <1>3
    <3>3. CASE \E m \in Keys : Writes(w, Now(w), c, lease[t][c][k], m)
      <4>1. PICK m \in Keys : Writes(w, Now(w), c, lease[t][c][k], m)
        BY <3>3
      <4>2. /\ worker[t] = w /\ m = k /\ Fine(w)
            /\ c # "contribution" => \A d \in Caches, r \in Slots, j \in Keys : ~Reads(w, Now(w), d, r, j)
        BY <4>1, FillersAreFine
      <4>3. verdict = "broken" => \E d \in Caches, r \in Slots, j \in Keys : Reads(w, Now(w), d, r, j)
        BY DEF ExecuteOutcome
      <4>4. Fine(w) /\ verdict = "solved" => Holds(c, lease[t][c][k], m)'
        BY <1>3, <3>0, <3>1, <4>1
      <4> QED BY <4>2, <4>3, <4>4
    <3> QED BY <3>2, <3>3
  <2>2. \A c \in Caches : \A k \in loads[t][c] :
           mem'[c][lease[t][c][k]] = mem[c][lease[t][c][k]] /\ Holds(c, lease[t][c][k], k) =>
              Holds(c, lease[t][c][k], k)'
    BY <1>3 DEF Holds
  <2>3. pc[t] = "publish" => Source(t) \in Caches /\ Source(t) # "contribution"
    BY AtSource DEF SourcePoints, Source
  <2>4. pc[t] = "publish" =>
          \A k \in loads[t][Source(t)] :
              Quiet(Source(t), lease[t][Source(t)][k])' => Holds(Source(t), lease[t][Source(t)][k], k)'
    <3> SUFFICES ASSUME pc[t] = "publish", NEW k \in loads[t][Source(t)],
                        Quiet(Source(t), lease[t][Source(t)][k])'
                 PROVE  Holds(Source(t), lease[t][Source(t)][k], k)'
      OBVIOUS
    <3>1. PICK c \in Caches : c = Source(t) /\ c # "contribution" /\ c = Source(t)'
      BY <1>3, <2>3
    <3>2. /\ Quiet(c, lease[t][c][k])' /\ k \in loads[t][c]
          /\ Quiet(c, lease[t][c][k]) => Holds(c, lease[t][c][k], k)
      BY <1>1, <1>3, <3>1 DEF Progress, LoadsArrive
    <3>3. Holds(c, lease[t][c][k], k)'
      BY <2>1, <2>2, <3>1, <3>2
    <3> QED BY <3>1, <3>3
  <2>5. pc[t] \in Computed =>
          \A k \in loads[t]["contribution"] :
              Quiet("contribution", lease[t]["contribution"][k])' =>
                  Holds("contribution", lease[t]["contribution"][k], k)' \/ info'[worker[t]]
    <3> SUFFICES ASSUME pc[t] \in Computed, NEW k \in loads[t]["contribution"],
                        Quiet("contribution", lease[t]["contribution"][k])'
                 PROVE  Holds("contribution", lease[t]["contribution"][k], k)' \/ info'[worker[t]]
      OBVIOUS
    <3>1. PICK c \in Caches : c = "contribution"
      BY DEF Caches
    <3>2. /\ Quiet(c, lease[t][c][k])' /\ k \in loads[t][c] /\ worker[t] \in Workers
          /\ Quiet(c, lease[t][c][k]) => Holds(c, lease[t][c][k], k) \/ info[worker[t]]
      BY <1>1, <1>5, <3>1 DEF Progress, LoadsArrive, AfterSources, Computing
    <3>3. Holds(c, lease[t][c][k], k)' \/ info[worker[t]] \/ (worker[t] = w /\ verdict = "broken")
      BY <2>1, <2>2, <3>1, <3>2
    <3> QED BY <1>2, <3>1, <3>2, <3>3
  <2>6. pc[t] = "publishContributions" => ~info'[worker[t]]
    <3> SUFFICES ASSUME pc[t] = "publishContributions" PROVE ~info'[worker[t]]
      OBVIOUS
    <3>1. worker[t] \in Workers
      BY <1>5 DEF AfterSources, Computing, Computed
    <3>2. queue[worker[t]] = <<>>
      BY <3>1, IdleQueue DEF Streams, Busy, SourcePoints
    <3>3. queue[w] # <<>>
      BY DEF ExecuteOutcome
    <3>4. ~info[worker[t]]
      BY <1>1 DEF Progress, LoadsArrive
    <3> QED BY <1>2, <3>1, <3>2, <3>3, <3>4
  <2> QED BY <1>3, <2>4, <2>5, <2>6 DEF LoadsArrive
<1> QED BY <1>6, <1>7, <1>8, <1>9 DEF Progress

LEMMA ExecuteStreams ==
  ASSUME Control, Windows, Streams, NEW w \in Workers, Execute(w)
  PROVE  Streams'
<1>1. UNCHANGED <<hostVars, cacheVars>>
  BY DEF Execute
<1>2. PICK verdict \in {"solved", "broken"} : ExecuteOutcome(w, verdict)
  BY ExecuteEffect DEF Streams
<1>3. /\ \A v \in Workers, n \in Nat : \A c, s, k : Writes(v, n, c, s, k)' => Writes(v, n, c, s, k)
      /\ \A v \in Workers, n \in Nat : \A c, s, k : Reads(v, n, c, s, k)' => Reads(v, n, c, s, k)
  BY <1>2 DEF ExecuteOutcome
<1>4. /\ worker' = worker /\ pc' = pc /\ state' = state /\ holds' = holds /\ mark' = mark
  BY <1>1 DEF hostVars, cacheVars
<1>5. StreamTypes'
  BY <1>2, <1>4 DEF ExecuteOutcome, Streams, StreamTypes
<1>6. QueuesAreOwned'
  <2>1. \A v \in Workers : queue'[v] # <<>> => queue[v] # <<>>
    BY <1>2 DEF ExecuteOutcome
  <2> QED BY <1>4, <2>1 DEF Streams, QueuesAreOwned
<1>7. OneWrite'
  BY <1>3 DEF Streams, OneWrite
<1>8. ReadsAreSettled'
  <2> SUFFICES ASSUME NEW v \in Workers, NEW n \in Nat, NEW c \in Caches, NEW s \in Slots, NEW k \in Keys,
                      Reads(v, n, c, s, k)'
               PROVE  Settled(v, n, c, s, k)'
    BY DEF ReadsAreSettled
  <2>1. Reads(v, n, c, s, k)
    BY <1>3
  <2>2. PICK u \in Threads : worker[u] = v
    BY <2>1, PendingWork
  <2>3. OperationsOf(u)
    BY DEF Streams, Progress
  <2>4. k \in DOMAIN lease[u][c] /\ s = lease[u][c][k]
    BY <2>1, <2>2, <2>3 DEF OperationsOf
  <2>5. s \in Buffers[c]
    BY <2>4, LeasedSlots DEF Windows
  <2>6. Settled(v, n, c, s, k)
    BY <2>1 DEF Streams, ReadsAreSettled
  <2> QED BY <1>2, <2>5, <2>6, ExecuteSettles
<1>9. ReadyIsMarked'
  <2> SUFFICES ASSUME NEW c \in Caches, NEW s \in Buffers[c], state[c][s] = "Ready"
               PROVE  /\ \A v \in Workers, i \in Nat, m \in Keys : Writes(v, i, c, s, m)' =>
                            /\ m = holds[c][s]
                            /\ mark[c][s].stream = v /\ mark[c][s].position >= i
                            /\ \A d \in Caches, r \in Slots, j \in Keys : ~Reads(v, i, d, r, j)'
                      /\ Quiet(c, s)' => Holds(c, s, holds[c][s])'
    BY <1>4 DEF ReadyIsMarked
  <2>1. /\ \A v \in Workers, i \in Nat, m \in Keys : Writes(v, i, c, s, m) =>
              /\ m = holds[c][s]
              /\ mark[c][s].stream = v /\ mark[c][s].position >= i
              /\ \A d \in Caches, r \in Slots, j \in Keys : ~Reads(v, i, d, r, j)
        /\ Quiet(c, s) => Holds(c, s, holds[c][s])
    BY DEF Streams, ReadyIsMarked
  <2>2. ASSUME Quiet(c, s)' PROVE Holds(c, s, holds[c][s])'
    <3>1. CASE \A m \in Keys : ~Writes(w, Now(w), c, s, m)
      <4>1. mem'[c][s] = mem[c][s] /\ Quiet(c, s)
        BY <1>2, <2>2, <3>1, SlotsAfterExecute
      <4> QED BY <1>4, <2>1, <4>1 DEF Holds
    <3>2. CASE \E m \in Keys : Writes(w, Now(w), c, s, m)
      <4>1. PICK m \in Keys : Writes(w, Now(w), c, s, m)
        BY <3>2
      <4>2. Now(w) \in Nat
        BY DEF Streams, StreamTypes, Now
      <4>3. m = holds[c][s] /\ \A d \in Caches, r \in Slots, j \in Keys : ~Reads(w, Now(w), d, r, j)
        BY <2>1, <4>1, <4>2
      <4>4. Fine(w)
        BY <4>3 DEF Fine
      <4>5. verdict = "broken" => \E d \in Caches, r \in Slots, j \in Keys : Reads(w, Now(w), d, r, j)
        BY <1>2 DEF ExecuteOutcome
      <4>6. Fine(w) /\ verdict = "solved" => Holds(c, s, m)'
        BY <1>2, <4>1, SlotsAfterExecute
      <4>7. Holds(c, s, m)'
        BY <4>3, <4>4, <4>5, <4>6
      <4> QED BY <1>4, <4>3, <4>7
    <3> QED BY <3>1, <3>2
  <2> QED BY <1>3, <2>1, <2>2
<1>10. \A t \in Threads : Progress(t)'
  BY <1>1, <1>2, ExecuteProgress
<1> QED BY <1>5, <1>6, <1>7, <1>8, <1>9, <1>10 DEF Streams

LEMMA StreamsInit == RenderInit => Streams
<1> SUFFICES ASSUME RenderInit PROVE Streams
  OBVIOUS
<1>1. StreamTypes
  <2>1. /\ issued \in [Workers -> Nat] /\ done \in [Workers -> Nat] /\ info \in [Workers -> BOOLEAN]
        /\ queue \in [Workers -> Seq(Operations)]
        /\ \A w \in Workers : issued[w] = done[w] + Len(queue[w])
    BY DEF RenderInit
  <2>2. NoEvent \in EventRecords
    BY DEF NoEvent, EventRecords
  <2>3. /\ \A c \in Caches : \A s \in Buffers[c] : mark[c][s] \in EventRecords
        /\ PerSlot(mem)
    BY <2>2 DEF RenderInit, PerSlot
  <2> QED BY <2>1, <2>3 DEF StreamTypes
<1>2. \A w \in Workers, n \in Nat : \A c, s, k : ~Writes(w, n, c, s, k) /\ ~Reads(w, n, c, s, k)
  BY <1>1, EmptyQueue DEF RenderInit
<1>3. /\ QueuesAreOwned
      /\ \A t \in Threads : pc[t] = "idle" /\ worker[t] = NoWorker
      /\ \A c \in Caches : \A s \in Buffers[c] : state[c][s] = "Empty"
  BY DEF RenderInit, QueuesAreOwned
<1>4. OneWrite /\ ReadsAreSettled
  BY <1>2 DEF OneWrite, ReadsAreSettled
<1>5. ReadyIsMarked
  BY <1>3 DEF ReadyIsMarked
<1>6. ASSUME NEW t \in Threads PROVE Progress(t)
  <2>1. OperationsOf(t)
    BY <1>3, NoWorkerAssumption DEF OperationsOf
  <2>2. WindowsAreSettled(t) /\ LoadsAreUnqueued(t) /\ LoadsArrive(t)
    BY <1>3 DEF WindowsAreSettled, LoadsAreUnqueued, LoadsArrive, SourceDone, SourcePoints,
                AfterSources, Computing, Computed
  <2> QED BY <2>1, <2>2 DEF Progress
<1> QED BY <1>1, <1>3, <1>4, <1>5, <1>6 DEF Streams

LEMMA StreamsStep ==
  ASSUME Control, Windows, Streams, [RenderNext]_renderVars
  PROVE  Streams'
<1>1. ASSUME NEW t \in Threads, HostStep(t) PROVE Streams'
  BY <1>1, ControlCallStreams, ClaimSourceStreams, ClaimContributionsStreams, UploadStreams,
     ComputeStreams, WaitReadyStreams, WaitHitsStreams, NormalizeStreams, PublishSourceStreams,
     PublishContributionsStreams, AbandonStreams, ReleaseStreams
     DEF HostStep, ControlCall
<1>2. ASSUME NEW w \in Workers, Execute(w) PROVE Streams'
  BY <1>2, ExecuteStreams
<1>3. ASSUME UNCHANGED renderVars PROVE Streams'
  <2>1. StreamsRest /\ LeasedStayReady /\ NoneBecomesReady
    BY <1>3 DEF renderVars, StreamsRest, LeasedStayReady, NoneBecomesReady
  <2>2. StreamTypes' /\ OneWrite' /\ ReadsAreSettled' /\ ReadyIsMarked'
    <3>1. /\ info' \in [Workers -> BOOLEAN]
          /\ \A c \in Caches : \A s \in Buffers[c] : mark'[c][s] \in EventRecords
      BY <1>3 DEF renderVars, Streams, StreamTypes
    <3> QED BY <2>1, <3>1, RestOfStreams
  <2>3. QueuesAreOwned'
    BY <1>3 DEF renderVars, Streams, QueuesAreOwned
  <2>4. \A t \in Threads : Progress(t)'
    BY <1>3, <2>1, StandingProgress DEF renderVars
  <2> QED BY <2>2, <2>3, <2>4 DEF Streams
<1> QED BY <1>1, <1>2, <1>3 DEF RenderNext, Finished

\* The operation at the head of a queue is the one at position Now.
LEMMA HeadIsNow ==
  ASSUME StreamTypes, NEW w \in Workers, queue[w] # <<>>
  PROVE  /\ \A x \in Head(queue[w]).reads : \E c \in Caches, s \in Slots, k \in Keys :
               x = <<c, s, k>> /\ Reads(w, Now(w), c, s, k)
         /\ \A x \in Head(queue[w]).writes : \E c \in Caches, s \in Slots, k \in Keys :
               x = <<c, s, k>> /\ Writes(w, Now(w), c, s, k)
<1>1. /\ queue[w] \in Seq(Operations) /\ done[w] \in Nat /\ issued[w] = done[w] + Len(queue[w])
  BY DEF StreamTypes
<1>2. Now(w) \in Live(w) /\ Op(w, Now(w)) = Head(queue[w]) /\ Head(queue[w]) \in Operations
  BY <1>1 DEF Now, Live, Op
<1>3. PICK op \in Operations : op = Head(queue[w])
  BY <1>2
<1>4. /\ \A x \in op.reads : \E c \in Caches, s \in Slots, k \in Keys : x = <<c, s, k>>
      /\ \A x \in op.writes : \E c \in Caches, s \in Slots, k \in Keys : x = <<c, s, k>>
  BY DEF Operations
<1> QED BY <1>2, <1>3, <1>4 DEF Reads, Writes

\* The streams run behind the host, after the calls that queued their work have
\* returned and against slots the host goes on publishing, dropping and evicting;
\* still, an operation that runs finds in every buffer it reads the frame its
\* render leased the buffer for (enqueue_upload, wait_ready, wait_hits and
\* compute_contribution of render_frame; CachedFrame::ready).
THEOREM StreamsReadTheirFrames == RenderSpec => []StreamsReadWhatTheyLeased
<1>1. RenderInit => Control /\ Windows /\ Streams
  BY ControlInit, WindowsInit, StreamsInit
<1>2. Control /\ Windows /\ Streams /\ [RenderNext]_renderVars => (Control /\ Windows /\ Streams)'
  BY ControlStep, WindowsStep, StreamsStep
<1>3. ASSUME Control, Windows, Streams PROVE StreamsReadWhatTheyLeased
  <2> SUFFICES ASSUME NEW w \in Workers, Runnable(w), NEW x \in Head(queue[w]).reads
               PROVE  mem[x[1]][x[2]].key = x[3]
    BY DEF StreamsReadWhatTheyLeased
  <2>1. PICK c \in Caches, s \in Slots, k \in Keys : x = <<c, s, k>> /\ Reads(w, Now(w), c, s, k)
    BY <1>3, HeadIsNow DEF Runnable, Streams
  <2>2. mem[c][s].key = k
    BY <1>3, <2>1, HeadReadsQuiet
  <2> QED BY <2>1, <2>2
<1> QED BY <1>1, <1>2, <1>3, PTL DEF RenderSpec

\* No two streams are at the same buffer with one of them writing it: a slot
\* that was evicted, dropped or abandoned is not refilled under a reader, and no
\* two renders produce the same slot (Window's claim, publish and release; the
\* drain of the stream in render_frame's catch block).
THEOREM StreamsDoNotRace == RenderSpec => []BuffersNeverRace
<1>1. RenderInit => Control /\ Windows /\ Streams
  BY ControlInit, WindowsInit, StreamsInit
<1>2. Control /\ Windows /\ Streams /\ [RenderNext]_renderVars => (Control /\ Windows /\ Streams)'
  BY ControlStep, WindowsStep, StreamsStep
<1>3. ASSUME Control, Windows, Streams PROVE BuffersNeverRace
  <2> SUFFICES ASSUME NEW v \in Workers, NEW w \in Workers, v # w, Runnable(v), Runnable(w),
                      NEW x \in Head(queue[v]).writes,
                      NEW y \in Head(queue[w]).reads \cup Head(queue[w]).writes,
                      <<x[1], x[2]>> = <<y[1], y[2]>>
               PROVE  FALSE
    BY DEF BuffersNeverRace
  <2>0. StreamTypes /\ Now(v) \in Nat /\ Now(w) \in Nat
    BY <1>3 DEF Streams, StreamTypes, Now
  <2>1. PICK c \in Caches, s \in Slots, m \in Keys : x = <<c, s, m>> /\ Writes(v, Now(v), c, s, m)
    BY <2>0, HeadIsNow DEF Runnable
  <2>2. CASE y \in Head(queue[w]).reads
    <3>1. PICK k \in Keys : Reads(w, Now(w), c, s, k)
      BY <2>0, <2>1, <2>2, HeadIsNow DEF Runnable
    <3>2. Quiet(c, s)
      BY <1>3, <3>1, HeadReadsQuiet
    <3> QED BY <2>0, <2>1, <3>2 DEF Quiet
  <2>3. CASE y \in Head(queue[w]).writes
    <3>1. PICK k \in Keys : Writes(w, Now(w), c, s, k)
      BY <2>0, <2>1, <2>3, HeadIsNow DEF Runnable
    <3> QED BY <1>3, <2>0, <2>1, <3>1 DEF Streams, OneWrite
  <2> QED BY <2>2, <2>3
<1> QED BY <1>1, <1>2, <1>3, PTL DEF RenderSpec

-----------------------------------------------------------------------------
(* Verdicts *)

\* The history variables as functions of the thread.
VerdictTypes == tainted \in [Threads -> BOOLEAN] /\ disturbed \in [Threads -> BOOLEAN]

\* A render that has used wrong data has failed, or its solver has reported why
\* and the render is about to look.
TaintIsFlagged ==
    \A t \in Threads : tainted[t] /\ pc[t] # "idle" =>
        failed[t] \/ (pc[t] \in {"sync", "check"} /\ info[worker[t]])

\* Whatever makes a render fail has disturbed it before: its own failure or that
\* of another render under way, its solver's report, a hit that was dropped.
FailureDisturbs(t) ==
    /\ failed[t] /\ pc[t] # "idle" => disturbed[t]
    /\ \A u \in Threads \ {t} :
          failed[u] /\ pc[u] # "idle" /\ pc[t] # "idle" => disturbed[t]
    /\ pc[t] \in Computing /\ info[worker[t]] => disturbed[t]
LostHitDisturbs(t) ==
    pc[t] \in {"compute", "waitHits"} =>
        \A k \in Hits(t, "contribution") :
            state["contribution"][lease[t]["contribution"][k]] = "Empty" => disturbed[t]

Verdicts == /\ VerdictTypes /\ TaintIsFlagged
            /\ \A t \in Threads : FailureDisturbs(t) /\ LostHitDisturbs(t)

LEMMA VerdictsInit == RenderInit => Verdicts
BY NoWorkerAssumption
   DEF RenderInit, Verdicts, VerdictTypes, TaintIsFlagged, FailureDisturbs, LostHitDisturbs,
       Computing, Computed

\* Where no cache changes no hit is lost.
LEMMA HitsStand ==
  ASSUME Verdicts, UNCHANGED cacheVars, NEW t \in Threads, disturbed[t] => disturbed'[t],
         pc'[t] \in {"compute", "waitHits"} => pc[t] \in {"compute", "waitHits"}
  PROVE  LostHitDisturbs(t)'
BY DEF Verdicts, LostHitDisturbs, Hits, cacheVars

\* A step of t in which nothing fails.
CalmStep(t) ==
    /\ failed' = failed /\ tainted' = tainted /\ disturbed' = disturbed /\ pc[t] # "idle"
    /\ \A u \in Threads \ {t} :
          /\ pc'[u] = pc[u] /\ worker'[u] = worker[u]
          /\ worker[u] \in Workers => info'[worker[u]] = info[worker[u]]
    /\ pc[t] \in {"sync", "check"} /\ info[worker[t]] =>
          pc'[t] \in {"sync", "check"} /\ info'[worker'[t]]
    /\ pc'[t] \in Computing /\ info'[worker'[t]] => pc[t] \in Computing /\ info[worker[t]]

LEMMA CalmVerdicts ==
  ASSUME Control, Verdicts, NEW t \in Threads, CalmStep(t),
         \A u \in Threads : LostHitDisturbs(u)'
  PROVE  Verdicts'
<1>1. VerdictTypes'
  BY DEF CalmStep, Verdicts, VerdictTypes
<1>2. \A u \in Threads : pc[u] \in Computing \cup {"sync", "check"} => worker[u] \in Workers
  BY DEF Control, ControlTypes, WorkersAreExclusive, Computing, Computed
<1>3. \A u \in Threads \ {t} :
         /\ pc'[u] = pc[u] /\ worker'[u] = worker[u]
         /\ pc[u] \in Computing \cup {"sync", "check"} => info'[worker'[u]] = info[worker[u]]
  BY <1>2 DEF CalmStep
<1>4. TaintIsFlagged'
  <2> SUFFICES ASSUME NEW u \in Threads, tainted'[u], pc'[u] # "idle", ~failed'[u]
               PROVE  pc'[u] \in {"sync", "check"} /\ info'[worker'[u]]
    BY DEF TaintIsFlagged
  <2>1. pc[u] # "idle" /\ tainted[u] /\ ~failed[u]
    BY <1>3 DEF CalmStep
  <2>2. pc[u] \in {"sync", "check"} /\ info[worker[u]]
    BY <2>1 DEF Verdicts, TaintIsFlagged
  <2> QED BY <1>3, <2>2 DEF CalmStep
<1>5. ASSUME NEW u \in Threads PROVE FailureDisturbs(u)'
  <2>1. /\ failed' = failed /\ disturbed' = disturbed
        /\ \A x \in Threads : pc'[x] # "idle" => pc[x] # "idle"
    BY <1>3 DEF CalmStep
  <2>2. pc'[u] \in Computing /\ info'[worker'[u]] => pc[u] \in Computing /\ info[worker[u]]
    BY <1>3 DEF CalmStep
  <2> QED BY <2>1, <2>2 DEF Verdicts, FailureDisturbs
<1> QED BY <1>1, <1>4, <1>5 DEF Verdicts

\* Calls that succeed and leave the caches alone.
LEMMA CalmCalls ==
  ASSUME Control, Streams, Verdicts, NEW t \in Threads,
         \/ AcquireWorker(t) \/ FetchFrames(t) \/ Upload(t) \/ WaitReady(t) \/ Compute(t) \/ WaitHits(t)
         \/ Normalize(t) \/ Synchronize(t) \/ CheckSolver(t) \/ Drain(t) \/ CopyOutput(t) \/ ReturnWorker(t)
  PROVE  Verdicts'
<1> USE DEF Computing, Computed
<1>1. /\ pc \in [Threads -> Points] /\ worker \in [Threads -> Workers \cup {NoWorker}]
      /\ \A u \in Threads : worker[u] = NoWorker <=> pc[u] \in {"idle", "worker"}
  BY DEF Control, ControlTypes, WorkersAreExclusive
<1>2. info' = info
  BY DEF AcquireWorker, FetchFrames, Upload, WaitReady, Compute, WaitHits, Normalize, Synchronize,
         CheckSolver, Drain, CopyOutput, ReturnWorker, Enqueue, Contribute, streamVars
<1>3. /\ UNCHANGED cacheVars /\ failed' = failed /\ tainted' = tainted /\ disturbed' = disturbed
      /\ pc[t] # "idle" /\ \E q : pc' = [pc EXCEPT ![t] = q]
      /\ \A u \in Threads \ {t} : worker'[u] = worker[u]
  BY <1>1 DEF AcquireWorker, FetchFrames, Upload, WaitReady, Compute, WaitHits, Normalize, Synchronize,
         CheckSolver, Drain, CopyOutput, ReturnWorker, Goto, ghostVars
<1>4. /\ pc[t] \in {"sync", "check"} /\ info[worker[t]] => pc'[t] = "check" /\ worker'[t] = worker[t]
      /\ pc'[t] \in Computing => pc[t] \in Computing /\ worker'[t] = worker[t]
      /\ pc'[t] \in {"compute", "waitHits"} => pc[t] \in {"compute", "waitHits"}
  BY <1>1 DEF AcquireWorker, FetchFrames, Upload, WaitReady, Compute, WaitHits, Normalize, Synchronize,
         CheckSolver, SolverFailed, Drain, CopyOutput, ReturnWorker, Goto
<1>5. \A u \in Threads \ {t} : pc'[u] = pc[u]
  BY <1>1, <1>3
<1>6. CalmStep(t)
  BY <1>2, <1>3, <1>4, <1>5 DEF CalmStep
<1>7. ASSUME NEW u \in Threads PROVE LostHitDisturbs(u)'
  BY <1>3, <1>4, <1>5, HitsStand
<1> QED BY <1>6, <1>7, CalmVerdicts

\* Claims find no dropped slot and drop none.
LEMMA ClaimLosesNoHit ==
  ASSUME Windows, Verdicts, NEW t \in Threads, NEW c \in Caches, NEW deferred,
         ClaimOutcome(t, c, deferred), disturbed' = disturbed,
         \A u \in Threads \ {t} : pc'[u] = pc[u],
         pc'[t] \in {"compute", "waitHits"} => c = "contribution", NEW u \in Threads
  PROVE  LostHitDisturbs(u)'
<1> DEFINE K == KeysFor(c, frame[t])
<1> SUFFICES ASSUME NEW d \in Caches, d = "contribution", pc'[u] \in {"compute", "waitHits"},
                    NEW k \in DOMAIN lease'[u][d] \ loads'[u][d],
                    state'[d][lease'[u][d][k]] = "Empty"
             PROVE  disturbed[u]
  BY DEF LostHitDisturbs, Hits, Caches
<1>1. /\ DOMAIN lease'[t][c] = K
      /\ \A j \in loads'[t][c] : state'[c][lease'[t][c][j]] = "Loading"
      /\ \A j \in K : lease'[t][c][j] \in Buffers[c]
      /\ \A j \in K \ loads'[t][c] : state[c][lease'[t][c][j]] # "Empty"
      /\ \A s \in Buffers[d] : d # c \/ s \notin {lease'[t][c][j] : j \in loads'[t][c]} =>
            state'[d][s] = state[d][s]
      /\ \A x \in Threads, e \in Caches : x # t \/ e # c =>
            lease'[x][e] = lease[x][e] /\ loads'[x][e] = loads[x][e]
  BY DEF ClaimOutcome, OnlyWindow
<1>2. lease'[u][d][k] \in Buffers[d] => state[d][lease'[u][d][k]] = "Empty"
  BY <1>1
<1>3. CASE u = t
  BY <1>1, <1>2, <1>3
<1>4. CASE u # t
  <2>1. k \in Hits(u, "contribution") /\ lease'[u][d] = lease[u][d] /\ pc[u] \in {"compute", "waitHits"}
    BY <1>1, <1>4 DEF Hits
  <2>2. lease[u][d][k] \in Buffers[d]
    BY <2>1, LeasedSlots DEF Windows, Hits
  <2> QED BY <1>2, <2>1, <2>2 DEF Verdicts, LostHitDisturbs
<1> QED BY <1>3, <1>4

LEMMA ClaimVerdicts ==
  ASSUME Control, Windows, Streams, Verdicts, NEW t \in Threads, ClaimSource(t) \/ ClaimContributions(t)
  PROVE  Verdicts'
<1> USE DEF Computing, Computed
<1>1. /\ pc \in [Threads -> Points] /\ worker \in [Threads -> Workers \cup {NoWorker}]
      /\ info \in [Workers -> BOOLEAN]
      /\ worker' = worker /\ failed' = failed /\ tainted' = tainted /\ disturbed' = disturbed
      /\ pc[t] \in {"claim", "claimContributions"}
  BY DEF Control, ControlTypes, Streams, StreamTypes, ClaimSource, ClaimContributions, Goto, ghostVars
<1>2. CASE ClaimSource(t)
  <2>1. pc' = [pc EXCEPT ![t] = "upload"] /\ info' = info
    BY <1>2 DEF ClaimSource, Goto, streamVars
  <2>2. PICK c \in Caches : c = Source(t) /\ ClaimOutcome(t, c, FALSE)
    BY <1>2, AtSource, ClaimSourceWindows DEF SourcePoints, ClaimSource
  <2>3. CalmStep(t)
    BY <1>1, <2>1 DEF CalmStep
  <2>4. \A u \in Threads : LostHitDisturbs(u)'
    BY <1>1, <2>1, <2>2, ClaimLosesNoHit
  <2> QED BY <2>3, <2>4, CalmVerdicts
<1>3. CASE ClaimContributions(t)
  <2>1. pc' = [pc EXCEPT ![t] = "compute"] /\ info' = [info EXCEPT ![worker[t]] = FALSE]
    BY <1>3 DEF ClaimContributions, Goto, ClearedInfo
  <2>2. PICK c \in Caches : c = "contribution" /\ ClaimOutcome(t, c, TRUE)
    BY <1>3, ClaimContributionsWindows DEF Caches
  <2>3. worker[t] \in Workers /\ \A u \in Threads \ {t} : worker[u] # worker[t]
    BY <1>1 DEF Control, WorkersAreExclusive
  <2>4. CalmStep(t)
    <3>1. ~info'[worker'[t]]
      BY <1>1, <2>1, <2>3
    <3>2. \A u \in Threads \ {t} : worker[u] \in Workers => info'[worker[u]] = info[worker[u]]
      BY <1>1, <2>1, <2>3
    <3> QED BY <1>1, <2>1, <3>1, <3>2 DEF CalmStep
  <2>5. \A u \in Threads : LostHitDisturbs(u)'
    BY <1>1, <2>1, <2>2, ClaimLosesNoHit
  <2> QED BY <2>4, <2>5, CalmVerdicts
<1> QED BY <1>2, <1>3

\* Publishing drops nothing, and only a render that failed drops what others hit.
LEMMA OutcomeLosesNoHit ==
  ASSUME Windows, Verdicts, NEW t \in Threads, NEW c \in Caches, NEW outcome,
         SlotsOutcome(t, c, outcome),
         outcome = "Empty" => failed[t] \/ loads[t][c] = {}, disturbed' = disturbed,
         \A u \in Threads \ {t} : pc'[u] = pc[u] /\ lease'[u] = lease[u],
         pc[t] # "idle", pc'[t] \notin {"compute", "waitHits"}, NEW u \in Threads
  PROVE  LostHitDisturbs(u)'
<1> SUFFICES ASSUME NEW d \in Caches, d = "contribution", pc'[u] \in {"compute", "waitHits"},
                    NEW k \in DOMAIN lease'[u][d] \ loads'[u][d],
                    state'[d][lease'[u][d][k]] = "Empty"
             PROVE  disturbed[u]
  BY DEF LostHitDisturbs, Hits, Caches
<1>1. u # t /\ pc[u] = pc'[u] /\ lease'[u][d] = lease[u][d] /\ loads'[u][d] = loads[u][d]
  BY DEF SlotsOutcome
<1>2. k \in Hits(u, "contribution")
  BY <1>1 DEF Hits
<1>3. lease[u][d][k] \in Buffers[d]
  BY <1>2, LeasedSlots DEF Windows, Hits
<1>4. CASE state[d][lease[u][d][k]] = "Empty"
  BY <1>1, <1>2, <1>4 DEF Verdicts, LostHitDisturbs
<1>5. CASE state[d][lease[u][d][k]] # "Empty"
  <2>1. outcome = "Empty" /\ loads[t][c] # {}
    BY <1>1, <1>3, <1>5 DEF SlotsOutcome, LoadSlots
  <2>2. failed[t] /\ pc[t] # "idle" /\ t # u /\ pc[u] # "idle"
    BY <1>1, <2>1
  <2> QED BY <2>2 DEF Verdicts, FailureDisturbs
<1> QED BY <1>4, <1>5

LEMMA SlotVerdicts ==
  ASSUME Control, Windows, Verdicts, NEW t \in Threads,
         PublishSource(t) \/ PublishContributions(t) \/ Abandon(t) \/ Release(t)
  PROVE  Verdicts'
<1> USE DEF Computing, Computed
<1>1. /\ pc \in [Threads -> Points] /\ PerWindow(lease) /\ "contribution" \in Caches
  BY DEF Control, ControlTypes, Windows, CacheTypes, Caches
<1>2. /\ worker' = worker /\ failed' = failed /\ tainted' = tainted /\ disturbed' = disturbed /\ info' = info
      /\ pc[t] \in {"publish", "publishContributions", "abandon", "release"}
      /\ pc[t] # "idle" /\ \E q : pc' = [pc EXCEPT ![t] = q]
  BY DEF PublishSource, PublishContributions, Abandon, Release, Goto, ghostVars, streamVars
<1>3. /\ pc'[t] \in {"waitReady", "release", "returnWorker", "copy"}
      /\ \A u \in Threads \ {t} : pc'[u] = pc[u]
  <2>1. CASE Release(t)
    BY <1>1, <2>1 DEF Release, Goto
  <2>2. CASE PublishSource(t) \/ PublishContributions(t) \/ Abandon(t)
    BY <1>1, <2>2 DEF PublishSource, PublishContributions, Abandon, Goto
  <2> QED BY <2>1, <2>2
<1>4. CalmStep(t)
  BY <1>2, <1>3 DEF CalmStep
<1>5. \A u \in Threads : LostHitDisturbs(u)'
  <2>1. CASE PublishSource(t)
    <3>1. Publish(t, Source(t)) /\ lease' = lease
      BY <2>1 DEF PublishSource, Publish
    <3>2. PICK c \in Caches : c = Source(t)
      BY <2>1, AtSource DEF SourcePoints, PublishSource
    <3>3. SlotsOutcome(t, c, "Ready")
      BY <3>1, <3>2, PublishEffect DEF Windows
    <3> QED BY <1>2, <1>3, <3>1, <3>3, OutcomeLosesNoHit
  <2>2. CASE PublishContributions(t)
    <3>1. Publish(t, "contribution") /\ lease' = lease
      BY <2>2 DEF PublishContributions, Publish
    <3>2. SlotsOutcome(t, "contribution", "Ready")
      BY <1>1, <3>1, PublishEffect DEF Windows
    <3> QED BY <1>1, <1>2, <1>3, <3>1, <3>2, OutcomeLosesNoHit
  <2>3. CASE Abandon(t)
    <3>1. DropLoads(t, "contribution") /\ lease' = lease /\ mark' = mark /\ failed[t]
      BY <2>3 DEF Abandon, Control, FailuresAreCaught
    <3>2. SlotsOutcome(t, "contribution", "Empty")
      BY <1>1, <3>1, DropEffect DEF Windows
    <3> QED BY <1>1, <1>2, <1>3, <3>1, <3>2, OutcomeLosesNoHit
  <2>4. CASE Release(t)
    <3>1. PICK j \in 1..Last : CacheAt(j) \in Caches /\ SlotsOutcome(t, CacheAt(j), "Empty")
      BY <2>4, ReleaseEffect
    <3>2. failed[t] \/ loads[t][CacheAt(j)] = {}
      BY <2>4 DEF Release, Windows, PathOf, MustBeLoaded
    <3>3. \A u \in Threads \ {t} : lease'[u] = lease[u]
      BY <1>1, <2>4 DEF Release, PerWindow
    <3> QED BY <1>2, <1>3, <3>1, <3>2, <3>3, OutcomeLosesNoHit
  <2> QED BY <2>1, <2>2, <2>3, <2>4
<1> QED BY <1>4, <1>5, CalmVerdicts

\* A step that throws.
FailingStep(t) ==
    /\ UNCHANGED cacheVars /\ worker' = worker /\ info' = info /\ tainted' = tainted
    /\ pc[t] # "idle" /\ pc'[t] \in {"drain", "returnWorker"}
    /\ \A u \in Threads \ {t} : pc'[u] = pc[u]
    /\ failed' = [failed EXCEPT ![t] = TRUE]
    /\ disturbed' \in [Threads -> BOOLEAN] /\ disturbed'[t]
    /\ \A u \in Threads : disturbed[u] \/ (u # t /\ pc[u] # "idle") => disturbed'[u]

LEMMA FailingVerdicts ==
  ASSUME Control, Verdicts, NEW t \in Threads, FailingStep(t)
  PROVE  Verdicts'
<1> USE DEF Computing, Computed
<1>1. /\ failed \in [Threads -> BOOLEAN] /\ failed'[t] /\ \A u \in Threads \ {t} : failed'[u] = failed[u]
  BY DEF Control, ControlTypes, FailingStep
<1>2. VerdictTypes'
  BY DEF FailingStep, Verdicts, VerdictTypes
<1>3. TaintIsFlagged'
  BY <1>1 DEF FailingStep, Verdicts, TaintIsFlagged
<1>4. ASSUME NEW u \in Threads PROVE FailureDisturbs(u)'
  <2>1. CASE u = t
    BY <2>1 DEF FailingStep, FailureDisturbs
  <2>2. CASE u # t
    BY <1>1, <2>2 DEF FailingStep, Verdicts, FailureDisturbs
  <2> QED BY <2>1, <2>2
<1>5. ASSUME NEW u \in Threads PROVE LostHitDisturbs(u)'
  BY HitsStand DEF FailingStep
<1> QED BY <1>2, <1>3, <1>4, <1>5 DEF Verdicts

LEMMA FailingCalls ==
  ASSUME Control, Windows, Streams, Verdicts, NEW t \in Threads,
         \/ FetchFails(t) \/ UploadFails(t) \/ ComputeFails(t) \/ CallFails(t)
         \/ HitsLost(t) \/ SolverFails(t)
  PROVE  Verdicts'
<1> USE DEF Computing, Computed
<1>1. /\ pc \in [Threads -> Points] /\ disturbed \in [Threads -> BOOLEAN]
      /\ \A u \in Threads : (pc[u] # "idle") \in BOOLEAN
  BY DEF Control, ControlTypes, Verdicts, VerdictTypes
<1>2. /\ UNCHANGED cacheVars /\ worker' = worker /\ info' = info /\ tainted' = tainted
      /\ pc[t] # "idle" /\ failed' = [failed EXCEPT ![t] = TRUE]
      /\ pc' = [pc EXCEPT ![t] = "drain"] \/ pc' = [pc EXCEPT ![t] = "returnWorker"]
  BY DEF FetchFails, UploadFails, ComputeFails, CallFails, HitsLost, SolverFails, Fault, Raise,
         Contribute, Enqueue, streamVars
<1>3. CASE FetchFails(t) \/ UploadFails(t) \/ ComputeFails(t) \/ CallFails(t)
  <2>1. disturbed' = [u \in Threads |-> disturbed[u] \/ u = t \/ pc[u] # "idle"]
    BY <1>3 DEF FetchFails, UploadFails, ComputeFails, CallFails, Fault
  <2>2. FailingStep(t)
    BY <1>1, <1>2, <2>1 DEF FailingStep
  <2> QED BY <2>2, FailingVerdicts
<1>4. CASE HitsLost(t) \/ SolverFails(t)
  <2>1. disturbed' = [u \in Threads |-> disturbed[u] \/ (u # t /\ pc[u] # "idle")]
    BY <1>4 DEF HitsLost, SolverFails, Raise
  <2>2. disturbed[t]
    <3>1. CASE SolverFails(t)
      BY <3>1 DEF SolverFails, SolverFailed, Verdicts, FailureDisturbs
    <3>2. CASE HitsLost(t)
      <4>1. PICK c \in Caches : c = "contribution"
        BY DEF Caches
      <4>2. PICK k \in Hits(t, c) : /\ state[c][lease[t][c][k]] # "Loading"
                                    /\ \/ state[c][lease[t][c][k]] # "Ready"
                                       \/ holds[c][lease[t][c][k]] # k
        BY <3>2, <4>1 DEF HitsLost, Lost
      <4>3. lease[t][c][k] \in Buffers[c] /\ k \in DOMAIN lease[t][c]
        BY <4>2, LeasedSlots DEF Windows, Hits
      <4>4. /\ state[c][lease[t][c][k]] \in {"Empty", "Loading", "Ready"}
            /\ state[c][lease[t][c][k]] # "Empty" => holds[c][lease[t][c][k]] = k
        BY <4>3 DEF Windows, SlotsFollowTheirWindows, SlotStates, WindowIsSound
      <4>5. state[c][lease[t][c][k]] = "Empty" /\ pc[t] = "waitHits"
        BY <3>2, <4>2, <4>4 DEF HitsLost
      <4> QED BY <4>1, <4>2, <4>5 DEF Verdicts, LostHitDisturbs
    <3> QED BY <1>4, <3>1, <3>2
  <2>3. FailingStep(t)
    BY <1>1, <1>2, <2>1, <2>2 DEF FailingStep
  <2> QED BY <2>3, FailingVerdicts
<1> QED BY <1>3, <1>4

LEMMA GetFrameVerdicts ==
  ASSUME Control, Verdicts, NEW t \in Threads, NEW f \in Wanted, GetFrame(t, f)
  PROVE  Verdicts'
<1> USE DEF Computing, Computed
<1>1. /\ pc \in [Threads -> Points] /\ failed \in [Threads -> BOOLEAN]
      /\ tainted \in [Threads -> BOOLEAN] /\ disturbed \in [Threads -> BOOLEAN]
  BY DEF Control, ControlTypes, Verdicts, VerdictTypes
<1>2. /\ pc[t] = "idle" /\ pc' = [pc EXCEPT ![t] = "worker"]
      /\ failed' = [failed EXCEPT ![t] = FALSE] /\ tainted' = [tainted EXCEPT ![t] = FALSE]
      /\ disturbed' = [disturbed EXCEPT ![t] = \E u \in Threads \ {t} : failed[u] /\ pc[u] # "idle"]
      /\ worker' = worker /\ info' = info /\ UNCHANGED cacheVars
  BY DEF GetFrame, streamVars
<1>3. /\ pc'[t] = "worker" /\ ~failed'[t] /\ ~tainted'[t]
      /\ disturbed'[t] <=> \E u \in Threads \ {t} : failed[u] /\ pc[u] # "idle"
      /\ \A u \in Threads \ {t} : /\ pc'[u] = pc[u] /\ failed'[u] = failed[u] /\ tainted'[u] = tainted[u]
                                  /\ disturbed'[u] = disturbed[u]
  BY <1>1, <1>2
<1>4. VerdictTypes'
  BY <1>1, <1>2 DEF VerdictTypes
<1>5. TaintIsFlagged'
  BY <1>2, <1>3 DEF Verdicts, TaintIsFlagged
<1>6. ASSUME NEW u \in Threads PROVE FailureDisturbs(u)'
  <2>1. CASE u = t
    BY <1>3, <2>1 DEF FailureDisturbs
  <2>2. CASE u # t
    BY <1>2, <1>3, <2>2 DEF Verdicts, FailureDisturbs
  <2> QED BY <2>1, <2>2
<1>7. ASSUME NEW u \in Threads PROVE LostHitDisturbs(u)'
  <2>1. CASE u = t
    BY <1>3, <2>1 DEF LostHitDisturbs
  <2>2. CASE u # t
    BY <1>2, <1>3, <2>2, HitsStand
  <2> QED BY <2>1, <2>2
<1> QED BY <1>4, <1>5, <1>6, <1>7 DEF Verdicts

LEMMA ExecuteVerdicts ==
  ASSUME Control, Windows, Streams, Verdicts, NEW w \in Workers, Execute(w)
  PROVE  Verdicts'
<1> USE DEF Computing, Computed
<1> DEFINE fine == \A x \in Head(queue[w]).reads : Intact(x)
<1>1. /\ tainted \in [Threads -> BOOLEAN] /\ disturbed \in [Threads -> BOOLEAN]
      /\ info \in [Workers -> BOOLEAN] /\ StreamTypes
  BY DEF Verdicts, VerdictTypes, Streams, StreamTypes
<1>2. PICK breaks \in BOOLEAN :
         /\ info' = [info EXCEPT ![w] = @ \/ breaks]
         /\ disturbed' = [t \in Threads |-> disturbed[t] \/ (t \in {u \in Threads : worker[u] = w} /\ breaks)]
  BY DEF Execute
<1>3. /\ tainted' = [t \in Threads |-> tainted[t] \/ (t \in {u \in Threads : worker[u] = w} /\ ~fine)]
      /\ queue[w] # <<>>
  BY DEF Execute, Runnable
<1>4. /\ pc' = pc /\ failed' = failed /\ worker' = worker /\ UNCHANGED cacheVars
  BY DEF Execute, hostVars
<1> HIDE DEF fine
<1>5. VerdictTypes'
  BY <1>1, <1>2, <1>3 DEF VerdictTypes
<1>6. /\ \A t \in Threads : disturbed[t] => disturbed'[t]
      /\ \A v \in Workers : info[v] => info'[v]
      /\ \A t \in Threads : worker[t] \in Workers /\ info'[worker[t]] => info[worker[t]] \/ disturbed'[t]
  BY <1>1, <1>2
<1>7. \A t \in Threads : pc[t] \in Computing => worker[t] \in Workers
  BY DEF Control, ControlTypes, WorkersAreExclusive
<1>8. TaintIsFlagged'
  <2> SUFFICES ASSUME NEW t \in Threads, tainted'[t], pc[t] # "idle", ~failed[t]
               PROVE  pc[t] \in {"sync", "check"} /\ info'[worker[t]]
    BY <1>4 DEF TaintIsFlagged
  <2>1. CASE tainted[t]
    BY <1>6, <1>7, <2>1 DEF Verdicts, TaintIsFlagged
  <2>2. CASE ~tainted[t]
    <3>1. worker[t] = w /\ ~fine
      BY <1>3, <2>2
    <3>2. PICK x \in Head(queue[w]).reads : ~Intact(x)
      BY <3>1 DEF fine
    <3>3. PICK c \in Caches, s \in Slots, k \in Keys : x = <<c, s, k>> /\ Reads(w, Now(w), c, s, k)
      BY <1>1, <1>3, HeadIsNow
    <3>4. ~Holds(c, s, k)
      BY <3>2, <3>3 DEF Intact, Holds
    <3>5. /\ c = "contribution" /\ k \in loads[t][c] /\ s = lease[t][c][k]
          /\ pc[t] \in {"sync", "drain"}
      BY <3>1, <3>3, <3>4, HeadReads
    <3>6. pc[t] = "sync"
      BY <3>5 DEF Control, FailuresAreCaught
    <3>7. Quiet(c, s)
      BY <3>3, HeadReadsQuiet
    <3>8. LoadsArrive(t)
      BY DEF Streams, Progress
    <3>9. info[worker[t]]
      BY <3>4, <3>5, <3>6, <3>7, <3>8 DEF LoadsArrive
    <3> QED BY <1>6, <3>1, <3>6, <3>9
  <2> QED BY <2>1, <2>2
<1>9. ASSUME NEW t \in Threads PROVE FailureDisturbs(t)' /\ LostHitDisturbs(t)'
  <2>1. FailureDisturbs(t)'
    BY <1>4, <1>6, <1>7 DEF Verdicts, FailureDisturbs
  <2>2. LostHitDisturbs(t)'
    BY <1>4, <1>6, HitsStand
  <2> QED BY <2>1, <2>2
<1> QED BY <1>5, <1>8, <1>9 DEF Verdicts

LEMMA VerdictsStep ==
  ASSUME Control, Windows, Streams, Verdicts, [RenderNext]_renderVars
  PROVE  Verdicts'
<1>1. ASSUME NEW t \in Threads, HostStep(t) PROVE Verdicts'
  BY <1>1, CalmCalls, ClaimVerdicts, SlotVerdicts, FailingCalls, GetFrameVerdicts DEF HostStep
<1>2. ASSUME NEW w \in Workers, Execute(w) PROVE Verdicts'
  BY <1>2, ExecuteVerdicts
<1>3. ASSUME UNCHANGED renderVars PROVE Verdicts'
  BY <1>3 DEF renderVars, Verdicts, VerdictTypes, TaintIsFlagged, FailureDisturbs, LostHitDisturbs, Hits
<1> QED BY <1>1, <1>2, <1>3 DEF RenderNext, Finished

\* A frame leaves render_frame only if all that went into it, in this render and
\* in those it took contributions from, was uploaded completely and solved: the
\* status check between synchronize and publish, publish_contributions' order,
\* and wait_hits' refusal of dropped slots see to it.
THEOREM DeliveryIsSound == RenderSpec => []DeliveredFramesAreSound
<1>1. RenderInit => Control /\ Windows /\ Streams /\ Verdicts
  BY ControlInit, WindowsInit, StreamsInit, VerdictsInit
<1>2. Control /\ Windows /\ Streams /\ Verdicts /\ [RenderNext]_renderVars
         => (Control /\ Windows /\ Streams /\ Verdicts)'
  BY ControlStep, WindowsStep, StreamsStep, VerdictsStep
<1>3. Control /\ Verdicts => DeliveredFramesAreSound
  BY DEF Control, FailuresAreCaught, Rendering, Verdicts, TaintIsFlagged, DeliveredFramesAreSound
<1> QED BY <1>1, <1>2, <1>3, PTL DEF RenderSpec

\* Failures spread only between renders that overlap: a render fails only if a
\* call or the solver failed in it, or in another one under way with it; what a
\* failed render leaves behind (dropped slots, a worker whose status was set)
\* fails no later one (the catch block and Window's destructor; the status is
\* cleared before each computation).
THEOREM FailuresStayLocal == RenderSpec => []FailuresAreLocal
<1>1. RenderInit => Control /\ Windows /\ Streams /\ Verdicts
  BY ControlInit, WindowsInit, StreamsInit, VerdictsInit
<1>2. Control /\ Windows /\ Streams /\ Verdicts /\ [RenderNext]_renderVars
         => (Control /\ Windows /\ Streams /\ Verdicts)'
  BY ControlStep, WindowsStep, StreamsStep, VerdictsStep
<1>3. Verdicts => FailuresAreLocal
  BY DEF Verdicts, FailureDisturbs, FailuresAreLocal
<1> QED BY <1>1, <1>2, <1>3, PTL DEF RenderSpec

=============================================================================
