------------------------- MODULE FrameRequests_proofs -------------------------
(***************************************************************************)
(* The geometry holds for every clip length and every search parameter.    *)
(***************************************************************************)
EXTENDS FrameRequests, FiniteSetTheorems, WellFoundedInduction, TLAPS

\* Every anchor that can start a patch searches exactly temporal_count origins,
\* itself among them, all inside the clip.
LEMMA SearchWindowSize ==
  ASSUME NEW p, ValidParameters(p), NEW a \in 0..(ValidAnchorFrames(p) - 1)
  PROVE  /\ SearchWindow(p, a).low \in 0..a
         /\ SearchWindow(p, a).high \in a..(ValidAnchorFrames(p) - 1)
         /\ SearchWindow(p, a).high - SearchWindow(p, a).low + 1 = TemporalCount(p)
         /\ \/ SearchWindow(p, a).low >= a - p.bwd
            \/ SearchWindow(p, a).low >= ValidAnchorFrames(p) - 1 - p.bwd - p.fwd
         /\ \/ SearchWindow(p, a).high <= a + p.fwd
            \/ SearchWindow(p, a).high <= p.bwd + p.fwd
<1> DEFINE n == ValidAnchorFrames(p)
           b == p.bwd
           w == p.fwd
<1>1. b \in Nat /\ w \in Nat /\ n \in Nat /\ n >= 1 /\ a \in 0..(n - 1)
  BY DEF ValidParameters, ValidAnchorFrames
<1>2. TemporalCount(p) = IF b + w + 1 <= n THEN b + w + 1 ELSE n
  BY DEF TemporalCount, Least
<1>3. /\ SearchWindow(p, a).low = Greatest(0, a - b - Shift(p, a))
      /\ SearchWindow(p, a).high = Least(n - 1, a + w - Shift(p, a))
  BY DEF SearchWindow
<1>4. Shift(p, a) = Least(0, a - b) + Greatest(0, a + w - (n - 1))
  BY DEF Shift
<1> HIDE DEF n, b, w
<1>5. CASE a < b /\ a + w > n - 1
  <2>1. Shift(p, a) = (a - b) + (a + w - (n - 1))
    BY <1>1, <1>4, <1>5 DEF Least, Greatest
  <2>2. a - b - Shift(p, a) = (n - 1) - a - w /\ a + w - Shift(p, a) = (n - 1) + b - a
    BY <1>1, <2>1
  <2>3. SearchWindow(p, a).low = 0 /\ SearchWindow(p, a).high = n - 1
    BY <1>1, <1>3, <1>5, <2>2 DEF Least, Greatest
  <2> QED BY <1>1, <1>2, <1>5, <2>3 DEF n, b, w
<1>6. CASE a < b /\ ~(a + w > n - 1)
  <2>1. Shift(p, a) = a - b
    BY <1>1, <1>4, <1>6 DEF Least, Greatest
  <2>2. a - b - Shift(p, a) = 0 /\ a + w - Shift(p, a) = w + b
    BY <1>1, <2>1
  <2>3. SearchWindow(p, a).low = 0 /\ SearchWindow(p, a).high = Least(n - 1, w + b)
    BY <1>1, <1>3, <2>2 DEF Greatest
  <2> QED BY <1>1, <1>2, <1>6, <2>3 DEF n, b, w, Least
<1>7. CASE ~(a < b) /\ a + w > n - 1
  <2>1. Shift(p, a) = a + w - (n - 1)
    BY <1>1, <1>4, <1>7 DEF Least, Greatest
  <2>2. a - b - Shift(p, a) = n - 1 - b - w /\ a + w - Shift(p, a) = n - 1
    BY <1>1, <2>1
  <2>3. SearchWindow(p, a).low = Greatest(0, n - 1 - b - w) /\ SearchWindow(p, a).high = n - 1
    BY <1>1, <1>3, <2>2 DEF Least
  <2> QED BY <1>1, <1>2, <1>7, <2>3 DEF n, b, w, Greatest
<1>8. CASE ~(a < b) /\ ~(a + w > n - 1)
  <2>1. Shift(p, a) = 0
    BY <1>1, <1>4, <1>8 DEF Least, Greatest
  <2>2. SearchWindow(p, a).low = a - b /\ SearchWindow(p, a).high = a + w
    BY <1>1, <1>3, <1>8, <2>1 DEF Least, Greatest
  <2> QED BY <1>1, <1>2, <1>8, <2>2 DEF n, b, w
<1> QED BY <1>5, <1>6, <1>7, <1>8

\* The source frames of an anchor: the window's origins and the frames of a
\* patch behind them, cached_frames in all.
LEMMA SourceRange ==
  ASSUME NEW p, ValidParameters(p), NEW a \in 0..(ValidAnchorFrames(p) - 1)
  PROVE  /\ AnchorSourceRange(p, a).first \in 0..a
         /\ AnchorSourceRange(p, a).last \in a..(p.frames - 1)
         /\ AnchorSourceRange(p, a).last - AnchorSourceRange(p, a).first + 1 = CachedFrames(p)
         /\ \/ AnchorSourceRange(p, a).first >= a - p.bwd
            \/ AnchorSourceRange(p, a).first >= p.frames - p.pt - p.bwd - p.fwd
         /\ \/ AnchorSourceRange(p, a).last <= a + p.fwd + p.pt - 1
            \/ AnchorSourceRange(p, a).last <= p.bwd + p.fwd + p.pt - 1
<1>1. /\ p.frames \in Nat /\ p.pt \in Nat /\ p.bwd \in Nat /\ p.fwd \in Nat
      /\ 1 <= p.pt /\ p.pt <= p.frames
  BY DEF ValidParameters
<1>2. /\ SearchWindow(p, a).low \in 0..a
      /\ SearchWindow(p, a).high \in a..(p.frames - p.pt)
      /\ SearchWindow(p, a).high - SearchWindow(p, a).low + 1 = TemporalCount(p)
      /\ \/ SearchWindow(p, a).low >= a - p.bwd
         \/ SearchWindow(p, a).low >= p.frames - p.pt - p.bwd - p.fwd
      /\ \/ SearchWindow(p, a).high <= a + p.fwd
         \/ SearchWindow(p, a).high <= p.bwd + p.fwd
  BY <1>1, SearchWindowSize DEF ValidAnchorFrames
<1>3. TemporalCount(p) \in Int
  BY <1>1 DEF TemporalCount, Least, ValidAnchorFrames
<1> QED BY <1>1, <1>2, <1>3 DEF AnchorSourceRange, CachedFrames

\* The anchors of an output frame: never none, each one able to start a patch,
\* and exactly those with a slot for the frame.
LEMMA AnchorsOfFrame ==
  ASSUME NEW p, ValidParameters(p), NEW f \in 0..(p.frames - 1)
  PROVE  /\ ContributingAnchors(p, f).first \in 0..(ValidAnchorFrames(p) - 1)
         /\ ContributingAnchors(p, f).last \in 0..(ValidAnchorFrames(p) - 1)
         /\ ContributingAnchors(p, f).last - ContributingAnchors(p, f).first + 1
               \in 1..MaxContributors(p)
         /\ \A a \in Anchors(p, f) : a <= f + p.bwd /\ a >= f - p.fwd - (p.pt - 1)
  BY DEF ValidParameters, ContributingAnchors, Anchors, Least, Greatest, ValidAnchorFrames,
         MaxContributors, ContributionSlots

LEMMA SlotsOfFrame ==
  ASSUME NEW p, ValidParameters(p), NEW f \in 0..(p.frames - 1),
         NEW a \in 0..(ValidAnchorFrames(p) - 1)
  PROVE  /\ ContainsOutput(p, a, f) <=> a \in Anchors(p, f)
         /\ a \in Anchors(p, f) => SlotForOutput(p, a, f) \in 0..(ContributionSlots(p) - 1)
  BY DEF ValidParameters, ContainsOutput, SlotForOutput, ContributionSlots, Anchors,
         ContributingAnchors, Least, Greatest, ValidAnchorFrames

\* A set of naturals up to hi has a lowest and a highest member.
LEMMA LowestNatural ==
  ASSUME NEW S, S # {}, S \subseteq Nat
  PROVE  \E m \in S : \A x \in S : m <= x
<1> DEFINE below == {ss \in Nat \X Nat : ss[1] < ss[2]}
<1>1. IsWellFoundedOn(below, Nat)
  BY NatLessThanWellFounded DEF OpToRel
<1>2. ASSUME NEW x \in Nat, NEW m \in Nat, <<x, m>> \notin below
      PROVE  m <= x
  BY <1>2
<1> HIDE DEF below
<1>3. \E m \in S : \A x \in S : <<x, m>> \notin below
  BY <1>1, WFMin
<1> QED BY <1>2, <1>3

LEMMA Extremes ==
  ASSUME NEW hi \in Nat, NEW S, S # {}, S \subseteq 0..hi
  PROVE  /\ Lowest(S) \in S /\ \A x \in S : Lowest(S) <= x
         /\ Highest(S) \in S /\ \A x \in S : Highest(S) >= x
<1>1. \E m \in S : \A x \in S : m <= x
  <2>1. S \subseteq Nat
    OBVIOUS
  <2> QED BY <2>1, LowestNatural
<1>2. \E m \in S : \A x \in S : m >= x
  <2> DEFINE below == {hi - x : x \in S}
  <2>1. below # {} /\ below \subseteq Nat
    <3>1. PICK x \in S : TRUE
      OBVIOUS
    <3>2. hi - x \in below
      OBVIOUS
    <3>3. ASSUME NEW y \in S PROVE hi - y \in Nat
      OBVIOUS
    <3> QED BY <3>2, <3>3
  <2>2. \E d \in below : \A x \in below : d <= x
    <3> HIDE DEF below
    <3> QED BY <2>1, LowestNatural
  <2>3. PICK m \in S : \A x \in S : hi - m <= hi - x
    BY <2>2
  <2>4. ASSUME NEW x \in S PROVE m >= x
    <3>1. m \in 0..hi /\ x \in 0..hi /\ hi - m <= hi - x
      BY <2>3
    <3> QED BY <3>1
  <2> QED BY <2>3, <2>4
<1> QED BY <1>1, <1>2 DEF Lowest, Highest

\* The leased window: it holds the frame and the sources of its anchors, stays
\* inside the clip and is no longer than the renderer's tables.
LEMMA WindowOfFrame ==
  ASSUME NEW p, ValidParameters(p), NEW f \in 0..(p.frames - 1)
  PROVE  /\ RequiredSourceRange(p, f).first \in 0..f
         /\ RequiredSourceRange(p, f).last \in f..(p.frames - 1)
         /\ RequiredSourceRange(p, f).last - RequiredSourceRange(p, f).first + 1
               <= MaxSourceWindow(p)
         /\ \A a \in Anchors(p, f) :
               /\ RequiredSourceRange(p, f).first <= AnchorSourceRange(p, a).first
               /\ AnchorSourceRange(p, a).last <= RequiredSourceRange(p, f).last
<1> DEFINE F == {f} \cup {AnchorSourceRange(p, a).first : a \in Anchors(p, f)}
           L == {f} \cup {AnchorSourceRange(p, a).last : a \in Anchors(p, f)}
           reach == p.bwd + p.fwd + p.pt - 1
<1>1. /\ p.frames \in Nat /\ p.pt \in Nat /\ p.bwd \in Nat /\ p.fwd \in Nat
      /\ 1 <= p.pt /\ p.pt <= p.frames /\ reach \in Nat
      /\ ValidAnchorFrames(p) = p.frames - p.pt + 1
  BY DEF ValidParameters, ValidAnchorFrames
<1>2. ASSUME NEW a \in Anchors(p, f)
      PROVE  /\ a \in 0..(ValidAnchorFrames(p) - 1)
             /\ a <= f + p.bwd /\ a >= f - p.fwd - (p.pt - 1)
  BY <1>1, AnchorsOfFrame DEF Anchors
<1>3. ASSUME NEW a \in Anchors(p, f)
      PROVE  /\ AnchorSourceRange(p, a).first \in 0..(p.frames - 1)
             /\ AnchorSourceRange(p, a).first >= f - reach
             /\ AnchorSourceRange(p, a).last \in 0..(p.frames - 1)
             /\ AnchorSourceRange(p, a).last <= f + reach
  BY <1>1, <1>2, SourceRange
<1>4. /\ f \in F /\ \A a \in Anchors(p, f) : AnchorSourceRange(p, a).first \in F
      /\ f \in L /\ \A a \in Anchors(p, f) : AnchorSourceRange(p, a).last \in L
  OBVIOUS
<1>5. /\ F \subseteq 0..(p.frames - 1) /\ \A x \in F : x >= f - reach
      /\ L \subseteq 0..(p.frames - 1) /\ \A x \in L : x <= f + reach
  BY <1>1, <1>3
<1>6. RequiredSourceRange(p, f).first = Lowest(F) /\ RequiredSourceRange(p, f).last = Highest(L)
  BY DEF RequiredSourceRange
<1> HIDE DEF F, L
<1>7. /\ Lowest(F) \in F /\ \A x \in F : Lowest(F) <= x
      /\ Highest(L) \in L /\ \A x \in L : Highest(L) >= x
  <2>1. p.frames - 1 \in Nat
    BY <1>1
  <2> HIDE DEF reach
  <2>2. F # {} /\ L # {} /\ F \subseteq 0..(p.frames - 1) /\ L \subseteq 0..(p.frames - 1)
    BY <1>4, <1>5
  <2> QED BY <2>1, <2>2, Extremes
<1>8. /\ Lowest(F) \in 0..f /\ Lowest(F) >= f - reach
      /\ Highest(L) \in f..(p.frames - 1) /\ Highest(L) <= f + reach
  <2>1. Lowest(F) <= f /\ Highest(L) >= f
    BY <1>4, <1>7
  <2>2. Lowest(F) \in 0..(p.frames - 1) /\ Highest(L) \in 0..(p.frames - 1)
    BY <1>5, <1>7
  <2>3. Lowest(F) >= f - reach /\ Highest(L) <= f + reach
    BY <1>5, <1>7
  <2> QED BY <1>1, <2>1, <2>2, <2>3
<1>9. Highest(L) - Lowest(F) + 1 <= MaxSourceWindow(p)
  BY <1>1, <1>8 DEF MaxSourceWindow, Least
<1> QED BY <1>4, <1>6, <1>7, <1>8, <1>9

-----------------------------------------------------------------------------
\* What every request keeps: the instance has valid parameters and renders a
\* frame of its clip.
Requested == ValidParameters(filter) /\ frame \in 0..(filter.frames - 1)

LEMMA RequestInvariant == RequestSpec => []Requested
<1>1. RequestInit => Requested
  BY DEF RequestInit, Requested, ValidParameters
<1>2. Requested /\ [RequestNext]_requestVars => Requested'
  BY DEF Requested, RequestNext, GetFrame, requestVars
<1> QED BY <1>1, <1>2, PTL DEF RequestSpec

\* The state predicates follow from the lemmas for the frame being rendered.
LEMMA RequestedWindows ==
  Requested => WindowCoversSources
<1> SUFFICES ASSUME Requested PROVE WindowCoversSources
  OBVIOUS
<1>1. ValidParameters(filter) /\ frame \in 0..(filter.frames - 1) /\ filter.frames \in Nat
      /\ ValidAnchorFrames(filter) \in Nat
  BY DEF Requested, ValidParameters, ValidAnchorFrames
<1>2. ASSUME NEW a \in Anchors(filter, frame)
      PROVE  a \in 0..(ValidAnchorFrames(filter) - 1)
  BY <1>1, AnchorsOfFrame DEF Anchors
<1>3. ASSUME NEW a \in Anchors(filter, frame) PROVE AnchorWindowHasFixedSize(a)
  BY <1>1, <1>2, SourceRange, SearchWindowSize DEF AnchorWindowHasFixedSize
<1>4. /\ frame \in Window.first .. Window.last
      /\ \A a \in Anchors(filter, frame) :
            /\ Window.first <= AnchorSourceRange(filter, a).first
            /\ AnchorSourceRange(filter, a).last <= Window.last
  BY <1>1, <1>2, WindowOfFrame DEF Window
<1> QED BY <1>3, <1>4 DEF WindowCoversSources

LEMMA RequestedSizes ==
  Requested => RequestFitsReservations /\ ContributionsFindTheirReader
<1> SUFFICES ASSUME Requested PROVE RequestFitsReservations /\ ContributionsFindTheirReader
  OBVIOUS
<1>1. ValidParameters(filter) /\ frame \in 0..(filter.frames - 1) /\ filter.frames \in Nat
      /\ ValidAnchorFrames(filter) \in Nat
  BY DEF Requested, ValidParameters, ValidAnchorFrames
<1> DEFINE low == ContributingAnchors(filter, frame).first
           high == ContributingAnchors(filter, frame).last
<1>2. /\ low \in Int /\ high \in Int
      /\ high - low + 1 \in 1..MaxContributors(filter)
  BY <1>1, AnchorsOfFrame
<1>3. Cardinality(Anchors(filter, frame)) = high - low + 1
  <2>1. Cardinality(low..high) = IF low > high THEN 0 ELSE high - low + 1
    <3> HIDE DEF low, high
    <3> QED BY <1>2, FS_Interval
  <2> QED BY <1>2, <2>1 DEF Anchors
<1>4. RequestFitsReservations
  BY <1>1, <1>2, <1>3, WindowOfFrame DEF RequestFitsReservations, Window
<1>5. ContributionsFindTheirReader
  BY <1>1, SlotsOfFrame DEF ContributionsFindTheirReader
<1> QED BY <1>4, <1>5

\* For every clip and search parameter: the window of every anchor has exactly
\* the size the kernels were launched for, and the leased window covers it
\* (derive_geometry, anchor_source_range, required_source_range).
THEOREM WindowsCorrect == RequestSpec => []WindowCoversSources
  BY RequestInvariant, RequestedWindows, PTL

\* For every clip and search parameter: no request outgrows max_contributors or
\* max_source_window, and writers and readers of contributions agree on slots.
THEOREM ReservationsSuffice ==
  RequestSpec => [](RequestFitsReservations /\ ContributionsFindTheirReader)
  BY RequestInvariant, RequestedSizes, PTL

\* For every clip and search parameter: an anchor keeps a part of its
\* contribution for exactly the output frames that ask for it, at a slot inside
\* its layout (ContributionLayout, contributing_anchors).
THEOREM ContributionsCorrect == RequestSpec => []ContributionsFindTheirReader
  BY ReservationsSuffice, PTL

LEMMA RequestedAnchors ==
  Requested => FiltersAgreeOnAnchors
<1> SUFFICES ASSUME Requested PROVE FiltersAgreeOnAnchors
  OBVIOUS
<1>1. /\ filter.frames \in Nat /\ filter.pt \in Nat /\ filter.bwd \in Nat /\ filter.fwd \in Nat
      /\ 1 <= filter.pt /\ filter.pt <= filter.frames
      /\ frame \in 0..(filter.frames - 1)
  BY DEF Requested, ValidParameters
<1>2. ValidAnchorFrames(filter) = filter.frames - filter.pt + 1
  BY DEF ValidAnchorFrames
<1> QED
  BY <1>1, <1>2 DEF FiltersAgreeOnAnchors, Anchors, ContributingAnchors, AggregateFirstAnchor,
                    AggregateLastAnchor, Least, Greatest

\* For every clip and search parameter: vnlb.Aggregate and the CUDA plugin
\* combine the same anchors (aggregate_first_anchor, contributing_anchors).
THEOREM FiltersAgree == RequestSpec => []FiltersAgreeOnAnchors
  BY RequestInvariant, RequestedAnchors, PTL
=============================================================================
