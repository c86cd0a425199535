------------------------- MODULE StationHealthProofs -------------------------
(***************************************************************************)
(* Theorems about StationHealth, for every set of configurations.          *)
(***************************************************************************)
EXTENDS StationHealth, FiniteSetTheorems, FunctionTheorems, TLAPS

\* The number of samples of one kind in a window is a natural number.
LEMMA CountType ==
    ASSUME NEW window \in Seq(Sample), NEW kind
    PROVE  Count(window, kind) \in Nat
<1> DEFINE S == {i \in 1 .. Len(window) : window[i] = kind}
<1>1. IsFiniteSet(1 .. Len(window))
  BY FS_Interval
<1>2. S \subseteq 1 .. Len(window)
  OBVIOUS
<1>3. IsFiniteSet(S)
  BY <1>1, <1>2, FS_Subset
<1> QED
  BY <1>3, FS_CardinalityType DEF Count

\* With at least one sample, a rate that reaches the upper threshold exceeds the
\* lower one.
LEMMA BandIsOpen ==
    ASSUME NEW r \in Int, NEW n \in Nat \ {0},
           NEW low \in Int, NEW high \in Int, low < high
    PROVE  ~(r >= high * n /\ r <= low * n)
<1> DEFINE k == high - low
<1>1. k \in Nat /\ k >= 1
  BY SMT
<1>2. high * n = low * n + k * n
  BY SMT
<1>3. k * n >= 1
  BY <1>1, SMT
<1> HIDE DEF k
<1>4. low * n \in Int /\ k * n \in Int
  BY <1>1, SMT
<1> QED
  BY <1>2, <1>3, <1>4, SMT

\* The fields of an accepted configuration.
LEMMA ConfigFacts ==
    ASSUME TypeOK
    PROVE  /\ config \in ConfigType
           /\ config.enabled \in BOOLEAN
           /\ config.windowSize \in Nat \ {0}
           /\ config.minSamples \in Nat \ {0}
           /\ config.degradedRate \in Nat
           /\ config.recoveryRate \in Nat
           /\ config.criticalForDegraded \in Nat \ {0}
           /\ config.criticalForRecovery \in Nat
           /\ config.criticalForRecovery < config.criticalForDegraded
  BY HealthAssumption DEF TypeOK, ValidConfig, ConfigType

\* The window never outgrows windowSize and keeps holding samples.
LEMMA SlideType ==
    ASSUME TypeOK, NEW sample \in Sample
    PROVE  /\ Slide(samples, sample) \in Seq(Sample)
           /\ Len(Slide(samples, sample)) <= config.windowSize
           /\ Len(Slide(samples, sample)) >= 1
<1> DEFINE longer == Append(samples, sample)
<1>1. longer \in Seq(Sample) /\ Len(longer) = Len(samples) + 1
  BY DEF TypeOK
<1>2. longer # <<>>
  BY <1>1 DEF TypeOK
<1>3. Tail(longer) \in Seq(Sample) /\ Len(Tail(longer)) = Len(longer) - 1
  BY <1>1, <1>2
<1>4. Len(samples) \in Nat /\ Len(samples) <= config.windowSize
  BY DEF TypeOK
<1> HIDE DEF longer
<1> QED
  BY <1>1, <1>3, <1>4, ConfigFacts DEF Slide, longer

\* Next is RecordSample of some sample, or the stutter of a disabled monitor.
LEMMA EveryStepRecords ==
    ASSUME Next
    PROVE  \/ \E sample \in Sample : RecordSample(sample)
           \/ UNCHANGED vars
  BY DEF Next, RecordDecoded, RecordRejected, RecordIgnored, Sample

\* The decision keeps to the two states.
LEMMA TargetType ==
    ASSUME TypeOK, NEW snap
    PROVE  Target(snap) \in States
  BY DEF TypeOK, Target, States

\* Type correctness: no sequence of records makes the window longer than
\* windowSize or leaves the two states (recordSample 85-136).
THEOREM TypeCorrect == Spec => []TypeOK
<1>1. Init => TypeOK
  <2> SUFFICES ASSUME Init PROVE TypeOK
    OBVIOUS
  <2>1. config \in Configs /\ ValidConfig(config)
    BY DEF Init
  <2>2. config.windowSize \in Nat
    BY <2>1, HealthAssumption DEF ConfigType
  <2> QED
    BY <2>1, <2>2 DEF Init, TypeOK, States, Reasons
<1>2. TypeOK /\ [Next]_vars => TypeOK'
  <2> SUFFICES ASSUME TypeOK, [Next]_vars PROVE TypeOK'
    OBVIOUS
  <2>1. ASSUME NEW sample \in Sample, RecordSample(sample)
        PROVE  TypeOK'
    <3>1. config' = config /\ samples' = Slide(samples, sample)
      BY <2>1 DEF RecordSample
    <3>2. samples' \in Seq(Sample) /\ Len(samples') <= config.windowSize
      BY <3>1, SlideType
    <3>3. state' = Target(Snapshot(samples'))
      BY <2>1 DEF RecordSample
    <3>4. state' \in States
      BY <3>3, TargetType
    <3>5. transition' \in Reasons
      BY <2>1 DEF RecordSample, TransitionReason, Reasons
    <3>6. dwell' \in {0, dwell, dwell + 1}
          /\ (dwell' = dwell + 1 => dwell < config.windowSize \/ dwell' \in {0, dwell})
      BY <2>1 DEF RecordSample
    <3>7. dwell' \in 0 .. config.windowSize
      BY <3>6, ConfigFacts DEF TypeOK
    <3> QED
      BY <3>1, <3>2, <3>4, <3>5, <3>7 DEF TypeOK, ValidConfig
  <2>2. CASE UNCHANGED vars
    BY <2>2 DEF vars, TypeOK, ValidConfig
  <2> QED
    BY <2>1, <2>2, EveryStepRecords
<1> QED
  BY <1>1, <1>2, PTL DEF Spec

-----------------------------------------------------------------------------

\* The two decisions exclude each other when the rates differ: the hysteresis
\* bands are not empty.
LEMMA RulesExclude ==
    ASSUME TypeOK, NEW window \in Seq(Sample), Len(window) >= 1, StrictRates
    PROVE  ~(MustDegrade(Snapshot(window)) /\ MayRecover(Snapshot(window)))
<1> DEFINE snap == Snapshot(window)
<1>1. /\ snap.samples = Len(window)
      /\ snap.rejected = Count(window, "rejected")
      /\ snap.critical = Count(window, "critical")
  BY DEF Snapshot
<1>2. /\ snap.samples \in Nat \ {0}
      /\ snap.rejected \in Nat
      /\ snap.critical \in Nat
  BY <1>1, CountType
<1> HIDE DEF snap
<1>3. snap.rejected * RateScale \in Int
  BY <1>2, HealthAssumption
<1>4. /\ config.recoveryRate \in Int
      /\ config.degradedRate \in Int
      /\ config.recoveryRate < config.degradedRate
  BY ConfigFacts DEF StrictRates
<1>5. ~(RateAtLeast(snap, config.degradedRate) /\ RateAtMost(snap, config.recoveryRate))
  BY <1>2, <1>3, <1>4, BandIsOpen DEF RateAtLeast, RateAtMost
<1>6. ~(snap.critical >= config.criticalForDegraded
          /\ snap.critical <= config.criticalForRecovery)
  BY <1>2, ConfigFacts
<1> QED
  BY <1>5, <1>6 DEF MustDegrade, MayRecover, snap

\* What a record decides: the rule of the state it comes from, on the new window.
LEMMA RecordDecides ==
    ASSUME TypeOK, NEW sample \in Sample, RecordSample(sample)
    PROVE  LET snap == Snapshot(samples')
           IN  /\ config' = config
               /\ samples' \in Seq(Sample)
               /\ Len(samples') >= 1
               /\ snap.samples = Len(samples')
               /\ state' = Target(snap)
<1>1. config' = config /\ samples' = Slide(samples, sample)
  BY DEF RecordSample
<1>2. samples' \in Seq(Sample) /\ Len(samples') >= 1
  BY <1>1, SlideType
<1>3. state' = Target(Snapshot(samples'))
  BY DEF RecordSample
<1>4. Snapshot(samples').samples = Len(samples')
  BY DEF Snapshot
<1> QED
  BY <1>1, <1>2, <1>3, <1>4

\* The state is settled after every record, whatever came before, provided the
\* two rates differ (recordSample 103-122).
THEOREM SettledTheorem == Spec => []Settled
<1>1. Init => Settled
  <2> SUFFICES ASSUME Init PROVE ~Evaluated
    BY DEF Settled
  <2>1. config \in ConfigType /\ config.minSamples > 0 /\ samples = <<>>
    BY HealthAssumption DEF Init, ValidConfig
  <2>2. config.minSamples \in Nat
    BY <2>1 DEF ConfigType
  <2> QED
    BY <2>1, <2>2 DEF Evaluated
<1>2. TypeOK /\ Settled /\ [Next]_vars => Settled'
  <2> SUFFICES ASSUME TypeOK, Settled, [Next]_vars PROVE Settled'
    OBVIOUS
  <2>1. ASSUME NEW sample \in Sample, RecordSample(sample)
        PROVE  Settled'
    <3> DEFINE snap == Snapshot(samples')
    <3>1. /\ config' = config
          /\ samples' \in Seq(Sample)
          /\ Len(samples') >= 1
          /\ snap.samples = Len(samples')
          /\ state' = Target(snap)
      BY <2>1, RecordDecides
    <3>2. ASSUME Evaluated', StrictRates'
          PROVE  IF state' = "NOMINAL" THEN ~MustDegrade(snap) ELSE ~MayRecover(snap)
      <4>1. Len(samples') \in Nat /\ config.minSamples \in Nat
        BY <3>1, ConfigFacts
      <4>2. StrictRates /\ ~(snap.samples < config.minSamples)
        BY <3>1, <3>2, <4>1 DEF StrictRates, Evaluated
      <4>3. ~(MustDegrade(snap) /\ MayRecover(snap))
        BY <3>1, <4>2, RulesExclude
      <4> HIDE DEF snap
      <4> QED
        BY <3>1, <4>2, <4>3 DEF Target
    <3> QED
      BY <3>1, <3>2 DEF Settled, MustDegrade, MayRecover, RateAtLeast, RateAtMost,
                        Snapshot, Count
  <2>2. CASE UNCHANGED vars
    BY <2>2 DEF vars, Settled, Evaluated, StrictRates, MustDegrade, MayRecover,
                RateAtLeast, RateAtMost, Snapshot, Count
  <2> QED
    BY <2>1, <2>2, EveryStepRecords
<1> QED
  BY <1>1, <1>2, TypeCorrect, PTL DEF Spec

-----------------------------------------------------------------------------
(* The reason of a transition *)

\* The reason given with a transition is a rule the window broke, and "critical"
\* is only given when the rejection rate alone would not have degraded the
\* station (recordSample 103-122, transitionReasonLocked 173-198).
THEOREM ReasonTheorem == Spec => []ReasonIsTrue
<1>1. Init => ReasonIsTrue
  BY DEF Init, ReasonIsTrue
<1>2. TypeOK /\ ReasonIsTrue /\ [Next]_vars => ReasonIsTrue'
  <2> SUFFICES ASSUME TypeOK, ReasonIsTrue, [Next]_vars PROVE ReasonIsTrue'
    OBVIOUS
  <2>1. ASSUME NEW sample \in Sample, RecordSample(sample)
        PROVE  ReasonIsTrue'
    <3> DEFINE snap == Snapshot(samples')
    <3>1. config' = config /\ state' = Target(snap)
      BY <2>1, RecordDecides
    <3>2. transition' = IF Target(snap) = state THEN "none" ELSE TransitionReason(snap, Target(snap))
      BY <2>1 DEF RecordSample
    <3>3. state \in States
      BY DEF TypeOK
    <3> HIDE DEF snap
    <3>4. /\ transition' = "rate" =>
               state' = "DEGRADED" /\ RateAtLeast(snap, config.degradedRate)
          /\ transition' = "critical" =>
               /\ state' = "DEGRADED"
               /\ ~RateAtLeast(snap, config.degradedRate)
               /\ snap.critical >= config.criticalForDegraded
          /\ transition' = "recovered" =>
               state' = "NOMINAL" /\ MayRecover(snap)
      BY <3>1, <3>2, <3>3 DEF Target, TransitionReason, MustDegrade, States
    <3> QED
      BY <3>1, <3>4 DEF ReasonIsTrue, MayRecover, RateAtLeast, RateAtMost, Snapshot, Count, snap
  <2>2. CASE UNCHANGED vars
    BY <2>2 DEF vars, ReasonIsTrue, MayRecover, RateAtLeast, RateAtMost, Snapshot, Count
  <2> QED
    BY <2>1, <2>2, EveryStepRecords
<1> QED
  BY <1>1, <1>2, TypeCorrect, PTL DEF Spec

-----------------------------------------------------------------------------
(* The width of the hysteresis *)

\* What push_back does to the number of samples of one kind.
LEMMA CountAppend ==
    ASSUME NEW window \in Seq(Sample), NEW sample \in Sample, NEW kind
    PROVE  Count(Append(window, sample), kind) \in {Count(window, kind), Count(window, kind) + 1}
<1> DEFINE S == {i \in 1 .. Len(window) : window[i] = kind}
           T == {i \in 1 .. Len(Append(window, sample)) : Append(window, sample)[i] = kind}
           n == Len(window) + 1
<1>1. IsFiniteSet(S)
  BY FS_Interval, FS_Subset
<1>2. T = S \/ T = S \cup {n}
  <2>1. Len(Append(window, sample)) = n
    OBVIOUS
  <2>2. \A i \in 1 .. Len(window) : Append(window, sample)[i] = window[i]
    OBVIOUS
  <2>3. \A i : i \in 1 .. n <=> i \in 1 .. Len(window) \/ i = n
    OBVIOUS
  <2>4. CASE sample = kind
    <3>1. T = S \cup {n}
      BY <2>1, <2>2, <2>3, <2>4
    <3> QED
      BY <3>1
  <2>5. CASE sample # kind
    <3>1. T = S
      BY <2>1, <2>2, <2>3, <2>5
    <3> QED
      BY <3>1
  <2> QED
    BY <2>4, <2>5
<1>3. n \notin S
  OBVIOUS
<1> QED
  BY <1>1, <1>2, <1>3, FS_AddElement DEF Count

\* What pop_front does to it.
LEMMA CountTail ==
    ASSUME NEW window \in Seq(Sample), window # <<>>, NEW kind
    PROVE  Count(Tail(window), kind) \in {Count(window, kind), Count(window, kind) - 1}
<1> DEFINE S == {i \in 1 .. Len(window) : window[i] = kind}
           T == {i \in 1 .. Len(Tail(window)) : Tail(window)[i] = kind}
           next == [i \in T |-> i + 1]
<1>1. IsFiniteSet(S) /\ IsFiniteSet(T)
  BY FS_Interval, FS_Subset
<1>2. /\ Len(Tail(window)) = Len(window) - 1
      /\ \A i \in 1 .. Len(window) - 1 : Tail(window)[i] = window[i + 1]
  OBVIOUS
<1>3. next \in Bijection(T, S \ {1})
  <2>1. \A i \in T : i + 1 \in S \ {1}
    BY <1>2
  <2>2. \A j \in S \ {1} : j - 1 \in T /\ next[j - 1] = j
    BY <1>2
  <2>3. \A i, j \in T : next[i] = next[j] => i = j
    OBVIOUS
  <2>4. next \in [T -> S \ {1}] /\ \A j \in S \ {1} : \E i \in T : next[i] = j
    BY <2>1, <2>2
  <2> HIDE DEF next, S, T
  <2> QED
    BY <2>3, <2>4, Fun_IsBij
<1>4. Cardinality(S \ {1}) = Cardinality(T)
  BY <1>1, <1>3, FS_Bijection DEF ExistsBijection
<1> QED
  BY <1>1, <1>4, FS_RemoveElement DEF Count

\* One record either lengthens the window, and then no sample leaves it, or
\* moves it on, and then one does.
LEMMA SlideCounts ==
    ASSUME TypeOK, NEW sample \in Sample, NEW kind
    PROVE  LET new == Slide(samples, sample)
               was == Count(samples, kind)
           IN  \/ Len(new) = Len(samples) + 1 /\ Count(new, kind) \in {was, was + 1}
               \/ Len(new) = Len(samples) /\ Count(new, kind) \in {was - 1, was, was + 1}
<1> DEFINE longer == Append(samples, sample)
           was == Count(samples, kind)
<1>1. samples \in Seq(Sample) /\ was \in Nat
  BY CountType DEF TypeOK
<1>2. /\ longer \in Seq(Sample) /\ longer # <<>>
      /\ Len(longer) = Len(samples) + 1 /\ Len(Tail(longer)) = Len(samples)
  BY <1>1
<1>3. Count(longer, kind) \in {was, was + 1}
  BY <1>1, CountAppend
<1> HIDE DEF longer
<1>4. Count(Tail(longer), kind) \in {Count(longer, kind), Count(longer, kind) - 1}
  BY <1>2, CountTail
<1>5. CASE Slide(samples, sample) = longer
  BY <1>2, <1>3, <1>5
<1>6. CASE Slide(samples, sample) = Tail(longer)
  <2>1. Count(Tail(longer), kind) \in {was - 1, was, was + 1}
    BY <1>1, <1>3, <1>4
  <2> QED
    BY <1>2, <1>6, <2>1
<1> QED
  BY <1>5, <1>6 DEF Slide, longer

\* One record cannot take the rejected frames further from the upper threshold
\* than the whole weight of a record.
LEMMA RateFallsSlowly ==
    ASSUME NEW scale \in Nat, NEW high \in Nat, high <= scale, NEW k \in Nat,
           NEW r \in Nat, NEW n \in Nat, NEW r1 \in Nat, NEW n1 \in Nat,
           (r + k) * scale >= high * n,
           \/ n1 = n + 1 /\ r1 >= r
           \/ n1 = n /\ r1 >= r - 1
    PROVE  (r1 + k + 1) * scale >= high * n1
<1>1. CASE n1 = n + 1 /\ r1 >= r
  <2>1. PICK d \in Nat : r1 = r + d
    BY <1>1
  <2>2. (r1 + k + 1) * scale = (r + k) * scale + d * scale + scale
    BY <2>1
  <2>3. high * n1 = high * n + high
    BY <1>1
  <2>4. d * scale \in Nat /\ (r + k) * scale \in Nat /\ high * n \in Nat
    BY <2>1
  <2> QED
    BY <2>2, <2>3, <2>4
<1>2. CASE n1 = n /\ r1 >= r - 1
  <2>1. PICK d \in Nat : r1 + 1 = r + d
    BY <1>2
  <2>2. (r1 + k + 1) * scale = (r + k) * scale + d * scale
    BY <2>1
  <2>3. d * scale \in Nat /\ (r + k) * scale \in Nat
    BY <2>1
  <2> QED
    BY <1>2, <2>2, <2>3
<1> QED
  BY <1>1, <1>2

\* Nor take them further above the lower one.
LEMMA RateRisesSlowly ==
    ASSUME NEW scale \in Nat, NEW low \in Nat, NEW k \in Nat,
           NEW r \in Nat, NEW n \in Nat, NEW r1 \in Nat, NEW n1 \in Nat,
           r * scale <= low * n + k * scale,
           n1 >= n, r1 <= r + 1
    PROVE  r1 * scale <= low * n1 + (k + 1) * scale
<1>1. PICK d \in Nat : r1 + d = r + 1
  OBVIOUS
<1>2. PICK e \in Nat : n1 = n + e
  OBVIOUS
<1>3. r1 * scale + d * scale = r * scale + scale
  BY <1>1
<1>4. low * n1 = low * n + low * e
  BY <1>2
<1>5. (k + 1) * scale = k * scale + scale
  OBVIOUS
<1>6. /\ d * scale \in Nat /\ low * e \in Nat /\ r1 * scale \in Nat
      /\ r * scale \in Nat /\ low * n \in Nat /\ k * scale \in Nat
  BY <1>1, <1>2
<1> QED
  BY <1>3, <1>4, <1>5, <1>6

\* A rate that went from one threshold to the other took that many records.
LEMMA BandIsCrossed ==
    ASSUME NEW scale \in Nat, NEW high \in Nat, NEW low \in Nat, low <= high,
           NEW k \in Nat, NEW r \in Nat, NEW n \in Nat, NEW least \in Nat, least <= n,
           \/ (r + k) * scale >= high * n /\ r * scale <= low * n
           \/ r * scale <= low * n + k * scale /\ r * scale >= high * n
    PROVE  k * scale >= (high - low) * least
<1>1. PICK w \in Nat : high = low + w
  OBVIOUS
<1>2. PICK e \in Nat : n = least + e
  OBVIOUS
<1>3. high * n = low * n + w * least + w * e
  BY <1>1, <1>2
<1>4. (r + k) * scale = r * scale + k * scale
  OBVIOUS
<1>5. (high - low) * least = w * least
  BY <1>1
<1>6. /\ low * n \in Nat /\ w * least \in Nat /\ w * e \in Nat
      /\ r * scale \in Nat /\ k * scale \in Nat /\ high * n \in Nat
  BY <1>1, <1>2
<1> QED
  BY <1>3, <1>4, <1>5, <1>6

\* As many records as the window holds undo any change.
LEMMA WholeWindowUndoes ==
    ASSUME NEW scale \in Nat, NEW high \in Nat, NEW low \in Nat, low <= high, high <= scale,
           NEW k \in Nat, NEW least \in Nat, least <= k
    PROVE  k * scale >= (high - low) * least
<1>1. PICK w \in Nat : scale = (high - low) + w
  OBVIOUS
<1>2. PICK e \in Nat : k = least + e
  OBVIOUS
<1>3. k * scale = (high - low) * least + w * least + e * scale
  BY <1>1, <1>2
<1>4. (high - low) * least \in Nat /\ w * least \in Nat /\ e * scale \in Nat
  BY <1>1, <1>2
<1> QED
  BY <1>3, <1>4

(* The inductive invariant.  While the last change is less than a window   *)
(* away, dwell counts the records since then, and so many records are too  *)
(* few to have taken the counts further than this from the rule that made  *)
(* the change.                                                             *)
BandInv ==
    dwell < config.windowSize =>
        LET snap == Snapshot(samples)
        IN  IF state = "NOMINAL"
            THEN /\ snap.rejected * RateScale
                      <= config.recoveryRate * snap.samples + dwell * RateScale
                 /\ snap.critical <= config.criticalForRecovery + dwell
            ELSE \/ (snap.rejected + dwell) * RateScale >= config.degradedRate * snap.samples
                 \/ snap.critical + dwell >= config.criticalForDegraded

\* The rates of an accepted configuration.
LEMMA RateFacts ==
    ASSUME TypeOK
    PROVE  /\ RateScale \in Nat /\ RateScale > 0
           /\ config.degradedRate \in Nat /\ config.degradedRate <= RateScale
           /\ config.recoveryRate \in Nat /\ config.recoveryRate <= config.degradedRate
           /\ config.minSamples <= config.windowSize
  BY HealthAssumption DEF TypeOK, ValidConfig, ConfigType

\* How far one record takes the three counts.
LEMMA RecordMoves ==
    ASSUME TypeOK, NEW sample \in Sample, RecordSample(sample)
    PROVE  LET old == Snapshot(samples)
               new == Snapshot(samples')
           IN  /\ old.samples \in Nat /\ old.rejected \in Nat /\ old.critical \in Nat
               /\ new.samples \in Nat /\ new.rejected \in Nat /\ new.critical \in Nat
               /\ \/ new.samples = old.samples + 1 /\ new.rejected >= old.rejected
                  \/ new.samples = old.samples /\ new.rejected >= old.rejected - 1
               /\ new.rejected <= old.rejected + 1
               /\ new.critical \in {old.critical - 1, old.critical, old.critical + 1}
<1>1. samples \in Seq(Sample) /\ samples' = Slide(samples, sample)
  BY DEF TypeOK, RecordSample
<1>2. samples' \in Seq(Sample)
  BY <1>1, SlideType
<1>3. /\ Len(samples) \in Nat /\ Len(samples') \in Nat
      /\ Count(samples, "rejected") \in Nat /\ Count(samples', "rejected") \in Nat
      /\ Count(samples, "critical") \in Nat /\ Count(samples', "critical") \in Nat
  BY <1>1, <1>2, CountType
<1>4. LET was == Count(samples, "rejected")
      IN  \/ Len(samples') = Len(samples) + 1 /\ Count(samples', "rejected") \in {was, was + 1}
          \/ Len(samples') = Len(samples) /\ Count(samples', "rejected") \in {was - 1, was, was + 1}
  BY <1>1, SlideCounts
<1>5. LET was == Count(samples, "critical")
      IN  Count(samples', "critical") \in {was - 1, was, was + 1}
  BY <1>1, SlideCounts
<1> QED
  BY <1>3, <1>4, <1>5 DEF Snapshot

\* What the record knows before it decides: the invariant, one record on.
LEMMA BandBeforeDecision ==
    ASSUME TypeOK, BandInv, NEW sample \in Sample, RecordSample(sample),
           dwell < config.windowSize
    PROVE  LET new == Snapshot(samples')
           IN  IF state = "NOMINAL"
               THEN /\ new.rejected * RateScale
                         <= config.recoveryRate * new.samples + (dwell + 1) * RateScale
                    /\ new.critical <= config.criticalForRecovery + dwell + 1
               ELSE \/ (new.rejected + dwell + 1) * RateScale
                         >= config.degradedRate * new.samples
                    \/ new.critical + dwell + 1 >= config.criticalForDegraded
<1> DEFINE old == Snapshot(samples)
           new == Snapshot(samples')
<1>1. /\ old.samples \in Nat /\ old.rejected \in Nat /\ old.critical \in Nat
      /\ new.samples \in Nat /\ new.rejected \in Nat /\ new.critical \in Nat
      /\ \/ new.samples = old.samples + 1 /\ new.rejected >= old.rejected
         \/ new.samples = old.samples /\ new.rejected >= old.rejected - 1
      /\ new.rejected <= old.rejected + 1
      /\ new.critical \in {old.critical - 1, old.critical, old.critical + 1}
  BY RecordMoves
<1>2. dwell \in Nat
  BY ConfigFacts DEF TypeOK
<1>3. IF state = "NOMINAL"
      THEN /\ old.rejected * RateScale
                <= config.recoveryRate * old.samples + dwell * RateScale
           /\ old.critical <= config.criticalForRecovery + dwell
      ELSE \/ (old.rejected + dwell) * RateScale >= config.degradedRate * old.samples
           \/ old.critical + dwell >= config.criticalForDegraded
  BY DEF BandInv
<1> HIDE DEF old, new
<1>4. CASE state = "NOMINAL"
  <2>1. new.samples >= old.samples
    BY <1>1
  <2>2. new.rejected * RateScale <= config.recoveryRate * new.samples + (dwell + 1) * RateScale
    BY <1>1, <1>2, <1>3, <1>4, <2>1, RateFacts, RateRisesSlowly
  <2>3. new.critical <= config.criticalForRecovery + dwell + 1
    BY <1>1, <1>2, <1>3, <1>4, ConfigFacts
  <2> QED
    BY <1>4, <2>2, <2>3 DEF new
<1>5. CASE state # "NOMINAL" /\ (old.rejected + dwell) * RateScale >= config.degradedRate * old.samples
  <2>1. (new.rejected + dwell + 1) * RateScale >= config.degradedRate * new.samples
    BY <1>1, <1>2, <1>5, RateFacts, RateFallsSlowly
  <2> QED
    BY <1>5, <2>1 DEF new
<1>6. CASE state # "NOMINAL" /\ old.critical + dwell >= config.criticalForDegraded
  <2>1. new.critical + dwell + 1 >= config.criticalForDegraded
    BY <1>1, <1>2, <1>6, ConfigFacts
  <2> QED
    BY <1>6, <2>1 DEF new
<1> QED
  BY <1>3, <1>4, <1>5, <1>6

\* The band invariant is inductive.
LEMMA BandInvariant == Spec => []BandInv
<1>1. Init => BandInv
  <2> SUFFICES ASSUME Init PROVE ~(dwell < config.windowSize)
    BY DEF BandInv
  <2>1. config.windowSize \in Nat
    BY HealthAssumption DEF Init, ConfigType
  <2> QED
    BY <2>1 DEF Init
<1>2. TypeOK /\ BandInv /\ [Next]_vars => BandInv'
  <2> SUFFICES ASSUME TypeOK, BandInv, [Next]_vars PROVE BandInv'
    OBVIOUS
  <2>1. ASSUME NEW sample \in Sample, RecordSample(sample)
        PROVE  BandInv'
    <3> DEFINE new == Snapshot(samples')
    <3>1. config' = config /\ state' = Target(new)
      BY <2>1, RecordDecides
    <3>2. dwell' = IF state' # state THEN 0
                   ELSE IF dwell < config.windowSize THEN dwell + 1 ELSE dwell
      BY <2>1, <3>1 DEF RecordSample
    <3>3. new.samples \in Nat /\ new.rejected \in Nat /\ new.critical \in Nat
      BY <2>1, RecordMoves
    <3>4. dwell \in Nat /\ state \in States
      BY ConfigFacts DEF TypeOK
    <3>5. ASSUME dwell' < config.windowSize
          PROVE  IF state' = "NOMINAL"
                 THEN /\ new.rejected * RateScale
                           <= config.recoveryRate * new.samples + dwell' * RateScale
                      /\ new.critical <= config.criticalForRecovery + dwell'
                 ELSE \/ (new.rejected + dwell') * RateScale >= config.degradedRate * new.samples
                      \/ new.critical + dwell' >= config.criticalForDegraded
      <4>1. CASE state' # state
        <5>1. dwell' = 0 /\ dwell' * RateScale = 0
          BY <3>2, <4>1, RateFacts
        <5>2. CASE state' = "NOMINAL"
          <6>1. MayRecover(new)
            BY <3>1, <3>4, <4>1, <5>2 DEF Target, States
          <6>2. /\ new.rejected * RateScale <= config.recoveryRate * new.samples
                /\ new.critical <= config.criticalForRecovery
            BY <6>1 DEF MayRecover, RateAtMost
          <6>3. new.rejected * RateScale \in Nat /\ config.recoveryRate * new.samples \in Nat
            BY <3>3, RateFacts
          <6> HIDE DEF new
          <6> QED
            BY <3>3, <5>1, <5>2, <6>2, <6>3, ConfigFacts
        <5>3. CASE state' # "NOMINAL"
          <6>1. MustDegrade(new)
            BY <3>1, <3>4, <4>1, <5>3 DEF Target, States
          <6>2. \/ new.rejected * RateScale >= config.degradedRate * new.samples
                \/ new.critical >= config.criticalForDegraded
            BY <6>1 DEF MustDegrade, RateAtLeast
          <6> HIDE DEF new
          <6>3. new.rejected + dwell' = new.rejected /\ new.critical + dwell' = new.critical
            BY <3>3, <5>1
          <6> QED
            BY <5>3, <6>2, <6>3
        <5> QED
          BY <5>2, <5>3
      <4>2. CASE state' = state
        <5>1. dwell < config.windowSize /\ dwell' = dwell + 1
          BY <3>2, <3>4, <3>5, <4>2, ConfigFacts
        <5>2. IF state = "NOMINAL"
              THEN /\ new.rejected * RateScale
                        <= config.recoveryRate * new.samples + (dwell + 1) * RateScale
                   /\ new.critical <= config.criticalForRecovery + dwell + 1
              ELSE \/ (new.rejected + dwell + 1) * RateScale >= config.degradedRate * new.samples
                   \/ new.critical + dwell + 1 >= config.criticalForDegraded
          BY <2>1, <5>1, BandBeforeDecision
        <5> HIDE DEF new
        <5>3. /\ new.rejected + dwell' = new.rejected + dwell + 1
              /\ new.critical + dwell' = new.critical + dwell + 1
              /\ config.criticalForRecovery + dwell' = config.criticalForRecovery + dwell + 1
          BY <3>3, <3>4, <5>1, ConfigFacts
        <5> QED
          BY <4>2, <5>1, <5>2, <5>3
      <4> QED
        BY <4>1, <4>2
    <3>6. (dwell < config.windowSize)' <=> dwell' < config.windowSize
      BY <3>1
    <3> QED
      BY <3>1, <3>5, <3>6 DEF BandInv, Snapshot, Count
  <2>2. CASE UNCHANGED vars
    BY <2>2 DEF vars, BandInv, Snapshot, Count
  <2> QED
    BY <2>1, <2>2, EveryStepRecords
<1> QED
  BY <1>1, <1>2, TypeCorrect, PTL DEF Spec

\* The hysteresis is as wide as its thresholds say, for every configuration the
\* constructor accepts: between two changes of state lie enough records to cross
\* one of the two bands (recordSample 85-136).
THEOREM HysteresisTheorem == Spec => HysteresisWidth
<1>1. TypeOK /\ BandInv /\ [Next]_vars => [state' # state => Undoes(dwell + 1)]_vars
  <2> SUFFICES ASSUME TypeOK, BandInv, NEW sample \in Sample, RecordSample(sample),
                      state' # state
               PROVE  Undoes(dwell + 1)
    BY EveryStepRecords DEF vars
  <2> DEFINE new == Snapshot(samples')
  <2>1. state' = Target(new)
    BY RecordDecides
  <2>2. new.samples \in Nat /\ new.rejected \in Nat /\ new.critical \in Nat
    BY RecordMoves
  <2>3. dwell \in Nat /\ dwell <= config.windowSize /\ state \in States
    BY ConfigFacts DEF TypeOK
  <2>4. CASE dwell = config.windowSize
    <3>1. config.minSamples <= dwell + 1 /\ dwell + 1 \in Nat
      BY <2>3, <2>4, RateFacts, ConfigFacts
    <3>2. (dwell + 1) * RateScale
            >= (config.degradedRate - config.recoveryRate) * config.minSamples
      BY <3>1, RateFacts, ConfigFacts, WholeWindowUndoes
    <3> QED
      BY <3>2 DEF Undoes
  <2>5. CASE dwell # config.windowSize
    <3>1. IF state = "NOMINAL"
          THEN /\ new.rejected * RateScale
                    <= config.recoveryRate * new.samples + (dwell + 1) * RateScale
               /\ new.critical <= config.criticalForRecovery + dwell + 1
          ELSE \/ (new.rejected + dwell + 1) * RateScale >= config.degradedRate * new.samples
               \/ new.critical + dwell + 1 >= config.criticalForDegraded
      <4>1. dwell < config.windowSize
        BY <2>3, <2>5, ConfigFacts
      <4> QED
        BY <4>1, BandBeforeDecision
    <3>2. new.samples >= config.minSamples
      <4>1. ~(new.samples < config.minSamples)
        BY <2>1 DEF Target
      <4> HIDE DEF new
      <4> QED
        BY <2>2, <4>1, ConfigFacts
    <3>3. state = "NOMINAL" => \/ new.rejected * RateScale >= config.degradedRate * new.samples
                               \/ new.critical >= config.criticalForDegraded
      BY <2>1, <2>3 DEF Target, MustDegrade, RateAtLeast
    <3>4. state # "NOMINAL" => /\ new.rejected * RateScale <= config.recoveryRate * new.samples
                               /\ new.critical <= config.criticalForRecovery
      BY <2>1, <2>3 DEF Target, MayRecover, RateAtMost, States
    <3> HIDE DEF new
    <3>5. new.rejected + (dwell + 1) = new.rejected + dwell + 1 /\ dwell + 1 \in Nat
      BY <2>2, <2>3
    <3>6. \/ /\ (new.rejected + (dwell + 1)) * RateScale >= config.degradedRate * new.samples
             /\ new.rejected * RateScale <= config.recoveryRate * new.samples
          \/ /\ new.rejected * RateScale
                  <= config.recoveryRate * new.samples + (dwell + 1) * RateScale
             /\ new.rejected * RateScale >= config.degradedRate * new.samples
          \/ dwell + 1 >= config.criticalForDegraded - config.criticalForRecovery
      <4>1. CASE state = "NOMINAL" /\ new.critical >= config.criticalForDegraded
        BY <2>2, <2>3, <3>1, <4>1, ConfigFacts
      <4>2. CASE state # "NOMINAL" /\ new.critical + dwell + 1 >= config.criticalForDegraded
        BY <2>2, <2>3, <3>4, <4>2, ConfigFacts
      <4> QED
        BY <3>1, <3>3, <3>4, <3>5, <4>1, <4>2
    <3>7. CASE dwell + 1 >= config.criticalForDegraded - config.criticalForRecovery
      BY <3>7 DEF Undoes
    <3>8. CASE ~(dwell + 1 >= config.criticalForDegraded - config.criticalForRecovery)
      <4>1. (dwell + 1) * RateScale
              >= (config.degradedRate - config.recoveryRate) * config.minSamples
        BY <2>2, <3>2, <3>5, <3>6, <3>8, RateFacts, ConfigFacts, BandIsCrossed
      <4> QED
        BY <4>1 DEF Undoes
    <3> QED
      BY <3>7, <3>8
  <2> QED
    BY <2>4, <2>5
<1> QED
  BY <1>1, TypeCorrect, BandInvariant, PTL DEF Spec, HysteresisWidth
=============================================================================
