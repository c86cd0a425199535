---------------------------- MODULE StationHealth ----------------------------
(***************************************************************************)
(* stgs::StationHealthMonitor (src/StationHealth.cpp): a sliding window of *)
(* decoded and rejected frames drives a two-state machine, NOMINAL and     *)
(* DEGRADED, with a pair of thresholds on the rejection rate and another   *)
(* on the number of critical frames.                                       *)
(*                                                                         *)
(* mutex_ makes each record a single action.  Rates are integers over      *)
(* RateScale, and a comparison of the quotient rejected / samples with a   *)
(* threshold is the comparison of the cross products: both sides of the    *)
(* code's comparison are doubles rounded from these rationals, and for     *)
(* windows below 2^25 samples rounding cannot change the answer.           *)
(***************************************************************************)
EXTENDS Integers, Sequences, FiniteSets

CONSTANTS
    RateScale,  \* rates are multiples of 1 / RateScale
    Configs     \* the StationHealthConfig values offered to the constructor

ConfigType ==
    [enabled : BOOLEAN,
     windowSize : Nat,
     minSamples : Nat,
     degradedRate : Int,
     recoveryRate : Int,
     criticalForDegraded : Nat,
     criticalForRecovery : Nat]

ASSUME HealthAssumption ==
    /\ RateScale \in Nat \ {0}
    /\ Configs \subseteq ConfigType

\* The constructor throws std::invalid_argument unless all of this holds.
ValidConfig(c) ==
    /\ c.windowSize > 0
    /\ c.minSamples > 0
    /\ c.minSamples <= c.windowSize
    /\ c.degradedRate \in 0 .. RateScale
    /\ c.recoveryRate \in 0 .. RateScale
    /\ c.recoveryRate <= c.degradedRate
    /\ c.criticalForDegraded > 0
    /\ c.criticalForDegraded <= c.windowSize
    /\ c.criticalForRecovery < c.criticalForDegraded

VARIABLES
    config,      \* config_, fixed by the constructor
    samples,     \* samples_: the window, oldest sample first
    state,       \* state_
    transition,  \* what the last record returned
    dwell        \* history: records since the last change of state, up to windowSize

vars == <<config, samples, state, transition, dwell>>

\* A Sample: the two flags are never both set.
Sample == {"nominal", "critical", "rejected"}
States == {"NOMINAL", "DEGRADED"}
Reasons == {"none", "rate", "critical", "recovered"}

TypeOK ==
    /\ config \in Configs /\ ValidConfig(config)
    /\ samples \in Seq(Sample)
    /\ Len(samples) <= config.windowSize
    /\ state \in States
    /\ transition \in Reasons
    /\ dwell \in 0 .. config.windowSize

\* The state starts long settled: there is no earlier change to undo.
Init ==
    /\ config \in {c \in Configs : ValidConfig(c)}
    /\ samples = <<>>
    /\ state = "NOMINAL"
    /\ transition = "none"
    /\ dwell = config.windowSize

-----------------------------------------------------------------------------
(* makeSnapshotLocked *)

Count(window, kind) == Cardinality({i \in 1 .. Len(window) : window[i] = kind})

Snapshot(window) ==
    [samples |-> Len(window),
     rejected |-> Count(window, "rejected"),
     critical |-> Count(window, "critical")]

RateAtLeast(snap, rate) == snap.rejected * RateScale >= rate * snap.samples
RateAtMost(snap, rate) == snap.rejected * RateScale <= rate * snap.samples

-----------------------------------------------------------------------------
(* recordSample *)

\* Mutant of Slide: the oldest sample is never dropped.
SlideNeverDrops(window, sample) == Append(window, sample)

\* push_back, then pop_front while the window is too long.
Slide(window, sample) ==
    LET longer == Append(window, sample)
    IN  IF Len(longer) > config.windowSize THEN Tail(longer) ELSE longer

MustDegrade(snap) ==
    \/ RateAtLeast(snap, config.degradedRate)
    \/ snap.critical >= config.criticalForDegraded

\* Mutant of MayRecover: one of the two conditions is enough.
MayRecoverEither(snap) ==
    \/ RateAtMost(snap, config.recoveryRate)
    \/ snap.critical <= config.criticalForRecovery

MayRecover(snap) ==
    /\ RateAtMost(snap, config.recoveryRate)
    /\ snap.critical <= config.criticalForRecovery

\* Mutant of Target: minSamples is not waited for.
TargetFromFirstSample(snap) ==
    IF state = "NOMINAL"
      THEN IF MustDegrade(snap) THEN "DEGRADED" ELSE "NOMINAL"
      ELSE IF MayRecover(snap) THEN "NOMINAL" ELSE "DEGRADED"

Target(snap) ==
    IF snap.samples < config.minSamples THEN state
    ELSE IF state = "NOMINAL"
           THEN IF MustDegrade(snap) THEN "DEGRADED" ELSE "NOMINAL"
           ELSE IF MayRecover(snap) THEN "NOMINAL" ELSE "DEGRADED"

\* Mutant of TransitionReason: the critical frames are named first.
TransitionReasonSwapped(snap, target) ==
    IF target = "NOMINAL" THEN "recovered"
    ELSE IF snap.critical >= config.criticalForDegraded THEN "critical"
    ELSE "rate"

\* transitionReasonLocked: the rate is named first when both rules apply.
TransitionReason(snap, target) ==
    IF target = "NOMINAL" THEN "recovered"
    ELSE IF RateAtLeast(snap, config.degradedRate) THEN "rate"
    ELSE "critical"

RecordSample(sample) ==
    /\ config.enabled
    /\ samples' = Slide(samples, sample)
    /\ LET snap == Snapshot(samples')
           target == Target(snap)
       IN  /\ state' = target
           /\ transition' = IF target = state THEN "none" ELSE TransitionReason(snap, target)
           /\ dwell' = IF target # state THEN 0
                       ELSE IF dwell < config.windowSize THEN dwell + 1 ELSE dwell
    /\ UNCHANGED config

\* recordDecoded: isCriticalTelemetry() is true of CRITICAL and SAFE_MODE frames.
RecordDecoded(critical) == RecordSample(IF critical THEN "critical" ELSE "nominal")

RecordRejected == RecordSample("rejected")

\* A disabled monitor returns nullopt at once.
RecordIgnored == ~config.enabled /\ UNCHANGED vars

Next ==
    \/ \E critical \in BOOLEAN : RecordDecoded(critical)
    \/ RecordRejected
    \/ RecordIgnored

Spec == Init /\ [][Next]_vars

-----------------------------------------------------------------------------

Evaluated == config.enabled /\ Len(samples) >= config.minSamples
StrictRates == config.recoveryRate < config.degradedRate

\* The state is settled (recordSample 103-122): once the window is evaluated,
\* looking at the same window again would not change the state.  Only true of
\* configurations whose two rates differ, which the constructor does not demand.
Settled ==
    Evaluated /\ StrictRates =>
        IF state = "NOMINAL" THEN ~MustDegrade(Snapshot(samples))
                             ELSE ~MayRecover(Snapshot(samples))

\* One record moves the rejection rate by at most 1/minSamples and the number of
\* critical frames by at most one, so undoing a change of state takes this many
\* records: the width of the narrower of the two hysteresis bands.
Undoes(records) ==
    \/ records * RateScale >= (config.degradedRate - config.recoveryRate) * config.minSamples
    \/ records >= config.criticalForDegraded - config.criticalForRecovery

\* The hysteresis has the width the two pairs of thresholds give it
\* (recordSample 103-122): no change of state comes sooner after the previous one.
HysteresisWidth == [][state' # state => Undoes(dwell + 1)]_vars

\* The decision and its explanation are two pieces of code (103-122 and 173-198):
\* the reason given to the operator is a rule the window really broke, and
\* "critical" means that the rejection rate alone would have left it NOMINAL.
ReasonIsTrue ==
    LET snap == Snapshot(samples)
    IN  /\ transition = "rate" =>
             state = "DEGRADED" /\ RateAtLeast(snap, config.degradedRate)
        /\ transition = "critical" =>
             /\ state = "DEGRADED"
             /\ ~RateAtLeast(snap, config.degradedRate)
             /\ snap.critical >= config.criticalForDegraded
        /\ transition = "recovered" =>
             state = "NOMINAL" /\ MayRecover(snap)

\* Claim of docs/TECHNICAL_DESIGN.md 211: "Two hysteresis pairs prevent rapid
\* state oscillation"; no record undoes the change the record before it made.
NoImmediateReversal == [][state' # state => dwell > 0]_vars
=============================================================================
