--------------------------- MODULE MCStationHealth ---------------------------
(* TLC instance of StationHealth: every configuration up to a window size,  *)
(* valid or not, is offered to the constructor.                             *)
EXTENDS StationHealth

CONSTANT MaxWindow  \* bound on windowSize

AllConfigs ==
    [enabled : BOOLEAN,
     windowSize : 0 .. MaxWindow,
     minSamples : 0 .. MaxWindow,
     degradedRate : 0 .. RateScale,
     recoveryRate : 0 .. RateScale,
     criticalForDegraded : 0 .. MaxWindow,
     criticalForRecovery : 0 .. MaxWindow]

\* Equal rates, which the constructor accepts, and a wide critical band.
EqualRates ==
    {[enabled |-> TRUE,
      windowSize |-> MaxWindow,
      minSamples |-> 2,
      degradedRate |-> RateScale \div 2,
      recoveryRate |-> RateScale \div 2,
      criticalForDegraded |-> MaxWindow,
      criticalForRecovery |-> 1]}
=============================================================================
