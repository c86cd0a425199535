---------------------------- MODULE OrderedExport ----------------------------
(***************************************************************************)
(* What the ground-station pipeline promises about its results, without    *)
(* threads: the effects of the received frames (health samples, STGA       *)
(* messages, exported rows) happen one by one in reception order, and a    *)
(* run is reported as successful only if every received frame had its      *)
(* effect.  (apps/ground_station/GroundStationPipeline.hpp 66-77 and the   *)
(* comment of writerLoop, GroundStationWorkers.cpp 77-87.)                 *)
(***************************************************************************)
EXTENDS Naturals, Sequences

CONSTANT Frame      \* what can be received

VARIABLES
    received,       \* the frames accepted by the station, in reception order
    applied,        \* the frames whose effects took place, in that order
    status          \* "open", then "complete" or "failed"

exportVars == <<received, applied, status>>

Init ==
    /\ received = <<>>
    /\ applied = <<>>
    /\ status = "open"

Accept(f) ==
    /\ status = "open"
    /\ received' = Append(received, f)
    /\ UNCHANGED <<applied, status>>

Apply ==
    /\ status = "open"
    /\ Len(applied) < Len(received)
    /\ applied' = Append(applied, received[Len(applied) + 1])
    /\ UNCHANGED <<received, status>>

Complete ==
    /\ status = "open"
    /\ applied = received
    /\ status' = "complete"
    /\ UNCHANGED <<received, applied>>

Fail ==
    /\ status = "open"
    /\ status' = "failed"
    /\ UNCHANGED <<received, applied>>

Next ==
    \/ \E f \in Frame : Accept(f)
    \/ Apply
    \/ Complete
    \/ Fail

Spec == Init /\ [][Next]_exportVars
=============================================================================
