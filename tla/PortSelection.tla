----------------------------- MODULE PortSelection -----------------------------
(***************************************************************************)
(* selectAutomaticPort (GroundStationApp.cpp:27-49) over                   *)
(* findFirstAvailableLocalPort and checkLocalPortAvailability              *)
(* (src/PortDiagnostics.cpp:255-319): each port of the range is bound and  *)
(* released again, and the first that could be bound is used later.        *)
(* Other processes take and free ports at any time.                        *)
(***************************************************************************)
EXTENDS Naturals

CONSTANTS
  PortRange,   \* first..last of --auto-port
  MaxTaken     \* bound: ports other processes take during the run

VARIABLES
  busy,        \* ports other processes hold
  probe,       \* the port the loop is at
  port,        \* options.port, 0 while none is chosen
  taken        \* how many ports were taken so far

portVars == <<busy, probe, port, taken>>

FirstPort == CHOOSE p \in PortRange : \A q \in PortRange : p <= q

PortInit ==
  /\ busy \in SUBSET PortRange
  /\ probe = FirstPort
  /\ port = 0
  /\ taken = 0

TakePort ==
  /\ taken < MaxTaken
  /\ \E p \in PortRange \ busy : busy' = busy \cup {p}
  /\ taken' = taken + 1
  /\ UNCHANGED <<probe, port>>

FreePort ==
  /\ taken > 0
  /\ \E p \in busy : busy' = busy \ {p}
  /\ UNCHANGED <<probe, port, taken>>

\* One pass of the loop: bind succeeds, and the probing socket is closed.
ProbeFree ==
  /\ probe \in PortRange \ busy
  /\ port' = probe
  /\ UNCHANGED <<busy, probe, taken>>

\* bind fails, whatever the reason: the next port is tried.
ProbeBusy ==
  /\ probe \in busy
  /\ probe' = probe + 1
  /\ UNCHANGED <<busy, port, taken>>

RangeExhausted == probe \notin PortRange

BindFails(p) == p \in busy

=============================================================================
