------------------------------ MODULE SignalStop ------------------------------
(***************************************************************************)
(* PosixSignalStopController (apps/ground_station/                         *)
(* PosixSignalStopController.cpp): SIGINT and SIGTERM are blocked in the   *)
(* main thread, which every later thread inherits, and taken by a waiter   *)
(* thread that clears running.                                             *)
(*                                                                         *)
(* The kernel keeps at most one pending instance of a blocked signal, and  *)
(* a signal that is not blocked ends the process (its default action).     *)
(* The mask of the process before the constructor leaves both unblocked.   *)
(***************************************************************************)
EXTENDS Naturals

CONSTANTS
  Signals,      \* the signals of signalSet_
  MaxSignals    \* bound: signals sent to the process

VARIABLES
  process,      \* "up", "exit0", "exit1" or "killed"
  running,      \* the station's atomic flag
  masked,       \* maskInstalled_
  pending,      \* blocked signals that wait
  waiter,       \* where waiter_ is: "none", "check", "wait", "took", "ended"
  stopAsked,    \* its stop token
  sigError,     \* error_ holds an exception
  raised        \* signals sent so far

signalVars == <<process, running, masked, pending, waiter, stopAsked, sigError, raised>>

SignalInit ==
  /\ process = "up"
  /\ running = TRUE
  /\ masked = FALSE
  /\ pending = {}
  /\ waiter = "none"
  /\ stopAsked = FALSE
  /\ sigError = FALSE
  /\ raised = 0

\* The user, or the system, sends a signal.  One that is pending already would
\* merge with it and change nothing.
Raise ==
  /\ process = "up"
  /\ raised < MaxSignals
  /\ raised' = raised + 1
  /\ IF masked
     THEN /\ \E s \in Signals \ pending : pending' = pending \cup {s}
          /\ UNCHANGED process
     ELSE process' = "killed" /\ UNCHANGED pending
  /\ UNCHANGED <<running, masked, waiter, stopAsked, sigError>>

----------------------------------------------------------------------------
(* Steps of the main thread. *)

\* Mutant of BlockSignals: pthread_sigmask is forgotten.
BlockSignalsForgotten == UNCHANGED signalVars

BlockSignals ==
  /\ masked' = TRUE
  /\ UNCHANGED <<process, running, pending, waiter, stopAsked, sigError, raised>>

StartWaiter ==
  /\ waiter' = "check"
  /\ UNCHANGED <<process, running, masked, pending, stopAsked, sigError, raised>>

RequestStop ==
  /\ stopAsked' = TRUE
  /\ UNCHANGED <<process, running, masked, pending, waiter, sigError, raised>>

WaiterJoined == waiter = "ended"

\* restoreMaskNoThrow(): a signal still pending takes its default action.
RestoreMask ==
  /\ masked' = FALSE
  /\ process' = IF pending # {} THEN "killed" ELSE process
  /\ UNCHANGED <<running, pending, waiter, stopAsked, sigError, raised>>

----------------------------------------------------------------------------
(* waitLoop. *)

WaiterChecks ==
  /\ process = "up"
  /\ waiter = "check"
  /\ waiter' = IF stopAsked THEN "ended" ELSE "wait"
  /\ UNCHANGED <<process, running, masked, pending, stopAsked, sigError, raised>>

WaiterTakes ==
  /\ process = "up"
  /\ waiter = "wait"
  /\ \E s \in pending : pending' = pending \ {s}
  /\ waiter' = "took"
  /\ UNCHANGED <<process, running, masked, stopAsked, sigError, raised>>

\* Mutant of WaiterStores: the waiter swallows the signal.
WaiterStoresNothing ==
  /\ process = "up"
  /\ waiter = "took"
  /\ waiter' = "ended"
  /\ UNCHANGED <<process, running, masked, pending, stopAsked, sigError, raised>>

WaiterStores ==
  /\ process = "up"
  /\ waiter = "took"
  /\ running' = FALSE
  /\ waiter' = "ended"
  /\ UNCHANGED <<process, masked, pending, stopAsked, sigError, raised>>

\* EAGAIN after the time slice, or EINTR.
WaiterRetries ==
  /\ process = "up"
  /\ waiter = "wait"
  /\ pending = {}
  /\ waiter' = "check"
  /\ UNCHANGED <<process, running, masked, pending, stopAsked, sigError, raised>>

\* Any other error: captureError, then the pipeline is stopped.
WaiterFails ==
  /\ process = "up"
  /\ waiter = "wait"
  /\ sigError' = TRUE
  /\ running' = FALSE
  /\ waiter' = "ended"
  /\ UNCHANGED <<process, masked, pending, stopAsked, raised>>

WaiterStep == WaiterChecks \/ WaiterTakes \/ WaiterStores \/ WaiterRetries

=============================================================================
