------------------------------- MODULE Progress -------------------------------
(***************************************************************************)
(* progressLoop (apps/ground_station/GroundStationWorkers.cpp:30-75): a    *)
(* thread that now and then loads four counters, one after the other, and  *)
(* prints a line if any of them moved since its last line.                 *)
(***************************************************************************)
EXTENDS Naturals, Sequences

VARIABLES
  counters,      \* received_, decoded_, rejected_, written_
  progress,      \* where the thread is: "none", "test", "wait", "load", "print", "ended"
  loaded,        \* the counters loaded in this turn, in order (locals of the loop body)
  previous,      \* those of the last line
  progressStop   \* the stop token of progressThread_

progressVars == <<progress, loaded, previous, progressStop>>

Counter == <<"received", "decoded", "rejected", "written">>

Zero == <<0, 0, 0, 0>>

ProgressInit ==
  /\ counters = Zero
  /\ progress = "none"
  /\ loaded = <<>>
  /\ previous = Zero
  /\ progressStop = FALSE

StartProgress ==
  /\ progress' = "test"
  /\ UNCHANGED <<loaded, previous, progressStop>>

\* progressThread_.request_stop(), also by the destructor of the jthread.
StopProgress ==
  /\ progressStop' = TRUE
  /\ UNCHANGED <<progress, loaded, previous>>

TestStop ==
  /\ progress = "test"
  /\ progress' = IF progressStop THEN "ended" ELSE "wait"
  /\ UNCHANGED <<loaded, previous, progressStop>>

\* wait_for returns at the interval or at the stop request.
WakeUp ==
  /\ progress = "wait"
  /\ progress' = IF progressStop THEN "ended" ELSE "load"
  /\ UNCHANGED <<loaded, previous, progressStop>>

\* Mutant of LoadNext: every load reads received_.
LoadNextReceived ==
  /\ progress = "load"
  /\ Len(loaded) < Len(Counter)
  /\ loaded' = Append(loaded, counters[1])
  /\ UNCHANGED <<progress, previous, progressStop>>

LoadNext ==
  /\ progress = "load"
  /\ Len(loaded) < Len(Counter)
  /\ loaded' = Append(loaded, counters[Len(loaded) + 1])
  /\ UNCHANGED <<progress, previous, progressStop>>

Unchanged == loaded = previous

SkipLine ==
  /\ progress = "load"
  /\ Len(loaded) = Len(Counter)
  /\ Unchanged
  /\ progress' = "test"
  /\ loaded' = <<>>
  /\ UNCHANGED <<previous, progressStop>>

DecideToPrint ==
  /\ progress = "load"
  /\ Len(loaded) = Len(Counter)
  /\ ~Unchanged
  /\ progress' = "print"
  /\ UNCHANGED <<loaded, previous, progressStop>>

\* The line is printed with the mutex released; previous is set after it.
PrintLine ==
  /\ progress = "print"
  /\ previous' = loaded
  /\ loaded' = <<>>
  /\ progress' = "test"
  /\ UNCHANGED progressStop

ProgressStep == TestStop \/ WakeUp \/ LoadNext \/ SkipLine \/ DecideToPrint \/ PrintLine

(* The lines move forward although their numbers are read at four instants: *)
(* no counter goes back from one line to the next and no line is ahead of   *)
(* the counters (GroundStationWorkers.cpp:47-73).                           *)
LinesAdvance ==
  [][progress = "print" /\ progress' # "print" =>
       \A k \in DOMAIN Counter :
         previous[k] <= loaded[k] /\ loaded[k] <= counters[k]]_<<progress, loaded, previous, counters>>

=============================================================================
