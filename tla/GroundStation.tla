---------------------------- MODULE GroundStation ----------------------------
(***************************************************************************)
(* The process: main and run (apps/ground_station.cpp,                     *)
(* GroundStationApp.cpp:108-126) around the signal controller, the port    *)
(* selection, the network server and the progress thread.                  *)
(*                                                                         *)
(* The pipeline's queues, decoders and writer are those of module          *)
(* Pipeline; here they are one writer that moves the counters and may fail *)
(* (writerLoop), and the export is open, finished or broken (closed        *)
(* without finish()).                                                      *)
(* A throw unwinds: the pipeline's members, the last one first, then the   *)
(* controller, then main's catch, which reports and returns 1.             *)
(***************************************************************************)
EXTENDS SignalStop, UdpServer, TcpLoop, PortSelection, Progress

VARIABLES
  transport,      \* "udp" with an explicit port, or "tcp" with --auto-port
  stopRequested,  \* stopRequested_ of the network server
  pushed,         \* frames that submit() pushed into the raw queue
  mainPc,         \* where run() is
  error,          \* the exception on its way to main
  pipelineError,  \* asyncFailure_
  output          \* "none", "open", "finished" or "broken"

mainVars == <<transport, mainPc, error, pipelineError, output>>
netVars == <<udpVars, tcpVars, stopRequested, pushed>>
vars == <<signalVars, netVars, portVars, counters, progressVars, mainVars>>

Received == counters[1]
Handled  == counters[2] + counters[3]
Written  == counters[4]

Bump(k) == counters' = [counters EXCEPT ![k] = @ + 1]

Init ==
  /\ SignalInit
  /\ UdpInit
  /\ TcpInit
  /\ PortInit
  /\ ProgressInit
  /\ transport \in {"udp", "tcp"}
  /\ transport = "udp" => busy = {}    \* no port is probed
  /\ mainPc = IF transport = "tcp" THEN "probe" ELSE "logger"
  /\ stopRequested = FALSE
  /\ pushed = 0
  /\ error = "none"
  /\ pipelineError = "none"
  /\ output = "none"

----------------------------------------------------------------------------
At(pc) == process = "up" /\ mainPc = pc

Goto(pc) == mainPc' = pc /\ UNCHANGED error

\* An exception: the controller's destructor runs if it was constructed.
Throw(e, unwindTo) == error' = e /\ mainPc' = unwindTo

\* failPipeline, and the end of the input.
FailPipeline(e) ==
  /\ pipelineError' = IF pipelineError = "none" THEN e ELSE pipelineError
  /\ running' = FALSE

\* Only these variables of the controller stay in steps that write running.
signalRest == <<process, masked, pending, waiter, stopAsked, sigError, raised>>

SelectAutomaticPort ==
  /\ At("probe")
  /\ \/ ProbeFree /\ Goto("logger")
     \/ ProbeBusy /\ Goto("probe")
     \/ RangeExhausted /\ Throw("noPort", "report") /\ UNCHANGED portVars
  /\ UNCHANGED <<signalVars, netVars, counters, progressVars, transport, pipelineError, output>>

OpenLogger ==
  /\ At("logger")
  /\ Goto("block") \/ Throw("logger", "report")
  /\ UNCHANGED <<signalVars, netVars, portVars, counters, progressVars, transport, pipelineError, output>>

ConstructController ==
  /\ \/ /\ At("block")
        /\ \/ BlockSignals /\ Goto("spawn")
           \/ UNCHANGED signalVars /\ Throw("mask", "report")
     \/ /\ At("spawn")
        /\ \/ StartWaiter /\ Goto("output")
           \/ RestoreMask /\ Throw("waiter", "report")
  /\ UNCHANGED <<netVars, portVars, counters, progressVars, transport, pipelineError, output>>

\* The pipeline's constructor opens the export file.
OpenExport ==
  /\ At("output")
  /\ \/ output' = "open" /\ Goto("start")
     \/ UNCHANGED output /\ Throw("output", "stop")
  /\ UNCHANGED <<signalVars, netVars, portVars, counters, progressVars, transport, pipelineError>>

\* progressThread_, writerThread_, then the decoders; creating any of them may
\* throw, and the members that exist are destroyed.  ~jthread asks the progress
\* thread to stop and joins it.  The writer and the decoders are joined too, but
\* wait on queues that nobody closes: no step leaves "joinWorkers".
StartWorkers ==
  /\ \/ /\ At("start")
        /\ \/ StartProgress /\ Goto("startWriter") /\ UNCHANGED output
           \/ UNCHANGED progressVars /\ Throw("thread", "stop") /\ output' = "broken"
     \/ /\ At("startWriter")
        /\ \/ UNCHANGED progressVars /\ Goto("startDecoders")
           \/ StopProgress /\ Throw("thread", "unwindProgress")
        /\ UNCHANGED output
     \/ /\ At("startDecoders")
        /\ Goto("bind") \/ Throw("thread", "joinWorkers")
        /\ UNCHANGED <<progressVars, output>>
  /\ UNCHANGED <<signalVars, netVars, portVars, counters, transport, pipelineError>>

\* The progress thread is joined and the export is destroyed unfinished.
UnwindProgress ==
  /\ At("unwindProgress")
  /\ progress = "ended"
  /\ output' = "broken"
  /\ Goto("stop")
  /\ UNCHANGED <<signalVars, netVars, portVars, counters, progressVars, transport, pipelineError>>

\* run() of a new server, up to its loop: no socket is bound to a port taken since
\* it was probed, and socket, bind or listen may fail for other reasons.
BindSocket ==
  /\ At("bind")
  /\ \/ /\ transport = "tcp" => ~BindFails(port)
        /\ udpLoop' = IF transport = "udp" THEN "test" ELSE "off"
        /\ tcpLoop' = IF transport = "tcp" THEN "test" ELSE "off"
        /\ stopRequested' = FALSE
        /\ Goto("serve")
        /\ UNCHANGED <<pipelineError, running>>
     \/ /\ FailPipeline("bind")
        /\ stopRequested' = TRUE
        /\ Goto("close")
        /\ UNCHANGED <<udpLoop, tcpLoop>>
  /\ UNCHANGED <<signalRest, sockets, arrived, delivered, waiting, pushed, portVars, counters,
                 progressVars, transport, output>>

\* submit(): the raw queue takes the frame unless a failure has closed it; the
\* workers see it at once, and it is counted after.
Submit ==
  IF pipelineError = "none"
  THEN pushed' = pushed + 1 /\ UNCHANGED running
  ELSE running' = FALSE /\ UNCHANGED pushed

Counted == Received = pushed

\* One step of runUdp's or runTcp's loop, or the rest of the callback.  A read
\* of a TCP client gives no frame or one.
ServerStep ==
  /\ At("serve")
  /\ \/ /\ Counted
        /\ \/ /\ \/ TestRunning(running, stopRequested) \/ PollReady \/ PollAgain \/ PollFails
                   \/ ReceiveFails \/ DropOversized
              /\ UNCHANGED <<running, tcpVars, pushed>>
           \/ DeliverDatagram /\ Submit /\ UNCHANGED tcpVars
           \/ TcpLoopStep(running, stopRequested) /\ UNCHANGED <<running, udpVars, pushed>>
           \/ TcpTakes /\ pushed < MaxTcpFrames /\ Submit /\ UNCHANGED udpVars
        /\ UNCHANGED counters
     \/ ~Counted /\ Bump(1) /\ UNCHANGED <<running, udpVars, tcpVars, pushed>>
  /\ UNCHANGED <<signalRest, stopRequested, portVars, progressVars, mainVars>>

\* The server's run() returned or threw, and its destructor calls stop().
LeaveServer ==
  /\ At("serve")
  /\ Counted
  /\ \/ "left" \in {udpLoop, tcpLoop} /\ UNCHANGED <<pipelineError, running>>
     \/ "threw" \in {udpLoop, tcpLoop} /\ FailPipeline("poll")
  /\ stopRequested' = TRUE
  /\ Goto("close")
  /\ UNCHANGED <<signalRest, udpVars, tcpVars, pushed, portVars, counters, progressVars, transport, output>>

\* Mutant of JoinWriter: the progress thread is not asked to stop.
JoinWriterOnly ==
  /\ At("close")
  /\ \/ /\ output = "open"
        /\ pipelineError = "none" => Handled = pushed /\ Written = counters[2]
        /\ \/ output' = "finished" /\ UNCHANGED <<pipelineError, running>>
           \/ output' = "broken" /\ FailPipeline("finish")
     \/ output = "broken" /\ UNCHANGED <<output, pipelineError, running>>
  /\ Goto("joinProgress")
  /\ UNCHANGED <<signalRest, netVars, portVars, counters, progressVars, transport>>

\* stopWorkers up to the writer's join: the writer has drained the queues and
\* finished the export, or has failed, or has lost the queues to a failure.
JoinWriter ==
  /\ At("close")
  /\ \/ /\ output = "open"
        /\ pipelineError = "none" => Handled = pushed /\ Written = counters[2]
        /\ \/ output' = "finished" /\ UNCHANGED <<pipelineError, running>>
           \/ output' = "broken" /\ FailPipeline("finish")
     \/ output = "broken" /\ UNCHANGED <<output, pipelineError, running>>
  /\ StopProgress
  /\ Goto("joinProgress")
  /\ UNCHANGED <<signalRest, netVars, portVars, counters, transport>>

\* The progress thread is joined, then the first failure is rethrown.
LeavePipeline ==
  /\ At("joinProgress")
  /\ progress = "ended"
  /\ IF pipelineError = "none" THEN Goto("summary") ELSE Throw(pipelineError, "stop")
  /\ UNCHANGED <<signalVars, netVars, portVars, counters, progressVars, transport,
                 pipelineError, output>>

RenderSummary ==
  /\ At("summary")
  /\ Goto("stop")
  /\ UNCHANGED <<signalVars, netVars, portVars, counters, progressVars, transport,
                 pipelineError, output>>

\* Mutant of StopController: finish() does not rethrow the waiter's error.
StopControllerSilent ==
  /\ \/ At("stop") /\ RequestStop /\ Goto("joinWaiter")
     \/ At("joinWaiter") /\ WaiterJoined /\ Goto("unmask") /\ UNCHANGED signalVars
     \/ /\ At("unmask")
        /\ RestoreMask
        /\ IF error = "none" THEN Goto("return") ELSE Throw(error, "report")
  /\ UNCHANGED <<netVars, portVars, counters, progressVars, transport, pipelineError, output>>

\* finish() on the normal path, the destructor when unwinding.
StopController ==
  /\ \/ At("stop") /\ RequestStop /\ Goto("joinWaiter")
     \/ At("joinWaiter") /\ WaiterJoined /\ Goto("unmask") /\ UNCHANGED signalVars
     \/ /\ At("unmask")
        /\ RestoreMask
        /\ IF error = "none" /\ ~sigError THEN Goto("return")
           ELSE Throw(IF error = "none" THEN "signal" ELSE error, "report")
  /\ UNCHANGED <<netVars, portVars, counters, progressVars, transport, pipelineError, output>>

Exit ==
  /\ \/ At("return") /\ process' = "exit0"
     \/ At("report") /\ process' = "exit1"
  /\ UNCHANGED <<running, masked, pending, waiter, stopAsked, sigError, raised,
                 netVars, portVars, counters, progressVars, mainVars>>

MainStep ==
  \/ SelectAutomaticPort \/ OpenLogger \/ ConstructController \/ OpenExport \/ StartWorkers
  \/ UnwindProgress \/ BindSocket \/ ServerStep \/ LeaveServer \/ JoinWriter \/ LeavePipeline
  \/ RenderSummary \/ StopController \/ Exit

----------------------------------------------------------------------------
(* The other threads and the environment. *)

WriterUp == process = "up" /\ output = "open" /\ mainPc \in {"bind", "serve", "close"}

\* writerLoop on one frame: ++decoded_ and later ++written_, or ++rejected_.
WriterStep ==
  /\ WriterUp
  /\ \/ Written = counters[2] /\ Handled < pushed /\ (Bump(2) \/ Bump(3))
     \/ Written < counters[2] /\ Bump(4)
  /\ UNCHANGED <<signalVars, netVars, portVars, progressVars, mainVars>>

WriterFails ==
  /\ WriterUp
  /\ Written < counters[2]
  /\ output' = "broken"
  /\ FailPipeline("write")
  /\ UNCHANGED <<signalRest, netVars, portVars, counters, progressVars, transport, mainPc, error>>

ProgressThread ==
  /\ process = "up"
  /\ ProgressStep
  /\ UNCHANGED <<signalVars, netVars, portVars, counters, mainVars>>

WaiterThread ==
  /\ WaiterStep
  /\ UNCHANGED <<netVars, portVars, counters, progressVars, mainVars>>

Environment ==
  \/ (Raise \/ WaiterFails) /\ UNCHANGED <<netVars, portVars, counters, progressVars, mainVars>>
  \/ /\ process = "up"
     /\ \/ DatagramArrives /\ UNCHANGED tcpVars
        \/ TcpArrives /\ UNCHANGED udpVars
     /\ UNCHANGED <<stopRequested, pushed, signalVars, portVars, counters, progressVars, mainVars>>
  \/ /\ process = "up"
     /\ transport = "tcp"
     /\ mainPc \in {"probe", "logger", "block", "spawn", "output", "start", "startWriter",
                    "startDecoders", "bind"}
     /\ TakePort \/ FreePort
     /\ UNCHANGED <<signalVars, netVars, counters, progressVars, mainVars>>

Ended == process # "up" /\ UNCHANGED vars

Next == MainStep \/ WriterStep \/ WriterFails \/ ProgressThread \/ WaiterThread \/ Environment \/ Ended

(* Every thread that can take a step takes one: the main thread, the       *)
(* waiter, the writer and the progress thread never wait for an event that *)
(* is not another thread's step or a timeout.                              *)
Fairness ==
  /\ WF_vars(MainStep)
  /\ WF_vars(WriterStep)
  /\ WF_vars(ProgressThread)
  /\ WF_vars(WaiterThread)

Spec == Init /\ [][Next]_vars /\ Fairness

----------------------------------------------------------------------------
(* SIGINT and SIGTERM never cut an export short: if a signal's default      *)
(* action ends the process, the export was not open yet or is closed        *)
(* already, even when the signal comes a second time or arrives while the   *)
(* mask is being restored (PosixSignalStopController.cpp:31 and 129).       *)
KilledOnlyOutsideExport == process = "killed" => output # "open"

(* The exit status tells the truth: 0 means that no thread failed, that     *)
(* every frame handed to the pipeline was decoded or rejected, every        *)
(* decoded one written, the export finished, and the controller and the     *)
(* progress thread joined (GroundStationApp.cpp:120-125).                   *)
ExitZeroIsClean ==
  process = "exit0" =>
    /\ pipelineError = "none" /\ ~sigError
    /\ output = "finished"
    /\ transport = "udp" => Received = Len(delivered)
    /\ Received = pushed /\ Handled = Received /\ Written = counters[2]
    /\ ~masked /\ waiter = "ended" /\ progress = "ended"

\* run() waits in a destructor for workers that wait on open queues.
Stranded == mainPc = "joinWorkers"

\* The TCP clients let the draining loops run dry now and then.
ClientsPause == []<>(tcpLoop # "drain")

(* A signal ends the process whenever it arrives: before the mask, before   *)
(* the waiter runs, during the run, while it is already shutting down or    *)
(* while a failed start unwinds.  Two cases are excepted because the code   *)
(* has them: clients that never let runTcp's inner loops run dry            *)
(* (NetworkServerTcp.cpp:171), and a worker thread that could not be        *)
(* created once the writer runs (GroundStationPipeline.cpp:91-96), after    *)
(* which the blocked signals leave only SIGKILL.                            *)
SignalEndsProcess == ClientsPause => (raised > 0 ~> (process # "up" \/ Stranded))

(* A failure ends the process, and not with status 0: a port lost between   *)
(* the probe and the bind (PortDiagnostics.cpp:273), a poll, an export or a *)
(* sigtimedwait that fails, a thread that cannot be created; no thread is   *)
(* left waiting for another, but for the same two cases.                    *)
FailureEndsProcess ==
  ClientsPause =>
    ((error # "none" \/ pipelineError # "none" \/ sigError)
       ~> (process \in {"exit1", "killed"} \/ Stranded))

=============================================================================
