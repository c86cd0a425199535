------------------------- MODULE GroundStationProofs -------------------------
(***************************************************************************)
(* Proofs about module GroundStation, for any number of signals, datagrams *)
(* and ports: a signal never cuts the export short, exit status 0 tells    *)
(* the truth, the progress lines move forward, and datagrams reach the     *)
(* pipeline whole and in order.                                            *)
(*                                                                         *)
(* Each theorem has its own inductive invariant over StationTypes:         *)
(* MaskInv, CountInv and CleanInv, LinesInv, and DatagramsWholeInOrder     *)
(* itself, which is inductive.                                             *)
(***************************************************************************)
EXTENDS GroundStation, WellFoundedInduction, SequenceTheorems, TLAPS

-----------------------------------------------------------------------------
(* Induction on the natural numbers, stated about a set of numbers instead *)
(* of a predicate: the form in which the back-end provers can apply it.    *)

\* A set of natural numbers has a least element.
LEMMA LeastExists ==
  ASSUME NEW T \in SUBSET Nat, T # {}
  PROVE  \E x \in T : \A y \in T : x <= y
  <1> DEFINE R == OpToRel(<, Nat)
  <1>1. IsWellFoundedOn(R, Nat)
    BY NatLessThanWellFounded
  <1> HIDE DEF R
  <1>2. PICK x \in T : \A y \in T : ~(<<y, x>> \in R)
    BY <1>1, WFMin
  <1>3. \A y \in T : ~(y < x)
    BY <1>2 DEF R, OpToRel
  <1> QED BY <1>2, <1>3

\* Induction on a set of numbers.
LEMMA SetInduction ==
  ASSUME NEW S, 0 \in S, \A n \in Nat : n \in S => n + 1 \in S
  PROVE  Nat \subseteq S
  <1> SUFFICES ASSUME Nat \ S # {} PROVE FALSE
    OBVIOUS
  <1>1. PICK x \in Nat \ S : \A y \in Nat \ S : x <= y
    BY LeastExists
  <1>2. x # 0 /\ x - 1 \in Nat
    BY <1>1
  <1>3. x - 1 \in S
    BY <1>1, <1>2
  <1> QED BY <1>1, <1>2, <1>3

-----------------------------------------------------------------------------
Datagram == [number : Nat, size : DatagramSizes]

StationTypes ==
  /\ counters \in [1..4 -> Nat]
  /\ sockets \in Seq(Datagram)
  /\ arrived \in Seq(Datagram)
  /\ delivered \in Seq(Datagram)
  /\ udpLoop = "recv" => sockets # <<>>
  /\ pushed \in Nat

\* While the export is open, SIGINT and SIGTERM are blocked.
MaskInv ==
  /\ mainPc \in {"spawn", "output", "start", "startWriter", "startDecoders", "unwindProgress",
                 "joinWorkers", "bind", "serve", "close", "joinProgress", "summary", "stop",
                 "joinWaiter", "unmask"} => masked
  /\ mainPc = "return" => ~masked
  /\ output = "open" => mainPc \in {"start", "startWriter", "startDecoders", "unwindProgress",
                                    "joinWorkers", "bind", "serve", "close"}
  /\ KilledOnlyOutsideExport

\* The callback's counter lags one behind, only inside the receiving loop, and
\* every datagram handed over is in the raw queue unless the pipeline failed.
CountInv ==
  /\ Counted \/ (mainPc = "serve" /\ Received + 1 = pushed)
  /\ transport = "udp" => tcpLoop = "off"
  /\ transport = "udp" /\ pipelineError = "none" => pushed = Len(delivered)

AllAccountedFor ==
  /\ pipelineError = "none"
  /\ output = "finished"
  /\ Handled = pushed
  /\ Written = counters[2]

\* What main knows at each point of the way to "return 0".
CleanInv ==
  /\ output = "broken" /\ mainPc \notin {"stop", "joinWaiter", "unmask", "report"} =>
       pipelineError # "none"
  /\ mainPc = "unwindProgress" => error # "none"
  /\ mainPc = "joinProgress" /\ pipelineError = "none" => AllAccountedFor
  /\ mainPc \in {"summary", "stop", "joinWaiter", "unmask", "return"} /\ error = "none" =>
       AllAccountedFor /\ progress = "ended"
  /\ mainPc \in {"unmask", "return"} => waiter = "ended"
  /\ mainPc = "return" => error = "none" /\ ~sigError
  /\ process = "exit0" => mainPc = "return"

\* What progressLoop has read is not ahead of the counters nor behind its last line.
LinesInv ==
  /\ previous \in [1..4 -> Nat]
  /\ loaded \in Seq(Nat)
  /\ Len(loaded) <= 4
  /\ \A k \in 1..4 : previous[k] <= counters[k]
  /\ \A k \in 1..Len(loaded) : previous[k] <= loaded[k] /\ loaded[k] <= counters[k]
  /\ progress = "print" => Len(loaded) = 4

-----------------------------------------------------------------------------
(* Types *)

LEMMA TypesInit == Init => StationTypes
  <1> SUFFICES ASSUME Init PROVE StationTypes
    OBVIOUS
  <1>1. sockets = <<>> /\ arrived = <<>> /\ delivered = <<>> /\ udpLoop = "off" /\ counters = Zero
        /\ pushed = 0
    BY DEF Init, UdpInit, ProgressInit
  <1>2. counters \in [1..4 -> Nat]
    BY <1>1 DEF Zero
  <1>3. sockets \in Seq(Datagram) /\ arrived \in Seq(Datagram) /\ delivered \in Seq(Datagram)
    BY <1>1
  <1> QED BY <1>1, <1>2, <1>3 DEF StationTypes

LEMMA BumpFacts ==
  ASSUME StationTypes, NEW k \in 1..4, Bump(k)
  PROVE  /\ counters' \in [1..4 -> Nat]
         /\ counters'[k] = counters[k] + 1
         /\ \A j \in 1..4 \ {k} : counters'[j] = counters[j]
         /\ \A j \in 1..4 : counters[j] \in Nat /\ counters[j] <= counters'[j]
  <1>1. counters \in [1..4 -> Nat] /\ counters' = [counters EXCEPT ![k] = counters[k] + 1]
    BY DEF StationTypes, Bump
  <1>2. ASSUME NEW j \in 1..4 PROVE counters[j] \in Nat /\ counters[j] + 1 \in Nat
    BY <1>1
  <1>3. counters'[k] = counters[k] + 1 /\ \A j \in 1..4 \ {k} : counters'[j] = counters[j]
    BY <1>1
  <1>4. counters' \in [1..4 -> Nat]
    BY <1>1, <1>2
  <1>5. ASSUME NEW j \in 1..4 PROVE counters[j] <= counters'[j]
    BY <1>2, <1>3
  <1> QED BY <1>2, <1>3, <1>4, <1>5

\* One step of runUdp keeps the types of its variables.
LEMMA UdpTypes ==
  ASSUME StationTypes,
         \/ DatagramArrives \/ TestRunning(running, stopRequested) \/ PollReady \/ PollAgain
         \/ PollFails \/ ReceiveFails \/ DropOversized \/ DeliverDatagram
  PROVE  /\ sockets' \in Seq(Datagram) /\ arrived' \in Seq(Datagram)
         /\ delivered' \in Seq(Datagram)
         /\ udpLoop' = "recv" => sockets' # <<>>
  <1> USE DEF StationTypes
  <1>1. CASE DatagramArrives
    <2>1. PICK size \in DatagramSizes :
            LET d == [number |-> Len(arrived) + 1, size |-> size]
            IN  sockets' = Append(sockets, d) /\ arrived' = Append(arrived, d)
      BY <1>1 DEF DatagramArrives
    <2> DEFINE d == [number |-> Len(arrived) + 1, size |-> size]
    <2>2. d \in Datagram
      BY DEF Datagram
    <2> HIDE DEF d
    <2>3. sockets' = Append(sockets, d) /\ arrived' = Append(arrived, d)
      BY <2>1 DEF d
    <2>4. delivered' = delivered
      BY <1>1 DEF DatagramArrives
    <2> QED BY <2>2, <2>3, <2>4
  <1>2. CASE \/ TestRunning(running, stopRequested) \/ PollReady \/ PollAgain \/ PollFails
             \/ ReceiveFails
    BY <1>2 DEF TestRunning, PollReady, PollAgain, PollFails, ReceiveFails
  <1>3. CASE DropOversized
    BY <1>3 DEF DropOversized
  <1>4. CASE DeliverDatagram
    <2>1. sockets # <<>> /\ Head(sockets) \in Datagram /\ Tail(sockets) \in Seq(Datagram)
      BY <1>4 DEF DeliverDatagram
    <2>2. [Head(sockets) EXCEPT !.size = ReceivedSize(Head(sockets))] \in Datagram
      BY <2>1 DEF ReceivedSize, Datagram
    <2> QED BY <1>4, <2>1, <2>2 DEF DeliverDatagram
  <1> QED BY <1>1, <1>2, <1>3, <1>4

\* submit() moves pushed by at most one.
LEMMA SubmitFacts ==
  ASSUME StationTypes, Submit
  PROVE  pushed \in Nat /\ pushed' \in Nat /\ (pushed' = pushed + 1 \/ pushed' = pushed)
  BY DEF StationTypes, Submit

\* The steps of the receiving loops, and the rest of the callback.
UdpLoopStep ==
  /\ \/ TestRunning(running, stopRequested) \/ PollReady \/ PollAgain \/ PollFails
     \/ ReceiveFails \/ DropOversized
  /\ UNCHANGED <<running, tcpVars, pushed>>

LEMMA ServerCases ==
  ASSUME ServerStep
  PROVE  /\ UNCHANGED <<stopRequested, portVars, progressVars, mainVars>>
         /\ \/ Counted /\ UdpLoopStep /\ UNCHANGED counters
            \/ Counted /\ DeliverDatagram /\ Submit /\ UNCHANGED <<tcpVars, counters>>
            \/ /\ Counted
               /\ TcpLoopStep(running, stopRequested)
               /\ UNCHANGED <<udpVars, pushed, counters>>
            \/ Counted /\ TcpTakes /\ Submit /\ UNCHANGED <<udpVars, counters>>
            \/ ~Counted /\ Bump(1) /\ UNCHANGED <<udpVars, tcpVars, pushed>>
  BY DEF ServerStep, UdpLoopStep

LEMMA TypesNext == StationTypes /\ [Next]_vars => StationTypes'
  <1> SUFFICES ASSUME StationTypes, [Next]_vars PROVE StationTypes'
    OBVIOUS
  <1>2. ASSUME UNCHANGED <<counters, udpVars, pushed>> PROVE StationTypes'
    BY <1>2 DEF StationTypes, udpVars
  <1>3. CASE SelectAutomaticPort \/ OpenLogger \/ ConstructController \/ OpenExport
             \/ StartWorkers \/ UnwindProgress \/ LeaveServer \/ JoinWriter \/ LeavePipeline
             \/ RenderSummary \/ StopController \/ Exit \/ WriterFails \/ ProgressThread
             \/ WaiterThread \/ Ended
    BY <1>2, <1>3 DEF SelectAutomaticPort, OpenLogger, ConstructController, OpenExport,
       StartWorkers, UnwindProgress, LeaveServer, JoinWriter, LeavePipeline, RenderSummary,
       StopController, Exit, WriterFails, ProgressThread, WaiterThread, Ended, vars, netVars
  <1>4. CASE BindSocket
    BY <1>4 DEF BindSocket, StationTypes
  <1>5. CASE ServerStep
    <2>1. CASE UdpLoopStep /\ UNCHANGED counters
      BY <2>1, UdpTypes DEF StationTypes, UdpLoopStep
    <2>2. CASE DeliverDatagram /\ Submit /\ UNCHANGED counters
      BY <2>2, UdpTypes, SubmitFacts DEF StationTypes
    <2>3. CASE TcpTakes /\ Submit /\ UNCHANGED <<udpVars, counters>>
      BY <2>3, SubmitFacts DEF StationTypes, udpVars
    <2>4. CASE Bump(1) /\ UNCHANGED <<udpVars, pushed>>
      BY <2>4, BumpFacts DEF StationTypes, udpVars
    <2> QED BY <1>2, <1>5, <2>1, <2>2, <2>3, <2>4, ServerCases
  <1>6. CASE WriterStep
    <2>1. Bump(2) \/ Bump(3) \/ Bump(4)
      BY <1>6 DEF WriterStep
    <2>2. counters' \in [1..4 -> Nat]
      BY <2>1, BumpFacts
    <2> QED BY <1>6, <2>2 DEF WriterStep, StationTypes, netVars, udpVars
  <1>7. CASE Environment
    <2>1. CASE DatagramArrives /\ UNCHANGED <<counters, pushed>>
      BY <2>1, UdpTypes DEF StationTypes
    <2> QED BY <1>2, <1>7, <2>1 DEF Environment, netVars
  <1>8. CASE UNCHANGED vars
    BY <1>2, <1>8 DEF vars, netVars
  <1> QED BY <1>3, <1>4, <1>5, <1>6, <1>7, <1>8 DEF Next, MainStep

LEMMA TypesInvariant == Spec => []StationTypes
  BY TypesInit, TypesNext, PTL DEF Spec

-----------------------------------------------------------------------------
(* Signals and the export *)

LEMMA MaskInit == Init => MaskInv
  BY DEF Init, MaskInv, SignalInit, KilledOnlyOutsideExport

LEMMA MaskNext == MaskInv /\ [Next]_vars => MaskInv'
  <1> SUFFICES ASSUME MaskInv, [Next]_vars PROVE MaskInv'
    OBVIOUS
  <1> USE DEF MaskInv, KilledOnlyOutsideExport, At, Goto, Throw, signalVars, signalRest, mainVars
  <1>1. CASE SelectAutomaticPort
    BY <1>1 DEF SelectAutomaticPort
  <1>2. CASE OpenLogger
    BY <1>2 DEF OpenLogger
  <1>3. CASE ConstructController
    BY <1>3 DEF ConstructController, BlockSignals, StartWaiter, RestoreMask
  <1>4. CASE OpenExport
    BY <1>4 DEF OpenExport
  <1>5. CASE StartWorkers \/ UnwindProgress
    BY <1>5 DEF StartWorkers, UnwindProgress
  <1>6. CASE BindSocket
    BY <1>6 DEF BindSocket
  <1>7. CASE ServerStep
    BY <1>7 DEF ServerStep
  <1>8. CASE LeaveServer
    BY <1>8 DEF LeaveServer
  <1>9. CASE JoinWriter
    BY <1>9 DEF JoinWriter
  <1>10. CASE LeavePipeline
    BY <1>10 DEF LeavePipeline
  <1>11. CASE RenderSummary
    BY <1>11 DEF RenderSummary
  <1>12. CASE StopController
    BY <1>12 DEF StopController, RequestStop, RestoreMask
  <1>13. CASE Exit
    BY <1>13 DEF Exit
  <1>14. CASE WriterStep
    BY <1>14 DEF WriterStep
  <1>15. CASE WriterFails
    BY <1>15 DEF WriterFails
  <1>16. CASE ProgressThread
    BY <1>16 DEF ProgressThread
  <1>17. CASE WaiterThread
    BY <1>17 DEF WaiterThread, WaiterStep, WaiterChecks, WaiterTakes, WaiterStores, WaiterRetries
  <1>18. CASE Environment
    BY <1>18 DEF Environment, Raise, WaiterFails
  <1>19. CASE Ended \/ UNCHANGED vars
    BY <1>19 DEF Ended, vars
  <1> QED BY <1>1, <1>2, <1>3, <1>4, <1>5, <1>6, <1>7, <1>8, <1>9, <1>10, <1>11, <1>12, <1>13,
             <1>14, <1>15, <1>16, <1>17, <1>18, <1>19 DEF Next, MainStep

LEMMA MaskInvariant == Spec => []MaskInv
  BY MaskInit, MaskNext, PTL DEF Spec

\* However many signals arrive, and whenever they do, one that takes its default
\* action finds the export not yet open or closed (PosixSignalStopController.cpp
\* 31 and 129, the order of construction in GroundStationApp.cpp:108-126).
THEOREM SignalTheorem == Spec => []KilledOnlyOutsideExport
  <1>1. MaskInv => KilledOnlyOutsideExport
    BY DEF MaskInv
  <1> QED BY <1>1, MaskInvariant, PTL

-----------------------------------------------------------------------------
(* Exit status 0 *)

LEMMA CountInit == Init => CountInv
  <1> SUFFICES ASSUME Init PROVE CountInv
    OBVIOUS
  <1>1. delivered = <<>> /\ tcpLoop = "off" /\ counters = <<0, 0, 0, 0>> /\ pushed = 0
    BY DEF Init, UdpInit, TcpInit, ProgressInit, Zero
  <1> QED BY <1>1 DEF CountInv, Counted, Received

LEMMA CountNext == StationTypes /\ CountInv /\ [Next]_vars => CountInv'
  <1> SUFFICES ASSUME StationTypes, CountInv, [Next]_vars PROVE CountInv'
    OBVIOUS
  <1> USE DEF At, Goto, Throw, mainVars
  <1>1. ASSUME UNCHANGED <<transport, tcpLoop, delivered, pushed>>, counters'[1] = counters[1],
               Counted \/ mainPc' = mainPc,
               pipelineError' = "none" => pipelineError = "none"
        PROVE  CountInv'
    BY <1>1 DEF CountInv, Counted, Received
  <1>2. mainPc # "serve" => Counted
    BY DEF CountInv
  <1>3. CASE SelectAutomaticPort \/ OpenLogger \/ ConstructController \/ OpenExport
             \/ StartWorkers \/ UnwindProgress \/ JoinWriter \/ LeavePipeline \/ RenderSummary
             \/ StopController
    BY <1>1, <1>2, <1>3 DEF SelectAutomaticPort, OpenLogger, ConstructController, OpenExport,
       StartWorkers, UnwindProgress, JoinWriter, FailPipeline, LeavePipeline, RenderSummary,
       StopController, netVars, udpVars, tcpVars
  <1>4. CASE Exit \/ WriterFails \/ ProgressThread \/ WaiterThread \/ Ended \/ UNCHANGED vars
    BY <1>1, <1>4 DEF Exit, WriterFails, FailPipeline, ProgressThread, WaiterThread, Ended,
       netVars, udpVars, tcpVars, vars
  <1>5. CASE BindSocket
    BY <1>5 DEF BindSocket, FailPipeline, CountInv, Counted, Received
  <1>6. CASE ServerStep
    <2>0. UNCHANGED <<transport, mainPc, pipelineError>> /\ mainPc = "serve"
      BY <1>6 DEF ServerStep
    <2>1. CASE Counted /\ DeliverDatagram /\ Submit /\ UNCHANGED <<tcpVars, counters>>
      <3>1. Len(delivered') = Len(delivered) + 1
        <4> DEFINE d == [Head(sockets) EXCEPT !.size = ReceivedSize(Head(sockets))]
        <4>1. delivered' = Append(delivered, d)
          BY <2>1 DEF DeliverDatagram
        <4> HIDE DEF d
        <4> QED BY <4>1 DEF StationTypes
      <3>2. counters[1] = pushed /\ counters' = counters /\ tcpLoop' = tcpLoop
        BY <2>1 DEF Counted, Received, tcpVars
      <3>3. CASE pipelineError = "none"
        <4>1. pushed' = pushed + 1
          BY <2>1, <3>3 DEF Submit
        <4> QED BY <2>0, <3>1, <3>2, <3>3, <4>1 DEF CountInv, Counted, Received
      <3>4. CASE pipelineError # "none"
        <4>1. pushed' = pushed
          BY <2>1, <3>4 DEF Submit
        <4> QED BY <2>0, <3>2, <3>4, <4>1 DEF CountInv, Counted, Received
      <3> QED BY <3>3, <3>4
    <2>2. CASE Counted /\ UdpLoopStep /\ UNCHANGED counters
      <3>1. UNCHANGED <<delivered, tcpLoop, pushed>>
        BY <2>2 DEF UdpLoopStep, TestRunning, PollReady, PollAgain, PollFails, ReceiveFails,
           DropOversized, tcpVars
      <3> QED BY <1>1, <2>0, <2>2, <3>1
    <2>3. CASE Counted /\ TcpTakes /\ Submit /\ UNCHANGED <<udpVars, counters>>
      <3>1. tcpLoop = "drain" /\ tcpLoop' = tcpLoop /\ counters' = counters /\ counters[1] = pushed
        BY <2>3 DEF TcpTakes, Counted, Received
      <3>2. transport # "udp"
        BY <3>1 DEF CountInv
      <3> QED BY <2>0, <2>3, <3>1, <3>2, SubmitFacts DEF CountInv, Counted, Received
    <2>4. CASE ~Counted /\ Bump(1) /\ UNCHANGED <<udpVars, tcpVars, pushed>>
      <3>1. counters'[1] = counters[1] + 1
        BY <2>4, BumpFacts
      <3>2. counters[1] + 1 = pushed /\ UNCHANGED <<delivered, tcpLoop, pushed>>
        BY <2>4 DEF CountInv, Received, udpVars, tcpVars
      <3> QED BY <2>0, <3>1, <3>2 DEF CountInv, Counted, Received
    <2>5. CASE /\ Counted
               /\ TcpLoopStep(running, stopRequested) /\ UNCHANGED <<udpVars, pushed, counters>>
      <3>1. tcpLoop # "off"
        BY <2>5 DEF TcpLoopStep, TcpTestRunning, TcpPollReady, TcpPollAgain, TcpTakes,
           TcpDrained, TcpFails
      <3>2. transport # "udp"
        BY <3>1 DEF CountInv
      <3> QED BY <2>0, <2>5, <3>2 DEF CountInv, Counted, Received
    <2> QED BY <1>6, <2>1, <2>2, <2>3, <2>4, <2>5, ServerCases
  <1>7. CASE LeaveServer
    BY <1>1, <1>7 DEF LeaveServer, FailPipeline, udpVars, tcpVars
  <1>8. CASE WriterStep
    <2>1. Bump(2) \/ Bump(3) \/ Bump(4)
      BY <1>8 DEF WriterStep
    <2>2. counters'[1] = counters[1]
      BY <2>1, BumpFacts
    <2> QED BY <1>1, <1>8, <2>2 DEF WriterStep, netVars, udpVars, tcpVars
  <1>9. CASE Environment
    <2>1. UNCHANGED <<transport, tcpLoop, delivered, pushed, counters, mainPc, pipelineError>>
      BY <1>9 DEF Environment, DatagramArrives, TcpArrives, netVars, udpVars, tcpVars
    <2> QED BY <1>1, <2>1
  <1> QED BY <1>3, <1>4, <1>5, <1>6, <1>7, <1>8, <1>9 DEF Next, MainStep

LEMMA CleanInit == Init => CleanInv
  BY DEF Init, CleanInv, SignalInit

LEMMA CleanNext == CleanInv /\ [Next]_vars => CleanInv'
  <1> SUFFICES ASSUME CleanInv, [Next]_vars PROVE CleanInv'
    OBVIOUS
  <1> USE DEF CleanInv, At, Goto, Throw, mainVars, signalVars, signalRest, progressVars, netVars
  <1>1. ASSUME UNCHANGED <<pipelineError, output, pushed, counters>>
        PROVE  AllAccountedFor' = AllAccountedFor
    BY <1>1 DEF AllAccountedFor, Handled, Written
  <1>2. CASE SelectAutomaticPort \/ OpenLogger
    BY <1>2 DEF SelectAutomaticPort, OpenLogger
  <1>3. CASE ConstructController
    BY <1>3 DEF ConstructController, BlockSignals, StartWaiter, RestoreMask
  <1>4. CASE OpenExport \/ StartWorkers \/ UnwindProgress
    BY <1>4 DEF OpenExport, StartWorkers, UnwindProgress
  <1>5. CASE BindSocket \/ LeaveServer
    BY <1>5 DEF BindSocket, LeaveServer, FailPipeline
  <1>6. CASE ServerStep
    BY <1>6 DEF ServerStep
  <1>7. CASE JoinWriter
    <2>1. mainPc' = "joinProgress" /\ process' = "up"
      BY <1>7 DEF JoinWriter
    <2>2. output' = "broken" => pipelineError' # "none"
      BY <1>7 DEF JoinWriter, FailPipeline
    <2>3. pipelineError' = "none" => AllAccountedFor'
      <3> SUFFICES ASSUME pipelineError' = "none" PROVE AllAccountedFor'
        OBVIOUS
      <3>1. output' = "finished" /\ pipelineError = "none" /\ output = "open"
            /\ UNCHANGED <<pushed, counters>>
        BY <1>7 DEF JoinWriter, FailPipeline
      <3>2. Handled = pushed /\ Written = counters[2]
        BY <1>7, <3>1 DEF JoinWriter
      <3> QED BY <3>1, <3>2 DEF AllAccountedFor, Handled, Written
    <2> QED BY <2>1, <2>2, <2>3
  <1>8. CASE LeavePipeline
    BY <1>1, <1>8 DEF LeavePipeline
  <1>9. CASE RenderSummary
    BY <1>1, <1>9 DEF RenderSummary
  <1>10. CASE StopController
    <2>1. UNCHANGED <<pipelineError, output, pushed, counters, progress>>
      BY <1>10 DEF StopController
    <2>2. AllAccountedFor' = AllAccountedFor
      BY <1>1, <2>1
    <2>3. CASE At("stop") /\ RequestStop /\ Goto("joinWaiter")
      BY <2>1, <2>2, <2>3 DEF RequestStop
    <2>4. CASE At("joinWaiter") /\ WaiterJoined /\ Goto("unmask") /\ UNCHANGED signalVars
      BY <2>1, <2>2, <2>4 DEF WaiterJoined
    <2>5. CASE At("unmask") /\ RestoreMask
      <3>1. waiter' = waiter /\ sigError' = sigError /\ process' # "exit0" /\ mainPc = "unmask"
        BY <2>5 DEF RestoreMask
      <3>2. CASE error = "none" /\ ~sigError /\ Goto("return")
        <4>1. error' = "none" /\ ~sigError' /\ mainPc' = "return"
          BY <3>1, <3>2, Zenon
        <4>2. waiter = "ended" /\ AllAccountedFor /\ progress = "ended"
          BY <3>1, <3>2
        <4>3. output' = "finished"
          BY <2>1, <4>2 DEF AllAccountedFor
        <4> QED BY <2>1, <2>2, <3>1, <4>1, <4>2, <4>3
      <3>3. CASE mainPc' = "report"
        BY <2>1, <3>1, <3>3
      <3> QED BY <1>10, <3>1, <3>2, <3>3 DEF StopController
    <2> QED BY <1>10, <2>3, <2>4, <2>5 DEF StopController
  <1>11. CASE Exit
    BY <1>1, <1>11 DEF Exit
  <1>12. CASE WriterStep
    BY <1>12 DEF WriterStep, WriterUp
  <1>13. CASE WriterFails
    BY <1>13 DEF WriterFails, WriterUp, FailPipeline
  <1>14. CASE ProgressThread
    BY <1>1, <1>14 DEF ProgressThread, ProgressStep, TestStop, WakeUp, LoadNext, SkipLine,
       DecideToPrint, PrintLine
  <1>15. CASE WaiterThread
    BY <1>1, <1>15 DEF WaiterThread, WaiterStep, WaiterChecks, WaiterTakes, WaiterStores,
       WaiterRetries
  <1>16. CASE Environment
    BY <1>1, <1>16 DEF Environment, Raise, WaiterFails
  <1>17. CASE Ended \/ UNCHANGED vars
    BY <1>1, <1>17 DEF Ended, vars
  <1> QED BY <1>2, <1>3, <1>4, <1>5, <1>6, <1>7, <1>8, <1>9, <1>10, <1>11, <1>12, <1>13,
             <1>14, <1>15, <1>16, <1>17 DEF Next, MainStep

\* Exit status 0 tells the truth: whatever threads failed, whatever signals came
\* and in whatever order the threads ended, "return 0" is reached only with every
\* frame handed over accounted for, the export finished and every thread joined
\* (GroundStationApp.cpp:120-125, GroundStationPipeline::stopWorkers).
THEOREM ExitTheorem == Spec => []ExitZeroIsClean
  <1>1. MaskInv /\ CountInv /\ CleanInv => ExitZeroIsClean
    <2> SUFFICES ASSUME MaskInv, CountInv, CleanInv, process = "exit0"
                 PROVE  ExitZeroIsClean
      BY DEF ExitZeroIsClean
    <2>1. mainPc = "return" /\ error = "none" /\ ~sigError /\ waiter = "ended"
          /\ AllAccountedFor /\ progress = "ended"
      BY DEF CleanInv
    <2>2. Counted /\ (transport = "udp" => pushed = Len(delivered))
      BY <2>1 DEF CountInv, AllAccountedFor
    <2>3. ~masked
      BY <2>1 DEF MaskInv
    <2> QED BY <2>1, <2>2, <2>3 DEF ExitZeroIsClean, AllAccountedFor, Counted
  <1>2. Init => StationTypes /\ CountInv /\ CleanInv
    BY TypesInit, CountInit, CleanInit
  <1>3. StationTypes /\ CountInv /\ CleanInv /\ [Next]_vars
          => (StationTypes /\ CountInv /\ CleanInv)'
    BY TypesNext, CountNext, CleanNext
  <1> QED BY <1>1, <1>2, <1>3, MaskInvariant, PTL DEF Spec

-----------------------------------------------------------------------------
(* The progress lines *)

LEMMA LinesInit == Init => LinesInv
  <1> SUFFICES ASSUME Init PROVE LinesInv
    OBVIOUS
  <1>1. counters = <<0, 0, 0, 0>> /\ previous = <<0, 0, 0, 0>> /\ loaded = <<>> /\ progress = "none"
    BY DEF Init, ProgressInit, Zero
  <1> QED BY <1>1 DEF LinesInv

LEMMA CountersGrow ==
  ASSUME StationTypes, [Next]_vars
  PROVE  \A k \in 1..4 : counters[k] \in Nat /\ counters'[k] \in Nat /\ counters[k] <= counters'[k]
  <1>1. \A k \in 1..4 : counters[k] \in Nat /\ counters[k] <= counters[k]
    BY DEF StationTypes
  <1>2. CASE UNCHANGED counters
    BY <1>1, <1>2
  <1>3. CASE Bump(1) \/ Bump(2) \/ Bump(3) \/ Bump(4)
    BY <1>3, BumpFacts
  <1>4. UNCHANGED counters \/ Bump(1) \/ Bump(2) \/ Bump(3) \/ Bump(4)
    <2>1. CASE SelectAutomaticPort \/ OpenLogger \/ ConstructController \/ OpenExport
               \/ StartWorkers \/ UnwindProgress \/ BindSocket \/ LeaveServer \/ JoinWriter
               \/ LeavePipeline \/ RenderSummary \/ StopController \/ Exit
      BY <2>1 DEF SelectAutomaticPort, OpenLogger, ConstructController, OpenExport,
         StartWorkers, UnwindProgress, BindSocket, LeaveServer, JoinWriter, LeavePipeline, RenderSummary,
         StopController, Exit
    <2>2. CASE ServerStep \/ WriterStep
      BY <2>2 DEF ServerStep, WriterStep
    <2>3. CASE WriterFails \/ ProgressThread \/ WaiterThread \/ Environment \/ Ended
               \/ UNCHANGED vars
      BY <2>3 DEF WriterFails, ProgressThread, WaiterThread, Environment, Ended, vars
    <2> QED BY <2>1, <2>2, <2>3 DEF Next, MainStep
  <1> QED BY <1>2, <1>3, <1>4

LEMMA LinesNext == StationTypes /\ LinesInv /\ [Next]_vars => LinesInv'
  <1> SUFFICES ASSUME StationTypes, LinesInv, [Next]_vars PROVE LinesInv'
    OBVIOUS
  <1>1. \A k \in 1..4 : counters[k] \in Nat /\ counters'[k] \in Nat /\ counters[k] <= counters'[k]
    BY CountersGrow
  <1> DEFINE n == Len(loaded)
  <1>0. n \in 0..4
    <2>1. n \in Nat /\ n <= 4
      BY DEF LinesInv
    <2> HIDE DEF n
    <2> QED BY <2>1
  <1>a. \A k \in 1..4 : previous[k] \in Nat /\ previous[k] <= counters[k]
    BY DEF LinesInv
  <1>b. \A k \in 1..n : loaded[k] \in Nat /\ previous[k] <= loaded[k] /\ loaded[k] <= counters[k]
    BY DEF LinesInv
  <1> HIDE DEF n
  <1>2. ASSUME UNCHANGED <<loaded, previous>>, progress' # "print" \/ UNCHANGED progress
        PROVE  LinesInv'
    <2>1. \A k \in 1..4 : previous[k] <= counters'[k]
      BY <1>1, <1>a
    <2>2. \A k \in 1..n : previous[k] <= loaded[k] /\ loaded[k] <= counters'[k]
      <3> SUFFICES ASSUME NEW k \in 1..n
                   PROVE  previous[k] <= loaded[k] /\ loaded[k] <= counters'[k]
        OBVIOUS
      <3>1. k \in 1..4
        BY <1>0
      <3> QED BY <1>1, <1>b, <3>1
    <2> QED BY <1>2, <2>1, <2>2 DEF LinesInv, n
  <1>3. CASE ProgressThread
    <2>0. counters' = counters
      BY <1>3 DEF ProgressThread
    <2>1. CASE TestStop \/ WakeUp
      BY <1>2, <2>1 DEF TestStop, WakeUp
    <2>2. CASE LoadNext
      <3>1. loaded \in Seq(Nat) /\ progress' # "print" /\ n < 4
            /\ loaded' = Append(loaded, counters[n + 1]) /\ previous' = previous
        BY <2>2 DEF LoadNext, LinesInv, Counter, n
      <3>2. n \in 0..3 /\ n + 1 \in 1..4
        BY <1>0, <3>1
      <3>3. counters[n + 1] \in Nat
        BY <1>1, <3>2
      <3>4. loaded' \in Seq(Nat) /\ Len(loaded') = n + 1 /\ loaded'[n + 1] = counters[n + 1]
            /\ \A k \in 1..n : loaded'[k] = loaded[k]
        BY <3>1, <3>3 DEF n
      <3>5. \A k \in 1..(n + 1) : previous[k] <= loaded'[k] /\ loaded'[k] <= counters[k]
        <4>1. previous[n + 1] <= counters[n + 1] /\ counters[n + 1] <= counters[n + 1]
          BY <1>a, <3>2, <3>3
        <4>2. \A k \in 1..(n + 1) : k \in 1..n \/ k = n + 1
          BY <3>2
        <4> QED BY <1>b, <3>4, <4>1, <4>2
      <3>6. Len(loaded') <= 4
        BY <3>2, <3>4
      <3> QED BY <2>0, <3>1, <3>4, <3>5, <3>6 DEF LinesInv
    <2>3. CASE SkipLine
      <3>1. loaded' = <<>> /\ previous' = previous /\ progress' = "test"
        BY <2>3 DEF SkipLine
      <3> QED BY <2>0, <3>1 DEF LinesInv
    <2>4. CASE DecideToPrint
      BY <2>0, <2>4 DEF DecideToPrint, LinesInv, Counter
    <2>5. CASE PrintLine
      <3>1. loaded' = <<>> /\ previous' = loaded /\ progress' = "test" /\ Len(loaded) = 4
        BY <2>5 DEF PrintLine, LinesInv
      <3>2. previous' \in [1..4 -> Nat]
        <4>1. loaded \in [1..Len(loaded) -> Nat]
          BY DEF LinesInv
        <4> QED BY <3>1, <4>1
      <3>3. \A k \in 1..4 : previous'[k] <= counters'[k]
        BY <2>0, <3>1 DEF LinesInv
      <3> QED BY <3>1, <3>2, <3>3 DEF LinesInv
    <2> QED BY <1>3, <2>1, <2>2, <2>3, <2>4, <2>5 DEF ProgressThread, ProgressStep
  <1>4. CASE StartWorkers
    BY <1>2, <1>4 DEF StartWorkers, StartProgress, StopProgress, progressVars
  <1>5. CASE SelectAutomaticPort \/ OpenLogger \/ ConstructController \/ OpenExport
             \/ UnwindProgress \/ BindSocket \/ ServerStep \/ LeaveServer \/ JoinWriter \/ LeavePipeline
             \/ RenderSummary \/ StopController \/ Exit \/ WriterStep \/ WriterFails
             \/ WaiterThread \/ Environment \/ Ended \/ UNCHANGED vars
    <2>1. UNCHANGED <<progress, loaded, previous>>
      BY <1>5 DEF SelectAutomaticPort, OpenLogger, ConstructController, OpenExport, UnwindProgress,
         BindSocket, ServerStep, LeaveServer, JoinWriter, LeavePipeline, RenderSummary, StopController, Exit,
         WriterStep, WriterFails, WaiterThread, Environment, Ended, vars, progressVars, StopProgress
    <2> QED BY <1>2, <2>1
  <1> QED BY <1>3, <1>4, <1>5 DEF Next, MainStep

\* The progress lines move forward and are never ahead of the counters, though
\* their four numbers are loaded one after the other while the workers count
\* (GroundStationWorkers.cpp:47-73).
THEOREM LinesTheorem == Spec => LinesAdvance
  <1> DEFINE Line == progress = "print" /\ progress' # "print" =>
                       \A k \in DOMAIN Counter :
                         previous[k] <= loaded[k] /\ loaded[k] <= counters[k]
  <1>1. LinesInv => Line
    <2>1. DOMAIN Counter = 1..4
      BY DEF Counter
    <2> QED BY <2>1 DEF LinesInv
  <1>2. LinesInv /\ [Next]_vars => [Line]_<<progress, loaded, previous, counters>>
    BY <1>1
  <1>3. Init => StationTypes /\ LinesInv
    BY TypesInit, LinesInit
  <1>4. StationTypes /\ LinesInv /\ [Next]_vars => (StationTypes /\ LinesInv)'
    BY TypesNext, LinesNext
  <1> QED BY <1>2, <1>3, <1>4, PTL DEF Spec, LinesAdvance

-----------------------------------------------------------------------------
(* Datagrams *)

\* One turn of LegalOf, and its function of the prefixes of s.
KeepLegal(t, d) == IF Legal(d) THEN Append(t, d) ELSE t

PrefixFilter(s) ==
  CHOOSE f : f = [i \in 0..Len(s) |->
                    IF i = 0 THEN <<>>
                    ELSE IF Legal(s[i]) THEN Append(f[i - 1], s[i]) ELSE f[i - 1]]

LEMMA LegalOfIsPrefixFilter ==
  ASSUME NEW s
  PROVE  LegalOf(s) = PrefixFilter(s)[Len(s)]
  BY DEF LegalOf, PrefixFilter

LEMMA KeepLegalFacts ==
  ASSUME NEW p \in Seq(Datagram), NEW t \in Seq(Datagram), NEW d \in Datagram
  PROVE  /\ KeepLegal(t, d) \in Seq(Datagram)
         /\ KeepLegal(p \o t, d) = p \o KeepLegal(t, d)
  <1>1. Append(t, d) \in Seq(Datagram)
    OBVIOUS
  <1>2. Append(p \o t, d) = p \o Append(t, d)
    OBVIOUS
  <1> QED BY <1>1, <1>2 DEF KeepLegal

LEMMA PrefixFilterFacts ==
  ASSUME NEW s \in Seq(Datagram)
  PROVE  /\ PrefixFilter(s)[0] = <<>>
         /\ \A i \in 1..Len(s) : PrefixFilter(s)[i] = KeepLegal(PrefixFilter(s)[i - 1], s[i])
         /\ \A i \in 0..Len(s) : PrefixFilter(s)[i] \in Seq(Datagram)
  <1> DEFINE L == Len(s)
             Turn(f, i) == IF i = 0 THEN <<>>
                           ELSE IF Legal(s[i]) THEN Append(f[i - 1], s[i]) ELSE f[i - 1]
             Good(f, n) == \A i \in 0..n : f[i] = Turn(f, i)
             Reached == {n \in Nat : \E f : Good(f, n)}
  <1>0. L \in Nat /\ L = Len(s) /\ \A i \in 1..L : s[i] \in Datagram
    OBVIOUS
  <1> HIDE DEF L
  <1>1. 0 \in Reached
    <2> DEFINE h == [i \in 0..0 |-> <<>>]
    <2>1. Good(h, 0)
      OBVIOUS
    <2> HIDE DEF h, Good
    <2> QED BY <2>1
  <1>2. ASSUME NEW n \in Nat, n \in Reached PROVE n + 1 \in Reached
    <2>1. PICK g : Good(g, n)
      BY <1>2
    <2> DEFINE h == [i \in 0..(n + 1) |-> IF i = n + 1 THEN Turn(g, i) ELSE g[i]]
    <2>2. ASSUME NEW i \in 0..(n + 1) PROVE h[i] = Turn(h, i)
      <3>1. i # 0 => i - 1 \in 0..(n + 1) /\ i - 1 # n + 1
        BY <2>2
      <3>2. i # 0 => h[i - 1] = g[i - 1]
        BY <3>1
      <3>3. Turn(h, i) = Turn(g, i)
        <4> HIDE DEF h
        <4> QED BY <3>2
      <3>4. CASE i = n + 1
        <4> HIDE DEF Turn
        <4> QED BY <3>3, <3>4
      <3>5. CASE i # n + 1
        <4>1. i \in 0..n
          BY <2>2, <3>5
        <4>2. g[i] = Turn(g, i)
          BY <2>1, <4>1
        <4>3. h[i] = g[i]
          BY <3>5
        <4> HIDE DEF h, Turn
        <4> QED BY <3>3, <4>2, <4>3
      <3> QED BY <3>4, <3>5
    <2> HIDE DEF h, Turn
    <2>3. Good(h, n + 1)
      BY <2>2
    <2> HIDE DEF Good
    <2> QED BY <2>3
  <1>3. Nat \subseteq Reached
    <2> HIDE DEF Reached
    <2> QED BY <1>1, <1>2, SetInduction
  <1>4. PICK g : Good(g, L)
    BY <1>0, <1>3
  <1> DEFINE f == [i \in 0..L |-> g[i]]
  <1>5. f = [i \in 0..L |-> Turn(f, i)]
    <2>1. ASSUME NEW i \in 0..L PROVE g[i] = Turn(f, i)
      <3>1. i # 0 => i - 1 \in 0..L
        BY <1>0, <2>1
      <3>2. i # 0 => f[i - 1] = g[i - 1]
        BY <3>1
      <3>3. Turn(f, i) = Turn(g, i)
        <4> HIDE DEF f
        <4> QED BY <3>2
      <3> HIDE DEF f, Turn
      <3> QED BY <1>4, <3>3
    <2> HIDE DEF Turn
    <2> QED BY <2>1
  <1> DEFINE c == PrefixFilter(s)
  <1>6. c = [i \in 0..L |-> Turn(c, i)]
    <2> HIDE DEF f
    <2> QED BY <1>5 DEF PrefixFilter, L
  <1> HIDE DEF c, f
  <1>7. \A i \in 0..L : c[i] = Turn(c, i)
    <2> HIDE DEF Turn
    <2> DEFINE e == [i \in 0..L |-> Turn(c, i)]
    <2>1. \A i \in 0..L : e[i] = Turn(c, i)
      OBVIOUS
    <2> HIDE DEF e
    <2>2. c = e
      BY <1>6 DEF e
    <2> QED BY <2>1, <2>2
  <1>8. c[0] = <<>>
    BY <1>0, <1>7
  <1>9. ASSUME NEW i \in 1..L PROVE c[i] = KeepLegal(c[i - 1], s[i])
    <2>1. i \in 0..L /\ i # 0
      BY <1>0, <1>9
    <2> QED BY <1>7, <2>1 DEF KeepLegal
  <1> DEFINE Typed == {n \in Nat : n <= L => c[n] \in Seq(Datagram)}
  <1>10. 0 \in Typed
    <2>1. <<>> \in Seq(Datagram)
      OBVIOUS
    <2> QED BY <1>8, <2>1
  <1>11. ASSUME NEW n \in Nat, n \in Typed PROVE n + 1 \in Typed
    <2> SUFFICES ASSUME n + 1 <= L PROVE c[n + 1] \in Seq(Datagram)
      OBVIOUS
    <2>1. n + 1 \in 1..L /\ (n + 1) - 1 = n /\ n <= L
      BY <1>0
    <2>2. c[n] \in Seq(Datagram)
      BY <1>11, <2>1
    <2>3. c[n + 1] = KeepLegal(c[n], s[n + 1]) /\ s[n + 1] \in Datagram
      BY <1>0, <1>9, <2>1
    <2> QED BY <2>2, <2>3, KeepLegalFacts
  <1>12. Nat \subseteq Typed
    <2> HIDE DEF Typed
    <2> QED BY <1>10, <1>11, SetInduction
  <1>13. \A i \in 0..L : c[i] \in Seq(Datagram)
    BY <1>0, <1>12
  <1> QED BY <1>8, <1>9, <1>13 DEF c, L

\* From k on, g filters like f, with p in front.
Shifted(f, g, p, k, n, s) ==
  /\ p \in Seq(Datagram)
  /\ g[k] = p \o f[0]
  /\ \A i \in 0..n : f[i] \in Seq(Datagram)
  /\ \A i \in 1..n : /\ s[i] \in Datagram
                     /\ f[i] = KeepLegal(f[i - 1], s[i])
                     /\ g[k + i] = KeepLegal(g[k + (i - 1)], s[i])

InFrontOf(p, f, g, k, n) == g[k + n] = p \o f[n]

LEMMA FilterShift ==
  ASSUME NEW s, NEW f, NEW g, NEW p, NEW k \in Nat, NEW n \in Nat, Shifted(f, g, p, k, n, s)
  PROVE  InFrontOf(p, f, g, k, n)
  <1> USE DEF Shifted, InFrontOf
  <1> DEFINE Same == {m \in Nat : m <= n => g[k + m] = p \o f[m]}
  <1>1. 0 \in Same
    OBVIOUS
  <1>2. ASSUME NEW m \in Nat, m \in Same PROVE m + 1 \in Same
    <2> SUFFICES ASSUME m + 1 <= n PROVE g[k + (m + 1)] = p \o f[m + 1]
      OBVIOUS
    <2>1. m \in 0..n /\ m + 1 \in 1..n /\ (m + 1) - 1 = m
      OBVIOUS
    <2>2. g[k + m] = p \o f[m]
      BY <1>2, <2>1
    <2>3. f[m + 1] = KeepLegal(f[m], s[m + 1]) /\ g[k + (m + 1)] = KeepLegal(g[k + m], s[m + 1])
      BY <2>1
    <2>4. f[m] \in Seq(Datagram) /\ s[m + 1] \in Datagram
      BY <2>1
    <2> DEFINE t == f[m]
               d == s[m + 1]
    <2>5. p \in Seq(Datagram) /\ t \in Seq(Datagram) /\ d \in Datagram
      BY <2>4
    <2>6. KeepLegal(p \o t, d) = p \o KeepLegal(t, d)
      <3> HIDE DEF t, d
      <3> QED BY <2>5, KeepLegalFacts
    <2> QED BY <2>2, <2>3, <2>6, Zenon
  <1>3. Nat \subseteq Same
    <2> HIDE DEF Same
    <2> QED BY <1>1, <1>2, SetInduction
  <1> QED BY <1>3

LEMMA LegalOfEmpty == LegalOf(<<>>) = <<>>
  <1>1. <<>> \in Seq(Datagram) /\ Len(<<>>) = 0
    OBVIOUS
  <1> QED BY <1>1, PrefixFilterFacts, LegalOfIsPrefixFilter

LEMMA LegalOfAppend ==
  ASSUME NEW s \in Seq(Datagram), NEW d \in Datagram
  PROVE  LegalOf(Append(s, d)) = KeepLegal(LegalOf(s), d) /\ LegalOf(s) \in Seq(Datagram)
  <1> DEFINE t == Append(s, d)
             f == PrefixFilter(s)
             g == PrefixFilter(t)
             n == Len(s)
  <1>1. t \in Seq(Datagram) /\ Len(t) = n + 1 /\ t[n + 1] = d /\ n \in Nat
        /\ \A i \in 1..n : t[i] = s[i] /\ s[i] \in Datagram
    OBVIOUS
  <1>2. f[0] = <<>> /\ (\A i \in 1..n : f[i] = KeepLegal(f[i - 1], s[i]))
        /\ (\A i \in 0..n : f[i] \in Seq(Datagram))
    BY PrefixFilterFacts
  <1> HIDE DEF t
  <1>3. g[0] = <<>> /\ (\A i \in 1..(n + 1) : g[i] = KeepLegal(g[i - 1], t[i]))
    BY <1>1, PrefixFilterFacts
  <1>4. LegalOf(t) = g[n + 1] /\ LegalOf(s) = f[n]
    BY <1>1, LegalOfIsPrefixFilter
  <1> HIDE DEF f, g, n
  <1>5. g[0 + n] = <<>> \o f[n]
    <2>1. <<>> \in Seq(Datagram) /\ g[0] = <<>> \o f[0]
      BY <1>2, <1>3
    <2>2. \A i \in 1..n : i \in 1..(n + 1) /\ 0 + i = i /\ 0 + (i - 1) = i - 1
      BY <1>1
    <2>3. \A i \in 1..n : s[i] \in Datagram
                           /\ f[i] = KeepLegal(f[i - 1], s[i])
                           /\ g[0 + i] = KeepLegal(g[0 + (i - 1)], s[i])
      BY <1>1, <1>2, <1>3, <2>2
    <2>4. n \in Nat /\ 0 \in Nat /\ \A i \in 0..n : f[i] \in Seq(Datagram)
      BY <1>1, <1>2
    <2>5. Shifted(f, g, <<>>, 0, n, s)
      BY <2>1, <2>3, <2>4 DEF Shifted
    <2>6. InFrontOf(<<>>, f, g, 0, n)
      BY <2>4, <2>5, FilterShift
    <2> QED BY <2>6 DEF InFrontOf
  <1>6. f[n] \in Seq(Datagram)
    BY <1>1, <1>2
  <1>7. g[n] = f[n]
    BY <1>1, <1>5, <1>6
  <1>8. g[n + 1] = KeepLegal(g[n], d)
    <2>1. n + 1 \in 1..(n + 1) /\ (n + 1) - 1 = n
      BY <1>1
    <2> QED BY <1>1, <1>3, <2>1
  <1> QED BY <1>4, <1>6, <1>7, <1>8 DEF t

LEMMA LegalOfTail ==
  ASSUME NEW s \in Seq(Datagram), s # <<>>
  PROVE  LegalOf(s) = KeepLegal(<<>>, Head(s)) \o LegalOf(Tail(s))
         /\ LegalOf(Tail(s)) \in Seq(Datagram)
  <1> DEFINE t == Tail(s)
             f == PrefixFilter(t)
             g == PrefixFilter(s)
             n == Len(t)
             p == KeepLegal(<<>>, Head(s))
  <1>1. t \in Seq(Datagram) /\ Len(s) = n + 1 /\ s[1] = Head(s) /\ n \in Nat
        /\ Head(s) \in Datagram /\ \A i \in 1..n : t[i] = s[i + 1] /\ t[i] \in Datagram
    OBVIOUS
  <1> HIDE DEF t
  <1>2. f[0] = <<>> /\ (\A i \in 1..n : f[i] = KeepLegal(f[i - 1], t[i]))
        /\ (\A i \in 0..n : f[i] \in Seq(Datagram))
    BY <1>1, PrefixFilterFacts
  <1>3. g[0] = <<>> /\ (\A i \in 1..(n + 1) : g[i] = KeepLegal(g[i - 1], s[i]))
    BY <1>1, PrefixFilterFacts
  <1>4. LegalOf(s) = g[n + 1] /\ LegalOf(t) = f[n]
    BY <1>1, LegalOfIsPrefixFilter
  <1>5. p \in Seq(Datagram)
    <2>1. <<>> \in Seq(Datagram)
      OBVIOUS
    <2> QED BY <1>1, <2>1, KeepLegalFacts
  <1>6. g[1] = p
    <2>1. 1 \in 1..(n + 1) /\ 1 - 1 = 0
      BY <1>1
    <2> QED BY <1>1, <1>3, <2>1
  <1> HIDE DEF f, g, n, p
  <1>7. g[1 + n] = p \o f[n]
    <2>1. g[1] = p \o f[0]
      BY <1>2, <1>5, <1>6
    <2>2. \A i \in 1..n : i + 1 \in 1..(n + 1) /\ 1 + i = i + 1 /\ 1 + (i - 1) = (i + 1) - 1
      BY <1>1
    <2>3. \A i \in 1..n : t[i] \in Datagram
                           /\ f[i] = KeepLegal(f[i - 1], t[i])
                           /\ g[1 + i] = KeepLegal(g[1 + (i - 1)], t[i])
      BY <1>1, <1>2, <1>3, <2>2
    <2>4. n \in Nat /\ 1 \in Nat /\ t \in Seq(Datagram) /\ \A i \in 0..n : f[i] \in Seq(Datagram)
      BY <1>1, <1>2
    <2>5. Shifted(f, g, p, 1, n, t)
      BY <1>5, <2>1, <2>3, <2>4 DEF Shifted
    <2>6. InFrontOf(p, f, g, 1, n)
      BY <2>4, <2>5, FilterShift
    <2> QED BY <2>6 DEF InFrontOf
  <1>8. 1 + n = n + 1 /\ n \in 0..n
    BY <1>1
  <1> QED BY <1>2, <1>4, <1>7, <1>8 DEF p, t

LEMMA DatagramsNext == StationTypes /\ DatagramsWholeInOrder /\ [Next]_vars => DatagramsWholeInOrder'
  <1> SUFFICES ASSUME StationTypes, DatagramsWholeInOrder, [Next]_vars
               PROVE  DatagramsWholeInOrder'
    OBVIOUS
  <1> DEFINE P == LegalOf(sockets)
  <1>0. sockets \in Seq(Datagram) /\ arrived \in Seq(Datagram) /\ delivered \in Seq(Datagram)
    BY DEF StationTypes
  <1>1. CASE UNCHANGED <<sockets, arrived, delivered>>
    BY <1>1 DEF DatagramsWholeInOrder
  <1>2. CASE DatagramArrives
    <2>1. PICK size \in DatagramSizes :
            LET d == [number |-> Len(arrived) + 1, size |-> size]
            IN  sockets' = Append(sockets, d) /\ arrived' = Append(arrived, d)
      BY <1>2 DEF DatagramArrives
    <2> DEFINE d == [number |-> Len(arrived) + 1, size |-> size]
    <2>2. d \in Datagram
      BY <1>0 DEF Datagram
    <2> HIDE DEF d
    <2>3. sockets' = Append(sockets, d) /\ arrived' = Append(arrived, d) /\ delivered' = delivered
      BY <1>2, <2>1 DEF d, DatagramArrives
    <2>4. LegalOf(sockets') = KeepLegal(P, d) /\ P \in Seq(Datagram)
          /\ LegalOf(arrived') = KeepLegal(LegalOf(arrived), d)
      BY <1>0, <2>2, <2>3, LegalOfAppend
    <2>5. delivered \o P = LegalOf(arrived)
      BY DEF DatagramsWholeInOrder
    <2>6. KeepLegal(delivered \o P, d) = delivered \o KeepLegal(P, d)
      BY <1>0, <2>2, <2>4, KeepLegalFacts
    <2> QED BY <2>3, <2>4, <2>5, <2>6 DEF DatagramsWholeInOrder
  <1>3. CASE DropOversized \/ DeliverDatagram
    <2> DEFINE h == Head(sockets)
               T == LegalOf(Tail(sockets))
    <2>1. sockets # <<>> /\ h \in Datagram /\ Tail(sockets) \in Seq(Datagram)
      BY <1>3, <1>0 DEF StationTypes, DropOversized, DeliverDatagram
    <2>2. P = KeepLegal(<<>>, h) \o T /\ T \in Seq(Datagram)
      BY <1>0, <2>1, LegalOfTail
    <2>3. sockets' = Tail(sockets) /\ arrived' = arrived
      BY <1>3 DEF DropOversized, DeliverDatagram
    <2>4. delivered \o P = LegalOf(arrived)
      BY DEF DatagramsWholeInOrder
    <2>5. Legal(h) <=> ~Oversized
      <3>1. h.size \in Nat /\ MaxDatagramSize \in Nat
        BY <2>1, UdpAssumption DEF Datagram
      <3> QED BY <3>1 DEF Legal, Oversized, ReceivedSize
    <2> HIDE DEF P, T
    <2>6. CASE DropOversized
      <3>1. KeepLegal(<<>>, h) = <<>> /\ delivered' = delivered
        BY <2>5, <2>6 DEF KeepLegal, DropOversized
      <3>2. P = T
        BY <2>2, <3>1
      <3> QED BY <2>3, <2>4, <3>1, <3>2 DEF DatagramsWholeInOrder, T
    <2>7. CASE DeliverDatagram
      <3>1. [h EXCEPT !.size = ReceivedSize(h)] = h
        BY <2>1 DEF ReceivedSize, Datagram
      <3>2. delivered' = Append(delivered, h)
        BY <2>7, <3>1 DEF DeliverDatagram
      <3>3. KeepLegal(<<>>, h) = <<h>>
        BY <2>5, <2>7 DEF KeepLegal, DeliverDatagram
      <3> HIDE DEF h
      <3>4. Append(delivered, h) \o T = delivered \o (<<h>> \o T)
        BY <1>0, <2>1, <2>2
      <3> QED BY <2>2, <2>3, <2>4, <3>2, <3>3, <3>4 DEF DatagramsWholeInOrder, T
    <2> QED BY <1>3, <2>6, <2>7
  <1>4. UNCHANGED <<sockets, arrived, delivered>> \/ DatagramArrives
        \/ DropOversized \/ DeliverDatagram
    <2>1. CASE SelectAutomaticPort \/ OpenLogger \/ ConstructController \/ OpenExport
               \/ StartWorkers \/ UnwindProgress \/ BindSocket \/ LeaveServer \/ JoinWriter
               \/ LeavePipeline \/ RenderSummary \/ StopController \/ Exit
      BY <2>1 DEF SelectAutomaticPort, OpenLogger, ConstructController, OpenExport,
         StartWorkers, UnwindProgress, BindSocket, LeaveServer, JoinWriter, LeavePipeline, RenderSummary,
         StopController, Exit, netVars, udpVars
    <2>2. CASE ServerStep
      BY <2>2, ServerCases DEF UdpLoopStep, TestRunning, PollReady, PollAgain, PollFails,
         ReceiveFails, udpVars
    <2>3. CASE WriterStep \/ WriterFails \/ ProgressThread \/ WaiterThread \/ Environment
               \/ Ended \/ UNCHANGED vars
      BY <2>3 DEF WriterStep, WriterFails, ProgressThread, WaiterThread, Environment, Ended,
         vars, netVars, udpVars
    <2> QED BY <2>1, <2>2, <2>3 DEF Next, MainStep
  <1> QED BY <1>1, <1>2, <1>3, <1>4

\* Whatever arrives and however the queue and the loop interleave, the callback
\* gets exactly the datagrams that fit in a frame, whole and in the order of the
\* socket's queue (NetworkServerUdp.cpp:45-76).
THEOREM DatagramTheorem == Spec => []DatagramsWholeInOrder
  <1>1. Init => StationTypes /\ DatagramsWholeInOrder
    <2> SUFFICES ASSUME Init PROVE DatagramsWholeInOrder
      BY TypesInit
    <2>1. sockets = <<>> /\ arrived = <<>> /\ delivered = <<>>
      BY DEF Init, UdpInit
    <2> QED BY <2>1, LegalOfEmpty DEF DatagramsWholeInOrder
  <1>2. StationTypes /\ DatagramsWholeInOrder /\ [Next]_vars
          => (StationTypes /\ DatagramsWholeInOrder)'
    BY TypesNext, DatagramsNext
  <1> QED BY <1>1, <1>2, PTL DEF Spec

=============================================================================
