------------------------------ MODULE Pipeline ------------------------------
(***************************************************************************)
(* The ground-station pipeline (apps/ground_station): the main thread      *)
(* feeds rawQueue_, decoder threads move work to decodedQueue_, one writer *)
(* thread restores the reception order and applies the effects.  Covers    *)
(* GroundStationPipeline.cpp, GroundStationWorkers.cpp, the producers of   *)
(* GroundStationInput.cpp and finish() of TelemetryOutput.cpp.             *)
(*                                                                         *)
(* The two queues appear here as ClosableFifo, which BlockingQueue is      *)
(* proved to implement: a push is one step, enabled when the queue is      *)
(* closed or has room, a pop one step, enabled when it is closed or not    *)
(* empty.  Everything between two accesses to shared state is one action;  *)
(* failPipeline() and stopWorkers() are spelled out store by store.        *)
(*                                                                         *)
(* A frame is reduced to whether decodeFrame() accepts it.                 *)
(***************************************************************************)
EXTENDS Integers, Sequences, FiniteSets

CONSTANTS
    Decoders,   \* the decoder threads (options.decoderThreads of them)
    Main,       \* the thread that calls run()
    Writer,     \* the writer thread
    Capacity,   \* options.queueCapacity, at least 1 by GroundStationOptions
    Inputs,     \* "replay" (--replay FILE) and "network" (the server), or one of them
    Verdicts,   \* what decodeFrame() may say of a frame in this instance
    MaxFrames,  \* bound on the frames the input hands to submit()
    Faults      \* the operations that may throw in this instance

InputKinds == {"replay", "network"}
FaultKinds == {"spawn", "input", "decode", "write", "finish"}

ASSUME PipelineAssumption ==
    /\ Decoders # {}
    /\ Main \notin Decoders
    /\ Writer \notin Decoders
    /\ Main # Writer
    /\ Capacity \in Nat \ {0}
    /\ Inputs \subseteq InputKinds
    /\ Verdicts \subseteq BOOLEAN
    /\ MaxFrames \in Nat
    /\ Faults \subseteq FaultKinds

VARIABLES
    input,          \* where this run() takes its frames from, fixed by the options
    pc,             \* where each thread is
    running,        \* the stop flag shared with the signal controller
    rawQueue,       \* rawQueue_: RawWorkItems
    rawClosed,
    decodedQueue,   \* decodedQueue_: DecodedWorkItems
    decodedClosed,
    nextSequence,   \* nextSequence_
    counted,        \* received_
    decoded,        \* decoded_
    rejected,       \* rejected_
    written,        \* written_
    work,           \* the item main is submitting or a decoder is decoding
    pending,        \* the writer's reorder map, as the set of its items
    expected,       \* the writer's expectedSequence
    cause,          \* the exception a thread is handling
    error,          \* asyncFailure_: the captured exception
    finished,       \* output_.finish() has completed
    accepted,       \* history: the items rawQueue_ accepted, in that order
    effects         \* history: the items the writer processed, in that order

queueVars == <<rawQueue, rawClosed, decodedQueue, decodedClosed>>
counterVars == <<counted, decoded, rejected, written>>
writerVars == <<pending, expected, finished, effects>>
dataVars ==
    <<input, running, queueVars, nextSequence, counterVars, work, writerVars, accepted>>
vars == <<pc, dataVars, cause, error>>

Replay == input = "replay"

Threads == Decoders \cup {Main, Writer}

\* RawWorkItem and DecodedWorkItem: the sequence number travels with the frame;
\* decodeFrame() is a function of the bytes, so its verdict is fixed from the start.
Item == [seq : 0 .. MaxFrames - 1, valid : BOOLEAN]

NoWork == [seq |-> -1, valid |-> FALSE]

None == "none"
Causes == {"input", "decode", "duplicate", "write", "gap", "finish"}

\* The statements of failPipeline(), in order.
FailStates == {"capture", "halt", "failRaw", "failDecoded"}

MainStates ==
    {"start", "unwind", "receive", "push", "count", "closeRaw", "joinDecoders",
     "closeDecoded", "joinWriter", "rethrow", "returned", "threw"} \cup FailStates
DecoderStates == {"unborn", "pop", "push", "exited"} \cup FailStates
WriterStates == {"unborn", "pop", "drain", "exited"} \cup FailStates

TypeOK ==
    /\ input \in Inputs
    /\ pc \in [Threads -> MainStates \cup DecoderStates \cup WriterStates]
    /\ pc[Main] \in MainStates
    /\ pc[Writer] \in WriterStates
    /\ \A d \in Decoders : pc[d] \in DecoderStates
    /\ running \in BOOLEAN
    /\ rawQueue \in Seq(Item)
    /\ rawClosed \in BOOLEAN
    /\ decodedQueue \in Seq(Item)
    /\ decodedClosed \in BOOLEAN
    /\ nextSequence \in 0 .. MaxFrames
    /\ counted \in Nat
    /\ decoded \in Nat
    /\ rejected \in Nat
    /\ written \in Nat
    /\ work \in [Threads -> Item \cup {NoWork}]
    /\ pending \in SUBSET Item
    /\ expected \in Nat
    /\ cause \in [Threads -> Causes \cup {None}]
    /\ error \in Causes \cup {None}
    /\ finished \in BOOLEAN
    /\ accepted \in Seq(Item)
    /\ effects \in Seq(Item)

Init ==
    /\ input \in Inputs
    /\ pc = [t \in Threads |-> IF t = Main THEN "start" ELSE "unborn"]
    /\ running = TRUE
    /\ rawQueue = <<>>
    /\ rawClosed = FALSE
    /\ decodedQueue = <<>>
    /\ decodedClosed = FALSE
    /\ nextSequence = 0
    /\ counted = 0
    /\ decoded = 0
    /\ rejected = 0
    /\ written = 0
    /\ work = [t \in Threads |-> NoWork]
    /\ pending = {}
    /\ expected = 0
    /\ cause = [t \in Threads |-> None]
    /\ error = None
    /\ finished = FALSE
    /\ accepted = <<>>
    /\ effects = <<>>

Goto(t, state) == pc' = [pc EXCEPT ![t] = state]

\* An exception c reaches the catch (...) that calls failPipeline().
Throw(t, c) ==
    /\ Goto(t, "capture")
    /\ cause' = [cause EXCEPT ![t] = c]

-----------------------------------------------------------------------------
(* startWorkers: writer first, then the decoders.  A thread that cannot be  *)
(* created throws out of run(), whose try block has not been entered: the   *)
(* destructors of the jthread members then join the threads already alive.  *)

StartWriter ==
    /\ pc[Main] = "start"
    /\ pc[Writer] = "unborn"
    /\ Goto(Writer, "pop")
    /\ UNCHANGED <<dataVars, cause, error>>

StartDecoder(d) ==
    /\ pc[Main] = "start"
    /\ pc[Writer] # "unborn"
    /\ pc[d] = "unborn"
    /\ Goto(d, "pop")
    /\ UNCHANGED <<dataVars, cause, error>>

StartInput ==
    /\ pc[Main] = "start"
    /\ \A t \in Threads : pc[t] # "unborn"
    /\ Goto(Main, "receive")
    /\ UNCHANGED <<dataVars, cause, error>>

SpawnFails ==
    /\ "spawn" \in Faults
    /\ pc[Main] = "start"
    /\ \E t \in Threads : pc[t] = "unborn"
    /\ Goto(Main, "unwind")
    /\ UNCHANGED <<dataVars, cause, error>>

UnwindJoins ==
    /\ pc[Main] = "unwind"
    /\ \A t \in Threads \ {Main} : pc[t] \in {"unborn", "exited"}
    /\ Goto(Main, "threw")
    /\ UNCHANGED <<dataVars, cause, error>>

-----------------------------------------------------------------------------
(* receiveReplay and receiveNetwork.  The replay loop reads running_ before *)
(* each frame; the server may hand over further frames of a batch it has    *)
(* already read after running_ became false.                                *)

TakeSequence(valid) ==
    /\ pc[Main] = "receive"
    /\ Replay => running
    /\ nextSequence < MaxFrames
    /\ work' = [work EXCEPT ![Main] = [seq |-> nextSequence, valid |-> valid]]
    /\ nextSequence' = nextSequence + 1
    /\ Goto(Main, "push")
    /\ UNCHANGED <<input, running, queueVars, counterVars, writerVars, cause, error,
                   accepted>>

SubmitAccepted ==
    /\ pc[Main] = "push"
    /\ ~rawClosed
    /\ Len(rawQueue) < Capacity
    /\ rawQueue' = Append(rawQueue, work[Main])
    /\ accepted' = Append(accepted, work[Main])
    /\ work' = [work EXCEPT ![Main] = NoWork]
    /\ Goto(Main, "count")
    /\ UNCHANGED <<input, running, rawClosed, decodedQueue, decodedClosed, nextSequence,
                   counterVars, writerVars, cause, error>>

SubmitRefused ==
    /\ pc[Main] = "push"
    /\ rawClosed
    /\ running' = FALSE
    /\ work' = [work EXCEPT ![Main] = NoWork]
    /\ Goto(Main, "receive")
    /\ UNCHANGED <<input, queueVars, nextSequence, counterVars, writerVars, cause, error,
                   accepted>>

CountReceived ==
    /\ pc[Main] = "count"
    /\ counted' = counted + 1
    /\ Goto(Main, "receive")
    /\ UNCHANGED <<input, running, queueVars, nextSequence, decoded, rejected, written, work,
                   writerVars, cause, error, accepted>>

\* Mutant of InputEnds: the server does not read running_.
InputEndsReplayOnly ==
    /\ pc[Main] = "receive"
    /\ Replay
    /\ running' = FALSE
    /\ Goto(Main, "closeRaw")
    /\ UNCHANGED <<input, queueVars, nextSequence, counterVars, work, writerVars, cause, error,
                   accepted>>

\* End of the capture (replay only) or running_ seen false.
InputEnds ==
    /\ pc[Main] = "receive"
    /\ Replay \/ ~running
    /\ running' = IF Replay THEN FALSE ELSE running
    /\ Goto(Main, "closeRaw")
    /\ UNCHANGED <<input, queueVars, nextSequence, counterVars, work, writerVars, cause, error,
                   accepted>>

\* The reader or the server throws, possibly while the frame it just delivered
\* is being pushed.  readNext() is called only while running_ holds, the
\* constructor of the reader before the first frame.
InputThrows ==
    /\ "input" \in Faults
    /\ pc[Main] \in {"receive", "push"}
    /\ Replay /\ pc[Main] = "receive" => running \/ nextSequence = 0
    /\ Throw(Main, "input")
    /\ work' = [work EXCEPT ![Main] = NoWork]
    /\ UNCHANGED <<input, running, queueVars, nextSequence, counterVars, writerVars, error,
                   accepted>>

\* PosixSignalStopController stores false on SIGINT or SIGTERM.
StopSignal ==
    /\ running
    /\ running' = FALSE
    /\ UNCHANGED <<input, pc, queueVars, nextSequence, counterVars, work, writerVars, cause,
                   error, accepted>>

-----------------------------------------------------------------------------
(* decoderLoop *)

DecoderPop(d) ==
    /\ pc[d] = "pop"
    /\ rawQueue # <<>>
    /\ work' = [work EXCEPT ![d] = Head(rawQueue)]
    /\ rawQueue' = Tail(rawQueue)
    /\ Goto(d, "push")
    /\ UNCHANGED <<input, running, rawClosed, decodedQueue, decodedClosed, nextSequence,
                   counterVars, writerVars, cause, error, accepted>>

DecoderEnds(d) ==
    /\ pc[d] = "pop"
    /\ rawQueue = <<>>
    /\ rawClosed
    /\ Goto(d, "exited")
    /\ UNCHANGED <<dataVars, cause, error>>

DecoderPush(d) ==
    /\ pc[d] = "push"
    /\ ~decodedClosed
    /\ Len(decodedQueue) < Capacity
    /\ decodedQueue' = Append(decodedQueue, work[d])
    /\ work' = [work EXCEPT ![d] = NoWork]
    /\ Goto(d, "pop")
    /\ UNCHANGED <<input, running, rawQueue, rawClosed, decodedClosed, nextSequence,
                   counterVars, writerVars, cause, error, accepted>>

\* push() returned false: the result is dropped and the loop returns.
DecoderDrops(d) ==
    /\ pc[d] = "push"
    /\ decodedClosed
    /\ work' = [work EXCEPT ![d] = NoWork]
    /\ Goto(d, "exited")
    /\ UNCHANGED <<input, running, queueVars, nextSequence, counterVars, writerVars, cause,
                   error, accepted>>

\* While decoding (the item in hand dies with the exception), or in the trace
\* that follows the push.
DecoderThrows(d) ==
    /\ "decode" \in Faults
    /\ pc[d] \in {"pop", "push"}
    /\ Throw(d, "decode")
    /\ UNCHANGED <<dataVars, error>>

-----------------------------------------------------------------------------
(* writerLoop *)

WriterPop ==
    /\ pc[Writer] = "pop"
    /\ decodedQueue # <<>>
    /\ decodedQueue' = Tail(decodedQueue)
    /\ IF \E i \in pending : i.seq = Head(decodedQueue).seq
         THEN /\ Throw(Writer, "duplicate")
              /\ UNCHANGED pending
         ELSE /\ pending' = pending \cup {Head(decodedQueue)}
              /\ Goto(Writer, "drain")
              /\ UNCHANGED cause
    /\ UNCHANGED <<input, running, rawQueue, rawClosed, decodedClosed, nextSequence,
                   counterVars, work, expected, finished, effects, error, accepted>>

\* One turn of the inner loop for a decoded frame (++decoded_, health, STGA
\* payload, output_.write, ++written_) or for a rejected one (++rejected_, health).
WriterProcess(i) ==
    /\ pc[Writer] = "drain"
    /\ i.seq = expected
    /\ effects' = Append(effects, i)
    /\ decoded' = IF i.valid THEN decoded + 1 ELSE decoded
    /\ written' = IF i.valid THEN written + 1 ELSE written
    /\ rejected' = IF i.valid THEN rejected ELSE rejected + 1
    /\ pending' = pending \ {i}
    /\ expected' = expected + 1
    /\ UNCHANGED <<input, pc, running, queueVars, nextSequence, counted, work, finished, cause,
                   error, accepted>>

\* output_.write() throws: the health sample is taken, the row is not counted
\* and the item stays in the map.
WriterWriteThrows(i) ==
    /\ "write" \in Faults
    /\ pc[Writer] = "drain"
    /\ i.seq = expected
    /\ i.valid
    /\ effects' = Append(effects, i)
    /\ decoded' = decoded + 1
    /\ Throw(Writer, "write")
    /\ UNCHANGED <<input, running, queueVars, nextSequence, counted, rejected, written, work,
                   pending, expected, finished, error, accepted>>

WriterAwaits ==
    /\ pc[Writer] = "drain"
    /\ \A i \in pending : i.seq # expected
    /\ Goto(Writer, "pop")
    /\ UNCHANGED <<dataVars, cause, error>>

WriterGap ==
    /\ pc[Writer] = "pop"
    /\ decodedQueue = <<>>
    /\ decodedClosed
    /\ pending # {}
    /\ Throw(Writer, "gap")
    /\ UNCHANGED <<dataVars, error>>

WriterFinishes ==
    /\ pc[Writer] = "pop"
    /\ decodedQueue = <<>>
    /\ decodedClosed
    /\ pending = {}
    /\ finished' = TRUE
    /\ Goto(Writer, "exited")
    /\ UNCHANGED <<input, running, queueVars, nextSequence, counterVars, work, pending,
                   expected, effects, cause, error, accepted>>

WriterFinishThrows ==
    /\ "finish" \in Faults
    /\ pc[Writer] = "pop"
    /\ decodedQueue = <<>>
    /\ decodedClosed
    /\ pending = {}
    /\ Throw(Writer, "finish")
    /\ UNCHANGED <<dataVars, error>>

-----------------------------------------------------------------------------
(* failPipeline, run by whichever thread caught the exception *)

\* Mutant of FailCapture: the last exception wins.
FailCaptureLast(t) ==
    /\ pc[t] = "capture"
    /\ error' = cause[t]
    /\ Goto(t, "halt")
    /\ UNCHANGED <<dataVars, cause>>

FailCapture(t) ==
    /\ pc[t] = "capture"
    /\ error' = IF error = None THEN cause[t] ELSE error
    /\ Goto(t, "halt")
    /\ UNCHANGED <<dataVars, cause>>

FailHalt(t) ==
    /\ pc[t] = "halt"
    /\ running' = FALSE
    /\ Goto(t, "failRaw")
    /\ UNCHANGED <<input, queueVars, nextSequence, counterVars, work, writerVars, cause, error,
                   accepted>>

\* Mutant of FailCloseRaw: the raw queue stays open.
FailLeavesRawOpen(t) ==
    /\ pc[t] = "failRaw"
    /\ Goto(t, "failDecoded")
    /\ UNCHANGED <<dataVars, cause, error>>

FailCloseRaw(t) ==
    /\ pc[t] = "failRaw"
    /\ rawClosed' = TRUE
    /\ Goto(t, "failDecoded")
    /\ UNCHANGED <<input, running, rawQueue, decodedQueue, decodedClosed, nextSequence,
                   counterVars, work, writerVars, cause, error, accepted>>

\* A worker's loop function returns; main goes on to stopWorkers().
FailCloseDecoded(t) ==
    /\ pc[t] = "failDecoded"
    /\ decodedClosed' = TRUE
    /\ Goto(t, IF t = Main THEN "closeRaw" ELSE "exited")
    /\ UNCHANGED <<input, running, rawQueue, rawClosed, decodedQueue, nextSequence,
                   counterVars, work, writerVars, cause, error, accepted>>

-----------------------------------------------------------------------------
(* stopWorkers and the end of run *)

\* Mutant of StopCloseRaw: nobody tells the decoders that the input has ended.
StopLeavesRawOpen ==
    /\ pc[Main] = "closeRaw"
    /\ Goto(Main, "joinDecoders")
    /\ UNCHANGED <<dataVars, cause, error>>

StopCloseRaw ==
    /\ pc[Main] = "closeRaw"
    /\ rawClosed' = TRUE
    /\ Goto(Main, "joinDecoders")
    /\ UNCHANGED <<input, running, rawQueue, decodedQueue, decodedClosed, nextSequence,
                   counterVars, work, writerVars, cause, error, accepted>>

\* Mutant of StopJoinDecoders: the decoders are not waited for.
StopSkipsDecoders ==
    /\ pc[Main] = "joinDecoders"
    /\ Goto(Main, "closeDecoded")
    /\ UNCHANGED <<dataVars, cause, error>>

StopJoinDecoders ==
    /\ pc[Main] = "joinDecoders"
    /\ \A d \in Decoders : pc[d] = "exited"
    /\ Goto(Main, "closeDecoded")
    /\ UNCHANGED <<dataVars, cause, error>>

StopCloseDecoded ==
    /\ pc[Main] = "closeDecoded"
    /\ decodedClosed' = TRUE
    /\ Goto(Main, "joinWriter")
    /\ UNCHANGED <<input, running, rawQueue, rawClosed, decodedQueue, nextSequence,
                   counterVars, work, writerVars, cause, error, accepted>>

\* Mutant of StopJoinWriter: the writer is not waited for.
StopSkipsWriter ==
    /\ pc[Main] = "joinWriter"
    /\ Goto(Main, "rethrow")
    /\ UNCHANGED <<dataVars, cause, error>>

StopJoinWriter ==
    /\ pc[Main] = "joinWriter"
    /\ pc[Writer] = "exited"
    /\ Goto(Main, "rethrow")
    /\ UNCHANGED <<dataVars, cause, error>>

\* Mutant of RethrowIfPresent: the captured exception is dropped.
RethrowForgotten ==
    /\ pc[Main] = "rethrow"
    /\ Goto(Main, "returned")
    /\ UNCHANGED <<dataVars, cause, error>>

RethrowIfPresent ==
    /\ pc[Main] = "rethrow"
    /\ Goto(Main, IF error = None THEN "returned" ELSE "threw")
    /\ UNCHANGED <<dataVars, cause, error>>

RunEnded == pc[Main] \in {"returned", "threw"}

Ended == RunEnded /\ UNCHANGED vars

-----------------------------------------------------------------------------

Fail(t) == FailCapture(t) \/ FailHalt(t) \/ FailCloseRaw(t) \/ FailCloseDecoded(t)

\* The steps a scheduled main thread owes, whatever its input does.
MainStep ==
    \/ StartWriter
    \/ \E d \in Decoders : StartDecoder(d)
    \/ StartInput
    \/ UnwindJoins
    \/ SubmitAccepted
    \/ SubmitRefused
    \/ CountReceived
    \/ InputEnds
    \/ Fail(Main)
    \/ StopCloseRaw
    \/ StopJoinDecoders
    \/ StopCloseDecoded
    \/ StopJoinWriter
    \/ RethrowIfPresent

DecoderStep(d) ==
    \/ DecoderPop(d)
    \/ DecoderEnds(d)
    \/ DecoderPush(d)
    \/ DecoderDrops(d)
    \/ Fail(d)

WriterStep ==
    \/ WriterPop
    \/ \E i \in pending : WriterProcess(i)
    \/ WriterAwaits
    \/ WriterGap
    \/ WriterFinishes
    \/ Fail(Writer)

\* What nobody owes: input, stop requests and failing operations.
EnvironmentStep ==
    \/ \E valid \in Verdicts : TakeSequence(valid)
    \/ StopSignal
    \/ SpawnFails
    \/ InputThrows
    \/ \E d \in Decoders : DecoderThrows(d)
    \/ \E i \in pending : WriterWriteThrows(i)
    \/ WriterFinishThrows

Next ==
    \/ MainStep
    \/ \E d \in Decoders : DecoderStep(d)
    \/ WriterStep
    \/ EnvironmentStep
    \/ Ended

Spec == Init /\ [][Next]_vars

\* Every thread that can run is eventually scheduled; a queue whose push or pop
\* stays possible lets the blocked thread through (BlockingQueue's liveness).
Fairness ==
    /\ WF_vars(MainStep)
    /\ \A d \in Decoders : WF_vars(DecoderStep(d))
    /\ WF_vars(WriterStep)

FairSpec == Spec /\ Fairness

-----------------------------------------------------------------------------
(* Safety *)

IsPrefixOf(s, t) == Len(s) <= Len(t) /\ \A i \in 1 .. Len(s) : s[i] = t[i]

\* The effects (health samples, STGA messages, rows) are those of the received
\* frames in reception order, whatever order the decoders finish in
\* (writerLoop 105-142; "strictement reproductibles avec 1, 4 ou 32 workers").
EffectsInReceptionOrder == IsPrefixOf(effects, accepted)

Elements(q) == {q[i] : i \in 1 .. Len(q)}

\* Where the frame with sequence number s can be found before the writer is
\* done with it.
InFlight(s) ==
    \/ \E i \in Elements(rawQueue) : i.seq = s
    \/ \E d \in Decoders : work[d].seq = s
    \/ \E i \in Elements(decodedQueue) : i.seq = s
    \/ \E i \in pending : i.seq = s

\* Between submit() and the writer no accepted frame disappears as long as no
\* exception has been captured: the two queues, the decoders' hands and the
\* reorder map account for all of them (GroundStationWorkers.cpp 85-86).
NothingLostUnlessFailed ==
    error = None => \A s \in 0 .. Len(accepted) - 1 : s < expected \/ InFlight(s)

\* run() returns normally only after every accepted frame had its effect and
\* the file was finalised, and then the counters of the summary agree with each
\* other (stopWorkers 99-122: close raw, join decoders, close decoded, join
\* writer).
CompleteOnReturn ==
    pc[Main] = "returned" =>
        /\ finished
        /\ effects = accepted
        /\ counted = Len(accepted)
        /\ decoded + rejected = counted
        /\ written = decoded

\* The exception run() reports is a root cause: "duplicate pipeline sequence"
\* and "sequence gap" are only ever noticed in the wake of another failure,
\* whose capture comes before the queues are closed (failPipeline 124-138).
RootCauseReported == error \notin {"duplicate", "gap"}

\* "la file brute est fermee et drainee avant la file decodee": unless the
\* pipeline failed, the decoded queue is closed only when nothing can be pushed
\* to it any more, so no decoder ever drops a result.
ShutdownOrder ==
    decodedClosed /\ error = None =>
        /\ rawClosed
        /\ rawQueue = <<>>
        /\ \A d \in Decoders : pc[d] = "exited" /\ work[d] = NoWork

\* received_ is incremented after the push (submit 145-150), so the results may
\* run ahead of the receptions, but at no instant by more than the one frame main
\* is about to count, and written_ never runs ahead of decoded_.
CountersLagByAtMostOne ==
    /\ written <= decoded
    /\ decoded + rejected <= counted + (IF pc[Main] = "count" THEN 1 ELSE 0)

\* Claim of GroundStationWorkers.cpp 85-86: the file is never presented as
\* complete (finish() writes the closing bracket of the JSON array and flushes)
\* if a sequence was lost between the two queues.
FinishedFileIsComplete == finished => effects = accepted

-----------------------------------------------------------------------------
(* Liveness *)

\* A stop request ends the run: every thread is joined and run() returns or
\* throws, however full the queues are.  For a replay that goes without saying,
\* as it ends anyway; for the network it is the only end but a failure: the
\* server's last batch, a submit() blocked on the full queue and the drain of
\* stopWorkers all come after it (GroundStationPipeline.cpp 99-122, 145-149).
\* The batch is finite (MaxFrames): clients that never stop sending are module
\* TcpServer's.
StopEndsRun == ~running ~> RunEnded

\* A captured failure is never swallowed and never leaves a thread blocked on a
\* queue: run() ends by rethrowing it.
FailureIsRethrown == error # None ~> pc[Main] = "threw"

\* A replay ends by itself, without any signal.
ReplayTerminates == Replay ~> RunEnded

\* Claim of GroundStationPipeline.cpp 50 and GroundStationPipeline.hpp 89-91: one
\* cleanup strategy for all error paths, and run() relays every error.  Applied
\* to a thread that cannot be created in startWorkers().
SpawnFailureIsRelayed == pc[Main] = "unwind" ~> pc[Main] = "threw"

-----------------------------------------------------------------------------
(* The pipeline implements its abstract specification. *)

Status ==
    IF pc[Main] = "returned" THEN "complete"
    ELSE IF pc[Main] = "threw" THEN "failed"
    ELSE "open"

Export == INSTANCE OrderedExport WITH
    Frame <- Item,
    received <- accepted,
    applied <- effects,
    status <- Status

\* Queues, workers and shutdown are invisible in the results: the pipeline is
\* an ordered export whose success means that nothing is missing.
ImplementsOrderedExport == Export!Spec
=============================================================================
