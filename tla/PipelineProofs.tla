--------------------------- MODULE PipelineProofs ---------------------------
(***************************************************************************)
(* Proofs about Pipeline: for any number of decoders, any queue capacity,  *)
(* any number of frames, either kind of input and any set of failing       *)
(* operations.                                                             *)
(***************************************************************************)
EXTENDS Pipeline, TLAPS

-----------------------------------------------------------------------------
(* Types *)

\* A thread that is about to push has something to push.
WorkInHand ==
    /\ pc[Main] = "push" => work[Main] \in Item
    /\ \A d \in Decoders : pc[d] = "push" => work[d] \in Item

TypeInv == TypeOK /\ WorkInHand

\* Only Main visits MainStates, only Writer WriterStates, only decoders
\* DecoderStates: moving one thread leaves the other program counters alone.
LEMMA GotoType ==
    ASSUME TypeOK, NEW t \in Threads, NEW s,
           t = Main => s \in MainStates,
           t = Writer => s \in WriterStates,
           t \in Decoders => s \in DecoderStates,
           Goto(t, s)
    PROVE  /\ pc' \in [Threads -> MainStates \cup DecoderStates \cup WriterStates]
           /\ pc'[Main] \in MainStates
           /\ pc'[Writer] \in WriterStates
           /\ \A d \in Decoders : pc'[d] \in DecoderStates
           /\ pc'[t] = s
           /\ \A u \in Threads : u # t => pc'[u] = pc[u]
<1> USE PipelineAssumption DEF TypeOK, Goto, Threads
<1>1. s \in MainStates \cup DecoderStates \cup WriterStates
    OBVIOUS
<1>2. pc' \in [Threads -> MainStates \cup DecoderStates \cup WriterStates]
    BY <1>1
<1>3. pc'[t] = s /\ \A u \in Threads : u # t => pc'[u] = pc[u]
    OBVIOUS
<1> QED
    BY <1>2, <1>3

\* Every action keeps every variable in its type and leaves a pushing thread
\* with an item in hand.
LEMMA TypeStep == TypeInv /\ [Next]_vars => TypeInv'
<1> SUFFICES ASSUME TypeInv, [Next]_vars PROVE TypeInv'
    OBVIOUS
<1> USE PipelineAssumption
    DEF TypeInv, TypeOK, WorkInHand, queueVars, counterVars, writerVars, FailStates,
        MainStates, DecoderStates, WriterStates
<1>0. /\ Main \in Threads /\ Writer \in Threads
      /\ \A d \in Decoders : d \in Threads /\ d # Main /\ d # Writer
      /\ None \in Causes \cup {None}
      /\ \A t \in Threads : t = Main \/ t = Writer \/ t \in Decoders
    BY DEF Threads
<1>1. CASE StartWriter
    BY <1>0, <1>1, GotoType DEF dataVars, StartWriter
<1>2. ASSUME NEW d \in Decoders, StartDecoder(d) PROVE TypeInv'
    BY <1>0, <1>2, GotoType DEF dataVars, StartDecoder
<1>3. CASE StartInput
    BY <1>0, <1>3, GotoType DEF dataVars, StartInput
<1>4. CASE SpawnFails
    BY <1>0, <1>4, GotoType DEF dataVars, SpawnFails
<1>5. CASE UnwindJoins
    BY <1>0, <1>5, GotoType DEF dataVars, UnwindJoins
<1>6. ASSUME NEW valid \in Verdicts, TakeSequence(valid) PROVE TypeInv'
    <2>1. [seq |-> nextSequence, valid |-> valid] \in Item
        BY <1>6, PipelineAssumption DEF TakeSequence, Item
    <2>2. work' \in [Threads -> Item \cup {NoWork}] /\ work'[Main] \in Item
          /\ \A d \in Decoders : work'[d] = work[d]
        BY <1>0, <1>6, <2>1 DEF TakeSequence
    <2>3. nextSequence' \in 0 .. MaxFrames
        BY <1>6 DEF TakeSequence
    <2> QED
        BY <1>0, <1>6, <2>2, <2>3, GotoType DEF TakeSequence
<1>7. CASE SubmitAccepted
    <2>1. rawQueue' \in Seq(Item) /\ accepted' \in Seq(Item)
        BY <1>7 DEF SubmitAccepted
    <2>2. work' \in [Threads -> Item \cup {NoWork}]
          /\ \A d \in Decoders : work'[d] = work[d]
        BY <1>0, <1>7 DEF SubmitAccepted
    <2> QED
        BY <1>0, <1>7, <2>1, <2>2, GotoType DEF SubmitAccepted
<1>8. CASE SubmitRefused
    <2>1. work' \in [Threads -> Item \cup {NoWork}]
          /\ \A d \in Decoders : work'[d] = work[d]
        BY <1>0, <1>8 DEF SubmitRefused
    <2>2. running' \in BOOLEAN
        BY <1>8 DEF SubmitRefused
    <2> QED
        BY <1>0, <1>8, <2>1, <2>2, GotoType DEF SubmitRefused
<1>9. CASE CountReceived
    BY <1>0, <1>9, GotoType DEF CountReceived
<1>10. CASE InputEnds
    <2>1. running' \in BOOLEAN
        BY <1>10 DEF InputEnds
    <2>2. /\ Goto(Main, "closeRaw")
          /\ UNCHANGED <<input, queueVars, nextSequence, counterVars, work, writerVars,
                         cause, error, accepted>>
        BY <1>10 DEF InputEnds
    <2> QED
        BY <1>0, <2>1, <2>2, GotoType
<1>11. CASE InputThrows
    <2>1. work' \in [Threads -> Item \cup {NoWork}]
          /\ \A d \in Decoders : work'[d] = work[d]
        BY <1>0, <1>11 DEF InputThrows
    <2>2. cause' \in [Threads -> Causes \cup {None}]
        BY <1>0, <1>11 DEF InputThrows, Throw, Causes
    <2> QED
        BY <1>0, <1>11, <2>1, <2>2, GotoType DEF InputThrows, Throw
<1>12. CASE StopSignal
    <2>1. running' \in BOOLEAN
        BY <1>12 DEF StopSignal
    <2> QED
        BY <1>0, <1>12, <2>1, GotoType DEF StopSignal
<1>13. ASSUME NEW d \in Decoders, DecoderPop(d) PROVE TypeInv'
    <2>1. Head(rawQueue) \in Item /\ rawQueue' \in Seq(Item)
        BY <1>13 DEF DecoderPop
    <2>2. work' \in [Threads -> Item \cup {NoWork}] /\ work'[d] \in Item
          /\ \A t \in Threads : t # d => work'[t] = work[t]
        BY <1>0, <1>13, <2>1 DEF DecoderPop
    <2> QED
        BY <1>0, <1>13, <2>1, <2>2, GotoType DEF DecoderPop
<1>14. ASSUME NEW d \in Decoders, DecoderEnds(d) PROVE TypeInv'
    BY <1>0, <1>14, GotoType DEF dataVars, DecoderEnds
<1>15. ASSUME NEW d \in Decoders, DecoderPush(d) PROVE TypeInv'
    <2>1. decodedQueue' \in Seq(Item)
        BY <1>15 DEF DecoderPush
    <2>2. work' \in [Threads -> Item \cup {NoWork}]
          /\ \A t \in Threads : t # d => work'[t] = work[t]
        BY <1>0, <1>15 DEF DecoderPush
    <2> QED
        BY <1>0, <1>15, <2>1, <2>2, GotoType DEF DecoderPush
<1>16. ASSUME NEW d \in Decoders, DecoderDrops(d) PROVE TypeInv'
    <2>1. work' \in [Threads -> Item \cup {NoWork}]
          /\ \A t \in Threads : t # d => work'[t] = work[t]
        BY <1>0, <1>16 DEF DecoderDrops
    <2> QED
        BY <1>0, <1>16, <2>1, GotoType DEF DecoderDrops
<1>17. ASSUME NEW d \in Decoders, DecoderThrows(d) PROVE TypeInv'
    <2>1. cause' \in [Threads -> Causes \cup {None}]
        BY <1>0, <1>17 DEF DecoderThrows, Throw, Causes
    <2> QED
        BY <1>0, <1>17, <2>1, GotoType DEF dataVars, DecoderThrows, Throw
<1>18. CASE WriterPop
    <2>1. Head(decodedQueue) \in Item /\ decodedQueue' \in Seq(Item)
        BY <1>18 DEF WriterPop
    <2>2. CASE \E i \in pending : i.seq = Head(decodedQueue).seq
        <3>1. cause' \in [Threads -> Causes \cup {None}]
            BY <1>0, <1>18, <2>2 DEF WriterPop, Throw, Causes
        <3> QED
            BY <1>0, <1>18, <2>1, <2>2, <3>1, GotoType DEF WriterPop, Throw
    <2>3. CASE ~ \E i \in pending : i.seq = Head(decodedQueue).seq
        <3>1. pending' \in SUBSET Item
            BY <1>18, <2>1, <2>3 DEF WriterPop
        <3> QED
            BY <1>0, <1>18, <2>1, <2>3, <3>1, GotoType DEF WriterPop
    <2> QED
        BY <2>2, <2>3
<1>19. ASSUME NEW i \in pending, WriterProcess(i) PROVE TypeInv'
    <2>1. effects' \in Seq(Item) /\ pending' \in SUBSET Item
        BY <1>19 DEF WriterProcess
    <2>2. decoded' \in Nat /\ rejected' \in Nat /\ written' \in Nat /\ expected' \in Nat
        BY <1>19 DEF WriterProcess
    <2> QED
        BY <1>19, <2>1, <2>2 DEF WriterProcess
<1>20. ASSUME NEW i \in pending, WriterWriteThrows(i) PROVE TypeInv'
    <2>1. effects' \in Seq(Item) /\ decoded' \in Nat
        BY <1>20 DEF WriterWriteThrows
    <2>2. cause' \in [Threads -> Causes \cup {None}]
        BY <1>0, <1>20 DEF WriterWriteThrows, Throw, Causes
    <2> QED
        BY <1>0, <1>20, <2>1, <2>2, GotoType DEF WriterWriteThrows, Throw
<1>21. CASE WriterAwaits
    BY <1>0, <1>21, GotoType DEF dataVars, WriterAwaits
<1>22. CASE WriterGap
    <2>1. cause' \in [Threads -> Causes \cup {None}]
        BY <1>0, <1>22 DEF WriterGap, Throw, Causes
    <2> QED
        BY <1>0, <1>22, <2>1, GotoType DEF dataVars, WriterGap, Throw
<1>23. CASE WriterFinishThrows
    <2>1. cause' \in [Threads -> Causes \cup {None}]
        BY <1>0, <1>23 DEF WriterFinishThrows, Throw, Causes
    <2> QED
        BY <1>0, <1>23, <2>1, GotoType DEF dataVars, WriterFinishThrows, Throw
<1>24. CASE WriterFinishes
    BY <1>0, <1>24, GotoType DEF WriterFinishes
<1>25. ASSUME NEW t \in Threads, FailCapture(t) PROVE TypeInv'
    BY <1>0, <1>25, GotoType DEF dataVars, FailCapture
<1>26. ASSUME NEW t \in Threads, FailHalt(t) PROVE TypeInv'
    <2>1. running' \in BOOLEAN
        BY <1>26 DEF FailHalt
    <2> QED
        BY <1>0, <1>26, <2>1, GotoType DEF FailHalt
<1>27. ASSUME NEW t \in Threads, FailCloseRaw(t) PROVE TypeInv'
    BY <1>0, <1>27, GotoType DEF FailCloseRaw
<1>28. ASSUME NEW t \in Threads, FailCloseDecoded(t) PROVE TypeInv'
    BY <1>0, <1>28, GotoType DEF FailCloseDecoded
<1>29. CASE StopCloseRaw
    BY <1>0, <1>29, GotoType DEF StopCloseRaw
<1>30. CASE StopJoinDecoders
    BY <1>0, <1>30, GotoType DEF dataVars, StopJoinDecoders
<1>31. CASE StopCloseDecoded
    BY <1>0, <1>31, GotoType DEF StopCloseDecoded
<1>32. CASE StopJoinWriter
    BY <1>0, <1>32, GotoType DEF dataVars, StopJoinWriter
<1>33. CASE RethrowIfPresent
    BY <1>0, <1>33, GotoType DEF dataVars, RethrowIfPresent
<1>34. CASE UNCHANGED vars
    BY <1>34 DEF dataVars, vars
<1> QED
    BY <1>0, <1>1, <1>2, <1>3, <1>4, <1>5, <1>6, <1>7, <1>8, <1>9, <1>10, <1>11, <1>12,
       <1>13, <1>14, <1>15, <1>16, <1>17, <1>18, <1>19, <1>20, <1>21, <1>22, <1>23, <1>24,
       <1>25, <1>26, <1>27, <1>28, <1>29, <1>30, <1>31, <1>32, <1>33, <1>34
    DEF Next, MainStep, DecoderStep, WriterStep, EnvironmentStep, Fail, Ended

\* The strengthened type invariant holds throughout.
LEMMA TypeInvariance == Spec => []TypeInv
<1>1. Init => TypeInv
    <2> SUFFICES ASSUME Init PROVE TypeInv
        OBVIOUS
    <2>1. /\ rawQueue \in Seq(Item) /\ decodedQueue \in Seq(Item)
          /\ accepted \in Seq(Item) /\ effects \in Seq(Item)
        BY DEF Init
    <2>2. /\ input \in Inputs
          /\ running \in BOOLEAN /\ rawClosed \in BOOLEAN /\ decodedClosed \in BOOLEAN
          /\ finished \in BOOLEAN
        BY DEF Init
    <2>3. /\ nextSequence \in 0 .. MaxFrames /\ counted \in Nat /\ decoded \in Nat
          /\ rejected \in Nat /\ written \in Nat /\ expected \in Nat
        BY PipelineAssumption DEF Init
    <2>4. /\ work \in [Threads -> Item \cup {NoWork}]
          /\ cause \in [Threads -> Causes \cup {None}]
          /\ error \in Causes \cup {None}
          /\ pending \in SUBSET Item
        BY DEF Init
    <2>5. /\ pc \in [Threads -> MainStates \cup DecoderStates \cup WriterStates]
          /\ pc[Main] = "start" /\ pc[Writer] = "unborn"
          /\ \A d \in Decoders : pc[d] = "unborn"
        BY PipelineAssumption DEF Init, Threads, MainStates, DecoderStates, WriterStates
    <2>6. WorkInHand
        BY <2>5 DEF WorkInHand
    <2> QED
        BY <2>1, <2>2, <2>3, <2>4, <2>5, <2>6
        DEF TypeInv, TypeOK, MainStates, DecoderStates, WriterStates
<1> QED
    BY <1>1, TypeStep, PTL DEF Spec

\* Type correctness of the pipeline's shared state, for every number of
\* decoders, capacity and set of faults.
THEOREM TypeCorrect == Spec => []TypeOK
<1>1. TypeInv => TypeOK
    BY DEF TypeInv
<1> QED
    BY <1>1, TypeInvariance, PTL

-----------------------------------------------------------------------------
(* The inductive invariant.                                                *)
(*                                                                         *)
(* Control: who can have closed a queue, and what the exit of a thread     *)
(* implies, as long as no exception has been captured.                     *)

Stopping == {"joinDecoders", "closeDecoded", "joinWriter", "rethrow", "returned"}

FailureCaptured ==
    \A t \in Threads : pc[t] \in {"halt", "failRaw", "failDecoded"} => error # None

CauseKnown == \A t \in Threads : pc[t] = "capture" => cause[t] # None

ClosedInOrder ==
    error = None =>
        /\ rawClosed => pc[Main] \in Stopping
        /\ decodedClosed => pc[Main] \in {"joinWriter", "rethrow", "returned"}

Joined ==
    /\ pc[Main] \in Stopping \ {"joinDecoders"} => \A d \in Decoders : pc[d] = "exited"
    /\ pc[Main] \in {"rethrow", "returned"} => pc[Writer] = "exited"
    /\ pc[Main] = "returned" => error = None
    /\ pc[Main] = "threw" => \A t \in Threads \ {Main} : pc[t] \in {"unborn", "exited"}

HandsEmpty == \A d \in Decoders : pc[d] \in {"unborn", "pop"} => work[d] = NoWork

DecoderExit ==
    error = None => \A d \in Decoders :
        pc[d] = "exited" => rawClosed /\ rawQueue = <<>> /\ work[d] = NoWork

WriterExit ==
    error = None /\ pc[Writer] = "exited" =>
        decodedClosed /\ decodedQueue = <<>> /\ pending = {} /\ finished

ControlInv ==
    /\ FailureCaptured
    /\ CauseKnown
    /\ ClosedInOrder
    /\ Joined
    /\ HandsEmpty
    /\ DecoderExit
    /\ WriterExit

(* Data: every item under way is an accepted one, the numbers are those of  *)
(* reception, and the counters count what the histories record.             *)

Numbered ==
    /\ \A i \in 1 .. Len(accepted) : accepted[i].seq = i - 1
    /\ ~rawClosed /\ pc[Main] \in {"start", "receive", "count"} =>
           nextSequence = Len(accepted)
    /\ ~rawClosed /\ pc[Main] = "push" => work[Main].seq = Len(accepted)
                                          /\ nextSequence = Len(accepted) + 1

Known(x, log) == x.seq \in 0 .. Len(log) - 1 /\ x = log[x.seq + 1]

ItemsKnown ==
    /\ \A x \in Elements(rawQueue) : Known(x, accepted)
    /\ \A d \in Decoders : work[d] # NoWork => Known(work[d], accepted)
    /\ \A x \in Elements(decodedQueue) : Known(x, accepted)
    /\ \A x \in pending : Known(x, accepted)

WriterAtWork ==
    \/ pc[Writer] \in {"unborn", "pop", "drain"}
    \/ pc[Writer] = "exited" /\ error = None

EffectsCounted ==
    /\ decoded + rejected = Len(effects)
    /\ written <= decoded
    /\ expected <= Len(effects)
    /\ WriterAtWork => Len(effects) = expected /\ written = decoded
    /\ counted = Len(accepted) - (IF pc[Main] = "count" THEN 1 ELSE 0)

DataInv ==
    /\ Numbered
    /\ ItemsKnown
    /\ EffectsInReceptionOrder
    /\ EffectsCounted
    /\ NothingLostUnlessFailed

\* The control part is preserved by every action: only a captured failure or
\* the orderly shutdown of stopWorkers() closes a queue.
LEMMA ControlStep == TypeInv /\ ControlInv /\ [Next]_vars => ControlInv'
<1> SUFFICES ASSUME TypeInv, ControlInv, [Next]_vars PROVE ControlInv'
    OBVIOUS
<1> USE PipelineAssumption
    DEF TypeInv, TypeOK, WorkInHand, queueVars, counterVars, writerVars, Goto, Threads,
        ControlInv, FailureCaptured, CauseKnown, ClosedInOrder, Joined, HandsEmpty,
        DecoderExit, WriterExit, Stopping
<1>1. CASE StartWriter
    BY <1>1 DEF dataVars, StartWriter
<1>2. ASSUME NEW d \in Decoders, StartDecoder(d) PROVE ControlInv'
    BY <1>2 DEF dataVars, StartDecoder
<1>3. CASE StartInput
    BY <1>3 DEF dataVars, StartInput
<1>4. CASE SpawnFails
    BY <1>4 DEF dataVars, SpawnFails
<1>5. CASE UnwindJoins
    BY <1>5 DEF dataVars, UnwindJoins
<1>6. ASSUME NEW valid \in Verdicts, TakeSequence(valid) PROVE ControlInv'
    BY <1>6 DEF TakeSequence
<1>7. CASE SubmitAccepted
    BY <1>7 DEF SubmitAccepted
<1>8. CASE SubmitRefused
    BY <1>8 DEF SubmitRefused
<1>9. CASE CountReceived
    BY <1>9 DEF CountReceived
<1>10. CASE InputEnds
    BY <1>10 DEF InputEnds
<1>11. CASE InputThrows
    BY <1>11 DEF InputThrows, Throw, None
<1>12. CASE StopSignal
    BY <1>12 DEF StopSignal
<1>13. ASSUME NEW d \in Decoders, DecoderPop(d) PROVE ControlInv'
    BY <1>13 DEF DecoderPop
<1>14. ASSUME NEW d \in Decoders, DecoderEnds(d) PROVE ControlInv'
    BY <1>14 DEF dataVars, DecoderEnds
<1>15. ASSUME NEW d \in Decoders, DecoderPush(d) PROVE ControlInv'
    BY <1>15 DEF DecoderPush
<1>16. ASSUME NEW d \in Decoders, DecoderDrops(d) PROVE ControlInv'
    BY <1>16 DEF DecoderDrops
<1>17. ASSUME NEW d \in Decoders, DecoderThrows(d) PROVE ControlInv'
    BY <1>17 DEF dataVars, DecoderThrows, Throw, None
<1>18. CASE WriterPop
    BY <1>18, ZenonT(60) DEF WriterPop, Throw, None
<1>19. ASSUME NEW i \in pending, WriterProcess(i) PROVE ControlInv'
    BY <1>19 DEF WriterProcess
<1>20. ASSUME NEW i \in pending, WriterWriteThrows(i) PROVE ControlInv'
    BY <1>20 DEF WriterWriteThrows, Throw, None
<1>21. CASE WriterAwaits
    BY <1>21 DEF dataVars, WriterAwaits
<1>22. CASE WriterGap
    BY <1>22 DEF dataVars, WriterGap, Throw, None
<1>23. CASE WriterFinishes
    BY <1>23 DEF WriterFinishes
<1>24. CASE WriterFinishThrows
    BY <1>24 DEF dataVars, WriterFinishThrows, Throw, None
<1>25. ASSUME NEW t \in Threads, FailCapture(t) PROVE ControlInv'
    BY <1>25 DEF dataVars, FailCapture
<1>26. ASSUME NEW t \in Threads, FailHalt(t) PROVE ControlInv'
    BY <1>26 DEF FailHalt
<1>27. ASSUME NEW t \in Threads, FailCloseRaw(t) PROVE ControlInv'
    BY <1>27 DEF FailCloseRaw
<1>28. ASSUME NEW t \in Threads, FailCloseDecoded(t) PROVE ControlInv'
    BY <1>28 DEF FailCloseDecoded
<1>29. CASE StopCloseRaw
    BY <1>29 DEF StopCloseRaw
<1>30. CASE StopJoinDecoders
    BY <1>30 DEF dataVars, StopJoinDecoders
<1>31. CASE StopCloseDecoded
    BY <1>31 DEF StopCloseDecoded
<1>32. CASE StopJoinWriter
    BY <1>32 DEF dataVars, StopJoinWriter
<1>33. CASE RethrowIfPresent
    BY <1>33 DEF dataVars, RethrowIfPresent
<1>34. CASE UNCHANGED vars
    BY <1>34 DEF dataVars, vars
<1> QED
    BY <1>1, <1>2, <1>3, <1>4, <1>5, <1>6, <1>7, <1>8, <1>9, <1>10, <1>11, <1>12, <1>13,
       <1>14, <1>15, <1>16, <1>17, <1>18, <1>19, <1>20, <1>21, <1>22, <1>23, <1>24, <1>25,
       <1>26, <1>27, <1>28, <1>29, <1>30, <1>31, <1>32, <1>33, <1>34
    DEF Next, MainStep, DecoderStep, WriterStep, EnvironmentStep, Fail, Ended

\* Sequence numbers are reception ranks: submit() draws the next number only
\* after the previous item was accepted, as long as the raw queue is open.
LEMMA NumberedStep == TypeInv /\ Numbered /\ [Next]_vars => Numbered'
<1> SUFFICES ASSUME TypeInv, Numbered, [Next]_vars PROVE Numbered'
    OBVIOUS
<1> USE PipelineAssumption
    DEF TypeInv, TypeOK, WorkInHand, queueVars, counterVars, writerVars, Goto, Threads,
        Numbered
<1>1. CASE StartWriter
    BY <1>1 DEF dataVars, StartWriter
<1>2. ASSUME NEW d \in Decoders, StartDecoder(d) PROVE Numbered'
    BY <1>2 DEF dataVars, StartDecoder
<1>3. CASE StartInput
    BY <1>3 DEF dataVars, StartInput
<1>4. CASE SpawnFails
    BY <1>4 DEF dataVars, SpawnFails
<1>5. CASE UnwindJoins
    BY <1>5 DEF dataVars, UnwindJoins
<1>6. ASSUME NEW valid \in Verdicts, TakeSequence(valid) PROVE Numbered'
    BY <1>6 DEF TakeSequence
<1>7. CASE SubmitAccepted
  <2>1. /\ pc[Main] = "push" /\ ~rawClosed
        /\ work[Main] \in Item
        /\ accepted \in Seq(Item)
        /\ accepted' = Append(accepted, work[Main])
        /\ nextSequence' = nextSequence
        /\ rawClosed' = rawClosed
        /\ pc' = [pc EXCEPT ![Main] = "count"]
      BY <1>7 DEF SubmitAccepted
  <2>2. work[Main].seq = Len(accepted) /\ nextSequence = Len(accepted) + 1
      BY <2>1
  <2>3. Len(accepted') = Len(accepted) + 1
      BY <2>1
  <2>4. \A i \in 1..Len(accepted') : accepted'[i].seq = i - 1
      BY <2>1, <2>2, <2>3
  <2>5. pc'[Main] = "count"
      BY <2>1
  <2> QED
      BY <2>1, <2>2, <2>3, <2>4, <2>5
<1>8. CASE SubmitRefused
    BY <1>8 DEF SubmitRefused
<1>9. CASE CountReceived
    BY <1>9 DEF CountReceived
<1>10. CASE InputEnds
    BY <1>10 DEF InputEnds
<1>11. CASE InputThrows
    BY <1>11 DEF InputThrows, Throw
<1>12. ASSUME NEW d \in Decoders, DecoderPop(d) PROVE Numbered'
    BY <1>12 DEF DecoderPop
<1>13. ASSUME NEW d \in Decoders, DecoderEnds(d) PROVE Numbered'
    BY <1>13 DEF dataVars, DecoderEnds
<1>14. ASSUME NEW d \in Decoders, DecoderPush(d) PROVE Numbered'
    BY <1>14 DEF DecoderPush
<1>15. ASSUME NEW d \in Decoders, DecoderDrops(d) PROVE Numbered'
    BY <1>15 DEF DecoderDrops
<1>16. ASSUME NEW d \in Decoders, DecoderThrows(d) PROVE Numbered'
    BY <1>16 DEF dataVars, DecoderThrows, Throw
<1>17. CASE WriterPop
    BY <1>17 DEF WriterPop, Throw
<1>18. ASSUME NEW i \in pending, WriterWriteThrows(i) PROVE Numbered'
    BY <1>18 DEF WriterWriteThrows, Throw
<1>19. CASE WriterAwaits
    BY <1>19 DEF dataVars, WriterAwaits
<1>20. CASE WriterGap
    BY <1>20 DEF dataVars, WriterGap, Throw
<1>21. CASE WriterFinishes
    BY <1>21 DEF WriterFinishes
<1>22. CASE WriterFinishThrows
    BY <1>22 DEF dataVars, WriterFinishThrows, Throw
<1>23. ASSUME NEW t \in Threads, FailCapture(t) PROVE Numbered'
    BY <1>23 DEF dataVars, FailCapture
<1>24. ASSUME NEW t \in Threads, FailHalt(t) PROVE Numbered'
    BY <1>24 DEF FailHalt
<1>25. ASSUME NEW t \in Threads, FailCloseRaw(t) PROVE Numbered'
    BY <1>25 DEF FailCloseRaw
<1>26. ASSUME NEW t \in Threads, FailCloseDecoded(t) PROVE Numbered'
    BY <1>26 DEF FailCloseDecoded
<1>27. CASE StopCloseRaw
    BY <1>27 DEF StopCloseRaw
<1>28. CASE StopJoinDecoders
    BY <1>28 DEF dataVars, StopJoinDecoders
<1>29. CASE StopCloseDecoded
    BY <1>29 DEF StopCloseDecoded
<1>30. CASE StopJoinWriter
    BY <1>30 DEF dataVars, StopJoinWriter
<1>31. CASE RethrowIfPresent
    BY <1>31 DEF dataVars, RethrowIfPresent
<1>32. CASE UNCHANGED <<pc, rawClosed, nextSequence, work, accepted>>
    BY <1>32
<1> QED
    BY <1>1, <1>2, <1>3, <1>4, <1>5, <1>6, <1>7, <1>8, <1>9, <1>10, <1>11, <1>12, <1>13,
       <1>14, <1>15, <1>16, <1>17, <1>18, <1>19, <1>20, <1>21, <1>22, <1>23, <1>24, <1>25,
       <1>26, <1>27, <1>28, <1>29, <1>30, <1>31, <1>32
    DEF Next, MainStep, DecoderStep, WriterStep, EnvironmentStep, Fail, Ended, vars,
        dataVars, queueVars, counterVars, writerVars, StopSignal, WriterProcess

\* What push and pop do to the elements of a queue.
LEMMA ElementsAppend ==
    ASSUME NEW q \in Seq(Item), NEW x \in Item
    PROVE  Elements(Append(q, x)) = Elements(q) \cup {x}
<1>1. /\ Len(Append(q, x)) = Len(q) + 1
      /\ \A i \in 1 .. Len(q) : Append(q, x)[i] = q[i]
      /\ Append(q, x)[Len(q) + 1] = x
    OBVIOUS
<1>2. 1 .. Len(q) + 1 = (1 .. Len(q)) \cup {Len(q) + 1}
    OBVIOUS
<1> QED
    BY <1>1, <1>2 DEF Elements

\* What a pop leaves in the queue.
LEMMA ElementsTail ==
    ASSUME NEW q \in Seq(Item), q # <<>>
    PROVE  /\ Head(q) \in Item
           /\ Elements(q) = {Head(q)} \cup Elements(Tail(q))
<1>1. /\ Len(Tail(q)) = Len(q) - 1
      /\ Len(q) \in Nat \ {0}
      /\ \A i \in 1 .. Len(q) - 1 : Tail(q)[i] = q[i + 1]
      /\ Head(q) = q[1] /\ Head(q) \in Item
    OBVIOUS
<1>2. ASSUME NEW y \in Elements(q) PROVE y \in {Head(q)} \cup Elements(Tail(q))
    <2>1. PICK i \in 1 .. Len(q) : y = q[i]
        BY <1>2 DEF Elements
    <2>2. CASE i = 1
        BY <1>1, <2>1, <2>2
    <2>3. CASE i # 1
        <3>1. i - 1 \in 1 .. Len(q) - 1 /\ (i - 1) + 1 = i
            BY <1>1, <2>3
        <3>2. y = Tail(q)[i - 1]
            BY <1>1, <2>1, <3>1
        <3> QED
            BY <1>1, <3>1, <3>2 DEF Elements
    <2> QED
        BY <2>2, <2>3
<1>3. ASSUME NEW y \in Elements(Tail(q)) PROVE y \in Elements(q)
    <2>1. PICK i \in 1 .. Len(q) - 1 : y = Tail(q)[i]
        BY <1>1, <1>3 DEF Elements
    <2>2. i + 1 \in 1 .. Len(q) /\ y = q[i + 1]
        BY <1>1, <2>1
    <2> QED
        BY <2>2 DEF Elements
<1>4. Head(q) \in Elements(q)
    BY <1>1 DEF Elements
<1> QED
    BY <1>1, <1>2, <1>3, <1>4

\* A log that grows keeps the items it knows and knows the one it gains.
LEMMA KnownAppend ==
    ASSUME NEW log \in Seq(Item), NEW x \in Item
    PROVE  /\ \A y : Known(y, log) => Known(y, Append(log, x))
           /\ x.seq = Len(log) => Known(x, Append(log, x))
<1>1. /\ Len(Append(log, x)) = Len(log) + 1 /\ Len(log) \in Nat
      /\ \A i \in 1 .. Len(log) : Append(log, x)[i] = log[i]
      /\ Append(log, x)[Len(log) + 1] = x
    OBVIOUS
<1>2. ASSUME NEW y, Known(y, log) PROVE Known(y, Append(log, x))
    <2>1. y.seq + 1 \in 1 .. Len(log) /\ y.seq \in 0 .. Len(log)
        BY <1>1, <1>2 DEF Known
    <2> QED
        BY <1>1, <1>2, <2>1 DEF Known
<1>3. x.seq = Len(log) => Known(x, Append(log, x))
    BY <1>1 DEF Known
<1> QED
    BY <1>2, <1>3

\* The placeholder of an empty hand is not a work item.
LEMMA NoWorkIsNoItem == NoWork \notin Item /\ NoWork.seq = -1
BY PipelineAssumption DEF NoWork, Item

\* Every item under way is one that was accepted, unchanged: the queues, the
\* decoders and the reorder map only move items.
LEMMA ItemsKnownStep == TypeInv /\ Numbered /\ ItemsKnown /\ [Next]_vars => ItemsKnown'
<1> SUFFICES ASSUME TypeInv, Numbered, ItemsKnown, [Next]_vars PROVE ItemsKnown'
    OBVIOUS
<1> USE PipelineAssumption
    DEF TypeInv, TypeOK, WorkInHand, queueVars, counterVars, writerVars, Goto, Threads,
        Numbered, ItemsKnown
<1>1. ASSUME NEW valid \in Verdicts, TakeSequence(valid) PROVE ItemsKnown'
    BY <1>1 DEF TakeSequence
<1>2. CASE SubmitAccepted
    <2>1. work[Main] \in Item /\ work[Main].seq = Len(accepted)
        BY <1>2 DEF SubmitAccepted
    <2>2. /\ \A x : Known(x, accepted) => Known(x, accepted')
          /\ Known(work[Main], accepted')
        BY <1>2, <2>1, KnownAppend DEF SubmitAccepted
    <2>3. Elements(rawQueue') = Elements(rawQueue) \cup {work[Main]}
        BY <1>2, <2>1, ElementsAppend DEF SubmitAccepted
    <2>4. /\ \A d \in Decoders : work'[d] = work[d]
          /\ decodedQueue' = decodedQueue /\ pending' = pending
        BY <1>2 DEF SubmitAccepted
    <2> QED
        BY <2>2, <2>3, <2>4
<1>3. CASE SubmitRefused
    BY <1>3 DEF SubmitRefused
<1>4. CASE InputThrows
    BY <1>4 DEF InputThrows, Throw
<1>5. ASSUME NEW d \in Decoders, DecoderPop(d) PROVE ItemsKnown'
    <2>1. Elements(rawQueue) = {Head(rawQueue)} \cup Elements(rawQueue')
        BY <1>5, ElementsTail DEF DecoderPop
    <2>2. /\ work'[d] = Head(rawQueue)
          /\ \A e \in Decoders : e # d => work'[e] = work[e]
          /\ accepted' = accepted /\ decodedQueue' = decodedQueue /\ pending' = pending
        BY <1>5 DEF DecoderPop
    <2> QED
        BY <2>1, <2>2
<1>6. ASSUME NEW d \in Decoders, DecoderPush(d) PROVE ItemsKnown'
    <2>1. work[d] \in Item /\ Known(work[d], accepted)
        BY <1>6, NoWorkIsNoItem DEF DecoderPush
    <2>2. Elements(decodedQueue') = Elements(decodedQueue) \cup {work[d]}
        BY <1>6, <2>1, ElementsAppend DEF DecoderPush
    <2>3. /\ work'[d] = NoWork
          /\ \A e \in Decoders : e # d => work'[e] = work[e]
          /\ accepted' = accepted /\ rawQueue' = rawQueue /\ pending' = pending
        BY <1>6 DEF DecoderPush
    <2> QED
        BY <2>1, <2>2, <2>3
<1>7. ASSUME NEW d \in Decoders, DecoderDrops(d) PROVE ItemsKnown'
    BY <1>7 DEF DecoderDrops
<1>8. CASE WriterPop
    <2>1. Elements(decodedQueue) = {Head(decodedQueue)} \cup Elements(decodedQueue')
        BY <1>8, ElementsTail DEF WriterPop
    <2>2. /\ pending' \subseteq pending \cup {Head(decodedQueue)}
          /\ accepted' = accepted /\ rawQueue' = rawQueue /\ work' = work
        BY <1>8 DEF WriterPop
    <2> QED
        BY <2>1, <2>2
<1>9. ASSUME NEW i \in pending, WriterProcess(i) PROVE ItemsKnown'
    BY <1>9 DEF WriterProcess
<1>10. CASE UNCHANGED <<rawQueue, work, decodedQueue, pending, accepted>>
    BY <1>10
<1> QED
    BY <1>1, <1>2, <1>3, <1>4, <1>5, <1>6, <1>7, <1>8, <1>9, <1>10
    DEF dataVars, Next, MainStep, DecoderStep, WriterStep, EnvironmentStep, Fail, Ended, vars,
        queueVars, counterVars, writerVars, StartWriter, StartDecoder, StartInput,
        SpawnFails, UnwindJoins, CountReceived, InputEnds, StopSignal, DecoderEnds,
        DecoderThrows, WriterWriteThrows, WriterAwaits, WriterGap, WriterFinishes,
        WriterFinishThrows, FailCapture, FailHalt, FailCloseRaw, FailCloseDecoded,
        StopCloseRaw, StopJoinDecoders, StopCloseDecoded, StopJoinWriter, RethrowIfPresent,
        Throw

\* Appending the next element of t to its prefix s gives a prefix of t.
LEMMA PrefixExtend ==
    ASSUME NEW s \in Seq(Item), NEW t \in Seq(Item), IsPrefixOf(s, t),
           NEW x \in Item, Known(x, t), x.seq = Len(s)
    PROVE  IsPrefixOf(Append(s, x), t)
<1>1. /\ Len(Append(s, x)) = Len(s) + 1 /\ Len(s) \in Nat /\ Len(t) \in Nat
      /\ \A i \in 1 .. Len(s) : Append(s, x)[i] = s[i]
      /\ Append(s, x)[Len(s) + 1] = x
    OBVIOUS
<1>2. Len(s) + 1 <= Len(t) /\ x = t[Len(s) + 1]
    BY <1>1 DEF Known
<1>3. ASSUME NEW i \in 1 .. Len(s) + 1 PROVE Append(s, x)[i] = t[i]
    <2>1. CASE i \in 1 .. Len(s)
        BY <1>1, <2>1 DEF IsPrefixOf
    <2>2. CASE i = Len(s) + 1
        BY <1>1, <1>2, <2>2
    <2> QED
        BY <1>1, <2>1, <2>2
<1> QED
    BY <1>1, <1>2, <1>3 DEF IsPrefixOf

\* A prefix stays one when the longer sequence grows.
LEMMA PrefixGrow ==
    ASSUME NEW s \in Seq(Item), NEW t \in Seq(Item), IsPrefixOf(s, t), NEW x \in Item
    PROVE  IsPrefixOf(s, Append(t, x))
<1>1. /\ Len(Append(t, x)) = Len(t) + 1 /\ Len(s) \in Nat /\ Len(t) \in Nat
      /\ \A i \in 1 .. Len(t) : Append(t, x)[i] = t[i]
    OBVIOUS
<1>2. \A i \in 1 .. Len(s) : i \in 1 .. Len(t)
    BY <1>1 DEF IsPrefixOf
<1> QED
    BY <1>1, <1>2 DEF IsPrefixOf

\* The writer only ever applies the item whose number it expects, which is the
\* next accepted one.
LEMMA OrderStep ==
    TypeInv /\ ItemsKnown /\ EffectsCounted /\ EffectsInReceptionOrder /\ [Next]_vars
        => EffectsInReceptionOrder'
<1> SUFFICES ASSUME TypeInv, ItemsKnown, EffectsCounted, EffectsInReceptionOrder, [Next]_vars
             PROVE  EffectsInReceptionOrder'
    OBVIOUS
<1> USE PipelineAssumption
    DEF TypeInv, TypeOK, EffectsInReceptionOrder
<1>1. CASE SubmitAccepted
    BY <1>1, PrefixGrow DEF SubmitAccepted, WorkInHand, counterVars, writerVars
<1>2. ASSUME NEW i \in pending, WriterProcess(i) PROVE EffectsInReceptionOrder'
    <2>1. Known(i, accepted) /\ i \in Item /\ i.seq = Len(effects)
        BY <1>2 DEF WriterProcess, ItemsKnown, EffectsCounted, WriterAtWork
    <2> QED
        BY <1>2, <2>1, PrefixExtend DEF WriterProcess
<1>3. ASSUME NEW i \in pending, WriterWriteThrows(i) PROVE EffectsInReceptionOrder'
    <2>1. Known(i, accepted) /\ i \in Item /\ i.seq = Len(effects)
        BY <1>3 DEF WriterWriteThrows, ItemsKnown, EffectsCounted, WriterAtWork
    <2> QED
        BY <1>3, <2>1, PrefixExtend DEF WriterWriteThrows
<1>4. CASE UNCHANGED <<effects, accepted>>
    BY <1>4
<1> QED
    BY <1>1, <1>2, <1>3, <1>4
    DEF dataVars, Next, MainStep, DecoderStep, WriterStep, EnvironmentStep, Fail, Ended, vars,
        queueVars, counterVars, writerVars, StartWriter, StartDecoder, StartInput,
        SpawnFails, UnwindJoins, TakeSequence, SubmitRefused, CountReceived, InputEnds,
        InputThrows, StopSignal, DecoderPop, DecoderEnds, DecoderPush, DecoderDrops,
        DecoderThrows, WriterPop, WriterAwaits, WriterGap, WriterFinishes,
        WriterFinishThrows, FailCapture, FailHalt, FailCloseRaw, FailCloseDecoded,
        StopCloseRaw, StopJoinDecoders, StopCloseDecoded, StopJoinWriter, RethrowIfPresent,
        Throw

\* The counters follow the histories; only a writer that failed to write a row
\* leaves decoded_ ahead of written_.
LEMMA CountStep == TypeInv /\ ControlInv /\ EffectsCounted /\ [Next]_vars => EffectsCounted'
<1> SUFFICES ASSUME TypeInv, ControlInv, EffectsCounted, [Next]_vars PROVE EffectsCounted'
    OBVIOUS
<1> USE PipelineAssumption
    DEF TypeInv, TypeOK, WorkInHand, queueVars, counterVars, writerVars, Goto, Threads,
        ControlInv, FailureCaptured, EffectsCounted, WriterAtWork
<1>1. CASE StartWriter
    BY <1>1 DEF dataVars, StartWriter
<1>2. ASSUME NEW d \in Decoders, StartDecoder(d) PROVE EffectsCounted'
    BY <1>2 DEF dataVars, StartDecoder
<1>3. CASE StartInput
    BY <1>3 DEF dataVars, StartInput
<1>4. CASE SpawnFails
    BY <1>4 DEF dataVars, SpawnFails
<1>5. CASE UnwindJoins
    BY <1>5 DEF dataVars, UnwindJoins
<1>6. CASE SubmitAccepted
    <2>1. Len(accepted') = Len(accepted) + 1
        BY <1>6 DEF SubmitAccepted
    <2> QED
        BY <1>6, <2>1 DEF SubmitAccepted
<1>7. ASSUME NEW i \in pending, WriterProcess(i) PROVE EffectsCounted'
    <2>1. Len(effects') = Len(effects) + 1
        BY <1>7 DEF WriterProcess
    <2>2. CASE i.valid
        BY <1>7, <2>1, <2>2 DEF WriterProcess
    <2>3. CASE ~i.valid
        BY <1>7, <2>1, <2>3 DEF WriterProcess
    <2> QED
        BY <2>2, <2>3
<1>8. ASSUME NEW valid \in Verdicts, TakeSequence(valid) PROVE EffectsCounted'
    BY <1>8 DEF TakeSequence
<1>9. CASE SubmitRefused
    BY <1>9 DEF SubmitRefused
<1>10. CASE CountReceived
    BY <1>10 DEF CountReceived
<1>11. CASE InputEnds
    BY <1>11 DEF InputEnds
<1>12. CASE InputThrows
    BY <1>12 DEF InputThrows, None, Throw
<1>13. ASSUME NEW d \in Decoders, DecoderPop(d) PROVE EffectsCounted'
    BY <1>13 DEF DecoderPop
<1>14. ASSUME NEW d \in Decoders, DecoderEnds(d) PROVE EffectsCounted'
    BY <1>14 DEF dataVars, DecoderEnds
<1>15. ASSUME NEW d \in Decoders, DecoderPush(d) PROVE EffectsCounted'
    BY <1>15 DEF DecoderPush
<1>16. ASSUME NEW d \in Decoders, DecoderDrops(d) PROVE EffectsCounted'
    BY <1>16 DEF DecoderDrops
<1>17. ASSUME NEW d \in Decoders, DecoderThrows(d) PROVE EffectsCounted'
    BY <1>17 DEF dataVars, DecoderThrows, None, Throw
<1>18. CASE WriterPop
    BY <1>18 DEF WriterPop, None, Throw
<1>19. ASSUME NEW i \in pending, WriterWriteThrows(i) PROVE EffectsCounted'
    BY <1>19 DEF WriterWriteThrows, None, Throw
<1>20. CASE WriterAwaits
    BY <1>20 DEF dataVars, WriterAwaits
<1>21. CASE WriterGap
    BY <1>21 DEF dataVars, WriterGap, None, Throw
<1>22. CASE WriterFinishes
    BY <1>22 DEF WriterFinishes
<1>23. CASE WriterFinishThrows
    BY <1>23 DEF dataVars, WriterFinishThrows, None, Throw
<1>24. ASSUME NEW t \in Threads, FailCapture(t) PROVE EffectsCounted'
    BY <1>24 DEF dataVars, FailCapture
<1>25. ASSUME NEW t \in Threads, FailHalt(t) PROVE EffectsCounted'
    BY <1>25 DEF FailHalt
<1>26. ASSUME NEW t \in Threads, FailCloseRaw(t) PROVE EffectsCounted'
    BY <1>26 DEF FailCloseRaw
<1>27. ASSUME NEW t \in Threads, FailCloseDecoded(t) PROVE EffectsCounted'
    BY <1>27 DEF FailCloseDecoded
<1>28. CASE StopCloseRaw
    BY <1>28 DEF StopCloseRaw
<1>29. CASE StopJoinDecoders
    BY <1>29 DEF dataVars, StopJoinDecoders
<1>30. CASE StopCloseDecoded
    BY <1>30 DEF StopCloseDecoded
<1>31. CASE StopJoinWriter
    BY <1>31 DEF dataVars, StopJoinWriter
<1>32. CASE RethrowIfPresent
    BY <1>32 DEF dataVars, RethrowIfPresent
<1>33. CASE UNCHANGED <<pc, effects, decoded, rejected, written, counted, accepted,
                        expected, error>>
    BY <1>33
<1> QED
    BY <1>1, <1>2, <1>3, <1>4, <1>5, <1>6, <1>7, <1>8, <1>9, <1>10, <1>11, <1>12, <1>13,
       <1>14, <1>15, <1>16, <1>17, <1>18, <1>19, <1>20, <1>21, <1>22, <1>23, <1>24, <1>25,
       <1>26, <1>27, <1>28, <1>29, <1>30, <1>31, <1>32, <1>33
    DEF Next, MainStep, DecoderStep, WriterStep, EnvironmentStep, Fail, Ended, vars,
        dataVars, queueVars, counterVars, writerVars, StopSignal

\* Each action that takes an accepted item out of one place puts it into the
\* next; a decoder drops a result only on a closed queue, which without a
\* failure is closed after the decoders are gone.
LEMMA LossStep ==
    TypeInv /\ ControlInv /\ Numbered /\ NothingLostUnlessFailed /\ [Next]_vars
        => NothingLostUnlessFailed'
<1> SUFFICES ASSUME TypeInv, ControlInv, Numbered, NothingLostUnlessFailed, [Next]_vars
             PROVE  NothingLostUnlessFailed'
    OBVIOUS
<1> USE PipelineAssumption
    DEF TypeInv, TypeOK, NothingLostUnlessFailed, InFlight
<1>1. ASSUME NEW valid \in Verdicts, TakeSequence(valid) PROVE NothingLostUnlessFailed'
    <2>1. \A d \in Decoders : work'[d] = work[d]
        BY <1>1 DEF TakeSequence, Threads
    <2> QED
        BY <1>1, <2>1 DEF TakeSequence, queueVars, counterVars, writerVars
<1>2. CASE SubmitAccepted
    <2>1. work[Main] \in Item /\ work[Main].seq = Len(accepted)
        BY <1>2 DEF SubmitAccepted, WorkInHand, Numbered
    <2>2. Elements(rawQueue') = Elements(rawQueue) \cup {work[Main]}
        BY <1>2, <2>1, ElementsAppend DEF SubmitAccepted
    <2>3. /\ \A d \in Decoders : work'[d] = work[d]
          /\ UNCHANGED <<decodedQueue, pending, expected, error>>
        BY <1>2 DEF SubmitAccepted, Threads, writerVars
    <2>4. Len(accepted') = Len(accepted) + 1 /\ Len(accepted) \in Nat
        BY <1>2 DEF SubmitAccepted
    <2> SUFFICES ASSUME error' = None, NEW s \in 0 .. Len(accepted') - 1
                 PROVE  s < expected' \/ InFlight(s)'
        OBVIOUS
    <2>5. CASE s = Len(accepted)
        BY <2>1, <2>2, <2>5
    <2>6. CASE s # Len(accepted)
        <3>1. s \in 0 .. Len(accepted) - 1
            BY <2>4, <2>6
        <3>2. s < expected \/ InFlight(s)
            BY <2>3, <3>1
        <3> QED
            BY <2>2, <2>3, <3>2
    <2> QED
        BY <2>5, <2>6
<1>3. CASE SubmitRefused
    <2>1. \A d \in Decoders : work'[d] = work[d]
        BY <1>3 DEF SubmitRefused, Threads
    <2> QED
        BY <1>3, <2>1 DEF SubmitRefused, queueVars, counterVars, writerVars
<1>4. CASE InputThrows
    <2>1. \A d \in Decoders : work'[d] = work[d]
        BY <1>4 DEF InputThrows, Threads
    <2> QED
        BY <1>4, <2>1 DEF InputThrows, queueVars, counterVars, writerVars
<1>5. ASSUME NEW d \in Decoders, DecoderPop(d) PROVE NothingLostUnlessFailed'
    <2>1. Elements(rawQueue) = {Head(rawQueue)} \cup Elements(rawQueue')
        BY <1>5, ElementsTail DEF DecoderPop
    <2>2. /\ work'[d] = Head(rawQueue)
          /\ \A e \in Decoders : e # d => work'[e] = work[e]
          /\ UNCHANGED <<decodedQueue, pending, expected, error, accepted>>
        BY <1>5 DEF DecoderPop, Threads, writerVars
    <2>3. work[d] = NoWork
        BY <1>5 DEF DecoderPop, ControlInv, HandsEmpty
    <2> SUFFICES ASSUME error' = None, NEW s \in 0 .. Len(accepted') - 1
                 PROVE  s < expected' \/ InFlight(s)'
        OBVIOUS
    <2>4. s < expected \/ InFlight(s)
        BY <2>2
    <2>5. work[d].seq # s
        BY <2>3, NoWorkIsNoItem
    <2> QED
        BY <2>1, <2>2, <2>4, <2>5
<1>6. ASSUME NEW d \in Decoders, DecoderPush(d) PROVE NothingLostUnlessFailed'
    <2>1. Elements(decodedQueue') = Elements(decodedQueue) \cup {work[d]}
        BY <1>6, ElementsAppend DEF DecoderPush, WorkInHand
    <2>2. /\ \A e \in Decoders : e # d => work'[e] = work[e]
          /\ UNCHANGED <<rawQueue, pending, expected, error, accepted>>
        BY <1>6 DEF DecoderPush, Threads, writerVars
    <2>3. \A s : InFlight(s) => InFlight(s)'
        BY <2>1, <2>2
    <2> QED
        BY <2>2, <2>3
<1>7. ASSUME NEW d \in Decoders, DecoderDrops(d) PROVE NothingLostUnlessFailed'
    <2>1. error # None
        BY <1>7 DEF DecoderDrops, ControlInv, ClosedInOrder, Joined, Stopping
    <2> QED
        BY <1>7, <2>1 DEF DecoderDrops
<1>8. CASE WriterPop
    <2>1. Elements(decodedQueue) = {Head(decodedQueue)} \cup Elements(decodedQueue')
        BY <1>8, ElementsTail DEF WriterPop
    <2>2. UNCHANGED <<rawQueue, work, expected, error, accepted>>
        BY <1>8 DEF WriterPop
    <2>3. pending \subseteq pending' /\ \E i \in pending' : i.seq = Head(decodedQueue).seq
        BY <1>8 DEF WriterPop
    <2> QED
        BY <2>1, <2>2, <2>3
<1>9. ASSUME NEW i \in pending, WriterProcess(i) PROVE NothingLostUnlessFailed'
    <2>1. /\ UNCHANGED <<rawQueue, work, decodedQueue, error, accepted>>
          /\ expected' = expected + 1 /\ pending' = pending \ {i} /\ i.seq = expected
        BY <1>9 DEF WriterProcess, queueVars
    <2> SUFFICES ASSUME error' = None, NEW s \in 0 .. Len(accepted') - 1
                 PROVE  s < expected' \/ InFlight(s)'
        OBVIOUS
    <2>2. s < expected \/ InFlight(s)
        BY <2>1
    <2>3. CASE s = expected
        BY <2>1, <2>3
    <2>4. CASE s # expected
        BY <2>1, <2>2, <2>4
    <2> QED
        BY <2>3, <2>4
<1>10. CASE UNCHANGED <<rawQueue, work, decodedQueue, pending, expected, error, accepted>>
    BY <1>10
<1> QED
    BY <1>1, <1>2, <1>3, <1>4, <1>5, <1>6, <1>7, <1>8, <1>9, <1>10
    DEF dataVars, Next, MainStep, DecoderStep, WriterStep, EnvironmentStep, Fail, Ended, vars,
        queueVars, counterVars, writerVars, StartWriter, StartDecoder, StartInput,
        SpawnFails, UnwindJoins, CountReceived, InputEnds, StopSignal, DecoderEnds,
        DecoderThrows, WriterWriteThrows, WriterAwaits, WriterGap, WriterFinishes,
        WriterFinishThrows, FailCapture, FailHalt, FailCloseRaw, FailCloseDecoded,
        StopCloseRaw, StopJoinDecoders, StopCloseDecoded, StopJoinWriter, RethrowIfPresent,
        Throw

-----------------------------------------------------------------------------
(* The invariant and what follows from it *)

PipelineInv == TypeInv /\ ControlInv /\ DataInv

\* The three parts of the inductive invariant hold together in every run.
LEMMA PipelineInvariance == Spec => []PipelineInv
<1>1. Init => ControlInv
    BY PipelineAssumption
    DEF Init, Threads, ControlInv, FailureCaptured, CauseKnown, ClosedInOrder, Joined,
        HandsEmpty, DecoderExit, WriterExit, Stopping
<1>2. Init => DataInv
    <2> SUFFICES ASSUME Init PROVE DataInv
        OBVIOUS
    <2>1. /\ Len(accepted) = 0 /\ Len(effects) = 0
          /\ Elements(rawQueue) = {} /\ Elements(decodedQueue) = {}
        BY DEF Init, Elements
    <2>2. /\ pc[Main] = "start"
          /\ \A d \in Decoders : work[d] = NoWork
        BY DEF Init, Threads
    <2>3. Numbered
        BY <2>1, <2>2 DEF Init, Numbered
    <2>4. ItemsKnown
        BY <2>1, <2>2 DEF Init, ItemsKnown
    <2>5. EffectsInReceptionOrder
        BY <2>1 DEF EffectsInReceptionOrder, IsPrefixOf
    <2>6. EffectsCounted
        BY <2>1, <2>2 DEF Init, EffectsCounted
    <2>7. NothingLostUnlessFailed
        BY <2>1 DEF NothingLostUnlessFailed
    <2> QED
        BY <2>3, <2>4, <2>5, <2>6, <2>7 DEF DataInv
<1>3. PipelineInv /\ [Next]_vars => ControlInv' /\ DataInv'
    BY ControlStep, NumberedStep, ItemsKnownStep, OrderStep, CountStep, LossStep
    DEF PipelineInv, DataInv
<1> QED
    BY <1>1, <1>2, <1>3, TypeInvariance, PTL DEF Spec, PipelineInv

\* For any number of decoders and any interleaving, the effects are those of
\* the received frames in reception order (writerLoop 88-142).
THEOREM OrderTheorem == Spec => []EffectsInReceptionOrder
<1>1. PipelineInv => EffectsInReceptionOrder
    BY DEF PipelineInv, DataInv
<1> QED
    BY <1>1, PipelineInvariance, PTL

\* No accepted frame disappears between submit() and the writer unless an
\* exception was captured.
THEOREM NothingLostTheorem == Spec => []NothingLostUnlessFailed
<1>1. PipelineInv => NothingLostUnlessFailed
    BY DEF PipelineInv, DataInv
<1> QED
    BY <1>1, PipelineInvariance, PTL

\* The orderly shutdown closes the decoded queue only when no decoder can still
\* push a result (stopWorkers 99-112).
LEMMA ShutdownFact == PipelineInv => ShutdownOrder
<1> SUFFICES ASSUME PipelineInv, decodedClosed, error = None
             PROVE  /\ rawClosed /\ rawQueue = <<>>
                    /\ \A d \in Decoders : pc[d] = "exited" /\ work[d] = NoWork
    BY DEF ShutdownOrder
<1>1. \A d \in Decoders : pc[d] = "exited"
    BY DEF PipelineInv, ControlInv, ClosedInOrder, Joined, Stopping
<1> QED
    BY <1>1, PipelineAssumption DEF PipelineInv, ControlInv, DecoderExit

\* The raw queue is closed and drained before the decoded queue, in every run
\* without a captured failure.
THEOREM ShutdownTheorem == Spec => []ShutdownOrder
BY ShutdownFact, PipelineInvariance, PTL

\* A normal return of run() means that every accepted frame was processed and
\* that the counters of the summary agree: the deepest consequence of the
\* shutdown order together with the conservation of items.
LEMMA CompleteFact == PipelineInv => CompleteOnReturn
<1> SUFFICES ASSUME PipelineInv, pc[Main] = "returned"
             PROVE  /\ finished
                    /\ effects = accepted
                    /\ counted = Len(accepted)
                    /\ decoded + rejected = counted
                    /\ written = decoded
    BY DEF CompleteOnReturn
<1> USE DEF PipelineInv, TypeInv, TypeOK
<1>1. error = None /\ pc[Writer] = "exited" /\ \A d \in Decoders : pc[d] = "exited"
    BY DEF ControlInv, Joined, Stopping
<1>2. decodedClosed /\ decodedQueue = <<>> /\ pending = {} /\ finished
    BY <1>1 DEF ControlInv, WriterExit
<1>3. rawQueue = <<>> /\ \A d \in Decoders : work[d] = NoWork
    BY <1>1, <1>2, ShutdownFact DEF ShutdownOrder
<1>4. Len(effects) = expected /\ written = decoded /\ decoded + rejected = Len(effects)
      /\ counted = Len(accepted)
    BY <1>1 DEF DataInv, EffectsCounted, WriterAtWork
<1>5. \A s \in 0 .. Len(accepted) - 1 : s < expected
    <2> SUFFICES ASSUME NEW s \in 0 .. Len(accepted) - 1 PROVE ~InFlight(s)
        BY <1>1 DEF DataInv, NothingLostUnlessFailed
    <2>1. Elements(rawQueue) = {} /\ Elements(decodedQueue) = {}
        BY <1>2, <1>3 DEF Elements
    <2>2. \A d \in Decoders : work[d].seq # s
        BY <1>3, NoWorkIsNoItem
    <2> QED
        BY <1>2, <2>1, <2>2 DEF InFlight
<1>6. Len(effects) = Len(accepted)
    <2>1. Len(effects) <= Len(accepted)
        BY DEF DataInv, EffectsInReceptionOrder, IsPrefixOf
    <2>2. CASE Len(accepted) = 0
        BY <2>1, <2>2
    <2>3. CASE Len(accepted) # 0
        <3>0. Len(accepted) - 1 \in 0 .. Len(accepted) - 1
            BY <2>3
        <3>1. Len(accepted) - 1 < expected
            BY <1>5, <3>0
        <3> QED
            BY <1>4, <2>1, <3>1
    <2> QED
        BY <2>2, <2>3
<1>7. effects = accepted
    BY <1>6, SMTT(30) DEF DataInv, EffectsInReceptionOrder, IsPrefixOf
<1> QED
    BY <1>2, <1>4, <1>6, <1>7

\* run() returns normally only after a complete, finalised export whose counters
\* agree (run 57-71, stopWorkers 99-122).
THEOREM CompleteTheorem == Spec => []CompleteOnReturn
BY CompleteFact, PipelineInvariance, PTL

\* The counters of the status line never run ahead of the receptions by more
\* than the frame main is about to count.
THEOREM CountersTheorem == Spec => []CountersLagByAtMostOne
<1>1. PipelineInv => CountersLagByAtMostOne
    <2> SUFFICES ASSUME PipelineInv PROVE CountersLagByAtMostOne
        OBVIOUS
    <2>1. Len(effects) <= Len(accepted) /\ Len(effects) \in Nat /\ Len(accepted) \in Nat
        BY DEF PipelineInv, TypeInv, TypeOK, DataInv, EffectsInReceptionOrder, IsPrefixOf
    <2> QED
        BY <2>1 DEF PipelineInv, TypeInv, TypeOK, DataInv, EffectsCounted, CountersLagByAtMostOne
<1> QED
    BY <1>1, PipelineInvariance, PTL

-----------------------------------------------------------------------------
(* Refinement *)

\* Every step of the pipeline is a step of the ordered export or changes
\* nothing that it shows: acceptance is the push to the raw queue, the effect is
\* the writer's turn for the expected number, completion is the normal return.
LEMMA ExportStep == PipelineInv /\ PipelineInv' /\ [Next]_vars => [Export!Next]_(Export!exportVars)
<1> SUFFICES ASSUME PipelineInv, PipelineInv', [Next]_vars
             PROVE  [Export!Next]_(Export!exportVars)
    OBVIOUS
<1> USE PipelineAssumption DEF Export!exportVars
<1>0. /\ TypeInv /\ ControlInv /\ DataInv /\ TypeOK
      /\ Main \in Threads /\ Writer \in Threads /\ Main # Writer
      /\ \A d \in Decoders : d \in Threads /\ d # Main /\ d # Writer
    BY DEF PipelineInv, TypeInv, Threads
<1>1. ASSUME UNCHANGED <<effects, accepted>>,
             pc'[Main] \notin {"returned", "threw"}, pc[Main] \notin {"returned", "threw"}
      PROVE  UNCHANGED Export!exportVars
    BY <1>1 DEF Status
<1>2. ASSUME UNCHANGED <<effects, accepted>>, pc'[Main] = pc[Main]
      PROVE  UNCHANGED Export!exportVars
    BY <1>2 DEF Status
<1>3. CASE SubmitAccepted
    <2>1. work[Main] \in Item
        BY <1>0, <1>3 DEF SubmitAccepted, TypeInv, WorkInHand
    <2>2. Status = "open" /\ Status' = "open"
        BY <1>0, <1>3 DEF SubmitAccepted, Status, Goto, TypeOK
    <2>3. Export!Accept(work[Main])
        BY <1>3, <2>2 DEF SubmitAccepted, Export!Accept, writerVars
    <2> QED
        BY <2>1, <2>3 DEF Export!Next
<1>4. ASSUME NEW i \in pending, i.seq = expected, pc[Writer] = "drain",
             effects' = Append(effects, i), accepted' = accepted, pc'[Main] = pc[Main]
      PROVE  Export!Next
    <2>1. Len(effects) = expected
        BY <1>0, <1>4 DEF DataInv, EffectsCounted, WriterAtWork
    <2>2. Len(effects) < Len(accepted) /\ i = accepted[Len(effects) + 1]
        BY <1>0, <1>4, <2>1 DEF DataInv, ItemsKnown, Known, TypeOK
    <2>3. Status = "open" /\ Status' = "open"
        BY <1>0, <1>4 DEF ControlInv, Joined, Status
    <2>4. Export!Apply
        BY <1>4, <2>2, <2>3 DEF Export!Apply
    <2> QED
        BY <2>4 DEF Export!Next
<1>5. ASSUME NEW i \in pending, WriterProcess(i) PROVE Export!Next
    BY <1>4, <1>5 DEF WriterProcess
<1>6. ASSUME NEW i \in pending, WriterWriteThrows(i) PROVE Export!Next
    <2>1. pc'[Main] = pc[Main]
        BY <1>0, <1>6 DEF WriterWriteThrows, Throw, Goto, TypeOK
    <2> QED
        BY <1>4, <1>6, <2>1 DEF WriterWriteThrows
<1>7. CASE RethrowIfPresent
    <2>1. Status = "open" /\ UNCHANGED <<effects, accepted, error>>
        BY <1>7 DEF dataVars, RethrowIfPresent, Status, writerVars
    <2>2. CASE error = None
        <3>1. pc'[Main] = "returned" /\ Status' = "complete"
            BY <1>0, <1>7, <2>2 DEF RethrowIfPresent, Goto, Status, TypeOK
        <3>2. CompleteOnReturn'
            BY CompleteFact, PTL
        <3>3. effects' = accepted'
            BY <3>1, <3>2 DEF CompleteOnReturn
        <3>4. Export!Complete
            BY <2>1, <3>1, <3>3 DEF Export!Complete
        <3> QED
            BY <3>4 DEF Export!Next
    <2>3. CASE error # None
        <3>1. Status' = "failed"
            BY <1>0, <1>7, <2>3 DEF RethrowIfPresent, Goto, Status, TypeOK
        <3> QED
            BY <2>1, <3>1 DEF Export!Fail, Export!Next
    <2> QED
        BY <2>2, <2>3
<1>8. CASE UnwindJoins
    <2>1. Status = "open" /\ Status' = "failed"
        BY <1>0, <1>8 DEF UnwindJoins, Goto, Status, TypeOK
    <2> QED
        BY <1>8, <2>1 DEF dataVars, UnwindJoins, writerVars, Export!Fail, Export!Next
<1>9. CASE \/ StartInput \/ SpawnFails
           \/ (\E valid \in Verdicts : TakeSequence(valid))
           \/ SubmitRefused \/ CountReceived \/ InputEnds \/ InputThrows
           \/ StopCloseRaw \/ StopJoinDecoders \/ StopCloseDecoded \/ StopJoinWriter
    BY <1>0, <1>1, <1>9
    DEF dataVars, StartInput, SpawnFails, TakeSequence, SubmitRefused, CountReceived, InputEnds,
        InputThrows, StopCloseRaw, StopJoinDecoders, StopCloseDecoded, StopJoinWriter,
        Throw, Goto, TypeOK, writerVars
<1>10. CASE \/ StartWriter \/ StopSignal
            \/ WriterPop \/ WriterAwaits \/ WriterGap \/ WriterFinishes \/ WriterFinishThrows
    BY <1>0, <1>2, <1>10
    DEF dataVars, StartWriter, StopSignal, WriterPop, WriterAwaits, WriterGap, WriterFinishes,
        WriterFinishThrows, Throw, Goto, TypeOK, writerVars
<1>11. ASSUME NEW d \in Decoders,
              \/ StartDecoder(d) \/ DecoderPop(d) \/ DecoderEnds(d) \/ DecoderPush(d)
              \/ DecoderDrops(d) \/ DecoderThrows(d)
       PROVE  UNCHANGED Export!exportVars
    BY <1>0, <1>2, <1>11
    DEF dataVars, StartDecoder, DecoderPop, DecoderEnds, DecoderPush, DecoderDrops, DecoderThrows,
        Throw, Goto, TypeOK, writerVars
<1>12. ASSUME NEW t \in Threads, Fail(t) PROVE UNCHANGED Export!exportVars
    <2>1. UNCHANGED <<effects, accepted>>
        BY <1>12
        DEF dataVars, Fail, FailCapture, FailHalt, FailCloseRaw, FailCloseDecoded,
            writerVars
    <2>2. CASE t = Main
        BY <1>0, <1>1, <1>12, <2>1, <2>2
        DEF Fail, FailCapture, FailHalt, FailCloseRaw, FailCloseDecoded, Goto, TypeOK
    <2>3. CASE t # Main
        BY <1>0, <1>2, <1>12, <2>1, <2>3
        DEF Fail, FailCapture, FailHalt, FailCloseRaw, FailCloseDecoded, Goto, TypeOK
    <2> QED
        BY <2>2, <2>3
<1>13. CASE UNCHANGED vars
    BY <1>2, <1>13 DEF dataVars, vars, writerVars
<1> QED
    BY <1>0, <1>3, <1>5, <1>6, <1>7, <1>8, <1>9, <1>10, <1>11, <1>12, <1>13
    DEF Next, MainStep, DecoderStep, WriterStep, EnvironmentStep, Ended

\* The pipeline implements the ordered export: parallel decoding, bounded queues
\* and the shutdown protocol cannot alter the visible results, and success means
\* that nothing is missing (TECHNICAL_DESIGN.md section 8).
THEOREM ImplementsOrderedExportTheorem == Spec => ImplementsOrderedExport
<1>1. Init => Export!Init
    BY PipelineAssumption DEF Init, Export!Init, Status, Threads
<1> QED
    BY <1>1, ExportStep, PipelineInvariance, PTL DEF Spec, ImplementsOrderedExport, Export!Spec

-----------------------------------------------------------------------------
(* Each item is in one place *)

\* The raw queue is in reception order and everything that has left it is older
\* than what it still holds; in the rest of the pipeline no number is twice
\* there, and none is below the one the writer expects.
Ascending(q) == \A i, j \in 1 .. Len(q) : i < j => q[i].seq < q[j].seq
Distinct(q) == \A i, j \in 1 .. Len(q) : i # j => q[i].seq # q[j].seq

RawIsLatest ==
    /\ Ascending(rawQueue)
    /\ \A x \in Elements(rawQueue) :
           /\ \A d \in Decoders : work[d].seq < x.seq
           /\ \A y \in Elements(decodedQueue) \cup pending : y.seq < x.seq

OnePlace ==
    /\ Distinct(decodedQueue)
    /\ \A d, e \in Decoders : d # e /\ work[d] # NoWork => work[d].seq # work[e].seq
    /\ \A x \in Elements(decodedQueue) :
           /\ \A d \in Decoders : work[d].seq # x.seq
           /\ \A y \in pending : y.seq # x.seq
    /\ \A y \in pending, d \in Decoders : work[d].seq # y.seq

NotYetExpected ==
    /\ \A x \in Elements(rawQueue) \cup Elements(decodedQueue) \cup pending : expected <= x.seq
    /\ \A d \in Decoders : work[d] # NoWork => expected <= work[d].seq

\* The writer goes back to pop() only when the expected item is missing.
WriterDrained ==
    /\ pc[Writer] = "unborn" => pending = {}
    /\ pc[Writer] = "pop" => \A x \in pending : x.seq # expected

\* Before any capture, no thread handles one of the two consistency errors.
RootCauses ==
    \A t \in Threads : pc[t] = "capture" /\ error = None => cause[t] \notin {"duplicate", "gap"}

OnceInv ==
    /\ RawIsLatest /\ OnePlace /\ NotYetExpected
    /\ WriterDrained /\ RootCauses /\ RootCauseReported

\* Every item has a reception number, and NoWork is not one of them.
LEMMA ItemType == \A x \in Item : x.seq \in Nat /\ x.seq # NoWork.seq
BY PipelineAssumption DEF Item, NoWork

\* The same for the items in a queue.
LEMMA ElementsType ==
    ASSUME NEW q \in Seq(Item)
    PROVE  \A x \in Elements(q) : x \in Item /\ x.seq \in Nat
<1>1. \A x \in Elements(q) : x \in Item
    BY DEF Elements
<1> QED
    BY <1>1, ItemType

\* A pop moves every other item one place forward.
LEMMA TailIndex ==
    ASSUME NEW q \in Seq(Item), q # <<>>
    PROVE  /\ Head(q) = q[1] /\ 1 \in 1 .. Len(q) /\ Len(q) \in Nat
           /\ \A i \in 1 .. Len(Tail(q)) :
                  i + 1 \in 1 .. Len(q) /\ i + 1 # 1 /\ 1 < i + 1 /\ Tail(q)[i] = q[i + 1]
<1>1. /\ Len(Tail(q)) = Len(q) - 1
      /\ Len(q) \in Nat \ {0}
      /\ \A i \in 1 .. Len(q) - 1 : Tail(q)[i] = q[i + 1]
      /\ Head(q) = q[1]
    OBVIOUS
<1> QED
    BY <1>1

\* A queue in reception order stays so after a pop, which takes the oldest item.
LEMMA AscendingTail ==
    ASSUME NEW q \in Seq(Item), q # <<>>, Ascending(q)
    PROVE  /\ Ascending(Tail(q))
           /\ \A x \in Elements(Tail(q)) : Head(q).seq < x.seq
<1>1. \A i, j \in 1 .. Len(Tail(q)) : i < j => i + 1 < j + 1
    OBVIOUS
<1>2. Ascending(Tail(q))
    BY <1>1, TailIndex DEF Ascending
<1>3. \A i \in 1 .. Len(Tail(q)) : Head(q).seq < Tail(q)[i].seq
    BY TailIndex DEF Ascending
<1> QED
    BY <1>2, <1>3 DEF Elements

\* A queue without duplicates stays so after a pop, and the popped item is gone.
LEMMA DistinctTail ==
    ASSUME NEW q \in Seq(Item), q # <<>>, Distinct(q)
    PROVE  /\ Distinct(Tail(q))
           /\ \A x \in Elements(Tail(q)) : Head(q).seq # x.seq
<1>1. \A i, j \in 1 .. Len(Tail(q)) : i # j => i + 1 # j + 1
    OBVIOUS
<1>2. Distinct(Tail(q))
    BY <1>1, TailIndex DEF Distinct
<1>3. \A i \in 1 .. Len(Tail(q)) : Head(q).seq # Tail(q)[i].seq
    BY TailIndex DEF Distinct
<1> QED
    BY <1>2, <1>3 DEF Elements

\* After a push a place holds either an older item or, at the end, the new one.
LEMMA AppendIndex ==
    ASSUME NEW q \in Seq(Item), NEW x \in Item
    PROVE  \A i \in 1 .. Len(Append(q, x)) :
               \/ i \in 1 .. Len(q) /\ Append(q, x)[i] = q[i] /\ q[i] \in Elements(q)
                  /\ i < Len(q) + 1
               \/ i = Len(q) + 1 /\ Append(q, x)[i] = x
<1>1. /\ Len(Append(q, x)) = Len(q) + 1 /\ Len(q) \in Nat
      /\ \A i \in 1 .. Len(q) : Append(q, x)[i] = q[i]
      /\ Append(q, x)[Len(q) + 1] = x
    OBVIOUS
<1>2. \A i \in 1 .. Len(q) : q[i] \in Elements(q)
    BY DEF Elements
<1> QED
    BY <1>1, <1>2

\* Pushing an item younger than all in the queue keeps reception order.
LEMMA AscendingAppend ==
    ASSUME NEW q \in Seq(Item), NEW x \in Item, Ascending(q),
           \A y \in Elements(q) : y.seq < x.seq
    PROVE  Ascending(Append(q, x))
<1> SUFFICES ASSUME NEW i \in 1 .. Len(Append(q, x)), NEW j \in 1 .. Len(Append(q, x)), i < j
             PROVE  Append(q, x)[i].seq < Append(q, x)[j].seq
    BY DEF Ascending
<1>1. CASE j \in 1 .. Len(q) /\ Append(q, x)[j] = q[j]
    BY <1>1, AppendIndex DEF Ascending
<1>2. CASE j = Len(q) + 1 /\ Append(q, x)[j] = x
    <2>1. Append(q, x)[i] = q[i] /\ q[i] \in Elements(q)
        BY <1>2, AppendIndex
    <2> QED
        BY <1>2, <2>1
<1> QED
    BY <1>1, <1>2, AppendIndex

\* Pushing an item that is not in the queue makes no duplicate.
LEMMA DistinctAppend ==
    ASSUME NEW q \in Seq(Item), NEW x \in Item, Distinct(q),
           \A y \in Elements(q) : y.seq # x.seq
    PROVE  Distinct(Append(q, x))
<1> SUFFICES ASSUME NEW i \in 1 .. Len(Append(q, x)), NEW j \in 1 .. Len(Append(q, x)), i # j
             PROVE  Append(q, x)[i].seq # Append(q, x)[j].seq
    BY DEF Distinct
<1>1. \/ i \in 1 .. Len(q) /\ Append(q, x)[i] = q[i] /\ q[i] \in Elements(q)
      \/ i = Len(q) + 1 /\ Append(q, x)[i] = x
    BY AppendIndex
<1>2. \/ j \in 1 .. Len(q) /\ Append(q, x)[j] = q[j] /\ q[j] \in Elements(q)
      \/ j = Len(q) + 1 /\ Append(q, x)[j] = x
    BY AppendIndex
<1> QED
    BY <1>1, <1>2 DEF Distinct

\* The raw queue holds the newest numbers: a decoder takes the oldest of them.
LEMMA LatestStep == TypeInv /\ DataInv /\ RawIsLatest /\ [Next]_vars => RawIsLatest'
<1> SUFFICES ASSUME TypeInv, DataInv, RawIsLatest, [Next]_vars PROVE RawIsLatest'
    OBVIOUS
<1> USE PipelineAssumption
    DEF TypeInv, TypeOK, RawIsLatest
<1>1. ASSUME NEW valid \in Verdicts, TakeSequence(valid) PROVE RawIsLatest'
    <2>1. /\ \A d \in Decoders : work'[d] = work[d]
          /\ UNCHANGED <<rawQueue, decodedQueue, pending, expected>>
        BY <1>1 DEF TakeSequence, Threads, queueVars, writerVars
    <2> QED
        BY <2>1
<1>2. CASE SubmitRefused
    <2>1. /\ \A d \in Decoders : work'[d] = work[d]
          /\ UNCHANGED <<rawQueue, decodedQueue, pending, expected>>
        BY <1>2 DEF SubmitRefused, Threads, queueVars, writerVars
    <2> QED
        BY <2>1
<1>3. CASE InputThrows
    <2>1. /\ \A d \in Decoders : work'[d] = work[d]
          /\ UNCHANGED <<rawQueue, decodedQueue, pending, expected>>
        BY <1>3 DEF InputThrows, Threads, queueVars, writerVars
    <2> QED
        BY <2>1
<1>4. CASE SubmitAccepted
    <2>1. work[Main] \in Item /\ work[Main].seq = Len(accepted)
        BY <1>4 DEF SubmitAccepted, WorkInHand, DataInv, Numbered
    <2>2. Elements(rawQueue') = Elements(rawQueue) \cup {work[Main]}
        BY <1>4, <2>1, ElementsAppend DEF SubmitAccepted
    <2>3. /\ \A d \in Decoders : work'[d] = work[d]
          /\ UNCHANGED <<decodedQueue, pending, expected>>
        BY <1>4 DEF SubmitAccepted, Threads, writerVars
    <2>4. \A x : Known(x, accepted) => x.seq < work[Main].seq
        BY <2>1 DEF Known
    <2>5. Ascending(rawQueue')
        BY <1>4, <2>1, <2>4, AscendingAppend DEF SubmitAccepted, DataInv, ItemsKnown
    <2>6. \A d \in Decoders : work[d].seq < work[Main].seq
        BY <2>1, <2>4, NoWorkIsNoItem DEF DataInv, ItemsKnown
    <2>7. \A y \in Elements(decodedQueue) \cup pending : y.seq < work[Main].seq
        BY <2>4 DEF DataInv, ItemsKnown
    <2> QED
        BY <2>2, <2>3, <2>5, <2>6, <2>7
<1>5. ASSUME NEW d \in Decoders, DecoderPop(d) PROVE RawIsLatest'
    <2>1. /\ Elements(rawQueue) = {Head(rawQueue)} \cup Elements(rawQueue')
          /\ Head(rawQueue) \in Item
        BY <1>5, ElementsTail DEF DecoderPop
    <2>2. /\ work'[d] = Head(rawQueue)
          /\ \A e \in Decoders : e # d => work'[e] = work[e]
          /\ UNCHANGED <<decodedQueue, pending, expected>>
        BY <1>5 DEF DecoderPop, Threads, writerVars
    <2>3. Ascending(rawQueue') /\ \A x \in Elements(rawQueue') : Head(rawQueue).seq < x.seq
        BY <1>5, AscendingTail DEF DecoderPop
    <2> QED
        BY <2>1, <2>2, <2>3
<1>6. ASSUME NEW d \in Decoders, DecoderPush(d) PROVE RawIsLatest'
    <2>1. work[d] \in Item /\ work[d] # NoWork
        BY <1>6, NoWorkIsNoItem DEF DecoderPush, WorkInHand
    <2>2. Elements(decodedQueue') = Elements(decodedQueue) \cup {work[d]}
        BY <1>6, <2>1, ElementsAppend DEF DecoderPush
    <2>3. /\ work'[d] = NoWork
          /\ \A e \in Decoders : e # d => work'[e] = work[e]
          /\ UNCHANGED <<rawQueue, pending, expected>>
        BY <1>6 DEF DecoderPush, Threads, writerVars
    <2>4. \A x \in Elements(rawQueue) : NoWork.seq < x.seq
        BY ElementsType, NoWorkIsNoItem
    <2> QED
        BY <2>2, <2>3, <2>4
<1>7. ASSUME NEW d \in Decoders, DecoderDrops(d) PROVE RawIsLatest'
    <2>1. /\ work'[d] = NoWork
          /\ \A e \in Decoders : e # d => work'[e] = work[e]
          /\ UNCHANGED <<rawQueue, decodedQueue, pending, expected>>
        BY <1>7 DEF DecoderDrops, Threads, queueVars, writerVars
    <2>2. \A x \in Elements(rawQueue) : NoWork.seq < x.seq
        BY ElementsType, NoWorkIsNoItem
    <2> QED
        BY <2>1, <2>2
<1>8. CASE WriterPop
    <2>1. /\ Elements(decodedQueue) = {Head(decodedQueue)} \cup Elements(decodedQueue')
          /\ Head(decodedQueue) \in Item
        BY <1>8, ElementsTail DEF WriterPop
    <2>2. /\ pending' \subseteq pending \cup {Head(decodedQueue)}
          /\ UNCHANGED <<rawQueue, work, expected>>
        BY <1>8 DEF WriterPop
    <2> QED
        BY <2>1, <2>2
<1>9. ASSUME NEW i \in pending, WriterProcess(i) PROVE RawIsLatest'
    <2>1. /\ UNCHANGED <<rawQueue, work, decodedQueue>>
          /\ expected' = expected + 1 /\ pending' = pending \ {i} /\ i.seq = expected
        BY <1>9 DEF WriterProcess, queueVars
    <2> QED
        BY <2>1
<1>10. CASE UNCHANGED <<rawQueue, work, decodedQueue, pending, expected>>
    BY <1>10
<1> QED
    BY <1>1, <1>2, <1>3, <1>4, <1>5, <1>6, <1>7, <1>8, <1>9, <1>10
    DEF dataVars, Next, MainStep, DecoderStep, WriterStep, EnvironmentStep, Fail, Ended, vars,
        queueVars, counterVars, writerVars, StartWriter, StartDecoder, StartInput,
        SpawnFails, UnwindJoins, CountReceived, InputEnds, StopSignal, DecoderEnds,
        DecoderThrows, WriterWriteThrows, WriterAwaits, WriterGap, WriterFinishes,
        WriterFinishThrows, FailCapture, FailHalt, FailCloseRaw, FailCloseDecoded,
        StopCloseRaw, StopJoinDecoders, StopCloseDecoded, StopJoinWriter, RethrowIfPresent,
        Throw

\* An item changes place without leaving a copy behind.
LEMMA OnePlaceStep == TypeInv /\ DataInv /\ RawIsLatest /\ OnePlace /\ [Next]_vars => OnePlace'
<1> SUFFICES ASSUME TypeInv, DataInv, RawIsLatest, OnePlace, [Next]_vars PROVE OnePlace'
    OBVIOUS
<1> USE PipelineAssumption
    DEF TypeInv, TypeOK, OnePlace
<1>1. ASSUME NEW valid \in Verdicts, TakeSequence(valid) PROVE OnePlace'
    <2>1. /\ \A d \in Decoders : work'[d] = work[d]
          /\ UNCHANGED <<rawQueue, decodedQueue, pending, expected>>
        BY <1>1 DEF TakeSequence, Threads, queueVars, writerVars
    <2> QED
        BY <2>1
<1>2. CASE SubmitRefused
    <2>1. /\ \A d \in Decoders : work'[d] = work[d]
          /\ UNCHANGED <<rawQueue, decodedQueue, pending, expected>>
        BY <1>2 DEF SubmitRefused, Threads, queueVars, writerVars
    <2> QED
        BY <2>1, ZenonT(40)
<1>3. CASE InputThrows
    <2>1. /\ \A d \in Decoders : work'[d] = work[d]
          /\ UNCHANGED <<rawQueue, decodedQueue, pending, expected>>
        BY <1>3 DEF InputThrows, Threads, queueVars, writerVars
    <2> QED
        BY <2>1, ZenonT(40)
<1>4. CASE SubmitAccepted
    <2>1. work[Main] \in Item /\ work[Main].seq = Len(accepted)
        BY <1>4 DEF SubmitAccepted, WorkInHand, DataInv, Numbered
    <2>2. Elements(rawQueue') = Elements(rawQueue) \cup {work[Main]}
        BY <1>4, <2>1, ElementsAppend DEF SubmitAccepted
    <2>3. /\ \A d \in Decoders : work'[d] = work[d]
          /\ UNCHANGED <<decodedQueue, pending, expected>>
        BY <1>4 DEF SubmitAccepted, Threads, writerVars
    <2>4. \A x : Known(x, accepted) => x.seq < work[Main].seq
        BY <2>1 DEF Known
    <2> QED
        BY <2>3, ZenonT(40)
<1>5. ASSUME NEW d \in Decoders, DecoderPop(d) PROVE OnePlace'
    <2>1. /\ Elements(rawQueue) = {Head(rawQueue)} \cup Elements(rawQueue')
          /\ Head(rawQueue) \in Item
        BY <1>5, ElementsTail DEF DecoderPop
    <2>2. /\ work'[d] = Head(rawQueue)
          /\ \A e \in Decoders : e # d => work'[e] = work[e]
          /\ UNCHANGED <<decodedQueue, pending, expected>>
        BY <1>5 DEF DecoderPop, Threads, writerVars
    <2>3. \A e \in Decoders : work[e].seq < Head(rawQueue).seq
        BY <2>1 DEF RawIsLatest
    <2>4. \A y \in Elements(decodedQueue) \cup pending : y.seq < Head(rawQueue).seq
        BY <2>1 DEF RawIsLatest
    <2>5. \A e \in Decoders : work[e].seq # Head(rawQueue).seq
        <3>1. \A e \in Decoders : work[e].seq \in Int
            BY ItemType, NoWorkIsNoItem DEF Threads
        <3> QED
            BY <2>1, <2>3, <3>1, ItemType
    <2>6. \A y \in Elements(decodedQueue) \cup pending : y.seq # Head(rawQueue).seq
        BY <2>1, <2>4, ElementsType, ItemType
    <2>7. \A e, f \in Decoders : e # f /\ work'[e] # NoWork => work'[e].seq # work'[f].seq
        <3> SUFFICES ASSUME NEW e \in Decoders, NEW f \in Decoders, e # f, work'[e] # NoWork
                     PROVE  work'[e].seq # work'[f].seq
            OBVIOUS
        <3>1. CASE e = d
            BY <2>2, <2>5, <3>1
        <3>2. CASE f = d
            BY <2>2, <2>5, <3>2
        <3>3. CASE e # d /\ f # d
            BY <2>2, <3>3
        <3> QED
            BY <3>1, <3>2, <3>3
    <2>8. \A x \in Elements(decodedQueue) \cup pending, e \in Decoders : work'[e].seq # x.seq
        <3> SUFFICES ASSUME NEW x \in Elements(decodedQueue) \cup pending, NEW e \in Decoders
                     PROVE  work'[e].seq # x.seq
            OBVIOUS
        <3>1. CASE e = d
            BY <2>2, <2>6, <3>1
        <3>2. CASE e # d
            BY <2>2, <3>2
        <3> QED
            BY <3>1, <3>2
    <2> QED
        BY <2>2, <2>7, <2>8
<1>6. ASSUME NEW d \in Decoders, DecoderPush(d) PROVE OnePlace'
    <2>1. work[d] \in Item /\ work[d] # NoWork
        BY <1>6, NoWorkIsNoItem DEF DecoderPush, WorkInHand
    <2>2. Elements(decodedQueue') = Elements(decodedQueue) \cup {work[d]}
        BY <1>6, <2>1, ElementsAppend DEF DecoderPush
    <2>3. /\ work'[d] = NoWork
          /\ \A e \in Decoders : e # d => work'[e] = work[e]
          /\ UNCHANGED <<rawQueue, pending, expected>>
        BY <1>6 DEF DecoderPush, Threads, writerVars
    <2>4. Distinct(decodedQueue')
        BY <1>6, <2>1, DistinctAppend DEF DecoderPush
    <2>5. \A x \in Elements(decodedQueue) \cup pending : x.seq # NoWork.seq
        BY ElementsType, ItemType
    <2>6. work[d].seq # NoWork.seq
        BY <2>1, ItemType
    <2>7. \A e \in Decoders : work'[e] # NoWork => work[e] # NoWork /\ e # d
        BY <2>3
    <2>8. \A e \in Decoders : work[e] # NoWork => work[e].seq # NoWork.seq
        BY ItemType DEF Threads
    <2>9. \A e, f \in Decoders : e # f /\ work'[e] # NoWork => work'[e].seq # work'[f].seq
        <3> SUFFICES ASSUME NEW e \in Decoders, NEW f \in Decoders, e # f, work'[e] # NoWork
                     PROVE  work'[e].seq # work'[f].seq
            OBVIOUS
        <3>1. CASE f = d
            BY <2>3, <2>7, <2>8, <3>1
        <3>2. CASE f # d
            BY <2>3, <2>7, <3>2
        <3> QED
            BY <3>1, <3>2
    <2>10. \A x \in Elements(decodedQueue) \cup {work[d]} \cup pending, e \in Decoders :
               work'[e].seq # x.seq
        <3> SUFFICES ASSUME NEW x \in Elements(decodedQueue) \cup {work[d]} \cup pending,
                            NEW e \in Decoders
                     PROVE  work'[e].seq # x.seq
            OBVIOUS
        <3>1. CASE e = d
            BY <2>3, <2>5, <2>6, <3>1
        <3>2. CASE e # d
            BY <2>1, <2>3, <3>2
        <3> QED
            BY <3>1, <3>2
    <2>11. \A y \in pending, x \in Elements(decodedQueue') : y.seq # x.seq
        BY <2>2
    <2> QED
        BY <2>2, <2>3, <2>4, <2>9, <2>10, <2>11
<1>7. ASSUME NEW d \in Decoders, DecoderDrops(d) PROVE OnePlace'
    <2>1. /\ work'[d] = NoWork
          /\ \A e \in Decoders : e # d => work'[e] = work[e]
          /\ UNCHANGED <<rawQueue, decodedQueue, pending, expected>>
        BY <1>7 DEF DecoderDrops, Threads, queueVars, writerVars
    <2>2. \A x \in Elements(decodedQueue) \cup pending : x.seq # NoWork.seq
        BY ElementsType, ItemType
    <2>3. \A e \in Decoders : work[e] # NoWork => work[e].seq # NoWork.seq
        BY ItemType DEF Threads
    <2> QED
        BY <2>1, <2>2, <2>3, SMTT(30)
<1>8. CASE WriterPop
    <2>1. /\ Elements(decodedQueue) = {Head(decodedQueue)} \cup Elements(decodedQueue')
          /\ Head(decodedQueue) \in Item
        BY <1>8, ElementsTail DEF WriterPop
    <2>2. /\ pending' \subseteq pending \cup {Head(decodedQueue)}
          /\ UNCHANGED <<rawQueue, work, expected>>
        BY <1>8 DEF WriterPop
    <2>3. Distinct(decodedQueue')
          /\ \A x \in Elements(decodedQueue') : Head(decodedQueue).seq # x.seq
        BY <1>8, DistinctTail DEF WriterPop
    <2> QED
        BY <2>1, <2>2, <2>3
<1>9. ASSUME NEW i \in pending, WriterProcess(i) PROVE OnePlace'
    <2>1. /\ UNCHANGED <<rawQueue, work, decodedQueue>>
          /\ expected' = expected + 1 /\ pending' = pending \ {i} /\ i.seq = expected
        BY <1>9 DEF WriterProcess, queueVars
    <2> QED
        BY <2>1
<1>10. CASE UNCHANGED <<rawQueue, work, decodedQueue, pending, expected>>
    BY <1>10
<1> QED
    BY <1>1, <1>2, <1>3, <1>4, <1>5, <1>6, <1>7, <1>8, <1>9, <1>10
    DEF dataVars, Next, MainStep, DecoderStep, WriterStep, EnvironmentStep, Fail, Ended, vars,
        queueVars, counterVars, writerVars, StartWriter, StartDecoder, StartInput,
        SpawnFails, UnwindJoins, CountReceived, InputEnds, StopSignal, DecoderEnds,
        DecoderThrows, WriterWriteThrows, WriterAwaits, WriterGap, WriterFinishes,
        WriterFinishThrows, FailCapture, FailHalt, FailCloseRaw, FailCloseDecoded,
        StopCloseRaw, StopJoinDecoders, StopCloseDecoded, StopJoinWriter, RethrowIfPresent,
        Throw

\* Nothing the writer has passed is still under way.
LEMMA NotYetStep ==
    TypeInv /\ DataInv /\ RawIsLatest /\ OnePlace /\ NotYetExpected /\ [Next]_vars
        => NotYetExpected'
<1> SUFFICES ASSUME TypeInv, DataInv, RawIsLatest, OnePlace, NotYetExpected, [Next]_vars
             PROVE  NotYetExpected'
    OBVIOUS
<1> USE PipelineAssumption
    DEF TypeInv, TypeOK, NotYetExpected
<1>1. ASSUME NEW valid \in Verdicts, TakeSequence(valid) PROVE NotYetExpected'
    <2>1. /\ \A d \in Decoders : work'[d] = work[d]
          /\ UNCHANGED <<rawQueue, decodedQueue, pending, expected>>
        BY <1>1 DEF TakeSequence, Threads, queueVars, writerVars
    <2> QED
        BY <2>1
<1>2. CASE SubmitRefused
    <2>1. /\ \A d \in Decoders : work'[d] = work[d]
          /\ UNCHANGED <<rawQueue, decodedQueue, pending, expected>>
        BY <1>2 DEF SubmitRefused, Threads, queueVars, writerVars
    <2> QED
        BY <2>1
<1>3. CASE InputThrows
    <2>1. /\ \A d \in Decoders : work'[d] = work[d]
          /\ UNCHANGED <<rawQueue, decodedQueue, pending, expected>>
        BY <1>3 DEF InputThrows, Threads, queueVars, writerVars
    <2> QED
        BY <2>1
<1>4. CASE SubmitAccepted
    <2>1. work[Main] \in Item /\ work[Main].seq = Len(accepted)
        BY <1>4 DEF SubmitAccepted, WorkInHand, DataInv, Numbered
    <2>2. Elements(rawQueue') = Elements(rawQueue) \cup {work[Main]}
        BY <1>4, <2>1, ElementsAppend DEF SubmitAccepted
    <2>3. /\ \A d \in Decoders : work'[d] = work[d]
          /\ UNCHANGED <<decodedQueue, pending, expected>>
        BY <1>4 DEF SubmitAccepted, Threads, writerVars
    <2>4. \A x : Known(x, accepted) => x.seq < work[Main].seq
        BY <2>1 DEF Known
    <2>5. expected <= Len(accepted)
        BY DEF DataInv, EffectsCounted, EffectsInReceptionOrder, IsPrefixOf
    <2> QED
        BY <2>1, <2>2, <2>3, <2>5
<1>5. ASSUME NEW d \in Decoders, DecoderPop(d) PROVE NotYetExpected'
    <2>1. /\ Elements(rawQueue) = {Head(rawQueue)} \cup Elements(rawQueue')
          /\ Head(rawQueue) \in Item
        BY <1>5, ElementsTail DEF DecoderPop
    <2>2. /\ work'[d] = Head(rawQueue)
          /\ \A e \in Decoders : e # d => work'[e] = work[e]
          /\ UNCHANGED <<decodedQueue, pending, expected>>
        BY <1>5 DEF DecoderPop, Threads, writerVars
    <2> QED
        BY <2>1, <2>2
<1>6. ASSUME NEW d \in Decoders, DecoderPush(d) PROVE NotYetExpected'
    <2>1. work[d] \in Item /\ work[d] # NoWork
        BY <1>6, NoWorkIsNoItem DEF DecoderPush, WorkInHand
    <2>2. Elements(decodedQueue') = Elements(decodedQueue) \cup {work[d]}
        BY <1>6, <2>1, ElementsAppend DEF DecoderPush
    <2>3. /\ work'[d] = NoWork
          /\ \A e \in Decoders : e # d => work'[e] = work[e]
          /\ UNCHANGED <<rawQueue, pending, expected>>
        BY <1>6 DEF DecoderPush, Threads, writerVars
    <2> QED
        BY <2>1, <2>2, <2>3
<1>7. ASSUME NEW d \in Decoders, DecoderDrops(d) PROVE NotYetExpected'
    <2>1. /\ work'[d] = NoWork
          /\ \A e \in Decoders : e # d => work'[e] = work[e]
          /\ UNCHANGED <<rawQueue, decodedQueue, pending, expected>>
        BY <1>7 DEF DecoderDrops, Threads, queueVars, writerVars
    <2> QED
        BY <2>1
<1>8. CASE WriterPop
    <2>1. /\ Elements(decodedQueue) = {Head(decodedQueue)} \cup Elements(decodedQueue')
          /\ Head(decodedQueue) \in Item
        BY <1>8, ElementsTail DEF WriterPop
    <2>2. /\ pending' \subseteq pending \cup {Head(decodedQueue)}
          /\ UNCHANGED <<rawQueue, work, expected>>
        BY <1>8 DEF WriterPop
    <2> QED
        BY <2>1, <2>2
<1>9. ASSUME NEW i \in pending, WriterProcess(i) PROVE NotYetExpected'
    <2>1. /\ UNCHANGED <<rawQueue, work, decodedQueue>>
          /\ expected' = expected + 1 /\ pending' = pending \ {i} /\ i.seq = expected
        BY <1>9 DEF WriterProcess, queueVars
    <2>2. \A x \in Elements(rawQueue) \cup Elements(decodedQueue) :
              x.seq # expected /\ x.seq \in Nat
        <3>1. \A x \in Elements(rawQueue) : x.seq # expected
            BY <2>1, ElementsType, ItemType DEF RawIsLatest
        <3>2. \A x \in Elements(decodedQueue) : x.seq # expected
            BY <2>1 DEF OnePlace
        <3> QED
            BY <3>1, <3>2, ElementsType
    <2>3. \A x \in pending \ {i} : x.seq # expected /\ x.seq \in Nat
        <3>1. \A x \in pending : x = accepted[x.seq + 1]
            BY DEF DataInv, ItemsKnown, Known
        <3> QED
            BY <2>1, <3>1, ItemType
    <2>4. \A d \in Decoders : work[d] # NoWork => work[d].seq # expected /\ work[d].seq \in Nat
        BY <2>1, ItemType DEF OnePlace, Threads
    <2> QED
        BY <2>1, <2>2, <2>3, <2>4
<1>10. CASE UNCHANGED <<rawQueue, work, decodedQueue, pending, expected>>
    BY <1>10
<1> QED
    BY <1>1, <1>2, <1>3, <1>4, <1>5, <1>6, <1>7, <1>8, <1>9, <1>10
    DEF dataVars, Next, MainStep, DecoderStep, WriterStep, EnvironmentStep, Fail, Ended, vars,
        queueVars, counterVars, writerVars, StartWriter, StartDecoder, StartInput,
        SpawnFails, UnwindJoins, CountReceived, InputEnds, StopSignal, DecoderEnds,
        DecoderThrows, WriterWriteThrows, WriterAwaits, WriterGap, WriterFinishes,
        WriterFinishThrows, FailCapture, FailHalt, FailCloseRaw, FailCloseDecoded,
        StopCloseRaw, StopJoinDecoders, StopCloseDecoded, StopJoinWriter, RethrowIfPresent,
        Throw

\* The inner loop of the writer ends only when the expected item is missing.
LEMMA DrainedStep == TypeInv /\ WriterDrained /\ [Next]_vars => WriterDrained'
<1> SUFFICES ASSUME TypeInv, WriterDrained, [Next]_vars PROVE WriterDrained'
    OBVIOUS
<1> USE PipelineAssumption
    DEF TypeInv, TypeOK, WriterDrained, Goto, Threads, writerVars
<1>1. CASE StartWriter
    BY <1>1 DEF dataVars, StartWriter
<1>2. ASSUME NEW d \in Decoders, StartDecoder(d) PROVE WriterDrained'
    BY <1>2 DEF dataVars, StartDecoder
<1>3. CASE StartInput
    BY <1>3 DEF dataVars, StartInput
<1>4. CASE SpawnFails
    BY <1>4 DEF dataVars, SpawnFails
<1>5. CASE UnwindJoins
    BY <1>5 DEF dataVars, UnwindJoins
<1>6. ASSUME NEW valid \in Verdicts, TakeSequence(valid) PROVE WriterDrained'
    BY <1>6 DEF TakeSequence
<1>7. CASE SubmitAccepted
    BY <1>7 DEF SubmitAccepted
<1>8. CASE SubmitRefused
    BY <1>8 DEF SubmitRefused
<1>9. CASE CountReceived
    BY <1>9 DEF CountReceived
<1>10. CASE InputEnds
    BY <1>10 DEF InputEnds
<1>11. CASE InputThrows
    BY <1>11 DEF InputThrows, Throw
<1>12. ASSUME NEW d \in Decoders, DecoderPop(d) PROVE WriterDrained'
    BY <1>12 DEF DecoderPop
<1>13. ASSUME NEW d \in Decoders, DecoderEnds(d) PROVE WriterDrained'
    BY <1>13 DEF dataVars, DecoderEnds
<1>14. ASSUME NEW d \in Decoders, DecoderPush(d) PROVE WriterDrained'
    BY <1>14 DEF DecoderPush
<1>15. ASSUME NEW d \in Decoders, DecoderDrops(d) PROVE WriterDrained'
    BY <1>15 DEF DecoderDrops
<1>16. ASSUME NEW d \in Decoders, DecoderThrows(d) PROVE WriterDrained'
    BY <1>16 DEF dataVars, DecoderThrows, Throw
<1>17. ASSUME NEW i \in pending, WriterWriteThrows(i) PROVE WriterDrained'
    BY <1>17 DEF WriterWriteThrows, Throw
<1>18. CASE WriterAwaits
    BY <1>18 DEF dataVars, WriterAwaits
<1>19. CASE WriterGap
    BY <1>19 DEF WriterGap, Throw
<1>20. CASE WriterFinishes
    BY <1>20 DEF WriterFinishes
<1>21. CASE WriterFinishThrows
    BY <1>21 DEF WriterFinishThrows, Throw
<1>22. ASSUME NEW t \in Threads, FailCapture(t) PROVE WriterDrained'
    BY <1>22 DEF dataVars, FailCapture
<1>23. ASSUME NEW t \in Threads, FailHalt(t) PROVE WriterDrained'
    BY <1>23 DEF FailHalt
<1>24. ASSUME NEW t \in Threads, FailCloseRaw(t) PROVE WriterDrained'
    BY <1>24 DEF FailCloseRaw
<1>25. ASSUME NEW t \in Threads, FailCloseDecoded(t) PROVE WriterDrained'
    BY <1>25 DEF FailCloseDecoded
<1>26. CASE StopCloseRaw
    BY <1>26 DEF StopCloseRaw
<1>27. CASE StopJoinDecoders
    BY <1>27 DEF dataVars, StopJoinDecoders
<1>28. CASE StopCloseDecoded
    BY <1>28 DEF StopCloseDecoded
<1>29. CASE StopJoinWriter
    BY <1>29 DEF StopJoinWriter
<1>30. CASE RethrowIfPresent
    BY <1>30 DEF dataVars, RethrowIfPresent
<1>31. CASE WriterPop
    BY <1>31 DEF WriterPop, Throw
<1>32. ASSUME NEW i \in pending, WriterProcess(i) PROVE WriterDrained'
    BY <1>32 DEF WriterProcess
<1>33. CASE UNCHANGED <<pc, pending, expected>>
    BY <1>33
<1> QED
    BY <1>1, <1>2, <1>3, <1>4, <1>5, <1>6, <1>7, <1>8, <1>9, <1>10, <1>11, <1>12, <1>13,
       <1>14, <1>15, <1>16, <1>17, <1>18, <1>19, <1>20, <1>21, <1>22, <1>23, <1>24, <1>25,
       <1>26, <1>27, <1>28, <1>29, <1>30, <1>31, <1>32, <1>33
    DEF Next, MainStep, DecoderStep, WriterStep, EnvironmentStep, Fail, Ended, vars,
        dataVars, queueVars, counterVars, writerVars, StopSignal

\* A duplicate would need two copies of an item and a gap a lost one: neither
\* can be noticed while no other exception has been captured.
LEMMA RootStep == PipelineInv /\ OnceInv /\ [Next]_vars => (RootCauses /\ RootCauseReported)'
<1> SUFFICES ASSUME PipelineInv, OnceInv, [Next]_vars PROVE (RootCauses /\ RootCauseReported)'
    OBVIOUS
<1> USE PipelineAssumption
    DEF PipelineInv, TypeInv, TypeOK, RootCauses, RootCauseReported
<1>1. CASE WriterPop
    <2>1. ~ \E i \in pending : i.seq = Head(decodedQueue).seq
        <3>1. Head(decodedQueue) \in Elements(decodedQueue)
            BY <1>1, ElementsTail DEF WriterPop
        <3> QED
            BY <3>1 DEF OnceInv, OnePlace
    <2> QED
        BY <1>1, <2>1 DEF WriterPop, Goto, Threads, OnceInv
<1>2. CASE WriterGap
    <2>1. ASSUME error = None PROVE FALSE
        <3>1. Elements(rawQueue) = {} /\ \A d \in Decoders : work[d] = NoWork
            BY <1>2, <2>1, ShutdownFact DEF WriterGap, ShutdownOrder, Elements
        <3>2. Elements(decodedQueue) = {}
            BY <1>2 DEF WriterGap, Elements
        <3>3. PICK x \in pending : expected <= x.seq /\ x.seq # expected
            BY <1>2 DEF WriterGap, OnceInv, NotYetExpected, WriterDrained
        <3>4. x.seq \in 0 .. Len(accepted) - 1
            BY DEF DataInv, ItemsKnown, Known
        <3>5. expected \in 0 .. Len(accepted) - 1
            BY <3>3, <3>4
        <3>6. InFlight(expected)
            BY <2>1, <3>5 DEF DataInv, NothingLostUnlessFailed
        <3>7. \E y \in pending : y.seq = expected
            BY <3>1, <3>2, <3>5, <3>6, NoWorkIsNoItem DEF InFlight
        <3> QED
            BY <1>2, <3>7 DEF WriterGap, OnceInv, WriterDrained
    <2> QED
        BY <1>2, <2>1 DEF WriterGap, Throw, Goto, Threads, OnceInv
<1>3. ASSUME NEW t \in Threads, FailCapture(t) PROVE (RootCauses /\ RootCauseReported)'
    BY <1>3 DEF FailCapture, Goto, Threads, OnceInv
<1>4. CASE StartWriter
    BY <1>4 DEF StartWriter, Goto, Threads, OnceInv
<1>5. ASSUME NEW d \in Decoders, StartDecoder(d) PROVE (RootCauses /\ RootCauseReported)'
    BY <1>5 DEF StartDecoder, Goto, Threads, OnceInv
<1>6. CASE StartInput
    BY <1>6 DEF StartInput, Goto, Threads, OnceInv
<1>7. CASE SpawnFails
    BY <1>7 DEF SpawnFails, Goto, Threads, OnceInv
<1>8. CASE UnwindJoins
    BY <1>8 DEF UnwindJoins, Goto, Threads, OnceInv
<1>9. ASSUME NEW valid \in Verdicts, TakeSequence(valid) PROVE (RootCauses /\ RootCauseReported)'
    BY <1>9 DEF TakeSequence, Goto, Threads, OnceInv
<1>10. CASE SubmitAccepted
    BY <1>10 DEF SubmitAccepted, Goto, Threads, OnceInv
<1>11. CASE SubmitRefused
    BY <1>11 DEF SubmitRefused, Goto, Threads, OnceInv
<1>12. CASE CountReceived
    BY <1>12 DEF CountReceived, Goto, Threads, OnceInv
<1>13. CASE InputEnds
    BY <1>13 DEF InputEnds, Goto, Threads, OnceInv
<1>14. CASE InputThrows
    BY <1>14 DEF InputThrows, Throw, Goto, Threads, OnceInv
<1>15. ASSUME NEW d \in Decoders, DecoderPop(d) PROVE (RootCauses /\ RootCauseReported)'
    BY <1>15 DEF DecoderPop, Goto, Threads, OnceInv
<1>16. ASSUME NEW d \in Decoders, DecoderEnds(d) PROVE (RootCauses /\ RootCauseReported)'
    BY <1>16 DEF DecoderEnds, Goto, Threads, OnceInv
<1>17. ASSUME NEW d \in Decoders, DecoderPush(d) PROVE (RootCauses /\ RootCauseReported)'
    BY <1>17 DEF DecoderPush, Goto, Threads, OnceInv
<1>18. ASSUME NEW d \in Decoders, DecoderDrops(d) PROVE (RootCauses /\ RootCauseReported)'
    BY <1>18 DEF DecoderDrops, Goto, Threads, OnceInv
<1>19. ASSUME NEW d \in Decoders, DecoderThrows(d) PROVE (RootCauses /\ RootCauseReported)'
    BY <1>19 DEF DecoderThrows, Throw, Goto, Threads, OnceInv
<1>20. ASSUME NEW i \in pending, WriterWriteThrows(i) PROVE (RootCauses /\ RootCauseReported)'
    BY <1>20 DEF WriterWriteThrows, Throw, Goto, Threads, OnceInv
<1>21. CASE WriterAwaits
    BY <1>21 DEF WriterAwaits, Goto, Threads, OnceInv
<1>22. CASE WriterFinishes
    BY <1>22 DEF WriterFinishes, Goto, Threads, OnceInv
<1>23. CASE WriterFinishThrows
    BY <1>23 DEF WriterFinishThrows, Throw, Goto, Threads, OnceInv
<1>24. ASSUME NEW t \in Threads, FailHalt(t) PROVE (RootCauses /\ RootCauseReported)'
    BY <1>24 DEF FailHalt, Goto, Threads, OnceInv
<1>25. ASSUME NEW t \in Threads, FailCloseRaw(t) PROVE (RootCauses /\ RootCauseReported)'
    BY <1>25 DEF FailCloseRaw, Goto, Threads, OnceInv
<1>26. ASSUME NEW t \in Threads, FailCloseDecoded(t) PROVE (RootCauses /\ RootCauseReported)'
    BY <1>26 DEF FailCloseDecoded, Goto, Threads, OnceInv
<1>27. CASE StopCloseRaw
    BY <1>27 DEF StopCloseRaw, Goto, Threads, OnceInv
<1>28. CASE StopJoinDecoders
    BY <1>28 DEF StopJoinDecoders, Goto, Threads, OnceInv
<1>29. CASE StopCloseDecoded
    BY <1>29 DEF StopCloseDecoded, Goto, Threads, OnceInv
<1>30. CASE StopJoinWriter
    BY <1>30 DEF StopJoinWriter, Goto, Threads, OnceInv
<1>31. CASE RethrowIfPresent
    BY <1>31 DEF RethrowIfPresent, Goto, Threads, OnceInv
<1>32. CASE UNCHANGED <<pc, cause, error>>
    BY <1>32 DEF OnceInv
<1> QED
    BY <1>1, <1>2, <1>3, <1>4, <1>5, <1>6, <1>7, <1>8, <1>9, <1>10, <1>11, <1>12, <1>13,
       <1>14, <1>15, <1>16, <1>17, <1>18, <1>19, <1>20, <1>21, <1>22, <1>23, <1>24, <1>25,
       <1>26, <1>27, <1>28, <1>29, <1>30, <1>31, <1>32
    DEF Threads, Next, MainStep, DecoderStep, WriterStep, EnvironmentStep, Fail, Ended, vars,
        queueVars, counterVars, writerVars, StopSignal, WriterProcess

\* No run duplicates an item or loses one without a captured failure.
LEMMA OnceInvariance == Spec => []OnceInv
<1>1. Init => OnceInv
    <2> SUFFICES ASSUME Init PROVE OnceInv
        OBVIOUS
    <2>1. /\ Len(rawQueue) = 0 /\ Len(decodedQueue) = 0 /\ pending = {}
          /\ Elements(rawQueue) = {} /\ Elements(decodedQueue) = {}
        BY DEF Init, Elements
    <2>2. /\ \A d \in Decoders : work[d] = NoWork
          /\ \A t \in Threads : pc[t] \in {"start", "unborn"}
        BY DEF Init, Threads
    <2>3. RawIsLatest /\ OnePlace /\ NotYetExpected /\ WriterDrained
        BY <2>1, <2>2
        DEF RawIsLatest, OnePlace, NotYetExpected, WriterDrained, Ascending, Distinct
    <2>4. RootCauses /\ RootCauseReported
        BY <2>2 DEF Init, RootCauses, RootCauseReported, None
    <2> QED
        BY <2>3, <2>4 DEF OnceInv
<1>2. PipelineInv /\ OnceInv /\ [Next]_vars => OnceInv'
    BY LatestStep, OnePlaceStep, NotYetStep, DrainedStep, RootStep DEF PipelineInv, OnceInv
<1> QED
    BY <1>1, <1>2, PipelineInvariance, PTL DEF Spec

\* The exception that run() rethrows is never "duplicate pipeline sequence" nor
\* "sequence gap": these checks of writerLoop (99-102, 145-148) can only fire in
\* the wake of an exception that failPipeline() captured before.
THEOREM RootCauseTheorem == Spec => []RootCauseReported
<1>1. OnceInv => RootCauseReported
    BY DEF OnceInv
<1> QED
    BY <1>1, OnceInvariance, PTL
=============================================================================
