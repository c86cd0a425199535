------------------------- MODULE BlockingQueueProofs -------------------------
(***************************************************************************)
(* Proofs about BlockingQueue, for any finite sets of producers and        *)
(* consumers, any number of closing threads, every capacity and any number *)
(* of calls.                                                               *)
(***************************************************************************)
EXTENDS BlockingQueue, FiniteSetTheorems, TLAPS

-----------------------------------------------------------------------------
(* Types *)

\* refused[p] stays within the calls p has made only because the call in hand
\* is counted once.
CallsCounted ==
    \A p \in Producers :
        refused[p] + (IF prod[p] \in {"enter", "asleep"} THEN 1 ELSE 0) <= sent[p]

TypeInv == TypeOK /\ CallsCounted

\* Every step of every thread keeps the variables of the queue in their types
\* and never counts a push() twice (push, pop and close).
LEMMA TypeStep == TypeInv /\ [Next]_vars => TypeInv'
<1> SUFFICES ASSUME TypeInv, [Next]_vars PROVE TypeInv'
    OBVIOUS
<1> USE QueueAssumption DEF TypeInv, TypeOK, CallsCounted, ProducerStates,
        ConsumerStates, CloserStates
<1>1. ASSUME NEW p \in Producers, CallPush(p) PROVE TypeInv'
    BY <1>1 DEF CallPush
<1>2. ASSUME NEW p \in Producers, PushSleep(p) PROVE TypeInv'
    BY <1>2 DEF PushSleep
<1>3. ASSUME NEW p \in Producers, PushRefused(p) PROVE TypeInv'
    BY <1>3 DEF PushRefused
<1>4. ASSUME NEW p \in Producers, PushInsert(p) PROVE TypeInv'
    <2>1. <<p, sent[p]>> \in Value
        BY <1>4 DEF PushInsert, Value
    <2>2. queue' \in Seq(Value)
        BY <1>4, <2>1 DEF PushInsert
    <2> QED
        BY <1>4, <2>2 DEF PushInsert
<1>5. ASSUME NEW p \in Producers, PushNotify(p) PROVE TypeInv'
    <2>1. cons' \in [Consumers -> ConsumerStates]
        BY <1>5 DEF PushNotify, SleepingConsumers
    <2> QED
        BY <1>5, <2>1 DEF PushNotify
<1>6. ASSUME NEW c \in Consumers, CallPop(c) PROVE TypeInv'
    BY <1>6 DEF CallPop
<1>7. ASSUME NEW c \in Consumers, PopSleep(c) PROVE TypeInv'
    BY <1>7 DEF PopSleep
<1>8. ASSUME NEW c \in Consumers, PopNullopt(c) PROVE TypeInv'
    BY <1>8 DEF PopNullopt
<1>9. ASSUME NEW c \in Consumers, PopRemove(c) PROVE TypeInv'
    <2>1. Head(queue) \in Value /\ Tail(queue) \in Seq(Value)
        BY <1>9 DEF PopRemove
    <2>2. queue' \in Seq(Value) /\ popped' \in Seq(Value)
        BY <1>9, <2>1 DEF PopRemove
    <2> QED
        BY <1>9, <2>2 DEF PopRemove
<1>10. ASSUME NEW c \in Consumers, PopNotify(c) PROVE TypeInv'
    BY <1>10 DEF PopNotify, SleepingProducers
<1>11. ASSUME NEW k \in Closers, CloseSet(k) PROVE TypeInv'
    BY <1>11 DEF CloseSet
<1>12. ASSUME NEW k \in Closers, CloseNotifyConsumers(k) PROVE TypeInv'
    BY <1>12 DEF CloseNotifyConsumers
<1>13. ASSUME NEW k \in Closers, CloseNotifyProducers(k) PROVE TypeInv'
    BY <1>13 DEF CloseNotifyProducers
<1>14. ASSUME NEW p \in Producers, SpuriousProducerWakeup(p) PROVE TypeInv'
    BY <1>14 DEF SpuriousProducerWakeup
<1>15. ASSUME NEW c \in Consumers, SpuriousConsumerWakeup(c) PROVE TypeInv'
    BY <1>15 DEF SpuriousConsumerWakeup
<1>16. CASE UNCHANGED vars
    BY <1>16 DEF vars
<1> QED
    BY <1>1, <1>2, <1>3, <1>4, <1>5, <1>6, <1>7, <1>8, <1>9, <1>10, <1>11,
       <1>12, <1>13, <1>14, <1>15, <1>16
    DEF Next, ProducerStep, ConsumerStep, CloserStep, Finished

\* The strengthened type invariant, for use by the theorems below.
LEMMA TypeInvariance == Spec => []TypeInv
<1>1. Init => TypeInv
    <2> SUFFICES ASSUME Init PROVE TypeInv
        OBVIOUS
    <2>1. queue \in Seq(Value) /\ popped \in Seq(Value)
        BY DEF Init
    <2>2. CallsCounted
        BY DEF Init, CallsCounted
    <2>3. closed \in BOOLEAN
        BY DEF Init
    <2>4. sent \in [Producers -> 0 .. MaxPush] /\ refused \in [Producers -> 0 .. MaxPush]
        BY QueueAssumption DEF Init
    <2>5. /\ prod \in [Producers -> ProducerStates]
          /\ cons \in [Consumers -> ConsumerStates]
          /\ closer \in [Closers -> CloserStates]
        BY DEF Init, ProducerStates, ConsumerStates, CloserStates
    <2> QED
        BY <2>1, <2>2, <2>3, <2>4, <2>5 DEF TypeInv, TypeOK
<1> QED
    BY <1>1, TypeStep, PTL DEF Spec

\* Type correctness of the queue for every instance: what push() stores is
\* always a value one of its callers handed in (BlockingQueue.hpp 43-76).
THEOREM TypeCorrect == Spec => []TypeOK
<1>1. TypeInv => TypeOK
    BY DEF TypeInv
<1> QED
    BY <1>1, TypeInvariance, PTL

-----------------------------------------------------------------------------
(* Capacity, draining and closing *)

\* Back-pressure holds for every number of producers: the wait predicate of
\* push() (46-47) is re-evaluated under the lock that protects the insertion.
THEOREM CapacityTheorem == Spec => []CapacityRespected
<1>1. Init => CapacityRespected
    BY QueueAssumption DEF Init, CapacityRespected
<1>2. TypeInv /\ CapacityRespected /\ [Next]_vars => CapacityRespected'
    <2> SUFFICES ASSUME TypeInv, CapacityRespected, [Next]_vars
                 PROVE  CapacityRespected'
        OBVIOUS
    <2> USE QueueAssumption DEF TypeInv, TypeOK, CapacityRespected
    <2>1. ASSUME NEW p \in Producers, PushInsert(p) PROVE CapacityRespected'
        <3>1. Capacity # 0 => Len(queue) < Capacity
            BY <2>1 DEF PushInsert, MayLeavePushWait, HasRoom
        <3>2. Len(queue') = Len(queue) + 1
            BY <2>1 DEF PushInsert
        <3> QED
            BY <3>1, <3>2
    <2>2. ASSUME NEW c \in Consumers, PopRemove(c) PROVE CapacityRespected'
        <3>1. Len(queue') = Len(queue) - 1
            BY <2>2 DEF PopRemove
        <3> QED
            BY <3>1
    <2>3. CASE UNCHANGED queue
        BY <2>3
    <2> QED
        BY <2>1, <2>2, <2>3
        DEF Next, ProducerStep, ConsumerStep, CloserStep, Finished, vars, CallPush,
            PushSleep, PushRefused, PushNotify, CallPop, PopSleep, PopNullopt, PopNotify,
            CloseSet, CloseNotifyConsumers, CloseNotifyProducers,
            SpuriousProducerWakeup, SpuriousConsumerWakeup
<1> QED
    BY <1>1, <1>2, TypeInvariance, PTL DEF Spec

\* pop() returns nullopt only on a queue that is closed and empty, and such a
\* queue stays closed and empty: one nullopt ends the stream for everybody
\* (class comment 25-27, pop 62-69).
THEOREM NulloptTheorem == Spec => []NulloptMeansDrained
<1>1. Init => NulloptMeansDrained
    BY DEF Init, NulloptMeansDrained
<1>2. TypeInv /\ NulloptMeansDrained /\ [Next]_vars => NulloptMeansDrained'
    <2> SUFFICES ASSUME TypeInv, NulloptMeansDrained, [Next]_vars
                 PROVE  NulloptMeansDrained'
        OBVIOUS
    <2> USE DEF TypeInv, TypeOK, NulloptMeansDrained
    <2>1. ASSUME NEW p \in Producers, PushInsert(p) PROVE NulloptMeansDrained'
        BY <2>1 DEF PushInsert
    <2>2. ASSUME NEW p \in Producers, PushNotify(p) PROVE NulloptMeansDrained'
        BY <2>2 DEF PushNotify, SleepingConsumers
    <2>3. ASSUME NEW c \in Consumers, PopNullopt(c) PROVE NulloptMeansDrained'
        BY <2>3 DEF PopNullopt, MayLeavePopWait
    <2>4. ASSUME NEW c \in Consumers, PopRemove(c) PROVE NulloptMeansDrained'
        BY <2>4 DEF PopRemove
    <2>5. ASSUME NEW c \in Consumers,
                 CallPop(c) \/ PopSleep(c) \/ PopNotify(c) \/ SpuriousConsumerWakeup(c)
          PROVE  NulloptMeansDrained'
        BY <2>5 DEF CallPop, PopSleep, PopNotify, SpuriousConsumerWakeup
    <2>6. ASSUME NEW k \in Closers, CloseSet(k) PROVE NulloptMeansDrained'
        BY <2>6 DEF CloseSet
    <2>7. ASSUME NEW k \in Closers, CloseNotifyConsumers(k) PROVE NulloptMeansDrained'
        BY <2>7 DEF CloseNotifyConsumers
    <2>8. CASE UNCHANGED <<queue, closed, cons>>
        BY <2>8
    <2> QED
        BY <2>1, <2>2, <2>3, <2>4, <2>5, <2>6, <2>7, <2>8
        DEF Next, ProducerStep, ConsumerStep, CloserStep, Finished, vars, CallPush,
            PushSleep, PushRefused, CloseNotifyProducers, SpuriousProducerWakeup
<1> QED
    BY <1>1, <1>2, TypeInvariance, PTL DEF Spec

\* Although closed_ is set under the lock and the notifications follow after
\* the unlock (79-87), no thread is left asleep on a closed queue without a
\* notify_all() still to come: nobody falls asleep once closed_ is set.
THEOREM CloseTheorem == Spec => []CloseStrandsNobody
<1>1. Init => CloseStrandsNobody
    BY DEF Init, CloseStrandsNobody
<1>2. TypeInv /\ CloseStrandsNobody /\ [Next]_vars => CloseStrandsNobody'
    <2> SUFFICES ASSUME TypeInv, CloseStrandsNobody, [Next]_vars
                 PROVE  CloseStrandsNobody'
        OBVIOUS
    <2> USE DEF TypeInv, TypeOK, CloseStrandsNobody, SleepingConsumers, SleepingProducers
    <2>1. ASSUME NEW p \in Producers,
                 CallPush(p) \/ PushRefused(p) \/ PushInsert(p) \/ SpuriousProducerWakeup(p)
          PROVE  CloseStrandsNobody'
        BY <2>1 DEF CallPush, PushRefused, PushInsert, SpuriousProducerWakeup
    <2>2. ASSUME NEW p \in Producers, PushSleep(p) PROVE CloseStrandsNobody'
        BY <2>2 DEF PushSleep, MayLeavePushWait
    <2>3. ASSUME NEW p \in Producers, PushNotify(p) PROVE CloseStrandsNobody'
        BY <2>3 DEF PushNotify
    <2>4. ASSUME NEW c \in Consumers,
                 CallPop(c) \/ PopNullopt(c) \/ PopRemove(c) \/ SpuriousConsumerWakeup(c)
          PROVE  CloseStrandsNobody'
        BY <2>4 DEF CallPop, PopNullopt, PopRemove, SpuriousConsumerWakeup
    <2>5. ASSUME NEW c \in Consumers, PopSleep(c) PROVE CloseStrandsNobody'
        BY <2>5 DEF PopSleep, MayLeavePopWait
    <2>6. ASSUME NEW c \in Consumers, PopNotify(c) PROVE CloseStrandsNobody'
        BY <2>6 DEF PopNotify
    <2>7. ASSUME NEW k \in Closers, CloseSet(k) PROVE CloseStrandsNobody'
        BY <2>7 DEF CloseSet
    <2>8. ASSUME NEW k \in Closers, CloseNotifyConsumers(k) PROVE CloseStrandsNobody'
        BY <2>8 DEF CloseNotifyConsumers
    <2>9. ASSUME NEW k \in Closers, CloseNotifyProducers(k) PROVE CloseStrandsNobody'
        BY <2>9 DEF CloseNotifyProducers
    <2>10. CASE UNCHANGED vars
        BY <2>10 DEF vars
    <2> QED
        BY <2>1, <2>2, <2>3, <2>4, <2>5, <2>6, <2>7, <2>8, <2>9, <2>10
        DEF Next, ProducerStep, ConsumerStep, CloserStep, Finished
<1> QED
    BY <1>1, <1>2, TypeInvariance, PTL DEF Spec

-----------------------------------------------------------------------------
(* No lost wakeup *)

\* One more element.
LEMMA CardinalityAdd ==
    ASSUME NEW U, IsFiniteSet(U), NEW S \in SUBSET U, NEW x, x \notin S
    PROVE  /\ Cardinality(S) \in Nat
           /\ Cardinality(S \cup {x}) = Cardinality(S) + 1
BY FS_Subset, FS_AddElement, FS_CardinalityType

\* One element less.
LEMMA CardinalityRemove ==
    ASSUME NEW U, IsFiniteSet(U), NEW S \in SUBSET U, NEW x \in S
    PROVE  /\ Cardinality(S) \in Nat
           /\ Cardinality(S \ {x}) = Cardinality(S) - 1
BY FS_Subset, FS_RemoveElement, FS_CardinalityType

\* The four sets that are counted are finite.
LEMMA DueFinite ==
    /\ Cardinality(ConsumersDue) \in Nat
    /\ Cardinality(ProducersDue) \in Nat
    /\ Cardinality(InsertNoticesDue) \in Nat
    /\ Cardinality(RemoveNoticesDue) \in Nat
<1>1. /\ ConsumersDue \in SUBSET Consumers
      /\ ProducersDue \in SUBSET Producers
      /\ InsertNoticesDue \in SUBSET Producers
      /\ RemoveNoticesDue \in SUBSET Consumers
    BY DEF ConsumersDue, ProducersDue, InsertNoticesDue, RemoveNoticesDue
<1> QED
    BY <1>1, QueueAssumption, FS_Subset, FS_CardinalityType

\* No wakeup of a consumer is lost in the window between the unlock of push()
\* and its notify_one() (52-54), for any number of producers and consumers.
THEOREM ConsumerWakeupTheorem == Spec => []NoLostConsumerWakeup
<1>1. Init => NoLostConsumerWakeup
    BY DEF Init, NoLostConsumerWakeup, SleepingConsumers
<1>2. TypeInv /\ NoLostConsumerWakeup /\ [Next]_vars => NoLostConsumerWakeup'
    <2> SUFFICES ASSUME TypeInv, NoLostConsumerWakeup, [Next]_vars
                 PROVE  NoLostConsumerWakeup'
        OBVIOUS
    <2> DEFINE A == ConsumersDue
               N == InsertNoticesDue
    <2> USE QueueAssumption DEF TypeInv, TypeOK
    <2>0. /\ Cardinality(A) \in Nat /\ Cardinality(N) \in Nat
          /\ A \in SUBSET Consumers /\ N \in SUBSET Producers
          /\ Len(queue) \in Nat
        BY DueFinite DEF ConsumersDue, InsertNoticesDue
    <2>a. SleepingConsumers # {} => Len(queue) <= Cardinality(A) + Cardinality(N)
        BY DEF NoLostConsumerWakeup
    <2>1. ASSUME A' = A, N' = N, SleepingConsumers' = SleepingConsumers, queue' = queue
          PROVE  NoLostConsumerWakeup'
        BY <2>1, <2>a DEF NoLostConsumerWakeup
    <2>2. ASSUME NEW p \in Producers,
                 CallPush(p) \/ PushSleep(p) \/ PushRefused(p) \/ SpuriousProducerWakeup(p)
          PROVE  NoLostConsumerWakeup'
        <3>1. N' = N
            BY <2>2 DEF InsertNoticesDue, CallPush, PushSleep, PushRefused, SpuriousProducerWakeup
        <3>2. A' = A /\ SleepingConsumers' = SleepingConsumers /\ queue' = queue
            BY <2>2 DEF ConsumersDue, SleepingConsumers, CallPush, PushSleep, PushRefused,
               SpuriousProducerWakeup
        <3> QED
            BY <2>1, <3>1, <3>2
    <2>3. ASSUME NEW p \in Producers, PushInsert(p) PROVE NoLostConsumerWakeup'
        <3>1. N' = N \cup {p} /\ p \notin N
            BY <2>3 DEF InsertNoticesDue, PushInsert
        <3>2. Cardinality(N') = Cardinality(N) + 1
            BY <2>0, <3>1, CardinalityAdd
        <3>3. A' = A /\ SleepingConsumers' = SleepingConsumers
            BY <2>3 DEF ConsumersDue, SleepingConsumers, PushInsert
        <3>4. Len(queue') = Len(queue) + 1
            BY <2>3 DEF PushInsert
        <3> QED
            BY <2>0, <2>a, <3>2, <3>3, <3>4 DEF NoLostConsumerWakeup
    <2>4. ASSUME NEW p \in Producers, PushNotify(p) PROVE NoLostConsumerWakeup'
        <3>1. CASE SleepingConsumers = {}
            BY <2>4, <3>1 DEF PushNotify, SleepingConsumers, NoLostConsumerWakeup
        <3>2. CASE SleepingConsumers # {}
            <4>1. PICK c \in SleepingConsumers : cons' = [cons EXCEPT ![c] = "enter"]
                BY <2>4, <3>2 DEF PushNotify
            <4>2. A' = A \cup {c} /\ c \notin A
                BY <4>1 DEF ConsumersDue, SleepingConsumers
            <4>3. N' = N \ {p} /\ p \in N
                BY <2>4 DEF InsertNoticesDue, PushNotify
            <4>4. Cardinality(A') = Cardinality(A) + 1
                BY <2>0, <4>2, CardinalityAdd
            <4>5. Cardinality(N') = Cardinality(N) - 1
                BY <2>0, <4>3, CardinalityRemove
            <4>6. queue' = queue
                BY <2>4 DEF PushNotify
            <4> QED
                BY <2>0, <2>a, <3>2, <4>4, <4>5, <4>6 DEF NoLostConsumerWakeup
        <3> QED
            BY <3>1, <3>2
    <2>5. ASSUME NEW c \in Consumers, CallPop(c) \/ SpuriousConsumerWakeup(c)
          PROVE  NoLostConsumerWakeup'
        <3>1. A' = A \cup {c} /\ c \notin A
            BY <2>5 DEF ConsumersDue, CallPop, SpuriousConsumerWakeup
        <3>2. Cardinality(A') = Cardinality(A) + 1
            BY <2>0, <3>1, CardinalityAdd
        <3>3. N' = N /\ queue' = queue
            BY <2>5 DEF InsertNoticesDue, CallPop, SpuriousConsumerWakeup
        <3>4. SleepingConsumers' # {} => SleepingConsumers # {}
            BY <2>5 DEF SleepingConsumers, CallPop, SpuriousConsumerWakeup
        <3> QED
            BY <2>0, <2>a, <3>2, <3>3, <3>4 DEF NoLostConsumerWakeup
    <2>6. ASSUME NEW c \in Consumers, PopSleep(c) \/ PopNullopt(c)
          PROVE  NoLostConsumerWakeup'
        <3>1. queue' = <<>>
            BY <2>6 DEF PopSleep, PopNullopt, MayLeavePopWait
        <3>2. Cardinality(A') \in Nat /\ Cardinality(N') \in Nat
            <4>1. A' \in SUBSET Consumers /\ N' \in SUBSET Producers
                BY DEF ConsumersDue, InsertNoticesDue
            <4> QED
                BY <4>1, FS_Subset, FS_CardinalityType
        <3> QED
            BY <3>1, <3>2 DEF NoLostConsumerWakeup
    <2>7. ASSUME NEW c \in Consumers, PopRemove(c) PROVE NoLostConsumerWakeup'
        <3>1. A' = A \ {c} /\ c \in A
            BY <2>7 DEF ConsumersDue, PopRemove
        <3>2. Cardinality(A') = Cardinality(A) - 1
            BY <2>0, <3>1, CardinalityRemove
        <3>3. N' = N /\ SleepingConsumers' = SleepingConsumers
            BY <2>7 DEF InsertNoticesDue, SleepingConsumers, PopRemove
        <3>4. Len(queue') = Len(queue) - 1
            BY <2>7 DEF PopRemove
        <3> QED
            BY <2>0, <2>a, <3>2, <3>3, <3>4 DEF NoLostConsumerWakeup
    <2>8. ASSUME NEW c \in Consumers, PopNotify(c) PROVE NoLostConsumerWakeup'
        <3>1. A' = A /\ SleepingConsumers' = SleepingConsumers /\ queue' = queue
            BY <2>8 DEF ConsumersDue, SleepingConsumers, PopNotify
        <3>2. N' = N
            BY <2>8 DEF InsertNoticesDue, SleepingProducers, PopNotify
        <3> QED
            BY <2>1, <3>1, <3>2
    <2>9. ASSUME NEW k \in Closers, CloseNotifyConsumers(k) PROVE NoLostConsumerWakeup'
        BY <2>9 DEF CloseNotifyConsumers, SleepingConsumers, NoLostConsumerWakeup
    <2>10. ASSUME NEW k \in Closers, CloseSet(k) \/ CloseNotifyProducers(k)
           PROVE  NoLostConsumerWakeup'
        <3>1. A' = A /\ SleepingConsumers' = SleepingConsumers /\ queue' = queue
            BY <2>10 DEF ConsumersDue, SleepingConsumers, CloseSet, CloseNotifyProducers
        <3>2. N' = N
            BY <2>10 DEF InsertNoticesDue, CloseSet, CloseNotifyProducers
        <3> QED
            BY <2>1, <3>1, <3>2
    <2>11. CASE UNCHANGED vars
        BY <2>1, <2>11 DEF vars, ConsumersDue, InsertNoticesDue, SleepingConsumers
    <2> QED
        BY <2>2, <2>3, <2>4, <2>5, <2>6, <2>7, <2>8, <2>9, <2>10, <2>11
        DEF Next, ProducerStep, ConsumerStep, CloserStep, Finished
<1> QED
    BY <1>1, <1>2, TypeInvariance, PTL DEF Spec

\* No wakeup of a producer is lost between the unlock of pop() and its
\* notify_one() (72-74): as long as the queue is open, a free place always has
\* a thread that will fill it or announce it.
THEOREM ProducerWakeupTheorem == Spec => []NoLostProducerWakeup
<1>1. Init => NoLostProducerWakeup
    BY DEF Init, NoLostProducerWakeup, SleepingProducers
<1>2. TypeInv /\ NoLostProducerWakeup /\ [Next]_vars => NoLostProducerWakeup'
    <2> SUFFICES ASSUME TypeInv, NoLostProducerWakeup, [Next]_vars
                 PROVE  NoLostProducerWakeup'
        OBVIOUS
    <2> DEFINE A == ProducersDue
               N == RemoveNoticesDue
    <2> USE QueueAssumption DEF TypeInv, TypeOK
    <2>0. /\ Cardinality(A) \in Nat /\ Cardinality(N) \in Nat
          /\ A \in SUBSET Producers /\ N \in SUBSET Consumers
          /\ Len(queue) \in Nat
        BY DueFinite DEF ProducersDue, RemoveNoticesDue
    <2>a. ~closed /\ SleepingProducers # {} =>
              Capacity - Len(queue) <= Cardinality(A) + Cardinality(N)
        BY DEF NoLostProducerWakeup
    <2>1. ASSUME A' = A, N' = N, SleepingProducers' = SleepingProducers, queue' = queue,
                 closed' = FALSE => closed = FALSE
          PROVE  NoLostProducerWakeup'
        BY <2>1, <2>a DEF NoLostProducerWakeup
    <2>2. ASSUME NEW p \in Producers, CallPush(p) \/ SpuriousProducerWakeup(p)
          PROVE  NoLostProducerWakeup'
        <3>1. A' = A \cup {p} /\ p \notin A
            BY <2>2 DEF ProducersDue, CallPush, SpuriousProducerWakeup
        <3>2. Cardinality(A') = Cardinality(A) + 1
            BY <2>0, <3>1, CardinalityAdd
        <3>3. N' = N /\ queue' = queue /\ closed' = closed
            BY <2>2 DEF RemoveNoticesDue, CallPush, SpuriousProducerWakeup
        <3>4. SleepingProducers' # {} => SleepingProducers # {}
            BY <2>2 DEF SleepingProducers, CallPush, SpuriousProducerWakeup
        <3> QED
            BY <2>0, <2>a, <3>2, <3>3, <3>4 DEF NoLostProducerWakeup
    <2>3. ASSUME NEW p \in Producers, PushSleep(p) PROVE NoLostProducerWakeup'
        <3>1. Capacity <= Len(queue) /\ queue' = queue
            BY <2>0, <2>3 DEF PushSleep, MayLeavePushWait, HasRoom
        <3>2. Cardinality(A') \in Nat /\ Cardinality(N') \in Nat
            <4>1. A' \in SUBSET Producers /\ N' \in SUBSET Consumers
                BY DEF ProducersDue, RemoveNoticesDue
            <4> QED
                BY <4>1, FS_Subset, FS_CardinalityType
        <3> QED
            BY <2>0, <3>1, <3>2 DEF NoLostProducerWakeup
    <2>4. ASSUME NEW p \in Producers, PushRefused(p) PROVE NoLostProducerWakeup'
        BY <2>4 DEF PushRefused, NoLostProducerWakeup
    <2>5. ASSUME NEW p \in Producers, PushInsert(p) PROVE NoLostProducerWakeup'
        <3>1. A' = A \ {p} /\ p \in A
            BY <2>5 DEF ProducersDue, PushInsert
        <3>2. Cardinality(A') = Cardinality(A) - 1
            BY <2>0, <3>1, CardinalityRemove
        <3>3. N' = N /\ SleepingProducers' = SleepingProducers /\ closed' = closed
            BY <2>5 DEF RemoveNoticesDue, SleepingProducers, PushInsert
        <3>4. Len(queue') = Len(queue) + 1
            BY <2>5 DEF PushInsert
        <3> QED
            BY <2>0, <2>a, <3>2, <3>3, <3>4 DEF NoLostProducerWakeup
    <2>6. ASSUME NEW p \in Producers, PushNotify(p) PROVE NoLostProducerWakeup'
        <3>1. A' = A /\ SleepingProducers' = SleepingProducers /\ queue' = queue
              /\ closed' = closed
            BY <2>6 DEF ProducersDue, SleepingProducers, PushNotify
        <3>2. N' = N
            BY <2>6 DEF RemoveNoticesDue, SleepingConsumers, PushNotify
        <3> QED
            BY <2>1, <3>1, <3>2
    <2>7. ASSUME NEW c \in Consumers,
                 CallPop(c) \/ PopSleep(c) \/ PopNullopt(c) \/ SpuriousConsumerWakeup(c)
          PROVE  NoLostProducerWakeup'
        <3>1. N' = N
            BY <2>7 DEF RemoveNoticesDue, CallPop, PopSleep, PopNullopt, SpuriousConsumerWakeup
        <3>2. A' = A /\ SleepingProducers' = SleepingProducers /\ queue' = queue
              /\ closed' = closed
            BY <2>7 DEF ProducersDue, SleepingProducers, CallPop, PopSleep, PopNullopt,
               SpuriousConsumerWakeup
        <3> QED
            BY <2>1, <3>1, <3>2
    <2>8. ASSUME NEW c \in Consumers, PopRemove(c) PROVE NoLostProducerWakeup'
        <3>1. N' = N \cup {c} /\ c \notin N
            BY <2>8 DEF RemoveNoticesDue, PopRemove
        <3>2. Cardinality(N') = Cardinality(N) + 1
            BY <2>0, <3>1, CardinalityAdd
        <3>3. A' = A /\ SleepingProducers' = SleepingProducers /\ closed' = closed
            BY <2>8 DEF ProducersDue, SleepingProducers, PopRemove
        <3>4. Len(queue') = Len(queue) - 1
            BY <2>8 DEF PopRemove
        <3> QED
            BY <2>0, <2>a, <3>2, <3>3, <3>4 DEF NoLostProducerWakeup
    <2>9. ASSUME NEW c \in Consumers, PopNotify(c) PROVE NoLostProducerWakeup'
        <3>1. CASE SleepingProducers = {}
            BY <2>9, <3>1 DEF PopNotify, SleepingProducers, NoLostProducerWakeup
        <3>2. CASE SleepingProducers # {}
            <4>1. PICK p \in SleepingProducers : prod' = [prod EXCEPT ![p] = "enter"]
                BY <2>9, <3>2 DEF PopNotify
            <4>2. A' = A \cup {p} /\ p \notin A
                BY <4>1 DEF ProducersDue, SleepingProducers
            <4>3. N' = N \ {c} /\ c \in N
                BY <2>9 DEF RemoveNoticesDue, PopNotify
            <4>4. Cardinality(A') = Cardinality(A) + 1
                BY <2>0, <4>2, CardinalityAdd
            <4>5. Cardinality(N') = Cardinality(N) - 1
                BY <2>0, <4>3, CardinalityRemove
            <4>6. queue' = queue /\ closed' = closed
                BY <2>9 DEF PopNotify
            <4> QED
                BY <2>0, <2>a, <3>2, <4>4, <4>5, <4>6 DEF NoLostProducerWakeup
        <3> QED
            BY <3>1, <3>2
    <2>10. ASSUME NEW k \in Closers, CloseSet(k) PROVE NoLostProducerWakeup'
        BY <2>10 DEF CloseSet, NoLostProducerWakeup
    <2>11. ASSUME NEW k \in Closers, CloseNotifyConsumers(k) PROVE NoLostProducerWakeup'
        <3>1. A' = A /\ SleepingProducers' = SleepingProducers /\ queue' = queue
              /\ closed' = closed
            BY <2>11 DEF ProducersDue, SleepingProducers, CloseNotifyConsumers
        <3>2. N' = N
            BY <2>11 DEF RemoveNoticesDue, CloseNotifyConsumers
        <3> QED
            BY <2>1, <3>1, <3>2
    <2>12. ASSUME NEW k \in Closers, CloseNotifyProducers(k) PROVE NoLostProducerWakeup'
        BY <2>12 DEF CloseNotifyProducers, SleepingProducers, NoLostProducerWakeup
    <2>13. CASE UNCHANGED vars
        BY <2>1, <2>13 DEF vars, ProducersDue, RemoveNoticesDue, SleepingProducers
    <2> QED
        BY <2>2, <2>3, <2>4, <2>5, <2>6, <2>7, <2>8, <2>9, <2>10, <2>11, <2>12, <2>13
        DEF Next, ProducerStep, ConsumerStep, CloserStep, Finished
<1> QED
    BY <1>1, <1>2, TypeInvariance, PTL DEF Spec

-----------------------------------------------------------------------------
(* Refinement *)

\* Somebody has been told nullopt: the mapping of the abstract exhausted.
SomeoneDrained == \E c \in Consumers : cons[c] = "drained"

\* Put together: every thread asleep in push() or pop() has a wakeup ahead of
\* it, for any number of threads and any capacity (BlockingQueue.hpp 40-87).
THEOREM NoLostWakeupTheorem == Spec => []NoLostWakeup
BY ConsumerWakeupTheorem, ProducerWakeupTheorem, CloseTheorem, PTL DEF NoLostWakeup

\* The threaded queue implements the closable FIFO of ClosableFifo: every
\* critical section is one abstract operation, and sleeping, waking and
\* notifying change nothing (push 43-56, pop 62-76, close 79-87).
THEOREM ImplementsFifoTheorem == Spec => ImplementsFifo
<1> USE DEF Fifo!fifoVars
<1>1. Init => Fifo!Init
    BY DEF Init, Fifo!Init
<1>2. TypeInv /\ TypeInv' /\ [Next]_vars => [Fifo!Next]_(Fifo!fifoVars)
    <2> SUFFICES ASSUME TypeInv, TypeInv', [Next]_vars
                 PROVE  [Fifo!Next]_(Fifo!fifoVars)
        OBVIOUS
    <2> USE DEF TypeInv, TypeOK
    <2>1. ASSUME queue' = queue, popped' = popped, closed' = closed,
                 SomeoneDrained' = SomeoneDrained
          PROVE  UNCHANGED Fifo!fifoVars
        BY <2>1 DEF SomeoneDrained
    <2>2. ASSUME NEW p \in Producers, PushInsert(p) PROVE Fifo!Next
        <3>1. <<p, sent[p]>> \in Value
            BY <2>2, QueueAssumption DEF PushInsert, CallsCounted, Value
        <3>2. Fifo!Put(<<p, sent[p]>>)
            BY <2>2 DEF PushInsert, MayLeavePushWait, HasRoom, Fifo!Put
        <3> QED
            BY <3>1, <3>2 DEF Fifo!Next
    <2>3. ASSUME NEW p \in Producers,
                 CallPush(p) \/ PushSleep(p) \/ PushRefused(p) \/ SpuriousProducerWakeup(p)
          PROVE  UNCHANGED Fifo!fifoVars
        BY <2>3 DEF CallPush, PushSleep, PushRefused, SpuriousProducerWakeup
    <2>4. ASSUME NEW p \in Producers, PushNotify(p) PROVE UNCHANGED Fifo!fifoVars
        <3>1. SomeoneDrained' = SomeoneDrained
            BY <2>4 DEF PushNotify, SleepingConsumers, SomeoneDrained
        <3> QED
            BY <2>1, <2>4, <3>1 DEF PushNotify
    <2>5. ASSUME NEW c \in Consumers, PopRemove(c) PROVE Fifo!Next
        <3>1. SomeoneDrained' = SomeoneDrained
            BY <2>5 DEF PopRemove, SomeoneDrained
        <3>2. Fifo!Take
            BY <2>5, <3>1 DEF PopRemove, SomeoneDrained, Fifo!Take
        <3> QED
            BY <3>2 DEF Fifo!Next
    <2>6. ASSUME NEW c \in Consumers, PopNullopt(c) PROVE Fifo!Next
        <3>1. SomeoneDrained' = TRUE
            BY <2>6 DEF PopNullopt, SomeoneDrained
        <3>2. Fifo!ReportExhausted
            BY <2>6, <3>1 DEF PopNullopt, MayLeavePopWait, SomeoneDrained, Fifo!ReportExhausted
        <3> QED
            BY <3>2 DEF Fifo!Next
    <2>7. ASSUME NEW c \in Consumers,
                 CallPop(c) \/ PopSleep(c) \/ PopNotify(c) \/ SpuriousConsumerWakeup(c)
          PROVE  UNCHANGED Fifo!fifoVars
        <3>1. SomeoneDrained' = SomeoneDrained
            BY <2>7 DEF CallPop, PopSleep, PopNotify, SpuriousConsumerWakeup, SomeoneDrained
        <3>2. queue' = queue /\ popped' = popped /\ closed' = closed
            BY <2>7 DEF CallPop, PopSleep, PopNotify, SpuriousConsumerWakeup
        <3> QED
            BY <2>1, <3>1, <3>2
    <2>8. ASSUME NEW k \in Closers, CloseSet(k) PROVE Fifo!Next
        BY <2>8 DEF CloseSet, Fifo!Close, Fifo!Next
    <2>9. ASSUME NEW k \in Closers, CloseNotifyConsumers(k) PROVE UNCHANGED Fifo!fifoVars
        <3>1. SomeoneDrained' = SomeoneDrained
            BY <2>9 DEF CloseNotifyConsumers, SomeoneDrained
        <3> QED
            BY <2>1, <2>9, <3>1 DEF CloseNotifyConsumers
    <2>10. ASSUME NEW k \in Closers, CloseNotifyProducers(k) PROVE UNCHANGED Fifo!fifoVars
        BY <2>10 DEF CloseNotifyProducers
    <2>11. CASE UNCHANGED vars
        BY <2>11 DEF vars
    <2> QED
        BY <2>2, <2>3, <2>4, <2>5, <2>6, <2>7, <2>8, <2>9, <2>10, <2>11
        DEF Next, ProducerStep, ConsumerStep, CloserStep, Finished
<1> QED
    BY <1>1, <1>2, TypeInvariance, PTL DEF Spec, ImplementsFifo, Fifo!Spec
=============================================================================
