---------------------------- MODULE BlockingQueue ----------------------------
(***************************************************************************)
(* stgs::BlockingQueue<T> (include/stgs/BlockingQueue.hpp): a FIFO shared  *)
(* by producer and consumer threads, with back-pressure and an explicit    *)
(* close().                                                                *)
(*                                                                         *)
(* A critical section of mutex_ is one action: the evaluation of a wait    *)
(* predicate and, when it is false, falling asleep on the condition        *)
(* variable are one atomic step, as std::condition_variable guarantees.    *)
(* The notifications are issued AFTER the unlock (lines 52-54, 72-74,      *)
(* 81-86), so they are steps of their own and any other thread may run     *)
(* between the unlock and the notification.  A woken thread competes for   *)
(* the mutex again and re-evaluates its predicate; it may also wake up     *)
(* spuriously.                                                             *)
(***************************************************************************)
EXTENDS Naturals, Sequences, FiniteSets

CONSTANTS
    Producers,  \* threads that call push()
    Consumers,  \* threads that loop on pop() until it returns nullopt
    Closers,    \* threads that call close()
    Capacity,   \* capacity_, 0 for an unbounded queue
    MaxPush     \* bound on the calls of push() of each producer

ASSUME QueueAssumption ==
    /\ IsFiniteSet(Producers)
    /\ IsFiniteSet(Consumers)
    /\ Capacity \in Nat
    /\ MaxPush \in Nat

VARIABLES
    queue,    \* queue_
    closed,   \* closed_
    prod,     \* where each producer is
    cons,     \* where each consumer is
    closer,   \* where each closing thread is
    sent,     \* sent[p]: the calls of push() p has begun
    refused,  \* refused[p]: the calls of push() that returned false to p
    popped    \* history: the values returned by pop(), in order of removal

vars == <<queue, closed, prod, cons, closer, sent, refused, popped>>

\* "enter": about to take the mutex and evaluate the wait predicate;
\* "asleep": blocked in wait(); "notify": unlocked, notify_one() still due.
ProducerStates == {"idle", "enter", "asleep", "notify"}

\* "drained": pop() returned nullopt, the caller's loop has ended.
ConsumerStates == {"idle", "enter", "asleep", "notify", "drained"}

CloserStates == {"idle", "notifyConsumers", "notifyProducers", "done"}

\* The n-th value pushed by p, for every call p may make.
Value == Producers \X (1 .. MaxPush)

TypeOK ==
    /\ queue \in Seq(Value)
    /\ closed \in BOOLEAN
    /\ prod \in [Producers -> ProducerStates]
    /\ cons \in [Consumers -> ConsumerStates]
    /\ closer \in [Closers -> CloserStates]
    /\ sent \in [Producers -> 0 .. MaxPush]
    /\ refused \in [Producers -> 0 .. MaxPush]
    /\ popped \in Seq(Value)

Init ==
    /\ queue = <<>>
    /\ closed = FALSE
    /\ prod = [p \in Producers |-> "idle"]
    /\ cons = [c \in Consumers |-> "idle"]
    /\ closer = [k \in Closers |-> "idle"]
    /\ sent = [p \in Producers |-> 0]
    /\ refused = [p \in Producers |-> 0]
    /\ popped = <<>>

SleepingProducers == {p \in Producers : prod[p] = "asleep"}
SleepingConsumers == {c \in Consumers : cons[c] = "asleep"}

\* The predicates the two condition variables wait for.
HasRoom == Capacity = 0 \/ Len(queue) < Capacity
MayLeavePushWait == closed \/ HasRoom
MayLeavePopWait == closed \/ queue # <<>>

-----------------------------------------------------------------------------
(* push *)

CallPush(p) ==
    /\ prod[p] = "idle"
    /\ sent[p] < MaxPush
    /\ prod' = [prod EXCEPT ![p] = "enter"]
    /\ sent' = [sent EXCEPT ![p] = @ + 1]
    /\ UNCHANGED <<queue, closed, cons, closer, refused, popped>>

PushSleep(p) ==
    /\ prod[p] = "enter"
    /\ ~MayLeavePushWait
    /\ prod' = [prod EXCEPT ![p] = "asleep"]
    /\ UNCHANGED <<queue, closed, cons, closer, sent, refused, popped>>

PushRefused(p) ==
    /\ prod[p] = "enter"
    /\ MayLeavePushWait
    /\ closed
    /\ prod' = [prod EXCEPT ![p] = "idle"]
    /\ refused' = [refused EXCEPT ![p] = @ + 1]
    /\ UNCHANGED <<queue, closed, cons, closer, sent, popped>>

\* Mutant of PushInsert: closed_ is not looked at after the wait.
PushInsertThoughClosed(p) ==
    /\ prod[p] = "enter"
    /\ MayLeavePushWait
    /\ queue' = Append(queue, <<p, sent[p]>>)
    /\ prod' = [prod EXCEPT ![p] = "notify"]
    /\ UNCHANGED <<closed, cons, closer, sent, refused, popped>>

PushInsert(p) ==
    /\ prod[p] = "enter"
    /\ MayLeavePushWait
    /\ ~closed
    /\ queue' = Append(queue, <<p, sent[p]>>)
    /\ prod' = [prod EXCEPT ![p] = "notify"]
    /\ UNCHANGED <<closed, cons, closer, sent, refused, popped>>

\* Mutant of PushNotify: no notify_one().
PushNotifySilent(p) ==
    /\ prod[p] = "notify"
    /\ prod' = [prod EXCEPT ![p] = "idle"]
    /\ UNCHANGED <<queue, closed, cons, closer, sent, refused, popped>>

\* consumerCv_.notify_one(): one sleeper, if there is one, and push() returns.
PushNotify(p) ==
    /\ prod[p] = "notify"
    /\ prod' = [prod EXCEPT ![p] = "idle"]
    /\ IF SleepingConsumers = {}
         THEN UNCHANGED cons
         ELSE \E c \in SleepingConsumers : cons' = [cons EXCEPT ![c] = "enter"]
    /\ UNCHANGED <<queue, closed, closer, sent, refused, popped>>

-----------------------------------------------------------------------------
(* pop *)

CallPop(c) ==
    /\ cons[c] = "idle"
    /\ cons' = [cons EXCEPT ![c] = "enter"]
    /\ UNCHANGED <<queue, closed, prod, closer, sent, refused, popped>>

PopSleep(c) ==
    /\ cons[c] = "enter"
    /\ ~MayLeavePopWait
    /\ cons' = [cons EXCEPT ![c] = "asleep"]
    /\ UNCHANGED <<queue, closed, prod, closer, sent, refused, popped>>

PopNullopt(c) ==
    /\ cons[c] = "enter"
    /\ MayLeavePopWait
    /\ queue = <<>>
    /\ cons' = [cons EXCEPT ![c] = "drained"]
    /\ UNCHANGED <<queue, closed, prod, closer, sent, refused, popped>>

PopRemove(c) ==
    /\ cons[c] = "enter"
    /\ MayLeavePopWait
    /\ queue # <<>>
    /\ popped' = Append(popped, Head(queue))
    /\ queue' = Tail(queue)
    /\ cons' = [cons EXCEPT ![c] = "notify"]
    /\ UNCHANGED <<closed, prod, closer, sent, refused>>

\* Mutant of PopNotify: no notify_one().
PopNotifySilent(c) ==
    /\ cons[c] = "notify"
    /\ cons' = [cons EXCEPT ![c] = "idle"]
    /\ UNCHANGED <<queue, closed, prod, closer, sent, refused, popped>>

\* producerCv_.notify_one(), and pop() returns the value.
PopNotify(c) ==
    /\ cons[c] = "notify"
    /\ cons' = [cons EXCEPT ![c] = "idle"]
    /\ IF SleepingProducers = {}
         THEN UNCHANGED prod
         ELSE \E p \in SleepingProducers : prod' = [prod EXCEPT ![p] = "enter"]
    /\ UNCHANGED <<queue, closed, closer, sent, refused, popped>>

-----------------------------------------------------------------------------
(* close *)

CloseSet(k) ==
    /\ closer[k] = "idle"
    /\ closed' = TRUE
    /\ closer' = [closer EXCEPT ![k] = "notifyConsumers"]
    /\ UNCHANGED <<queue, prod, cons, sent, refused, popped>>

\* Mutant of CloseNotifyConsumers: notify_one() instead of notify_all().
CloseNotifyOneConsumer(k) ==
    /\ closer[k] = "notifyConsumers"
    /\ IF SleepingConsumers = {}
         THEN UNCHANGED cons
         ELSE \E c \in SleepingConsumers : cons' = [cons EXCEPT ![c] = "enter"]
    /\ closer' = [closer EXCEPT ![k] = "notifyProducers"]
    /\ UNCHANGED <<queue, closed, prod, sent, refused, popped>>

\* consumerCv_.notify_all()
CloseNotifyConsumers(k) ==
    /\ closer[k] = "notifyConsumers"
    /\ cons' = [c \in Consumers |-> IF cons[c] = "asleep" THEN "enter" ELSE cons[c]]
    /\ closer' = [closer EXCEPT ![k] = "notifyProducers"]
    /\ UNCHANGED <<queue, closed, prod, sent, refused, popped>>

\* producerCv_.notify_all()
CloseNotifyProducers(k) ==
    /\ closer[k] = "notifyProducers"
    /\ prod' = [p \in Producers |-> IF prod[p] = "asleep" THEN "enter" ELSE prod[p]]
    /\ closer' = [closer EXCEPT ![k] = "done"]
    /\ UNCHANGED <<queue, closed, cons, sent, refused, popped>>

-----------------------------------------------------------------------------
(* The wait-with-predicate loop has to survive a wakeup nobody asked for. *)

SpuriousProducerWakeup(p) ==
    /\ prod[p] = "asleep"
    /\ prod' = [prod EXCEPT ![p] = "enter"]
    /\ UNCHANGED <<queue, closed, cons, closer, sent, refused, popped>>

SpuriousConsumerWakeup(c) ==
    /\ cons[c] = "asleep"
    /\ cons' = [cons EXCEPT ![c] = "enter"]
    /\ UNCHANGED <<queue, closed, prod, closer, sent, refused, popped>>

\* Every thread has gone home: stuttering is all that is left.
AllReturned ==
    /\ \A p \in Producers : prod[p] = "idle" /\ sent[p] = MaxPush
    /\ \A c \in Consumers : cons[c] = "drained"
    /\ \A k \in Closers : closer[k] = "done"

Finished == AllReturned /\ UNCHANGED vars

\* What the mutex, the condition variables and the loops of the callers make
\* happen once a thread is inside the queue (or, for a consumer, alive).
ProducerStep(p) ==
    \/ PushSleep(p)
    \/ PushRefused(p)
    \/ PushInsert(p)
    \/ PushNotify(p)

ConsumerStep(c) ==
    \/ CallPop(c)
    \/ PopSleep(c)
    \/ PopNullopt(c)
    \/ PopRemove(c)
    \/ PopNotify(c)

CloserStep(k) ==
    \/ CloseNotifyConsumers(k)
    \/ CloseNotifyProducers(k)

Next ==
    \/ \E p \in Producers : CallPush(p) \/ ProducerStep(p) \/ SpuriousProducerWakeup(p)
    \/ \E c \in Consumers : ConsumerStep(c) \/ SpuriousConsumerWakeup(c)
    \/ \E k \in Closers : CloseSet(k) \/ CloserStep(k)
    \/ Finished

Spec == Init /\ [][Next]_vars

\* A runnable thread is eventually scheduled and a mutex that keeps being
\* released is eventually obtained.  Nobody has to call push() or close(), and
\* no spurious wakeup is ever owed.
Fairness ==
    /\ \A p \in Producers : WF_vars(ProducerStep(p))
    /\ \A c \in Consumers : WF_vars(ConsumerStep(c))
    /\ \A k \in Closers : WF_vars(CloserStep(k))

FairSpec == Spec /\ Fairness

-----------------------------------------------------------------------------
(* Safety *)

\* Back-pressure (BlockingQueue.hpp 46-51): however many producers pass the
\* wait together, the queue never holds more than its capacity.
CapacityRespected == Capacity # 0 => Len(queue) <= Capacity

\* nullopt means the end (class comment, lines 25-27): once any consumer was
\* told so, the queue is closed and empty and will remain so, hence no other
\* consumer can still receive a value.
NulloptMeansDrained ==
    (\E c \in Consumers : cons[c] = "drained") => closed /\ queue = <<>>

\* Threads at a place where they will (re-)evaluate the consumers' predicate
\* or wake a consumer that does, and the same for the producers.
ConsumersDue == {c \in Consumers : cons[c] = "enter"}
ProducersDue == {p \in Producers : prod[p] = "enter"}
InsertNoticesDue == {p \in Producers : prod[p] = "notify"}
RemoveNoticesDue == {c \in Consumers : cons[c] = "notify"}

\* No wakeup of a consumer is lost although notify_one() comes after the
\* unlock (52-54): while a consumer sleeps, each stored element is matched by
\* an awake consumer about to look or by a notification still to be issued.
NoLostConsumerWakeup ==
    SleepingConsumers # {} =>
        Len(queue) <= Cardinality(ConsumersDue) + Cardinality(InsertNoticesDue)

\* The same for a producer asleep on a full, still open queue (72-74): each
\* free place is matched by an awake producer about to look or by a
\* notification still due.
NoLostProducerWakeup ==
    ~closed /\ SleepingProducers # {} =>
        Capacity - Len(queue) <= Cardinality(ProducersDue) + Cardinality(RemoveNoticesDue)

\* close() strands nobody (79-87): a thread still asleep on a closed queue has
\* a notify_all() of its condition variable ahead of it.
CloseStrandsNobody ==
    closed =>
        /\ SleepingConsumers # {} =>
             \E k \in Closers : closer[k] = "notifyConsumers"
        /\ SleepingProducers # {} =>
             \E k \in Closers : closer[k] \in {"notifyConsumers", "notifyProducers"}

\* Every sleeper has its wakeup ahead of it, whichever side it is on and
\* whether the queue is open or closed: the three rules above together.
NoLostWakeup == NoLostConsumerWakeup /\ NoLostProducerWakeup /\ CloseStrandsNobody

-----------------------------------------------------------------------------
(* Liveness *)

\* A producer blocked by back-pressure gets out of push(), because consumers
\* make room or because the queue is closed.
BlockedPushReturns == \A p \in Producers : prod[p] = "asleep" ~> prod[p] = "idle"

\* After close() every consumer's loop ends: it drains what is stored and is
\* then told nullopt.
CloseEndsConsumers == \A c \in Consumers : closed ~> cons[c] = "drained"

\* Whatever was accepted is delivered: a non-empty queue does not stay so.
AcceptedIsDelivered == \A p \in Producers :
    \A n \in 1 .. MaxPush :
        (\E i \in DOMAIN queue : queue[i] = <<p, n>>)
            ~> (\E i \in DOMAIN popped : popped[i] = <<p, n>>)

-----------------------------------------------------------------------------
(* The queue implements its abstract specification. *)

Fifo == INSTANCE ClosableFifo WITH
    Item <- Value,
    items <- queue,
    delivered <- popped,
    shut <- closed,
    exhausted <- \E c \in Consumers : cons[c] = "drained"

\* The mutex and the condition variables are invisible: every step of every
\* thread is a step of the abstract closable FIFO, or none.
ImplementsFifo == Fifo!Spec
=============================================================================
