---------------------------- MODULE ClosableFifo ----------------------------
(***************************************************************************)
(* What stgs::BlockingQueue promises to the stages it connects, without    *)
(* threads, locks or condition variables: a FIFO of at most Capacity       *)
(* elements (0 means no limit) that accepts nothing once it is closed and  *)
(* that reports its exhaustion only when it is closed and empty.           *)
(* (include/stgs/BlockingQueue.hpp, class comment at lines 22-30.)         *)
(***************************************************************************)
EXTENDS Naturals, Sequences

CONSTANTS
    Item,       \* the elements that may be transferred
    Capacity    \* the configured bound, 0 for none

VARIABLES
    items,      \* accepted and not yet removed, oldest first
    delivered,  \* removed so far, in order of removal
    shut,       \* close() has taken effect
    exhausted   \* some reader has been told that nothing will ever come again

fifoVars == <<items, delivered, shut, exhausted>>

Init ==
    /\ items = <<>>
    /\ delivered = <<>>
    /\ shut = FALSE
    /\ exhausted = FALSE

Put(v) ==
    /\ ~shut
    /\ Capacity = 0 \/ Len(items) < Capacity
    /\ items' = Append(items, v)
    /\ UNCHANGED <<delivered, shut, exhausted>>

Take ==
    /\ items # <<>>
    /\ delivered' = Append(delivered, Head(items))
    /\ items' = Tail(items)
    /\ UNCHANGED <<shut, exhausted>>

Close ==
    /\ shut' = TRUE
    /\ UNCHANGED <<items, delivered, exhausted>>

ReportExhausted ==
    /\ shut
    /\ items = <<>>
    /\ exhausted' = TRUE
    /\ UNCHANGED <<items, delivered, shut>>

Next ==
    \/ \E v \in Item : Put(v)
    \/ Take
    \/ Close
    \/ ReportExhausted

Spec == Init /\ [][Next]_fifoVars
=============================================================================
