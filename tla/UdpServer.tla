------------------------------ MODULE UdpServer ------------------------------
(***************************************************************************)
(* NetworkServer::runUdp (src/NetworkServerUdp.cpp:25-78): poll, recvfrom  *)
(* with MSG_TRUNC into a buffer of MaxFrameSize, and the callback.         *)
(*                                                                         *)
(* A datagram is its number and its size.  The kernel queues a bounded     *)
(* number of them and drops the others; udpLoop is where the thread is.    *)
(***************************************************************************)
EXTENDS Naturals, Sequences

CONSTANTS
  DatagramSizes,
  MaxDatagramSize,   \* MaxFrameSize
  SocketQueue,       \* datagrams the kernel keeps
  MaxDatagrams       \* bound: datagrams sent to the station

ASSUME UdpAssumption == DatagramSizes \subseteq Nat /\ MaxDatagramSize \in Nat

VARIABLES
  udpLoop,     \* "off", "test", "poll", "recv", "left" or "threw"
  sockets,     \* the socket's receive queue
  arrived,     \* history: the datagrams the kernel queued
  delivered    \* history: the callback's arguments

udpVars == <<udpLoop, sockets, arrived, delivered>>

UdpInit ==
  /\ udpLoop = "off"
  /\ sockets = <<>>
  /\ arrived = <<>>
  /\ delivered = <<>>

\* A datagram reaches the bound socket; a full queue drops it silently.
DatagramArrives ==
  /\ udpLoop \in {"test", "poll", "recv"}
  /\ Len(arrived) < MaxDatagrams
  /\ Len(sockets) < SocketQueue
  /\ \E size \in DatagramSizes :
       LET d == [number |-> Len(arrived) + 1, size |-> size]
       IN  sockets' = Append(sockets, d) /\ arrived' = Append(arrived, d)
  /\ UNCHANGED <<udpLoop, delivered>>

\* The loop condition.
TestRunning(running, stopRequested) ==
  /\ udpLoop = "test"
  /\ udpLoop' = IF running /\ ~stopRequested THEN "poll" ELSE "left"
  /\ UNCHANGED <<sockets, arrived, delivered>>

PollReady ==
  /\ udpLoop = "poll"
  /\ sockets # <<>>
  /\ udpLoop' = "recv"
  /\ UNCHANGED <<sockets, arrived, delivered>>

\* The timeout, EINTR, or an event other than POLLIN.
PollAgain ==
  /\ udpLoop = "poll"
  /\ udpLoop' = "test"
  /\ UNCHANGED <<sockets, arrived, delivered>>

PollFails ==
  /\ udpLoop = "poll"
  /\ udpLoop' = "threw"
  /\ UNCHANGED <<sockets, arrived, delivered>>

\* recvfrom fails for want of memory or is interrupted: warned and retried.
ReceiveFails ==
  /\ udpLoop = "recv"
  /\ udpLoop' = "test"
  /\ UNCHANGED <<sockets, arrived, delivered>>

\* Mutant of ReceivedSize: without MSG_TRUNC recvfrom returns what it copied.
ReceivedSizeCopied(d) == IF d.size <= MaxDatagramSize THEN d.size ELSE MaxDatagramSize

\* With MSG_TRUNC recvfrom returns the size on the wire.
ReceivedSize(d) == d.size

Oversized == ReceivedSize(Head(sockets)) > MaxDatagramSize

DropOversized ==
  /\ udpLoop = "recv"
  /\ Oversized
  /\ sockets' = Tail(sockets)
  /\ udpLoop' = "test"
  /\ UNCHANGED <<arrived, delivered>>

\* The callback gets the first ReceivedSize bytes of the buffer.
DeliverDatagram ==
  /\ udpLoop = "recv"
  /\ ~Oversized
  /\ sockets' = Tail(sockets)
  /\ delivered' = Append(delivered, [Head(sockets) EXCEPT !.size = ReceivedSize(Head(sockets))])
  /\ udpLoop' = "test"
  /\ UNCHANGED arrived

Legal(d) == d.size <= MaxDatagramSize

\* The datagrams of s that fit, in their order.
LegalOf(s) ==
  LET upTo[i \in 0..Len(s)] ==
        IF i = 0 THEN <<>>
        ELSE IF Legal(s[i]) THEN Append(upTo[i - 1], s[i]) ELSE upTo[i - 1]
  IN  upTo[Len(s)]

(* Datagrams reach the pipeline whole, once and in the order the kernel     *)
(* queued them; the only ones missing are those larger than a frame, and    *)
(* none of those is delivered as its first bytes (NetworkServerUdp.cpp:66). *)
DatagramsWholeInOrder == delivered \o LegalOf(sockets) = LegalOf(arrived)

=============================================================================
