------------------------------- MODULE TcpLoop -------------------------------
(***************************************************************************)
(* NetworkServer::runTcp (src/NetworkServerTcp.cpp:119-246) as the process *)
(* sees it: where its thread is, and whether something waits for it.       *)
(*                                                                         *)
(* Module TcpServer has the clients, their bytes and descriptors.  Here    *)
(* they are one flag: bytes wait in some receive buffer, or a connection   *)
(* waits to be accepted.  The loops that drain them (lines 171 and 217)    *)
(* read neither running nor stopRequested_, and nothing bounds how often   *)
(* more arrives.                                                           *)
(***************************************************************************)
EXTENDS Naturals

CONSTANT
  MaxTcpFrames   \* bound: frames the clients send

VARIABLES
  tcpLoop,   \* "off", "test", "poll", "drain", "left" or "threw"
  waiting    \* bytes or connections wait

tcpVars == <<tcpLoop, waiting>>

TcpInit == tcpLoop = "off" /\ waiting = FALSE

\* The clients send or connect.
TcpArrives ==
  /\ tcpLoop \in {"test", "poll", "drain"}
  /\ waiting' = TRUE
  /\ UNCHANGED tcpLoop

\* Leaving runTcp closes every socket: what waits is lost.
TcpLeave(how) == tcpLoop' = how /\ waiting' = FALSE

\* The loop condition.
TcpTestRunning(running, stopRequested) ==
  /\ tcpLoop = "test"
  /\ IF running /\ ~stopRequested THEN tcpLoop' = "poll" /\ UNCHANGED waiting
     ELSE TcpLeave("left")

TcpPollReady ==
  /\ tcpLoop = "poll"
  /\ waiting
  /\ tcpLoop' = "drain"
  /\ UNCHANGED waiting

\* The timeout or EINTR.
TcpPollAgain ==
  /\ tcpLoop = "poll"
  /\ tcpLoop' = "test"
  /\ UNCHANGED waiting

\* recv() returns bytes, or accept() a client, and the loop goes round.
TcpTakes ==
  /\ tcpLoop = "drain"
  /\ waiting
  /\ waiting' = FALSE
  /\ UNCHANGED tcpLoop

\* EAGAIN: nothing waits any more.  Or an error other than EINTR, which drops
\* the client or leaves the connection unaccepted.
TcpDrained ==
  /\ tcpLoop = "drain"
  /\ tcpLoop' = "test"
  /\ \/ ~waiting /\ UNCHANGED waiting
     \/ waiting /\ waiting' \in BOOLEAN

\* poll() fails, or an accepted descriptor cannot be set non-blocking.
TcpFails ==
  /\ tcpLoop \in {"poll", "drain"}
  /\ TcpLeave("threw")

TcpLoopStep(running, stopRequested) ==
  \/ TcpTestRunning(running, stopRequested) \/ TcpPollReady \/ TcpPollAgain
  \/ TcpTakes \/ TcpDrained \/ TcpFails

=============================================================================
