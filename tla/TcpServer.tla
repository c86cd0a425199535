------------------------------ MODULE TcpServer ------------------------------
(***************************************************************************)
(* stgs::NetworkServer over TCP (src/NetworkServer.cpp,                    *)
(* src/NetworkServerTcp.cpp): one thread polls the listening socket and    *)
(* its clients, drains the readable ones through their StreamFrameExtractor*)
(* into the callback, and accepts new ones; other threads ask it to stop.  *)
(*                                                                         *)
(* The kernel and the peers are external: a connection has a receive       *)
(* buffer and a peer that sends bytes and then closes or resets.  A client *)
(* sends well-formed frames of FrameSize bytes cut anywhere, so the        *)
(* extractor is the number of bytes it holds.  EINTR restarts a call and   *)
(* is only visible where it leads elsewhere, after poll(); POLLNVAL cannot *)
(* happen, the vector owns the descriptors it polls.                       *)
(***************************************************************************)
EXTENDS Integers, Sequences, FiniteSets

CONSTANTS
    Clients,    \* the peers
    FrameSize,  \* bytes of a frame
    ReadSize,   \* TcpReadBufferSize
    RcvBuf,     \* bytes the kernel holds for a connection
    MaxSend,    \* bound on the bytes a peer sends
    Endless,    \* TRUE: a peer with bytes to send never runs out of them
    Faults      \* what may fail in this instance

FaultKinds == {"bind", "poll", "callback", "accept", "reset"}

ASSUME TcpAssumption ==
    /\ IsFiniteSet(Clients)
    /\ FrameSize \in Nat \ {0}
    /\ ReadSize \in Nat \ {0}
    /\ RcvBuf \in Nat \ {0}
    /\ MaxSend \in Nat
    /\ Endless \in BOOLEAN
    /\ Faults \subseteq FaultKinds

VARIABLES
    pc,             \* where the server thread is
    running,        \* the application's flag
    stopRequested,  \* stopRequested_
    clients,        \* the vector of TcpClients
    pfds,           \* the polled clients and their revents
    listenReady,    \* revents of the listening socket
    index,          \* snapshotIndex
    removeClient,
    partial,        \* bytes held by each client's extractor
    batch,          \* extracted frames not yet given to the callback
    delivered,      \* history: frames given to the callback, up to MaxSend
    conn,           \* the kernel's view of each connection
    peer,           \* what each peer has done with its end
    inbox,          \* received bytes not yet read
    unsent          \* bytes each peer has still to send

netVars == <<conn, peer, inbox, unsent>>
stopVars == <<running, stopRequested>>
pollVars == <<pfds, listenReady>>
readVars == <<removeClient, partial, batch, delivered>>
vars == <<pc, stopVars, clients, pollVars, index, readVars, netVars>>

Events == {"IN", "HUP", "ERR"}

PcStates ==
    {"idle", "bind", "test", "poll", "scan", "recv", "deliver", "settle",
     "accept", "stopped", "threw"}

\* "erased": closed by the loop; "dropped": closed because run() ended.
ConnStates == {"absent", "backlog", "accepted", "erased", "dropped"}

TypeOK ==
    /\ pc \in PcStates
    /\ running \in BOOLEAN
    /\ stopRequested \in BOOLEAN
    /\ clients \in Seq(Clients)
    /\ pfds \in Seq([client : Clients, revents : SUBSET Events])
    /\ listenReady \in BOOLEAN
    /\ index \in Nat
    /\ removeClient \in BOOLEAN
    /\ partial \in [Clients -> 0 .. FrameSize - 1]
    /\ batch \in Nat
    /\ delivered \in [Clients -> 0 .. MaxSend]
    /\ conn \in [Clients -> ConnStates]
    /\ peer \in [Clients -> {"open", "closed", "reset"}]
    /\ inbox \in [Clients -> 0 .. RcvBuf]
    /\ unsent \in [Clients -> 0 .. MaxSend]

Init ==
    /\ pc = "idle"
    /\ running = TRUE
    /\ stopRequested = FALSE
    /\ clients = <<>>
    /\ pfds = <<>>
    /\ listenReady = FALSE
    /\ index = 0
    /\ removeClient = FALSE
    /\ partial = [c \in Clients |-> 0]
    /\ batch = 0
    /\ delivered = [c \in Clients |-> 0]
    /\ conn = [c \in Clients |-> "absent"]
    /\ peer = [c \in Clients |-> "open"]
    /\ inbox = [c \in Clients |-> 0]
    /\ unsent = [c \in Clients |-> MaxSend]

Listening == pc \notin {"idle", "bind", "stopped", "threw"}
Ended == pc \in {"stopped", "threw"}

\* The client at clientIndex = snapshotIndex - 1, one-based here.
Current == clients[index]
CurrentEvents == pfds[index].revents

\* Mutant of Leave: nobody closes the clients' descriptors.
LeaveLeaks(state) ==
    /\ pc' = state
    /\ clients' = <<>>
    /\ pfds' = <<>>
    /\ index' = 0
    /\ UNCHANGED <<stopVars, listenReady, readVars, netVars>>

\* run() is over: the vector's destructors close the clients, closeServerSocket()
\* the rest.
Leave(state) ==
    /\ pc' = state
    /\ clients' = <<>>
    /\ conn' = [c \in Clients |->
                  IF conn[c] \in {"accepted", "backlog"} THEN "dropped" ELSE conn[c]]
    /\ pfds' = <<>>
    /\ index' = 0
    /\ UNCHANGED <<stopVars, listenReady, readVars, peer, inbox, unsent>>

-----------------------------------------------------------------------------
(* run: the flag is cleared first, then the socket is bound. *)

CallRun ==
    /\ pc = "idle"
    /\ stopRequested' = FALSE
    /\ pc' = "bind"
    /\ UNCHANGED <<running, clients, pollVars, index, readVars, netVars>>

BindAndListen ==
    /\ pc = "bind"
    /\ pc' = "test"
    /\ UNCHANGED <<stopVars, clients, pollVars, index, readVars, netVars>>

BindFails ==
    /\ "bind" \in Faults
    /\ pc = "bind"
    /\ Leave("threw")

\* Mutant of EnterLoop: stopRequested_ is not read.
EnterLoopIgnoresStop ==
    /\ pc = "test"
    /\ running
    /\ pc' = "poll"
    /\ UNCHANGED <<stopVars, clients, pollVars, index, readVars, netVars>>

\* while (running.load() && !stopRequested_.load())
EnterLoop ==
    /\ pc = "test"
    /\ running
    /\ ~stopRequested
    /\ pc' = "poll"
    /\ UNCHANGED <<stopVars, clients, pollVars, index, readVars, netVars>>

LeaveLoop ==
    /\ pc = "test"
    /\ ~running \/ stopRequested
    /\ Leave("stopped")

-----------------------------------------------------------------------------
(* poll, on a snapshot of the clients *)

\* What poll() reports: readable on data or end of stream, and everything at
\* once after a reset.
Revents(c) ==
    IF peer[c] = "reset" THEN {"IN", "HUP", "ERR"}
    ELSE IF inbox[c] > 0 \/ peer[c] = "closed" THEN {"IN"}
    ELSE {}

Waiting == {c \in Clients : conn[c] = "backlog"}

SomethingReady == Waiting # {} \/ \E i \in DOMAIN clients : Revents(clients[i]) # {}

PollReady ==
    /\ pc = "poll"
    /\ SomethingReady
    /\ pfds' = [i \in DOMAIN clients |-> [client |-> clients[i], revents |-> Revents(clients[i])]]
    /\ listenReady' = (Waiting # {})
    /\ index' = Len(clients)
    /\ pc' = "scan"
    /\ UNCHANGED <<stopVars, clients, readVars, netVars>>

\* rc == 0, or EINTR
PollReturnsEmpty ==
    /\ pc = "poll"
    /\ ~SomethingReady
    /\ pc' = "test"
    /\ UNCHANGED <<stopVars, clients, pollVars, index, readVars, netVars>>

PollFails ==
    /\ "poll" \in Faults
    /\ pc = "poll"
    /\ Leave("threw")

-----------------------------------------------------------------------------
(* The polled clients, last one first *)

ScanSkip ==
    /\ pc = "scan"
    /\ index > 0
    /\ CurrentEvents = {}
    /\ index' = index - 1
    /\ UNCHANGED <<pc, stopVars, clients, pollVars, readVars, netVars>>

ScanClient ==
    /\ pc = "scan"
    /\ index > 0
    /\ CurrentEvents # {}
    /\ removeClient' = ("ERR" \in CurrentEvents)
    /\ pc' = IF CurrentEvents \cap {"IN", "HUP"} # {} THEN "recv" ELSE "settle"
    /\ UNCHANGED <<stopVars, clients, pollVars, index, partial, batch, delivered, netVars>>

\* Mutant of ScanDone: revents of the listening socket are ignored.
ScanDoneWithoutAccept ==
    /\ pc = "scan"
    /\ index = 0
    /\ pfds' = <<>>
    /\ pc' = "test"
    /\ UNCHANGED <<stopVars, clients, listenReady, index, readVars, netVars>>

\* The client entries of pfds are not looked at again.
ScanDone ==
    /\ pc = "scan"
    /\ index = 0
    /\ pfds' = <<>>
    /\ pc' = IF listenReady THEN "accept" ELSE "test"
    /\ UNCHANGED <<stopVars, clients, listenReady, index, readVars, netVars>>

\* recv() and the extractor: whole frames leave, the rest is kept.
RecvBytes ==
    /\ pc = "recv"
    /\ inbox[Current] > 0
    /\ LET count == IF inbox[Current] < ReadSize THEN inbox[Current] ELSE ReadSize
           held == partial[Current] + count
       IN  /\ inbox' = [inbox EXCEPT ![Current] = @ - count]
           /\ partial' = [partial EXCEPT ![Current] = held % FrameSize]
           /\ batch' = held \div FrameSize
           /\ pc' = IF held \div FrameSize > 0 THEN "deliver" ELSE "recv"
    /\ UNCHANGED <<stopVars, clients, pollVars, index, removeClient, delivered, conn, peer,
                   unsent>>

\* callback(frame), which may block on a full queue
Deliver ==
    /\ pc = "deliver"
    /\ batch' = batch - 1
    /\ delivered' = [delivered EXCEPT ![Current] = IF @ < MaxSend THEN @ + 1 ELSE @]
    /\ pc' = IF batch = 1 THEN "recv" ELSE "deliver"
    /\ UNCHANGED <<stopVars, clients, pollVars, index, removeClient, partial, netVars>>

CallbackThrows ==
    /\ "callback" \in Faults
    /\ pc = "deliver"
    /\ Leave("threw")

\* EAGAIN
RecvNothing ==
    /\ pc = "recv"
    /\ inbox[Current] = 0
    /\ peer[Current] = "open"
    /\ pc' = "settle"
    /\ UNCHANGED <<stopVars, clients, pollVars, index, readVars, netVars>>

\* Mutant of RecvEnds: a hang-up counts before the data that preceded it.
RecvEndsUndrained ==
    /\ pc = "recv"
    /\ peer[Current] # "open"
    /\ removeClient' = TRUE
    /\ pc' = "settle"
    /\ UNCHANGED <<stopVars, clients, pollVars, index, partial, batch, delivered, netVars>>

\* End of stream, or an error: the reset of the peer may overtake its last bytes.
RecvEnds ==
    /\ pc = "recv"
    /\ \/ inbox[Current] = 0 /\ peer[Current] = "closed"
       \/ peer[Current] = "reset"
    /\ removeClient' = TRUE
    /\ pc' = "settle"
    /\ UNCHANGED <<stopVars, clients, pollVars, index, partial, batch, delivered, netVars>>

\* Mutant of RemoveAt: off by one.
RemoveBefore(s, i) == [j \in 1 .. Len(s) - 1 |-> IF j + 1 < i THEN s[j] ELSE s[j + 1]]

RemoveAt(s, i) == [j \in 1 .. Len(s) - 1 |-> IF j < i THEN s[j] ELSE s[j + 1]]

\* The client goes, or stays; on to the next one.
SettleRemove ==
    /\ pc = "settle"
    /\ removeClient \/ "HUP" \in CurrentEvents
    /\ clients' = RemoveAt(clients, index)
    /\ conn' = [conn EXCEPT ![Current] = "erased"]
    /\ index' = index - 1
    /\ pc' = "scan"
    /\ UNCHANGED <<stopVars, pollVars, readVars, peer, inbox, unsent>>

SettleKeep ==
    /\ pc = "settle"
    /\ ~removeClient
    /\ "HUP" \notin CurrentEvents
    /\ index' = index - 1
    /\ pc' = "scan"
    /\ UNCHANGED <<stopVars, clients, pollVars, readVars, netVars>>

-----------------------------------------------------------------------------
(* accept, until there is nobody left or it fails *)

AcceptClient(c) ==
    /\ pc = "accept"
    /\ conn[c] = "backlog"
    /\ clients' = Append(clients, c)
    /\ conn' = [conn EXCEPT ![c] = "accepted"]
    /\ UNCHANGED <<pc, stopVars, pollVars, index, readVars, peer, inbox, unsent>>

\* accept() would block, or fails: the loop goes back to poll.
AcceptBreaks ==
    /\ pc = "accept"
    /\ pc' = "test"
    /\ UNCHANGED <<stopVars, clients, pollVars, index, readVars, netVars>>

AcceptNobody == Waiting = {} /\ AcceptBreaks

\* No descriptor left, or the connection was aborted.
AcceptFails == "accept" \in Faults /\ Waiting # {} /\ AcceptBreaks

\* setNonBlocking() throws on the accepted descriptor.
AcceptThrows ==
    /\ "accept" \in Faults
    /\ pc = "accept"
    /\ Waiting # {}
    /\ Leave("threw")

-----------------------------------------------------------------------------
(* Other threads *)

Stop ==
    /\ stopRequested' = TRUE
    /\ UNCHANGED <<pc, running, clients, pollVars, index, readVars, netVars>>

StopSignal ==
    /\ running' = FALSE
    /\ UNCHANGED <<pc, stopRequested, clients, pollVars, index, readVars, netVars>>

(* Peers and kernel *)

Connect(c) ==
    /\ Listening
    /\ conn[c] = "absent"
    /\ conn' = [conn EXCEPT ![c] = "backlog"]
    /\ UNCHANGED <<pc, stopVars, clients, pollVars, index, readVars, peer, inbox, unsent>>

Alive(c) == conn[c] \in {"backlog", "accepted"} /\ peer[c] = "open"

Send(c) ==
    /\ Alive(c)
    /\ unsent[c] > 0
    /\ inbox[c] < RcvBuf
    /\ inbox' = [inbox EXCEPT ![c] = @ + 1]
    /\ unsent' = IF Endless THEN unsent ELSE [unsent EXCEPT ![c] = @ - 1]
    /\ UNCHANGED <<pc, stopVars, clients, pollVars, index, readVars, conn, peer>>

PeerCloses(c) ==
    /\ Alive(c)
    /\ peer' = [peer EXCEPT ![c] = "closed"]
    /\ UNCHANGED <<pc, stopVars, clients, pollVars, index, readVars, conn, inbox, unsent>>

PeerResets(c) ==
    /\ "reset" \in Faults
    /\ Alive(c)
    /\ peer' = [peer EXCEPT ![c] = "reset"]
    /\ UNCHANGED <<pc, stopVars, clients, pollVars, index, readVars, conn, inbox, unsent>>

-----------------------------------------------------------------------------

\* What the server thread does by itself once it is scheduled.
ServerStep ==
    \/ CallRun
    \/ BindAndListen
    \/ EnterLoop
    \/ LeaveLoop
    \/ PollReady
    \/ PollReturnsEmpty
    \/ ScanSkip
    \/ ScanClient
    \/ ScanDone
    \/ RecvBytes
    \/ Deliver
    \/ RecvNothing
    \/ RecvEnds
    \/ SettleRemove
    \/ SettleKeep
    \/ \E c \in Clients : AcceptClient(c)
    \/ AcceptNobody

ServerFault ==
    \/ BindFails
    \/ PollFails
    \/ CallbackThrows
    \/ AcceptFails
    \/ AcceptThrows

Environment ==
    \/ Stop
    \/ StopSignal
    \/ \E c \in Clients : Connect(c) \/ Send(c) \/ PeerCloses(c) \/ PeerResets(c)

Next == ServerStep \/ ServerFault \/ Environment

Spec == Init /\ [][Next]_vars

\* The server thread is scheduled, and poll() comes back after pollTimeoutMs.
\* Nobody has to connect, send, hang up or ask for a stop.  accept() may fail
\* any number of times, but not at every attempt for ever.
FairSpec ==
    /\ Spec
    /\ WF_vars(ServerStep)
    /\ SF_vars(\E c \in Clients : AcceptClient(c))

-----------------------------------------------------------------------------
(* Safety *)

\* While the loop walks the snapshot backwards and erases (runTcp 157-213), the
\* entry it looks at next still belongs to the client at the same index: revents
\* are never applied to another connection, and no index is out of range.
SnapshotAligned ==
    pc \in {"scan", "recv", "deliver", "settle"} =>
        /\ index <= Len(clients) /\ index <= Len(pfds)
        /\ \A i \in 1 .. index : clients[i] = pfds[i].client

\* A connection is closed exactly once and never leaked (TcpClient 70-97, the
\* catch of run 100-104): the open descriptors are those of the vector, each
\* once, and none survives run().
OneOwnerPerSocket ==
    /\ \A c \in Clients :
         Cardinality({i \in DOMAIN clients : clients[i] = c})
           = IF conn[c] = "accepted" THEN 1 ELSE 0
    /\ Ended => \A c \in Clients : conn[c] \notin {"accepted", "backlog"}

Sent(c) == MaxSend - unsent[c]

\* "les octets disponibles sont draines ... avant fermeture du client"
\* (NetworkServer.hpp 60): when the loop closes a client that hung up in an
\* orderly way, every complete frame it ever sent has reached the callback;
\* and it closes no client whose peer is still there.
HungUpClientIsDrained ==
    ~Endless => \A c \in Clients :
        conn[c] = "erased" /\ peer[c] # "reset" =>
            peer[c] # "open" /\ delivered[c] * FrameSize + partial[c] = Sent(c)

-----------------------------------------------------------------------------
(* Liveness *)

\* Requests the loop can see: run() has begun, so it will not clear the flag.
StopVisible == pc # "idle" /\ (stopRequested \/ ~running)

\* NetworkServer.hpp 88-98: a visible stop request ends run().
StopEndsServer == StopVisible ~> Ended

\* A connection is not forgotten in the backlog, and what it sends is read,
\* while the server runs (runTcp 215-240: accepted after the scan, polled from
\* the next turn on).
TrafficIsServed ==
    \A c \in Clients :
        /\ conn[c] = "backlog" ~> conn[c] # "backlog"
        /\ inbox[c] > 0 ~> inbox[c] = 0 \/ conn[c] \in {"erased", "dropped"}
=============================================================================
