--------------------------- MODULE TcpServerProofs ---------------------------
(***************************************************************************)
(* Proofs about module TcpServer: the vector of clients, the snapshot the  *)
(* loop walks, and what becomes of the bytes of every connection, for any  *)
(* number of clients and any sizes.                                        *)
(*                                                                         *)
(* The invariants are stacked: WalkInv (where the loop may be) makes the   *)
(* type invariant inductive, SocketInv (who owns a descriptor) needs       *)
(* nothing else, and DrainInv (where each byte is) needs both.             *)
(***************************************************************************)
EXTENDS TcpServer, FiniteSetTheorems, FunctionTheorems, TLAPS

Busy == pc \in {"recv", "deliver", "settle"}

\* The loop looks at a client that exists, and only delivers what it has.
WalkInv ==
    /\ TypeOK
    /\ SnapshotAligned
    /\ Busy => index > 0
    /\ pc = "deliver" => batch > 0

\* The vector and the kernel agree on which connections are open.
SocketInv ==
    /\ \A i, j \in DOMAIN clients : clients[i] = clients[j] => i = j
    /\ \A i \in DOMAIN clients : conn[clients[i]] = "accepted"
    /\ \A c \in Clients :
         conn[c] = "accepted" => \E i \in DOMAIN clients : clients[i] = c
    /\ Ended => \A c \in Clients : conn[c] \notin {"accepted", "backlog"}

\* A hang-up or an error poll() reported is still true when it is acted upon.
EventsInv ==
    /\ \A i \in DOMAIN pfds :
         pfds[i].revents \cap {"HUP", "ERR"} # {} => peer[pfds[i].client] = "reset"
    /\ pc \in {"recv", "deliver"} /\ removeClient => peer[Current] = "reset"
    /\ pc = "settle" /\ removeClient =>
         \/ peer[Current] = "reset"
         \/ peer[Current] = "closed" /\ inbox[Current] = 0

\* Bytes of c in frames the extractor has returned and the callback has not had.
InHand(c) == IF pc = "deliver" /\ Current = c THEN batch * FrameSize ELSE 0

\* Every byte sent is in the kernel, in the extractor, in hand or delivered.
Account(c) ==
    delivered[c] * FrameSize + partial[c] + inbox[c] + InHand(c) = Sent(c)

DrainInv ==
    /\ EventsInv
    /\ \A c \in Clients :
         conn[c] = "erased" /\ peer[c] # "reset" => peer[c] = "closed" /\ inbox[c] = 0
    /\ ~Endless => \A c \in Clients : conn[c] # "dropped" => Account(c)

-----------------------------------------------------------------------------
(* Lemmas about the vector and about bytes *)

\* vector::erase (NetworkServerTcp.cpp:209): what precedes the erased element
\* keeps its place, what follows moves down, and nothing else changes.
LEMMA RemoveAtFacts ==
    ASSUME NEW S, NEW s \in Seq(S), NEW k \in 1 .. Len(s)
    PROVE  /\ RemoveAt(s, k) \in Seq(S)
           /\ Len(RemoveAt(s, k)) = Len(s) - 1
           /\ DOMAIN RemoveAt(s, k) = 1 .. Len(s) - 1
           /\ \A j \in 1 .. k - 1 : RemoveAt(s, k)[j] = s[j]
           /\ \A j \in k .. Len(s) - 1 : RemoveAt(s, k)[j] = s[j + 1]
  <1> DEFINE n == Len(s) - 1
             r == [j \in 1 .. n |-> IF j < k THEN s[j] ELSE s[j + 1]]
  <1>1. n \in Nat /\ RemoveAt(s, k) = r
    BY DEF RemoveAt
  <1>2. \A j \in 1 .. n : r[j] \in S
    OBVIOUS
  <1>3. r \in [1 .. n -> S]
    BY <1>2
  <1>4. r \in Seq(S) /\ Len(r) = n /\ DOMAIN r = 1 .. n
    BY <1>1, <1>3
  <1>5. \A j \in 1 .. k - 1 : r[j] = s[j]
    BY <1>1
  <1>6. \A j \in k .. n : r[j] = s[j + 1]
    BY <1>1
  <1> QED BY <1>1, <1>4, <1>5, <1>6

\* The extractor's cut (NetworkServerTcp.cpp:184): no byte is lost between the
\* whole frames and the rest.
LEMMA CutKeepsBytes ==
    ASSUME NEW held \in Nat
    PROVE  /\ held % FrameSize \in 0 .. FrameSize - 1
           /\ held \div FrameSize \in Nat
           /\ (held \div FrameSize) * FrameSize + (held % FrameSize) = held
  BY TcpAssumption

-----------------------------------------------------------------------------
LEMMA WalkInit == Init => WalkInv
  <1> SUFFICES ASSUME Init PROVE WalkInv
    OBVIOUS
  <1>1. pc \in PcStates /\ conn \in [Clients -> ConnStates]
    BY DEF Init, PcStates, ConnStates
  <1>2. /\ partial \in [Clients -> 0 .. FrameSize - 1]
        /\ delivered \in [Clients -> 0 .. MaxSend]
        /\ inbox \in [Clients -> 0 .. RcvBuf]
        /\ unsent \in [Clients -> 0 .. MaxSend]
    BY TcpAssumption DEF Init
  <1>2a. clients \in Seq(Clients) /\ pfds \in Seq([client : Clients, revents : SUBSET Events])
    BY DEF Init
  <1>2b. peer \in [Clients -> {"open", "closed", "reset"}]
    BY DEF Init
  <1>3. TypeOK
    BY <1>1, <1>2, <1>2a, <1>2b DEF Init, TypeOK
  <1> QED BY <1>3 DEF Init, WalkInv, SnapshotAligned, Busy

\* Leaving run() from anywhere keeps the walk's invariant.
LEMMA WalkLeave ==
    ASSUME WalkInv, NEW state \in {"stopped", "threw"}, Leave(state)
    PROVE  WalkInv'
  <1>1. conn' \in [Clients -> ConnStates]
    BY DEF WalkInv, TypeOK, ConnStates, Leave
  <1>2. TypeOK'
    BY <1>1 DEF WalkInv, TypeOK, PcStates, Leave, stopVars, readVars
  <1> QED BY <1>2 DEF WalkInv, SnapshotAligned, Busy, Leave

\* client = clients[snapshotIndex - 1] exists (NetworkServerTcp.cpp:167).
LEMMA CurrentIsClient ==
    ASSUME WalkInv, Busy
    PROVE  /\ TypeOK
           /\ index \in 1 .. Len(clients)
           /\ index \in 1 .. Len(pfds)
           /\ Current \in Clients
  <1>1. TypeOK /\ index \in Nat
    BY DEF WalkInv, TypeOK
  <1>2. index \in 1 .. Len(clients) /\ index \in 1 .. Len(pfds)
    BY <1>1 DEF WalkInv, SnapshotAligned, Busy
  <1>3. clients \in Seq(Clients)
    BY <1>1 DEF TypeOK
  <1>4. Current \in Clients
    BY <1>2, <1>3 DEF Current
  <1> QED BY <1>1, <1>2, <1>4

LEMMA WalkNext == WalkInv /\ [Next]_vars => WalkInv'
  <1> SUFFICES ASSUME WalkInv, [Next]_vars PROVE WalkInv'
    OBVIOUS
  <1> USE DEF WalkInv, stopVars, pollVars, readVars, netVars
  <1>a. TypeOK /\ index \in Nat
    BY DEF TypeOK
  <1>b. ASSUME Busy
        PROVE  index \in 1 .. Len(clients) /\ index \in DOMAIN pfds /\ Current \in Clients
    BY <1>b, CurrentIsClient DEF TypeOK
  <1>1. CASE CallRun
    BY <1>1 DEF CallRun, TypeOK, PcStates, SnapshotAligned, Busy
  <1>2. CASE BindAndListen
    BY <1>2 DEF BindAndListen, TypeOK, PcStates, SnapshotAligned, Busy
  <1>3. CASE EnterLoop
    BY <1>3 DEF EnterLoop, TypeOK, PcStates, SnapshotAligned, Busy
  <1>4. CASE LeaveLoop \/ BindFails \/ PollFails \/ CallbackThrows \/ AcceptThrows
    BY <1>4, WalkLeave DEF LeaveLoop, BindFails, PollFails, CallbackThrows, AcceptThrows
  <1>5. CASE PollReady
    <2> DEFINE entry(i) == [client |-> clients[i], revents |-> Revents(clients[i])]
    <2>1. \A i \in DOMAIN clients : entry(i) \in [client : Clients, revents : SUBSET Events]
      BY DEF TypeOK, Revents, Events
    <2>2. pfds' = [i \in 1 .. Len(clients) |-> entry(i)]
      BY <1>5 DEF PollReady, TypeOK
    <2>3. pfds' \in Seq([client : Clients, revents : SUBSET Events]) /\ Len(pfds') = Len(clients)
      <3>1. Len(clients) \in Nat /\ \A i \in 1 .. Len(clients) : i \in DOMAIN clients
        BY <1>a DEF TypeOK
      <3>2. \A i \in 1 .. Len(clients) : entry(i) \in [client : Clients, revents : SUBSET Events]
        BY <2>1, <3>1
      <3> HIDE DEF entry
      <3> QED BY <2>2, <3>1, <3>2
    <2>4. TypeOK'
      BY <1>5, <2>3 DEF PollReady, TypeOK, PcStates
    <2>5. \A i \in 1 .. Len(clients) : pfds'[i].client = clients[i]
      BY <2>2
    <2> QED BY <1>5, <2>3, <2>4, <2>5 DEF PollReady, SnapshotAligned, Busy, TypeOK
  <1>6. CASE PollReturnsEmpty
    BY <1>6 DEF PollReturnsEmpty, TypeOK, PcStates, SnapshotAligned, Busy
  <1>7. CASE ScanSkip
    <2>a. Len(clients) \in Nat /\ Len(pfds) \in Nat
      BY DEF TypeOK
    <2>1. index' \in Nat /\ index' = index - 1
      BY <1>7, <1>a DEF ScanSkip
    <2>2. TypeOK'
      BY <1>7, <2>1 DEF ScanSkip, TypeOK
    <2>3. SnapshotAligned'
      BY <1>7, <1>a, <2>1, <2>a DEF ScanSkip, SnapshotAligned
    <2> QED BY <1>7, <2>2, <2>3 DEF ScanSkip, Busy
  <1>8. CASE ScanClient
    <2>1. removeClient' \in BOOLEAN
      BY <1>8 DEF ScanClient
    <2>2. pc' \in {"recv", "settle"}
      BY <1>8 DEF ScanClient
    <2>3. TypeOK'
      BY <1>8, <2>1, <2>2 DEF ScanClient, TypeOK, PcStates
    <2>4. SnapshotAligned'
      BY <1>8, <2>2 DEF ScanClient, SnapshotAligned
    <2> QED BY <1>8, <2>2, <2>3, <2>4 DEF ScanClient, Busy
  <1>9. CASE ScanDone
    BY <1>9 DEF ScanDone, TypeOK, PcStates, SnapshotAligned, Busy
  <1>10. CASE RecvBytes
    <2> DEFINE count == IF inbox[Current] < ReadSize THEN inbox[Current] ELSE ReadSize
               held == partial[Current] + count
    <2>1. Current \in Clients
      BY <1>10, <1>b DEF RecvBytes, Busy
    <2>2. count \in Nat /\ count <= inbox[Current] /\ held \in Nat
      BY <2>1, TcpAssumption DEF TypeOK
    <2> HIDE DEF count
    <2>3. inbox' = [inbox EXCEPT ![Current] = @ - count]
          /\ partial' = [partial EXCEPT ![Current] = held % FrameSize]
          /\ batch' = held \div FrameSize
          /\ pc' = IF held \div FrameSize > 0 THEN "deliver" ELSE "recv"
      BY <1>10 DEF RecvBytes, count
    <2> HIDE DEF held
    <2>4. inbox' \in [Clients -> 0 .. RcvBuf]
      <3>1. inbox[Current] - count \in 0 .. RcvBuf
        BY <2>1, <2>2, TcpAssumption DEF TypeOK
      <3> QED BY <2>1, <2>3, <3>1 DEF TypeOK
    <2>5. partial' \in [Clients -> 0 .. FrameSize - 1] /\ batch' \in Nat
      BY <2>2, <2>3, CutKeepsBytes DEF TypeOK
    <2>6. TypeOK'
      BY <1>10, <2>3, <2>4, <2>5 DEF RecvBytes, TypeOK, PcStates
    <2> QED BY <1>10, <2>3, <2>6 DEF RecvBytes, SnapshotAligned, Busy
  <1>11. CASE Deliver
    <2>1. delivered' \in [Clients -> 0 .. MaxSend]
      <3>1. Current \in Clients
        BY <1>11, <1>b DEF Deliver, Busy
      <3>2. (IF delivered[Current] < MaxSend THEN delivered[Current] + 1 ELSE delivered[Current])
              \in 0 .. MaxSend
        BY <3>1, TcpAssumption DEF TypeOK
      <3> QED BY <1>11, <3>1, <3>2 DEF Deliver, TypeOK
    <2>2. batch' \in Nat /\ (pc' = "deliver" => batch' > 0)
      BY <1>11 DEF Deliver, TypeOK
    <2> QED BY <1>11, <2>1, <2>2 DEF Deliver, TypeOK, PcStates, SnapshotAligned, Busy
  <1>12. CASE RecvNothing
    BY <1>12 DEF RecvNothing, TypeOK, PcStates, SnapshotAligned, Busy
  <1>13. CASE RecvEnds
    BY <1>13 DEF RecvEnds, TypeOK, PcStates, SnapshotAligned, Busy
  <1>14. CASE SettleRemove
    <2>1. index \in 1 .. Len(clients) /\ Current \in Clients
      BY <1>14, <1>b DEF SettleRemove, Busy
    <2>2. /\ clients' \in Seq(Clients)
          /\ Len(clients') = Len(clients) - 1
          /\ \A j \in 1 .. index - 1 : clients'[j] = clients[j]
      BY <1>14, <2>1, RemoveAtFacts DEF SettleRemove, TypeOK
    <2>3. conn' \in [Clients -> ConnStates]
      BY <1>14 DEF SettleRemove, TypeOK, ConnStates
    <2>3a. index' \in Nat /\ index' = index - 1
      BY <1>14, <1>a, <2>1 DEF SettleRemove
    <2>4. TypeOK'
      BY <1>14, <2>2, <2>3, <2>3a DEF SettleRemove, TypeOK, PcStates
    <2>5. SnapshotAligned'
      <3>1. index <= Len(pfds) /\ \A i \in 1 .. index : clients[i] = pfds[i].client
        BY <1>14 DEF SettleRemove, SnapshotAligned
      <3>2. Len(clients) \in Nat /\ Len(pfds) \in Nat /\ pfds' = pfds
        BY <1>14 DEF SettleRemove, TypeOK
      <3> QED BY <1>a, <2>1, <2>2, <2>3a, <3>1, <3>2 DEF SnapshotAligned
    <2> QED BY <1>14, <2>4, <2>5 DEF SettleRemove, Busy
  <1>15. CASE SettleKeep
    <2>1. index' \in Nat /\ index' = index - 1
      BY <1>15, <1>a, <1>b DEF SettleKeep, Busy
    <2>2. TypeOK'
      BY <1>15, <2>1 DEF SettleKeep, TypeOK, PcStates
    <2>3. Len(clients) \in Nat /\ Len(pfds) \in Nat
      BY DEF TypeOK
    <2>4. SnapshotAligned'
      BY <1>15, <1>a, <2>1, <2>3 DEF SettleKeep, SnapshotAligned
    <2> QED BY <1>15, <2>2, <2>4 DEF SettleKeep, Busy
  <1>16. CASE \E c \in Clients : AcceptClient(c)
    <2>1. PICK c \in Clients : AcceptClient(c)
      BY <1>16
    <2>2. clients' \in Seq(Clients) /\ conn' \in [Clients -> ConnStates]
      BY <2>1 DEF AcceptClient, TypeOK, ConnStates
    <2> QED BY <2>1, <2>2 DEF AcceptClient, TypeOK, SnapshotAligned, Busy
  <1>17. CASE AcceptNobody \/ AcceptFails
    BY <1>17 DEF AcceptNobody, AcceptFails, AcceptBreaks, TypeOK, PcStates, SnapshotAligned, Busy
  <1>18. CASE Stop
    BY <1>18 DEF Stop, TypeOK, SnapshotAligned, Busy
  <1>19. CASE StopSignal
    BY <1>19 DEF StopSignal, TypeOK, SnapshotAligned, Busy
  <1>20. ASSUME NEW c \in Clients, Connect(c) PROVE WalkInv'
    <2>1. conn' \in [Clients -> ConnStates]
      BY <1>20 DEF Connect, TypeOK, ConnStates
    <2> QED BY <1>20, <2>1 DEF Connect, TypeOK, SnapshotAligned, Busy
  <1>21. ASSUME NEW c \in Clients, Send(c) PROVE WalkInv'
    <2>1. inbox' \in [Clients -> 0 .. RcvBuf] /\ unsent' \in [Clients -> 0 .. MaxSend]
      BY <1>21, TcpAssumption DEF Send, TypeOK
    <2> QED BY <1>21, <2>1 DEF Send, TypeOK, SnapshotAligned, Busy
  <1>22. ASSUME NEW c \in Clients, PeerCloses(c) \/ PeerResets(c) PROVE WalkInv'
    <2>1. peer' \in [Clients -> {"open", "closed", "reset"}]
      BY <1>22 DEF PeerCloses, PeerResets, TypeOK
    <2> QED BY <1>22, <2>1 DEF PeerCloses, PeerResets, TypeOK, SnapshotAligned, Busy
  <1>23. CASE UNCHANGED vars
    BY <1>23 DEF vars, TypeOK, SnapshotAligned, Busy
  <1> QED
    BY <1>1, <1>2, <1>3, <1>4, <1>5, <1>6, <1>7, <1>8, <1>9, <1>10, <1>11, <1>12, <1>13,
       <1>14, <1>15, <1>16, <1>17, <1>18, <1>19, <1>20, <1>21, <1>22, <1>23
       DEF Next, ServerStep, ServerFault, Environment

LEMMA WalkInvariant == Spec => []WalkInv
  BY WalkInit, WalkNext, PTL DEF Spec

\* Every variable of the server keeps its type, in particular the extractor
\* never holds a whole frame and the kernel buffer never overflows.
THEOREM TypeTheorem == Spec => []TypeOK
  <1>1. WalkInv => TypeOK
    BY DEF WalkInv
  <1> QED BY <1>1, WalkInvariant, PTL

\* Walking the snapshot backwards and erasing on the way (runTcp,
\* NetworkServerTcp.cpp:157-213) never mixes up two connections and never
\* indexes outside a vector, however many clients there are.
THEOREM SnapshotTheorem == Spec => []SnapshotAligned
  <1>1. WalkInv => SnapshotAligned
    BY DEF WalkInv
  <1> QED BY <1>1, WalkInvariant, PTL

-----------------------------------------------------------------------------
LEMMA SocketInit == Init => SocketInv
  BY DEF Init, SocketInv, Ended

LEMMA SocketLeave ==
    ASSUME NEW state \in {"stopped", "threw"}, Leave(state)
    PROVE  SocketInv'
  BY DEF Leave, SocketInv, Ended

\* Erasing one client leaves the others owned by exactly the entries they had.
LEMMA SocketErase ==
    ASSUME TypeOK, SocketInv, SettleRemove, index \in 1 .. Len(clients)
    PROVE  SocketInv'
  <1> DEFINE n == Len(clients)
             from(j) == IF j < index THEN j ELSE j + 1
  <1>1. n \in Nat /\ DOMAIN clients = 1 .. n /\ index \in 1 .. n
    BY DEF TypeOK
  <1>2. DOMAIN clients' = 1 .. n - 1 /\ \A j \in 1 .. n - 1 : clients'[j] = clients[from(j)]
    <2>1. clients' = RemoveAt(clients, index) /\ clients \in Seq(Clients)
      BY DEF SettleRemove, TypeOK
    <2>2. /\ DOMAIN clients' = 1 .. Len(clients) - 1
          /\ \A j \in 1 .. index - 1 : clients'[j] = clients[j]
          /\ \A j \in index .. Len(clients) - 1 : clients'[j] = clients[j + 1]
      BY <2>1, RemoveAtFacts
    <2>3. ASSUME NEW j \in 1 .. n - 1 PROVE clients'[j] = clients[from(j)]
      <3>1. j \in 1 .. index - 1 \/ (j \in index .. n - 1 /\ ~(j < index))
        BY <1>1
      <3> QED BY <1>1, <2>2, <3>1
    <2> QED BY <2>2, <2>3
  <1>3. \A j \in 1 .. n - 1 : from(j) \in 1 .. n /\ from(j) # index
    BY <1>1
  <1>4. \A i, j \in 1 .. n - 1 : from(i) = from(j) => i = j
    BY <1>1
  <1>5. \A i \in 1 .. n : i # index => \E j \in 1 .. n - 1 : from(j) = i
    <2> TAKE i \in 1 .. n
    <2> HAVE i # index
    <2>1. CASE i < index
      BY <1>1, <2>1
    <2>2. CASE i > index
      <3>1. i - 1 \in 1 .. n - 1 /\ from(i - 1) = i
        BY <1>1, <2>2
      <3> QED BY <3>1
    <2> QED BY <1>1, <2>1, <2>2
  <1> HIDE DEF n, from
  <1>6. \A i, j \in 1 .. n : clients[i] = clients[j] => i = j
    BY <1>1 DEF SocketInv
  <1>7. /\ conn' = [conn EXCEPT ![Current] = "erased"]
        /\ Current = clients[index]
        /\ conn \in [Clients -> ConnStates]
    BY DEF SettleRemove, TypeOK, Current
  <1>8. \A i \in 1 .. n : clients[i] \in Clients /\ conn[clients[i]] = "accepted"
    <2>1. clients \in Seq(Clients)
      BY DEF TypeOK
    <2> QED BY <1>1, <2>1 DEF SocketInv
  <1>9. \A i, j \in DOMAIN clients' : clients'[i] = clients'[j] => i = j
    BY <1>2, <1>3, <1>4, <1>6
  <1>10. \A i \in DOMAIN clients' : conn'[clients'[i]] = "accepted"
    <2> TAKE i \in DOMAIN clients'
    <2>1. clients'[i] = clients[from(i)] /\ from(i) \in 1 .. n /\ from(i) # index
      BY <1>2, <1>3
    <2>2. clients[from(i)] # Current
      BY <1>1, <1>6, <1>7, <2>1
    <2> QED BY <1>7, <1>8, <2>1, <2>2
  <1>11. \A c \in Clients : conn'[c] = "accepted" => \E i \in DOMAIN clients' : clients'[i] = c
    <2> TAKE c \in Clients
    <2> HAVE conn'[c] = "accepted"
    <2>1. c # Current /\ conn[c] = "accepted"
      BY <1>7
    <2>2. PICK i \in 1 .. n : clients[i] = c
      BY <1>1, <2>1 DEF SocketInv
    <2>3. i # index
      BY <1>7, <2>1, <2>2
    <2>4. PICK j \in 1 .. n - 1 : from(j) = i
      BY <1>5, <2>3
    <2> QED BY <1>2, <2>2, <2>4
  <1>12. ~Ended'
    BY DEF SettleRemove, Ended
  <1> QED BY <1>9, <1>10, <1>11, <1>12 DEF SocketInv

LEMMA SocketNext == WalkInv /\ SocketInv /\ [Next]_vars => SocketInv'
  <1> SUFFICES ASSUME WalkInv, SocketInv, [Next]_vars PROVE SocketInv'
    OBVIOUS
  <1>t. TypeOK
    BY DEF WalkInv
  <1>1. CASE LeaveLoop \/ BindFails \/ PollFails \/ CallbackThrows \/ AcceptThrows
    BY <1>1, SocketLeave DEF LeaveLoop, BindFails, PollFails, CallbackThrows, AcceptThrows
  <1>2. CASE SettleRemove
    <2>1. index \in 1 .. Len(clients)
      BY <1>2, CurrentIsClient DEF SettleRemove, Busy
    <2> QED BY <1>t, <1>2, <2>1, SocketErase
  <1>3. ASSUME NEW c \in Clients, AcceptClient(c) PROVE SocketInv'
    <2>1. /\ clients' = Append(clients, c) /\ clients \in Seq(Clients)
          /\ conn' = [conn EXCEPT ![c] = "accepted"] /\ conn \in [Clients -> ConnStates]
          /\ conn[c] = "backlog"
          /\ ~Ended'
      BY <1>t, <1>3 DEF AcceptClient, TypeOK, Ended
    <2> DEFINE n == Len(clients)
    <2>2. /\ n \in Nat /\ DOMAIN clients = 1 .. n /\ DOMAIN clients' = 1 .. n + 1
          /\ \A i \in 1 .. n : clients'[i] = clients[i] /\ clients[i] \in Clients
          /\ clients'[n + 1] = c
      BY <2>1
    <2> HIDE DEF n
    <2>3. \A i \in 1 .. n : clients[i] # c
      BY <2>1, <2>2 DEF SocketInv
    <2>4. \A i, j \in DOMAIN clients' : clients'[i] = clients'[j] => i = j
      <3>1. \A i, j \in 1 .. n : clients[i] = clients[j] => i = j
        BY <2>2 DEF SocketInv
      <3>2. \A i \in 1 .. n + 1 : i \in 1 .. n \/ i = n + 1
        BY <2>2
      <3> QED BY <2>2, <2>3, <3>1, <3>2
    <2>5. \A i \in DOMAIN clients' : conn'[clients'[i]] = "accepted"
      <3>1. \A i \in 1 .. n : conn[clients[i]] = "accepted"
        BY <2>2 DEF SocketInv
      <3>2. \A i \in 1 .. n + 1 : i \in 1 .. n \/ i = n + 1
        BY <2>2
      <3> QED BY <2>1, <2>2, <2>3, <3>1, <3>2
    <2>6. \A d \in Clients : conn'[d] = "accepted" => \E i \in DOMAIN clients' : clients'[i] = d
      <3> TAKE d \in Clients
      <3> HAVE conn'[d] = "accepted"
      <3>1. CASE d = c
        BY <2>2, <3>1
      <3>2. CASE d # c
        <4>1. PICK i \in 1 .. n : clients[i] = d
          BY <2>1, <2>2, <3>2 DEF SocketInv
        <4> QED BY <2>2, <4>1
      <3> QED BY <3>1, <3>2
    <2> QED BY <2>1, <2>4, <2>5, <2>6 DEF SocketInv
  <1>4. ASSUME NEW c \in Clients, Connect(c) PROVE SocketInv'
    <2>1. /\ clients' = clients /\ pc' = pc /\ ~Ended
          /\ conn' = [conn EXCEPT ![c] = "backlog"] /\ conn \in [Clients -> ConnStates]
          /\ conn[c] = "absent" /\ \A i \in DOMAIN clients : clients[i] \in Clients
      BY <1>t, <1>4 DEF Connect, Listening, Ended, TypeOK
    <2>2. \A d \in Clients : conn'[d] = "accepted" <=> conn[d] = "accepted"
      BY <2>1
    <2> QED BY <2>1, <2>2 DEF SocketInv, Ended
  <1>5. ASSUME UNCHANGED <<clients, conn>>, Ended' => Ended PROVE SocketInv'
    BY <1>5 DEF SocketInv
  <1>6. CASE \/ CallRun \/ BindAndListen \/ EnterLoop \/ PollReady \/ PollReturnsEmpty
             \/ ScanSkip \/ ScanClient \/ ScanDone \/ RecvBytes \/ Deliver \/ RecvNothing
             \/ RecvEnds \/ SettleKeep \/ AcceptNobody \/ AcceptFails \/ Stop \/ StopSignal
    BY <1>5, <1>6 DEF CallRun, BindAndListen, EnterLoop, PollReady, PollReturnsEmpty,
       ScanSkip, ScanClient, ScanDone, RecvBytes, Deliver, RecvNothing, RecvEnds, SettleKeep,
       AcceptNobody, AcceptFails, AcceptBreaks, Stop, StopSignal, Ended, netVars
  <1>7. ASSUME NEW c \in Clients, Send(c) \/ PeerCloses(c) \/ PeerResets(c) PROVE SocketInv'
    BY <1>5, <1>7 DEF Send, PeerCloses, PeerResets, Ended
  <1>8. CASE UNCHANGED vars
    BY <1>5, <1>8 DEF vars, netVars, Ended
  <1> QED
    BY <1>1, <1>2, <1>3, <1>4, <1>6, <1>7, <1>8 DEF Next, ServerStep, ServerFault, Environment

LEMMA SocketInvariant == Spec => []SocketInv
  BY SocketInit, SocketNext, WalkInvariant, PTL DEF Spec

LEMMA OwnersAreCounted ==
    ASSUME TypeOK, SocketInv
    PROVE  OneOwnerPerSocket
  <1>1. ASSUME NEW c \in Clients
        PROVE  Cardinality({i \in DOMAIN clients : clients[i] = c})
                 = IF conn[c] = "accepted" THEN 1 ELSE 0
    <2>1. CASE conn[c] = "accepted"
      <3>1. PICK k \in DOMAIN clients : clients[k] = c
        BY <2>1 DEF SocketInv
      <3>2. {i \in DOMAIN clients : clients[i] = c} = {k}
        BY <3>1 DEF SocketInv
      <3> QED BY <2>1, <3>2, FS_Singleton
    <2>2. CASE conn[c] # "accepted"
      <3>1. {i \in DOMAIN clients : clients[i] = c} = {}
        BY <2>2 DEF SocketInv
      <3> QED BY <2>2, <3>1, FS_EmptySet
    <2> QED BY <2>1, <2>2
  <1> QED BY <1>1 DEF OneOwnerPerSocket, SocketInv

\* A descriptor is never closed twice and never leaked, whatever fails and
\* whenever a client comes or goes (TcpClient, NetworkServerTcp.cpp:73-101, and the
\* catch of run, NetworkServer.cpp:100-104): each open connection has exactly one entry in the
\* vector, and none is open after run().
THEOREM OwnershipTheorem == Spec => []OneOwnerPerSocket
  <1>1. WalkInv /\ SocketInv => OneOwnerPerSocket
    BY OwnersAreCounted DEF WalkInv
  <1> QED BY <1>1, WalkInvariant, SocketInvariant, PTL

-----------------------------------------------------------------------------
(* Where the bytes of a connection are *)

LEMMA DrainInit == Init => DrainInv
  <1> SUFFICES ASSUME Init PROVE DrainInv
    OBVIOUS
  <1>1. EventsInv
    BY DEF Init, EventsInv
  <1>2. \A c \in Clients : conn[c] # "erased"
    BY DEF Init
  <1>3. \A c \in Clients : Account(c)
    BY TcpAssumption DEF Init, Account, InHand, Sent
  <1> QED BY <1>1, <1>2, <1>3 DEF DrainInv

\* A connection none of whose bytes moved keeps its account.
LEMMA AccountKept ==
    ASSUME NEW c \in Clients, Account(c),
           delivered'[c] = delivered[c], partial'[c] = partial[c], inbox'[c] = inbox[c],
           unsent'[c] = unsent[c], InHand(c)' = InHand(c)
    PROVE  Account(c)'
  BY DEF Account, Sent

\* When run() ends, what was in hand is lost, but only for connections that
\* are dropped with it.
LEMMA DrainLeave ==
    ASSUME TypeOK, DrainInv, NEW state \in {"stopped", "threw"}, Leave(state),
           pc = "deliver" => conn[Current] = "accepted"
    PROVE  DrainInv'
  <1> USE DEF Leave, readVars
  <1>1. EventsInv'
    BY DEF EventsInv
  <1>2. \A c \in Clients : conn'[c] = "erased" => conn[c] = "erased"
    BY DEF TypeOK
  <1>3. ASSUME NEW c \in Clients, ~Endless, conn'[c] # "dropped" PROVE Account(c)'
    <2>1. conn[c] # "dropped" /\ conn[c] # "accepted"
      BY <1>3
    <2>2. Account(c)
      BY <1>3, <2>1 DEF DrainInv
    <2>3. InHand(c)' = 0 /\ InHand(c) = 0
      BY <2>1 DEF InHand
    <2> QED BY <2>2, <2>3, AccountKept
  <1> QED BY <1>1, <1>2, <1>3 DEF DrainInv

\* One recv() and the extractor: the bytes read are in the frames or kept.
LEMMA DrainRecv ==
    ASSUME WalkInv, DrainInv, RecvBytes
    PROVE  DrainInv'
  <1> DEFINE me == Current
             count == IF inbox[me] < ReadSize THEN inbox[me] ELSE ReadSize
             held == partial[me] + count
  <1>1. TypeOK /\ me \in Clients
    BY CurrentIsClient DEF RecvBytes, Busy
  <1>2. count \in Nat /\ count > 0 /\ held \in Nat
    <2>1. inbox[me] \in Nat /\ partial[me] \in Nat /\ inbox[me] > 0
      BY <1>1, TcpAssumption DEF TypeOK, RecvBytes
    <2> QED BY <2>1, TcpAssumption
  <1>3. /\ inbox' = [inbox EXCEPT ![me] = @ - count]
        /\ partial' = [partial EXCEPT ![me] = held % FrameSize]
        /\ batch' = held \div FrameSize
        /\ pc' = IF held \div FrameSize > 0 THEN "deliver" ELSE "recv"
        /\ UNCHANGED <<clients, pfds, index, removeClient, delivered, conn, peer, unsent>>
        /\ pc = "recv"
        /\ me' = me
    BY DEF RecvBytes, pollVars, Current
  <1> HIDE DEF count, held, me
  <1>4. EventsInv'
    <2>1. pc' \in {"deliver", "recv"}
      BY <1>3
    <2>2. Current' = Current
      BY <1>3 DEF me
    <2> QED BY <1>3, <2>1, <2>2 DEF DrainInv, EventsInv
  <1>5. \A c \in Clients :
          conn'[c] = "erased" /\ peer'[c] # "reset" => peer'[c] = "closed" /\ inbox'[c] = 0
    <2> SUFFICES ASSUME NEW c \in Clients, conn[c] = "erased", peer[c] # "reset"
                 PROVE  peer[c] = "closed" /\ inbox'[c] = 0
      BY <1>3
    <2>1. peer[c] = "closed" /\ inbox[c] = 0
      BY DEF DrainInv
    <2>2. c # me
      BY <2>1 DEF me, RecvBytes
    <2> QED BY <1>1, <1>3, <2>1, <2>2 DEF TypeOK
  <1>6. ASSUME NEW c \in Clients, ~Endless, conn'[c] # "dropped" PROVE Account(c)'
    <2>1. Account(c) /\ InHand(c) = 0
      BY <1>3, <1>6 DEF DrainInv, InHand
    <2>2. CASE c # me
      <3>1. InHand(c)' = 0 /\ inbox'[c] = inbox[c] /\ partial'[c] = partial[c]
        BY <1>1, <1>3, <2>2 DEF InHand, TypeOK, me
      <3> QED BY <1>3, <2>1, <3>1, AccountKept
    <2>3. CASE c = me
      <3> DEFINE whole == held \div FrameSize
                 rest == held % FrameSize
                 product == whole * FrameSize
      <3>1. whole \in Nat /\ rest \in Nat /\ product \in Nat /\ product + rest = held
        BY <1>2, CutKeepsBytes, TcpAssumption
      <3>2. inbox'[c] = inbox[c] - count /\ partial'[c] = rest
        BY <1>1, <1>3, <2>3 DEF TypeOK
      <3>3. InHand(c)' = product
        <4>1. CASE whole > 0
          BY <1>3, <2>3, <4>1 DEF InHand, me
        <4>2. CASE whole = 0
          <5>1. product = 0
            BY <4>2, TcpAssumption
          <5>2. pc' = "recv"
            BY <1>3, <4>2
          <5> QED BY <5>1, <5>2 DEF InHand
        <4> QED BY <3>1, <4>1, <4>2
      <3> HIDE DEF whole, rest, product
      <3>4. held = partial[c] + count
        BY <2>3 DEF held
      <3> DEFINE d == delivered[c] * FrameSize
      <3>5. d \in Nat /\ partial[c] \in Nat /\ inbox[c] \in Nat
        BY TcpAssumption, <1>1 DEF TypeOK
      <3>6. delivered'[c] * FrameSize = d /\ Sent(c)' = Sent(c)
        BY <1>3 DEF Sent
      <3>7. d + partial[c] + inbox[c] + 0 = Sent(c)
        BY <2>1 DEF Account
      <3> HIDE DEF d
      <3>8. d + rest + (inbox[c] - count) + product = Sent(c)
        BY <1>2, <3>1, <3>4, <3>5, <3>7
      <3> QED BY <3>2, <3>3, <3>6, <3>8 DEF Account
    <2> QED BY <2>2, <2>3
  <1> QED BY <1>4, <1>5, <1>6 DEF DrainInv

\* One callback: a frame in hand becomes a delivered one; the history's bound
\* is never what stops it.
LEMMA DrainDeliver ==
    ASSUME WalkInv, DrainInv, Deliver
    PROVE  DrainInv'
  <1> DEFINE me == Current
  <1>1. TypeOK /\ me \in Clients /\ batch \in Nat /\ batch > 0
    <2>1. batch > 0 /\ Busy
      BY DEF WalkInv, Deliver, Busy
    <2> QED BY <2>1, CurrentIsClient DEF TypeOK
  <1>2. /\ batch' = batch - 1
        /\ delivered' = [delivered EXCEPT ![me] = IF @ < MaxSend THEN @ + 1 ELSE @]
        /\ pc' = IF batch = 1 THEN "recv" ELSE "deliver"
        /\ UNCHANGED <<clients, pfds, index, removeClient, partial, conn, peer, inbox, unsent>>
        /\ pc = "deliver"
        /\ me' = me
    BY DEF Deliver, pollVars, netVars, Current
  <1> HIDE DEF me
  <1>3. EventsInv'
    <2>1. pc' \in {"deliver", "recv"}
      BY <1>2
    <2>2. Current' = Current
      BY <1>2 DEF me
    <2> QED BY <1>2, <2>1, <2>2 DEF DrainInv, EventsInv
  <1>4. \A c \in Clients :
          conn'[c] = "erased" /\ peer'[c] # "reset" => peer'[c] = "closed" /\ inbox'[c] = 0
    BY <1>2 DEF DrainInv
  <1>5. ASSUME NEW c \in Clients, ~Endless, conn'[c] # "dropped" PROVE Account(c)'
    <2>1. Account(c)
      BY <1>2, <1>5 DEF DrainInv
    <2>2. CASE c # me
      <3>1. InHand(c)' = 0 /\ InHand(c) = 0 /\ delivered'[c] = delivered[c]
        BY <1>1, <1>2, <2>2 DEF InHand, TypeOK, me
      <3> QED BY <1>2, <2>1, <3>1, AccountKept
    <2>3. CASE c = me
      <3>1. InHand(c) = batch * FrameSize
        BY <1>2, <2>3 DEF InHand, me
      <3>2. InHand(c)' = batch' * FrameSize
        <4>1. CASE batch = 1
          BY <1>2, <4>1, TcpAssumption DEF InHand
        <4>2. CASE batch # 1
          BY <1>2, <2>3, <4>2 DEF InHand, me
        <4> QED BY <4>1, <4>2
      <3> DEFINE d == delivered[c]
      <3>3. /\ d \in Nat /\ d <= MaxSend /\ partial[c] \in Nat /\ inbox[c] \in Nat
            /\ unsent[c] \in 0 .. MaxSend /\ MaxSend \in Nat /\ FrameSize \in Nat /\ FrameSize > 0
        BY <1>1, TcpAssumption DEF TypeOK
      <3>4. d * FrameSize + partial[c] + inbox[c] + batch * FrameSize = Sent(c) /\ Sent(c) \in Int
        BY <2>1, <3>1, <3>3 DEF Account, Sent
      <3>5. batch * FrameSize = (batch - 1) * FrameSize + FrameSize
            /\ (d + 1) * FrameSize = d * FrameSize + FrameSize
            /\ d * FrameSize \in Nat /\ (batch - 1) * FrameSize \in Nat /\ d <= d * FrameSize
        BY <1>1, <3>3
      <3>6. d < MaxSend
        BY <3>3, <3>4, <3>5 DEF Sent
      <3>7. delivered'[c] = d + 1
        BY <1>1, <1>2, <2>3, <3>6 DEF TypeOK
      <3>8. Sent(c)' = Sent(c) /\ partial'[c] = partial[c] /\ inbox'[c] = inbox[c]
        BY <1>2 DEF Sent
      <3> HIDE DEF d
      <3>9. (d + 1) * FrameSize + partial[c] + inbox[c] + (batch - 1) * FrameSize = Sent(c)
        BY <3>3, <3>4, <3>5
      <3> QED BY <1>2, <3>2, <3>7, <3>8, <3>9 DEF Account
    <2> QED BY <2>2, <2>3
  <1> QED BY <1>3, <1>4, <1>5 DEF DrainInv

LEMMA DrainNext == WalkInv /\ SocketInv /\ DrainInv /\ [Next]_vars => DrainInv'
  <1> SUFFICES ASSUME WalkInv, SocketInv, DrainInv, [Next]_vars PROVE DrainInv'
    OBVIOUS
  <1>t. TypeOK
    BY DEF WalkInv
  <1>c. ASSUME Busy
        PROVE  /\ Current \in Clients /\ conn[Current] = "accepted"
               /\ index \in 1 .. Len(pfds) /\ pfds[index].client = Current
    <2>1. index \in 1 .. Len(clients) /\ index \in 1 .. Len(pfds) /\ Current \in Clients
      BY <1>c, CurrentIsClient
    <2>2. clients[index] = pfds[index].client
      BY <1>c, <1>t, <2>1 DEF WalkInv, SnapshotAligned, Busy, TypeOK
    <2>3. index \in DOMAIN clients
      BY <1>t, <2>1 DEF TypeOK
    <2> QED BY <2>1, <2>2, <2>3 DEF SocketInv, Current
  \* Steps that move no bytes and close nothing.
  <1>q. ASSUME UNCHANGED <<partial, delivered, netVars>>, \A c \in Clients : InHand(c)' = InHand(c),
               EventsInv'
        PROVE  DrainInv'
    <2>1. \A c \in Clients : Account(c) => Account(c)'
      BY <1>q, AccountKept DEF netVars
    <2> QED BY <1>q, <2>1 DEF DrainInv, netVars
  <1>1. CASE LeaveLoop \/ BindFails \/ PollFails \/ CallbackThrows \/ AcceptThrows
    <2>1. pc = "deliver" => conn[Current] = "accepted"
      BY <1>c DEF Busy
    <2> QED BY <1>1, <1>t, <2>1, DrainLeave
            DEF LeaveLoop, BindFails, PollFails, CallbackThrows, AcceptThrows
  <1>2. CASE RecvBytes
    BY <1>2, DrainRecv
  <1>3. CASE Deliver
    BY <1>3, DrainDeliver
  <1>4. CASE CallRun \/ BindAndListen \/ EnterLoop \/ PollReturnsEmpty \/ ScanSkip
             \/ AcceptNobody \/ AcceptFails
    <2>1. /\ UNCHANGED <<clients, pfds, readVars, netVars>>
          /\ ~Busy /\ ~Busy'
      BY <1>4 DEF CallRun, BindAndListen, EnterLoop, PollReturnsEmpty, ScanSkip,
         AcceptNobody, AcceptFails, AcceptBreaks, Busy, pollVars
    <2>2. EventsInv'
      BY <2>1 DEF DrainInv, EventsInv, Busy, netVars
    <2>3. \A c \in Clients : InHand(c)' = InHand(c)
      BY <2>1 DEF InHand, Busy
    <2> QED BY <1>q, <2>1, <2>2, <2>3 DEF readVars
  <1>5. CASE PollReady
    <2>1. /\ UNCHANGED <<readVars, netVars>> /\ ~Busy /\ ~Busy'
          /\ pfds' = [i \in DOMAIN clients |->
                        [client |-> clients[i], revents |-> Revents(clients[i])]]
      BY <1>5 DEF PollReady, Busy
    <2>2. ASSUME NEW i \in DOMAIN pfds', pfds'[i].revents \cap {"HUP", "ERR"} # {}
          PROVE  peer'[pfds'[i].client] = "reset"
      <3>1. pfds'[i].client = clients[i] /\ pfds'[i].revents = Revents(clients[i])
        BY <2>1, <2>2
      <3>2. peer[clients[i]] = "reset"
        BY <2>2, <3>1 DEF Revents
      <3> QED BY <2>1, <3>1, <3>2 DEF netVars
    <2>3. EventsInv'
      BY <2>1, <2>2 DEF EventsInv, Busy
    <2>4. \A c \in Clients : InHand(c)' = InHand(c)
      BY <2>1 DEF InHand, Busy
    <2> QED BY <1>q, <2>1, <2>3, <2>4 DEF readVars
  <1>6. CASE ScanClient
    <2>1. /\ UNCHANGED <<clients, pfds, index, partial, delivered, netVars>>
          /\ pc = "scan" /\ pc' \in {"recv", "settle"} /\ index > 0
          /\ removeClient' => "ERR" \in pfds[index].revents
      BY <1>6 DEF ScanClient, pollVars, CurrentEvents
    <2>2. index \in 1 .. Len(pfds) /\ index \in DOMAIN pfds /\ pfds[index].client = clients[index]
      <3>1. /\ pfds \in Seq([client : Clients, revents : SUBSET Events])
            /\ index \in Nat /\ clients \in Seq(Clients)
        BY <1>t DEF TypeOK
      <3>2. index <= Len(pfds) /\ \A i \in 1 .. index : clients[i] = pfds[i].client
        BY <2>1 DEF WalkInv, SnapshotAligned
      <3>3. Len(pfds) \in Nat /\ DOMAIN pfds = 1 .. Len(pfds)
        BY <3>1
      <3> QED BY <2>1, <3>1, <3>2, <3>3
    <2>3. removeClient' => peer[clients[index]] = "reset"
      BY <2>1, <2>2 DEF DrainInv, EventsInv
    <2>4. EventsInv'
      BY <2>1, <2>3 DEF DrainInv, EventsInv, netVars, Current
    <2>5. \A c \in Clients : InHand(c)' = InHand(c)
      BY <2>1 DEF InHand
    <2> QED BY <1>q, <2>1, <2>4, <2>5
  <1>7. CASE ScanDone
    <2>1. /\ UNCHANGED <<clients, readVars, netVars>> /\ ~Busy /\ ~Busy'
          /\ pfds' = <<>>
      BY <1>7 DEF ScanDone, Busy
    <2>2. EventsInv'
      BY <2>1 DEF EventsInv, Busy
    <2>3. \A c \in Clients : InHand(c)' = InHand(c)
      BY <2>1 DEF InHand, Busy
    <2> QED BY <1>q, <2>1, <2>2, <2>3 DEF readVars
  <1>8. CASE RecvNothing
    <2>1. /\ UNCHANGED <<clients, pfds, index, readVars, netVars>>
          /\ pc = "recv" /\ pc' = "settle"
      BY <1>8 DEF RecvNothing, pollVars
    <2>2. EventsInv'
      BY <2>1 DEF DrainInv, EventsInv, netVars, readVars, Current
    <2>3. \A c \in Clients : InHand(c)' = InHand(c)
      BY <2>1 DEF InHand
    <2> QED BY <1>q, <2>1, <2>2, <2>3 DEF readVars
  <1>9. CASE RecvEnds
    <2>1. /\ UNCHANGED <<clients, pfds, index, partial, delivered, netVars>>
          /\ pc = "recv" /\ pc' = "settle"
          /\ \/ inbox[Current] = 0 /\ peer[Current] = "closed"
             \/ peer[Current] = "reset"
      BY <1>9 DEF RecvEnds, pollVars
    <2>2. EventsInv'
      BY <2>1 DEF DrainInv, EventsInv, netVars, Current
    <2>3. \A c \in Clients : InHand(c)' = InHand(c)
      BY <2>1 DEF InHand
    <2> QED BY <1>q, <2>1, <2>2, <2>3
  <1>10. CASE SettleRemove
    <2>1. /\ UNCHANGED <<pfds, readVars, peer, inbox, unsent>>
          /\ pc = "settle" /\ pc' = "scan"
          /\ conn' = [conn EXCEPT ![Current] = "erased"]
          /\ removeClient \/ "HUP" \in pfds[index].revents
      BY <1>10 DEF SettleRemove, pollVars, CurrentEvents
    <2>2. /\ Current \in Clients /\ conn[Current] = "accepted"
          /\ index \in 1 .. Len(pfds) /\ pfds[index].client = Current
      BY <1>c, <2>1 DEF Busy
    <2>3. \/ peer[Current] = "reset"
          \/ peer[Current] = "closed" /\ inbox[Current] = 0
      <3>1. CASE removeClient
        BY <2>1, <3>1 DEF DrainInv, EventsInv
      <3>2. CASE "HUP" \in pfds[index].revents
        <4>1. index \in DOMAIN pfds
          BY <1>t, <2>2 DEF TypeOK
        <4> QED BY <2>2, <3>2, <4>1 DEF DrainInv, EventsInv
      <3> QED BY <2>1, <3>1, <3>2
    <2>4. EventsInv'
      BY <2>1 DEF DrainInv, EventsInv
    <2>5. ASSUME NEW c \in Clients, conn'[c] = "erased", peer'[c] # "reset"
          PROVE  peer'[c] = "closed" /\ inbox'[c] = 0
      <3>1. CASE c = Current
        BY <2>1, <2>3, <2>5, <3>1
      <3>2. CASE c # Current
        BY <1>t, <2>1, <2>5, <3>2 DEF DrainInv, TypeOK
      <3> QED BY <3>1, <3>2
    <2>6. ASSUME NEW c \in Clients, ~Endless, conn'[c] # "dropped" PROVE Account(c)'
      <3>1. conn[c] # "dropped"
        BY <1>t, <2>1, <2>2, <2>6 DEF TypeOK
      <3>2. InHand(c)' = 0 /\ InHand(c) = 0
        BY <2>1 DEF InHand
      <3> QED BY <2>1, <2>6, <3>1, <3>2, AccountKept DEF DrainInv, readVars
    <2> QED BY <2>4, <2>5, <2>6 DEF DrainInv
  <1>11. CASE SettleKeep
    <2>1. /\ UNCHANGED <<clients, pfds, readVars, netVars>>
          /\ pc = "settle" /\ pc' = "scan"
      BY <1>11 DEF SettleKeep, pollVars
    <2>2. EventsInv'
      BY <2>1 DEF DrainInv, EventsInv, netVars
    <2>3. \A c \in Clients : InHand(c)' = InHand(c)
      BY <2>1 DEF InHand
    <2> QED BY <1>q, <2>1, <2>2, <2>3 DEF readVars
  <1>12. ASSUME NEW c \in Clients, AcceptClient(c) \/ Connect(c) PROVE DrainInv'
    <2>1. /\ UNCHANGED <<pc, pfds, index, readVars, peer, inbox, unsent>>
          /\ Busy => clients' = clients
          /\ conn' = [conn EXCEPT ![c] = "accepted"] \/ conn' = [conn EXCEPT ![c] = "backlog"]
          /\ conn[c] \in {"backlog", "absent"}
      BY <1>12 DEF AcceptClient, Connect, pollVars, Busy
    <2>2. Busy => Current' = Current
      BY <2>1 DEF Current
    <2>3. EventsInv'
      BY <2>1, <2>2 DEF DrainInv, EventsInv, readVars, Busy
    <2>4. \A d \in Clients : (conn'[d] = "erased" => conn[d] = "erased")
                             /\ (conn'[d] # "dropped" => conn[d] # "dropped")
      BY <1>t, <2>1 DEF TypeOK
    <2>5. \A d \in Clients : InHand(d)' = InHand(d)
      BY <2>1, <2>2 DEF InHand, readVars, Busy
    <2>6. \A d \in Clients : Account(d) => Account(d)'
      BY <2>1, <2>5, AccountKept DEF readVars
    <2> QED BY <2>1, <2>3, <2>4, <2>6 DEF DrainInv
  <1>13. CASE Stop \/ StopSignal \/ UNCHANGED vars
    <2>1. UNCHANGED <<pc, clients, pfds, index, readVars, netVars>>
      BY <1>13 DEF Stop, StopSignal, vars, pollVars
    <2>2. EventsInv'
      BY <2>1 DEF DrainInv, EventsInv, netVars, readVars, Current
    <2>3. \A c \in Clients : InHand(c)' = InHand(c)
      BY <2>1 DEF InHand, Current, readVars
    <2> QED BY <1>q, <2>1, <2>2, <2>3 DEF readVars
  <1>14. ASSUME NEW c \in Clients, Send(c) PROVE DrainInv'
    <2>1. /\ UNCHANGED <<pc, clients, pfds, index, readVars, conn, peer>>
          /\ conn[c] \in {"backlog", "accepted"} /\ peer[c] = "open"
          /\ inbox' = [inbox EXCEPT ![c] = @ + 1]
          /\ unsent' = IF Endless THEN unsent ELSE [unsent EXCEPT ![c] = @ - 1]
      BY <1>14 DEF Send, Alive, pollVars
    <2>2. Current' = Current
      BY <2>1 DEF Current
    <2>3. EventsInv'
      <3>1. pc = "settle" /\ Current = c /\ removeClient => peer[Current] = "reset"
        BY <2>1 DEF DrainInv, EventsInv
      <3>2. Current # c => inbox'[Current] = inbox[Current] \/ ~Busy
        BY <1>t, <1>c, <2>1 DEF TypeOK
      <3> QED BY <2>1, <2>2, <3>1, <3>2 DEF DrainInv, EventsInv, readVars, Busy
    <2>4. ASSUME NEW d \in Clients, conn'[d] = "erased", peer'[d] # "reset"
          PROVE  peer'[d] = "closed" /\ inbox'[d] = 0
      BY <1>t, <2>1, <2>4 DEF DrainInv, TypeOK
    <2>5. ASSUME NEW d \in Clients, ~Endless, conn'[d] # "dropped" PROVE Account(d)'
      <3>1. Account(d) /\ InHand(d)' = InHand(d)
        BY <2>1, <2>2, <2>5 DEF DrainInv, InHand, readVars
      <3>2. CASE d # c
        BY <1>t, <2>1, <2>5, <3>1, <3>2, AccountKept DEF TypeOK, readVars
      <3>3. CASE d = c
        <4>1. /\ delivered'[d] = delivered[d] /\ partial'[d] = partial[d]
              /\ inbox'[d] = inbox[d] + 1 /\ unsent'[d] = unsent[d] - 1
          BY <1>t, <2>1, <2>5, <3>3 DEF TypeOK, readVars
        <4> DEFINE x == delivered[d] * FrameSize
                   h == InHand(d)
        <4>2. /\ x \in Nat /\ h \in Nat /\ partial[d] \in Nat /\ inbox[d] \in Nat
              /\ unsent[d] \in Nat /\ MaxSend \in Nat
          BY <1>t, TcpAssumption DEF TypeOK, InHand
        <4>3. x + partial[d] + inbox[d] + h = MaxSend - unsent[d]
          BY <3>1 DEF Account, Sent
        <4>4. delivered'[d] * FrameSize = x /\ InHand(d)' = h
          BY <3>1, <4>1
        <4> HIDE DEF x, h
        <4>5. x + partial[d] + (inbox[d] + 1) + h = MaxSend - (unsent[d] - 1)
          <5>1. \A a, b, i, k, m, u \in Int :
                  a + b + i + k = m - u => a + b + (i + 1) + k = m - (u - 1)
            OBVIOUS
          <5> QED BY <4>2, <4>3, <5>1
        <4> QED BY <4>1, <4>4, <4>5 DEF Account, Sent
      <3> QED BY <3>2, <3>3
    <2> QED BY <2>3, <2>4, <2>5 DEF DrainInv
  <1>15. ASSUME NEW c \in Clients, PeerCloses(c) \/ PeerResets(c) PROVE DrainInv'
    <2>1. /\ UNCHANGED <<pc, clients, pfds, index, readVars, conn, inbox, unsent>>
          /\ conn[c] \in {"backlog", "accepted"} /\ peer[c] = "open"
          /\ \/ peer' = [peer EXCEPT ![c] = "closed"]
             \/ peer' = [peer EXCEPT ![c] = "reset"]
      BY <1>15 DEF PeerCloses, PeerResets, Alive, pollVars
    <2>2. Current' = Current
      BY <2>1 DEF Current
    <2>3. \A d \in Clients : peer[d] # "open" => peer'[d] = peer[d]
      BY <1>t, <2>1 DEF TypeOK
    <2>4. \A i \in DOMAIN pfds : pfds[i].client \in Clients
      <3>1. pfds \in Seq([client : Clients, revents : SUBSET Events])
        BY <1>t DEF TypeOK
      <3> DEFINE Entry == [client : Clients, revents : SUBSET Events]
      <3> HIDE DEF Entry
      <3>2. pfds \in Seq(Entry)
        BY <3>1 DEF Entry
      <3>3. \A i \in DOMAIN pfds : pfds[i] \in Entry
        BY <3>2
      <3> QED BY <3>3 DEF Entry
    <2>5. EventsInv'
      BY <1>c, <2>1, <2>2, <2>3, <2>4 DEF DrainInv, EventsInv, readVars, Busy
    <2>6. ASSUME NEW d \in Clients, conn'[d] = "erased", peer'[d] # "reset"
          PROVE  peer'[d] = "closed" /\ inbox'[d] = 0
      <3>1. d # c /\ conn[d] = "erased"
        BY <2>1, <2>6
      <3> QED BY <1>t, <2>1, <2>6, <3>1 DEF DrainInv, TypeOK
    <2>7. \A d \in Clients : InHand(d)' = InHand(d)
      BY <2>1, <2>2 DEF InHand, readVars
    <2>8. \A d \in Clients : Account(d) => Account(d)'
      BY <2>1, <2>7, AccountKept DEF readVars
    <2> QED BY <2>1, <2>5, <2>6, <2>8 DEF DrainInv
  <1> QED
    BY <1>1, <1>2, <1>3, <1>4, <1>5, <1>6, <1>7, <1>8, <1>9, <1>10, <1>11, <1>12, <1>13,
       <1>14, <1>15 DEF Next, ServerStep, ServerFault, Environment

LEMMA DrainInvariant == Spec => []DrainInv
  BY DrainInit, DrainNext, WalkInvariant, SocketInvariant, PTL DEF Spec

\* An orderly hang-up loses nothing (NetworkServer.hpp:60, runTcp 165-210): the
\* loop closes such a client only after its last byte was read and its last
\* complete frame given to the callback, however the bytes were cut, whatever
\* the sizes of frames and buffers, and it closes no client whose peer is there.
THEOREM DrainTheorem == Spec => []HungUpClientIsDrained
  <1>1. TypeOK /\ SocketInv /\ WalkInv /\ DrainInv => HungUpClientIsDrained
    <2> SUFFICES ASSUME TypeOK, SocketInv, WalkInv, DrainInv, ~Endless,
                        NEW c \in Clients, conn[c] = "erased", peer[c] # "reset"
                 PROVE  peer[c] # "open" /\ delivered[c] * FrameSize + partial[c] = Sent(c)
      BY DEF HungUpClientIsDrained
    <2>1. peer[c] = "closed" /\ inbox[c] = 0 /\ Account(c)
      BY DEF DrainInv
    <2>2. InHand(c) = 0
      <3>1. pc = "deliver" => conn[Current] = "accepted"
        <4> SUFFICES ASSUME pc = "deliver" PROVE conn[Current] = "accepted"
          OBVIOUS
        <4>1. index \in DOMAIN clients
          BY CurrentIsClient DEF Busy, TypeOK
        <4> QED BY <4>1 DEF SocketInv, Current
      <3> QED BY <3>1 DEF InHand
    <2>3. delivered[c] * FrameSize \in Nat /\ partial[c] \in Nat
      BY TcpAssumption DEF TypeOK
    <2> QED BY <2>1, <2>2, <2>3 DEF Account
  <1>2. WalkInv => TypeOK
    BY DEF WalkInv
  <1> QED BY <1>1, <1>2, WalkInvariant, SocketInvariant, DrainInvariant, PTL

=============================================================================
