------------------------------ MODULE Downlink ------------------------------
(***************************************************************************)
(* From the simulator to the ground station's decoder.                     *)
(*                                                                         *)
(* Over TCP the bytes go through a connection of bounded size, arrive in   *)
(* reads of any length and are cut by a StreamExtractor; over UDP whole    *)
(* frames arrive as datagrams that the network may lose, duplicate and     *)
(* reorder.  Either way each candidate goes through DecodeFrame.  Damage   *)
(* comes from the simulator's own corruption, and, on a TCP connection,    *)
(* from foreign symbols written between two frames.                        *)
(*                                                                         *)
(* layout is history: where each frame and each foreign symbol lies in the *)
(* byte stream of the connection.                                          *)
(***************************************************************************)
EXTENDS Simulator, StreamExtractor, FiniteSets

CONSTANTS
  NoiseSymbols,   \* what a foreign symbol may be
  MaxNoise,       \* bound: foreign symbols per connection, of a run that
                  \* damages no frame: one kind of damage per behaviour
  ReadSize,       \* the server reads at most so many symbols at once
  MaxDuplicates   \* bound: datagrams the network duplicates

\* A symbol is a byte, or a field of bytes read as an unsigned number.
ASSUME SymbolAssumption ==
  /\ FrameMagic \in Seq(Nat) /\ ApplicationPayloadMagic \in Seq(Nat)
  /\ ProtocolVersion \in Nat /\ SatelliteId \in Nat
  /\ Timestamps \subseteq Nat /\ Temperatures \subseteq Nat
  /\ RandomPayloads \subseteq Seq(Nat) /\ SampleValues \subseteq Nat
  /\ SignalFormat \in [sampleRateHz : Nat, frequencyHz : Nat, nominalAmplitude : Nat]
  /\ \A o \in CommandLines : o.message \in Seq(Nat)
  /\ NoiseSymbols \subseteq Nat

VARIABLES layout, accepted, rejected, duplicates

vars == <<simVars, extractorVars, layout, accepted, rejected, duplicates>>
airVars == <<layout, accepted, rejected, duplicates>>

OverTcp == options.transport = "tcp"

Init ==
  /\ SimInit
  /\ ExtractorInit
  /\ layout = <<>>
  /\ accepted = <<>>
  /\ rejected = 0
  /\ duplicates = 0

----------------------------------------------------------------------------
(* The simulator's side. *)

NextStreamPosition == Len(stream) + Len(link) + 1

NoiseSeen == {k \in DOMAIN layout : layout[k].size = 0}

Radio ==
  /\ TransmitFrame \/ (NoiseSeen = {} /\ TransmitDamagedFrame)
  /\ layout' = IF OverTcp
               THEN Append(layout, [start |-> NextStreamPosition, size |-> Len(simBytes'),
                                    bad |-> {NextStreamPosition + d - 1 :
                                               d \in {sent'[Len(sent')].damage} \ {0}}])
               ELSE layout
  /\ UNCHANGED <<extractorVars, accepted, rejected, duplicates>>

ForeignSymbol ==
  /\ OverTcp
  /\ simPc = "frame"
  /\ simStats.corrupted = 0
  /\ Cardinality(NoiseSeen) < MaxNoise
  /\ Len(link) < SocketRoom
  /\ \E symbol \in NoiseSymbols : link' = Append(link, symbol)
  /\ layout' = Append(layout, [start |-> NextStreamPosition, size |-> 0,
                               bad |-> {NextStreamPosition}])
  /\ UNCHANGED <<options, fileRoom, simPc, simIndex, simBytes, simOffset, simStats,
                 simFault, capture, sent, extractorVars, accepted, rejected, duplicates>>

\* A frame the simulator itself drops never reaches the link, and a kill
\* between two sends is a sender that takes no further step: neither is here.
SimulatorStep ==
  \/ Radio
  \/ /\ SendSome \/ SendDatagram \/ SendFails \/ StoreFrame \/ FinishRun
     /\ UNCHANGED <<extractorVars, airVars>>

----------------------------------------------------------------------------
(* The station's side over TCP: one read, the passes of feed(), and the    *)
(* callback for each candidate.                                            *)

LinkOnly(new) ==
  /\ link' = new
  /\ UNCHANGED <<options, fileRoom, simPc, simIndex, simBytes, simOffset, simStats,
                 simFault, capture, sent>>

ReceiveBytes ==
  /\ OverTcp
  /\ \E n \in 1..Len(link) :
       /\ n <= ReadSize
       /\ Feed(SubSeq(link, 1, n))
       /\ LinkOnly(SubSeq(link, n + 1, Len(link)))
  /\ UNCHANGED airVars

ExtractorStep == Scan /\ UNCHANGED <<simVars, airVars>>

\* The candidates of this feed(), each with its place in the stream.
Candidates ==
  [k \in DOMAIN frames |->
     [at |-> cuts[Len(cuts) - Len(frames) + k].start, result |-> DecodeFrame(frames[k])]]

Accepts(result) == result.ok

AcceptedOf(candidates) ==
  LET good[k \in 0..Len(candidates)] ==
        IF k = 0 THEN <<>>
        ELSE IF Accepts(candidates[k].result)
             THEN Append(good[k - 1], [at |-> candidates[k].at,
                                       frame |-> candidates[k].result.frame])
             ELSE good[k - 1]
  IN  good[Len(candidates)]

HandCandidates ==
  /\ Take
  /\ accepted' = accepted \o AcceptedOf(Candidates)
  /\ rejected' = rejected + Len(frames) - Len(AcceptedOf(Candidates))
  /\ UNCHANGED <<simVars, layout, duplicates>>

\* The peer is gone and everything was read: the server erases the client,
\* and the frame it had begun goes with it.
EraseClient ==
  /\ OverTcp
  /\ simPc \in Ended
  /\ link = <<>>
  /\ stream # <<>>
  /\ Clear
  /\ UNCHANGED <<simVars, airVars>>

----------------------------------------------------------------------------
(* Over UDP: the network, and the station's recvfrom. *)

Without(seq, k) == SubSeq(seq, 1, k - 1) \o SubSeq(seq, k + 1, Len(seq))

ReceiveDatagram ==
  /\ options.transport = "udp"
  /\ \E k \in DOMAIN link :
       /\ LET result == DecodeFrame(link[k])
          IN  IF Accepts(result)
              THEN /\ accepted' = Append(accepted, [at |-> 0, frame |-> result.frame])
                   /\ UNCHANGED rejected
              ELSE rejected' = rejected + 1 /\ UNCHANGED accepted
       /\ LinkOnly(Without(link, k))
  /\ UNCHANGED <<extractorVars, layout, duplicates>>

LoseDatagram ==
  /\ options.transport = "udp"
  /\ \E k \in DOMAIN link : LinkOnly(Without(link, k))
  /\ UNCHANGED <<extractorVars, airVars>>

DuplicateDatagram ==
  /\ options.transport = "udp"
  /\ duplicates < MaxDuplicates
  /\ \E k \in DOMAIN link : LinkOnly(Append(link, link[k]))
  /\ duplicates' = duplicates + 1
  /\ UNCHANGED <<extractorVars, layout, accepted, rejected>>

----------------------------------------------------------------------------
\* A finished simulator and an emptied network: nothing is left to do.
Finished ==
  /\ simPc \in Ended
  /\ link = <<>>
  /\ frames = <<>>
  /\ ~feeding
  /\ UNCHANGED vars

Next ==
  \/ SimulatorStep \/ ForeignSymbol
  \/ ReceiveBytes \/ ExtractorStep \/ HandCandidates \/ EraseClient
  \/ ReceiveDatagram \/ LoseDatagram \/ DuplicateDatagram
  \/ Finished

Spec == Init /\ [][Next]_vars

----------------------------------------------------------------------------
SentWhole == {k \in DOMAIN sent : sent[k].damage = 0}

(* Only what was sent is accepted: every frame the station accepts is one  *)
(* the simulator encoded and the radio left alone, however the stream was  *)
(* cut and resynchronised (decodeFrame's checks, FrameCodec.cpp:141-213).  *)
AcceptedAreSent ==
  \A k \in DOMAIN accepted : \E j \in SentWhole : accepted[k].frame = sent[j].frame

\* The places of the stream that hold something no encoder wrote there.
BadPlaces == UNION {layout[k].bad : k \in DOMAIN layout}

\* Damage at b reaches the frame at k only from inside it, or from less than
\* a frame's length before it.
Untouched(k) ==
  LET f == layout[k]
  IN  /\ f.size > 0
      /\ \A b \in BadPlaces : b >= f.start + f.size \/ b + MaxFrameSize <= f.start

(* Loss is local: an undamaged frame that begins at least one maximal frame *)
(* after the last damage is accepted, so a wrong length or a lost magic     *)
(* never costs more than the frames it overlaps (resynchronisation in       *)
(* feed(), FrameCodec.cpp:258-291; payloads here hold no whole magic).      *)
LossIsLocal ==
  ~feeding /\ frames = <<>> =>
    \A k \in DOMAIN layout :
      Untouched(k) /\ layout[k].start + layout[k].size - 1 <= Len(stream) =>
        \E j \in DOMAIN accepted : accepted[j].at = layout[k].start

=============================================================================
