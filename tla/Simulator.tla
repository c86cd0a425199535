------------------------------ MODULE Simulator ------------------------------
(***************************************************************************)
(* The satellite simulator: parseArgs (SimulatorOptions.cpp), the loop of  *)
(* run (SimulatorApp.cpp), makeFrame and maybeCorrupt                      *)
(* (SimulatorFrameFactory.cpp) and sendAll (SimulatorSocket.cpp).          *)
(*                                                                         *)
(* The random draws (payload, temperature, status, loss, corruption) are   *)
(* choices from small sets.  link is the sending side of the socket: the   *)
(* symbols a TCP connection holds, or the datagrams under way.  capture is *)
(* the stream of the optional output file.  A send() interrupted by a      *)
(* signal is simply retried and changes nothing, so it is not a step.      *)
(***************************************************************************)
EXTENDS FrameCodec, ApplicationPayload, Replay

CONSTANTS
  CommandLines,      \* options the user may ask for
  RandomPayloads,    \* what makeRandomPayload may draw
  Temperatures, Timestamps, SatelliteId,
  SampleValues,      \* what a noisy sample may be, overflow included
  SignalFormat,      \* sampleRateHz, frequencyHz and nominalAmplitude
  CorruptionXorMask,
  SymbolXor(_, _),   \* bitwise exclusive or of two symbols
  U32Max,            \* largest 32-bit value (scaled)
  MaxCorrupted,      \* bound: frames the radio damages in a run
  MaxDropped,        \* bound: frames the radio loses in a run
  SocketRoom,        \* symbols the TCP connection can hold
  FileRoom           \* sizes at which the capture's device may be full

ASSUME SimulatorAssumption ==
  /\ RandomPayloads \subseteq Seq(Int)
  /\ Temperatures \subseteq Int /\ Timestamps \subseteq Int /\ SatelliteId \in Int
  /\ SampleValues \subseteq Int
  /\ SignalFormat \in [sampleRateHz : Int, frequencyHz : Int, nominalAmplitude : Int]
  /\ U32Max \in Nat
  /\ FileRoom \subseteq Nat

\* What the parser of a single option guarantees.
ASSUME CommandLineAssumption ==
  \A o \in CommandLines :
    /\ o.mode \in {"random", "text", "signal"}
    /\ o.count \in Nat /\ o.signalSamples \in Nat
    /\ o.message \in Seq(Int)

VARIABLES
  options, fileRoom,
  simPc,       \* "open", "frame", "send", "store", or how the program ended
  simIndex,    \* i of the loop
  simBytes,    \* bytes
  simOffset,   \* sent in sendAll
  simStats,    \* produced, dropped, corrupted
  simFault,    \* what was thrown
  link, capture,
  sent         \* history: the frames handed to the radio

simVars == <<options, fileRoom, simPc, simIndex, simBytes, simOffset, simStats,
             simFault, link, capture, sent>>

Ended == {"done", "failed", "killed"}

----------------------------------------------------------------------------
(* parseArgs: the checks that span several options. *)

SignalOf(o, start, samples) ==
  [kind |-> "signal", sampleRateHz |-> SignalFormat.sampleRateHz,
   frequencyHz |-> SignalFormat.frequencyHz,
   nominalAmplitude |-> SignalFormat.nominalAmplitude,
   startSampleIndex |-> start, samples |-> samples]

\* Mutant of ParsedOptions: the probe block is checked, the last block's
\* start index is not.
ParsedOptionsAnyStart ==
  {o \in CommandLines :
    /\ o.transport # "none" \/ o.captures
    /\ o.payloadSize <= MaxPayloadSize
    /\ o.mode = "signal" => EncodableSignal(SignalOf(o, 0, [k \in 1..o.signalSamples |-> 0]))
    /\ o.mode = "text" => EncodableText([sequence |-> 0, text |-> o.message])}

ParsedOptions ==
  {o \in CommandLines :
    /\ o.transport # "none" \/ o.captures
    /\ o.payloadSize <= MaxPayloadSize
    /\ o.mode = "signal" =>
         /\ EncodableSignal(SignalOf(o, 0, [k \in 1..o.signalSamples |-> 0]))
         /\ (o.count - 1) * o.signalSamples <= U32Max
    /\ o.mode = "text" => EncodableText([sequence |-> 0, text |-> o.message])}

----------------------------------------------------------------------------
(* The frame factory. *)

TextOf(i) == [kind |-> "text", sequence |-> i % (U32Max + 1), text |-> options.message]

SignalsOf(i) ==
  {SignalOf(options, i * options.signalSamples, samples) :
     samples \in [1..options.signalSamples -> SampleValues]}

SignalRefused(i, signal) ==
  i * options.signalSamples > U32Max \/ ~EncodableSignal(signal)

\* The payloads makeFrame may put in frame i.
PayloadsOf(i) ==
  CASE options.mode = "random" -> {p \in RandomPayloads : Len(p) = options.payloadSize}
    [] options.mode = "text"   -> {EncodeTextMessagePayload(TextOf(i))}
    [] options.mode = "signal" -> {EncodeSignalBlockPayload(s) :
                                     s \in {s \in SignalsOf(i) : ~SignalRefused(i, s)}}

BatteryOf(i) == MaxBatteryPercent - (i % (MaxBatteryPercent + 1))

FramesOf(i) ==
  {[version |-> ProtocolVersion, satelliteId |-> SatelliteId, timestampMs |-> time,
    temperatureC |-> temperature, batteryPercent |-> BatteryOf(i), status |-> status,
    payload |-> payload] :
     time \in Timestamps, temperature \in Temperatures, status \in 0..SafeMode,
     payload \in PayloadsOf(i)}

\* maybeCorrupt at position k.
Corrupt(bytes, k) == [bytes EXCEPT ![k] = SymbolXor(@, CorruptionXorMask)]

----------------------------------------------------------------------------
SimInit ==
  /\ options \in ParsedOptions
  /\ fileRoom \in FileRoom
  /\ simPc = IF options.captures THEN "open" ELSE "frame"
  /\ simIndex = 0
  /\ simBytes = <<>>
  /\ simOffset = 0
  /\ simStats = [produced |-> 0, dropped |-> 0, corrupted |-> 0]
  /\ simFault = "none"
  /\ link = <<>>
  /\ capture = FreshStream
  /\ sent = <<>>

\* An exception leaves run: the socket and the writer are destroyed, main
\* reports and returns 1.
Throw(fault, stream) ==
  /\ simPc' = "failed"
  /\ simFault' = fault
  /\ capture' = AfterClose(stream, fileRoom)

OpenCapture ==
  /\ simPc = "open"
  /\ \/ Throw("open", capture)
     \/ \E stream \in OpenWriter(fileRoom) :
          IF stream.bad THEN Throw("write", stream)
          ELSE simPc' = "frame" /\ capture' = stream /\ UNCHANGED simFault
  /\ UNCHANGED <<options, fileRoom, simIndex, simBytes, simOffset, simStats, link, sent>>

MoreFrames == simPc = "frame" /\ simIndex < options.count

LoseFrame ==
  /\ MoreFrames
  /\ FramesOf(simIndex) # {}
  /\ simStats.dropped < MaxDropped
  /\ simStats' = [simStats EXCEPT !.dropped = @ + 1]
  /\ simIndex' = simIndex + 1
  /\ UNCHANGED <<options, fileRoom, simPc, simBytes, simOffset, simFault, link, capture, sent>>

Transmit(frame, bytes, damage) ==
  /\ simBytes' = bytes
  /\ simOffset' = 0
  /\ simPc' = IF options.transport = "none" THEN "store" ELSE "send"
  /\ sent' = Append(sent, [frame |-> frame, bytes |-> bytes, damage |-> damage])
  /\ UNCHANGED <<options, fileRoom, simIndex, simFault, link, capture>>

TransmitFrame ==
  /\ MoreFrames
  /\ \E frame \in FramesOf(simIndex) :
       Encodable(frame) /\ Transmit(frame, EncodeFrame(frame), 0)
  /\ UNCHANGED simStats

TransmitDamagedFrame ==
  /\ MoreFrames
  /\ simStats.corrupted < MaxCorrupted
  /\ \E frame \in FramesOf(simIndex) :
       \E k \in DOMAIN EncodeFrame(frame) :
         Encodable(frame) /\ Transmit(frame, Corrupt(EncodeFrame(frame), k), k)
  /\ simStats' = [simStats EXCEPT !.corrupted = @ + 1]

\* makeSignalPayload or an encoder throws in the middle of a run.
RefuseFrame ==
  /\ MoreFrames
  /\ options.mode = "signal"
  /\ \E signal \in SignalsOf(simIndex) :
       /\ SignalRefused(simIndex, signal)
       /\ Throw(IF FiniteSamples(signal.samples) THEN "refused" ELSE "overflow", capture)
  /\ UNCHANGED <<options, fileRoom, simIndex, simBytes, simOffset, simStats, link, sent>>

\* One send() of sendAll: the connection takes what it has room for.
SendSome ==
  /\ simPc = "send"
  /\ options.transport = "tcp"
  /\ \E n \in 1..(Len(simBytes) - simOffset) :
       /\ Len(link) + n <= SocketRoom
       /\ link' = link \o SubSeq(simBytes, simOffset + 1, simOffset + n)
       /\ simOffset' = simOffset + n
       /\ simPc' = IF simOffset + n = Len(simBytes) THEN "store" ELSE "send"
  /\ UNCHANGED <<options, fileRoom, simIndex, simBytes, simStats, simFault, capture, sent>>

SendDatagram ==
  /\ simPc = "send"
  /\ options.transport = "udp"
  /\ link' = Append(link, simBytes)
  /\ simPc' = "store"
  /\ UNCHANGED <<options, fileRoom, simIndex, simBytes, simOffset, simStats, simFault, capture, sent>>

SendFails ==
  /\ simPc = "send"
  /\ Throw("send", capture)
  /\ UNCHANGED <<options, fileRoom, simIndex, simBytes, simOffset, simStats, link, sent>>

\* The rest of an iteration: writeFrame if there is a capture, ++produced.
StoreFrame ==
  /\ simPc = "store"
  /\ \/ /\ options.captures
        /\ Writable(simBytes)
        /\ \E stream \in AfterWriteFrame(capture, simBytes, fileRoom) :
             IF stream.bad
             THEN Throw("write", stream) /\ UNCHANGED <<simIndex, simStats>>
             ELSE /\ capture' = stream
                  /\ simIndex' = simIndex + 1
                  /\ simStats' = [simStats EXCEPT !.produced = @ + 1]
                  /\ simPc' = "frame"
                  /\ UNCHANGED simFault
     \/ /\ ~options.captures
        /\ simIndex' = simIndex + 1
        /\ simStats' = [simStats EXCEPT !.produced = @ + 1]
        /\ simPc' = "frame"
        /\ UNCHANGED <<simFault, capture>>
  /\ UNCHANGED <<options, fileRoom, simBytes, simOffset, link, sent>>

\* Mutant of FinishRun: the stream is not looked at after the flush.
FinishRunUnchecked ==
  /\ simPc = "frame"
  /\ simIndex = options.count
  /\ simPc' = "done"
  /\ capture' = AfterClose(AfterFlush(capture, fileRoom), fileRoom)
  /\ UNCHANGED <<options, fileRoom, simIndex, simBytes, simOffset, simStats, simFault, link, sent>>

\* After the loop: flush the capture, print the summary, return 0.
FinishRun ==
  /\ simPc = "frame"
  /\ simIndex = options.count
  /\ LET stream == AfterFlush(capture, fileRoom)
     IN  IF options.captures /\ stream.bad THEN Throw("flush", stream)
         ELSE simPc' = "done" /\ capture' = AfterClose(stream, fileRoom) /\ UNCHANGED simFault
  /\ UNCHANGED <<options, fileRoom, simIndex, simBytes, simOffset, simStats, link, sent>>

\* The process is killed: no destructor runs.
KillSimulator ==
  /\ simPc \notin Ended
  /\ simPc' = "killed"
  /\ capture' = AfterKill(capture)
  /\ UNCHANGED <<options, fileRoom, simIndex, simBytes, simOffset, simStats, simFault, link, sent>>

----------------------------------------------------------------------------
(* A run that parseArgs accepted is not refused on the way: the one thing  *)
(* that can still stop the factory is a sample that noise drives out of    *)
(* the range of a float (SimulatorOptions.cpp:261 against                  *)
(* SimulatorFrameFactory.cpp:74 and ApplicationPayload.cpp:85-103).        *)
OnlyOverflowRefuses == simFault # "refused"

=============================================================================
