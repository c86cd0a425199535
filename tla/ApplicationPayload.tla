-------------------------- MODULE ApplicationPayload --------------------------
(***************************************************************************)
(* The STGA mini-protocol inside a frame's payload                         *)
(* (src/ApplicationPayload.cpp, include/stgs/ApplicationPayload.hpp):      *)
(* text messages and signal blocks, encoded, and decoded with every check  *)
(* in the order of the source.  As in FrameLayout the magic keeps its      *)
(* shape and each other field is one symbol.                               *)
(***************************************************************************)
EXTENDS FrameLayout

CONSTANTS
  ApplicationPayloadMagic,
  NonFiniteFloat   \* the float symbols that are NaN or infinite

ASSUME ApplicationAssumption == ApplicationPayloadMagic \in Seq(Int)

ApplicationPayloadVersion == 1
TextMessage == 1
SignalBlock == 2

AppMagicSize                == Len(ApplicationPayloadMagic)
ApplicationCommonHeaderSize == AppMagicSize + 2
TextMessageFixedWireSize    == ApplicationCommonHeaderSize + 1
SignalBlockFixedWireSize    == ApplicationCommonHeaderSize + 5
MaxTextMessageBytes         == MaxPayloadSize - TextMessageFixedWireSize
MaxSignalSamplesPerPayload  == MaxPayloadSize - SignalBlockFixedWireSize

----------------------------------------------------------------------------
ValidSignalMetadata(signal) ==
  /\ signal.sampleRateHz # 0
  /\ signal.frequencyHz \notin NonFiniteFloat
  /\ signal.nominalAmplitude \notin NonFiniteFloat
  /\ signal.frequencyHz > 0
  /\ 2 * signal.frequencyHz < signal.sampleRateHz
  /\ signal.nominalAmplitude >= 0

FiniteSamples(samples) == \A k \in DOMAIN samples : samples[k] \notin NonFiniteFloat

\* The two encoders throw unless these hold.
EncodableText(message) == Len(message.text) <= MaxTextMessageBytes

EncodableSignal(signal) ==
  /\ ValidSignalMetadata(signal)
  /\ Len(signal.samples) <= MaxSignalSamplesPerPayload
  /\ FiniteSamples(signal.samples)

CommonHeader(kind) == ApplicationPayloadMagic \o <<ApplicationPayloadVersion, kind>>

EncodeTextMessagePayload(message) ==
  CommonHeader(TextMessage) \o <<message.sequence>> \o message.text

EncodeSignalBlockPayload(signal) ==
  CommonHeader(SignalBlock) \o
  <<signal.sampleRateHz, signal.frequencyHz, signal.nominalAmplitude,
    signal.startSampleIndex, Len(signal.samples)>> \o
  signal.samples

----------------------------------------------------------------------------
Opaque == [kind |-> "opaque"]
Refused(code) == [kind |-> "error", code |-> code]

DecodeTextMessage(payload) ==
  IF Len(payload) < TextMessageFixedWireSize THEN Refused("InvalidLength")
  ELSE [kind     |-> "text",
        sequence |-> payload[ApplicationCommonHeaderSize + 1],
        text     |-> SubSeq(payload, TextMessageFixedWireSize + 1, Len(payload))]

\* Mutant of DecodeSignalBlock: the announced sample count is not compared
\* with the payload's length.
DecodeSignalBlockAnyLength(payload) ==
  IF Len(payload) < SignalBlockFixedWireSize THEN Refused("InvalidLength")
  ELSE LET at(k) == payload[ApplicationCommonHeaderSize + k]
       IN  [kind |-> "signal", sampleRateHz |-> at(1), frequencyHz |-> at(2),
            nominalAmplitude |-> at(3), startSampleIndex |-> at(4),
            samples |-> SubSeq(payload, SignalBlockFixedWireSize + 1, Len(payload))]

DecodeSignalBlock(payload) ==
  IF Len(payload) < SignalBlockFixedWireSize THEN Refused("InvalidLength")
  ELSE LET at(k)   == payload[ApplicationCommonHeaderSize + k]
           samples == SubSeq(payload, SignalBlockFixedWireSize + 1, Len(payload))
           signal  == [kind |-> "signal", sampleRateHz |-> at(1), frequencyHz |-> at(2),
                       nominalAmplitude |-> at(3), startSampleIndex |-> at(4),
                       samples |-> samples]
       IN  IF Len(payload) # SignalBlockFixedWireSize + at(5) THEN Refused("InvalidLength")
           ELSE IF ~ValidSignalMetadata(signal) \/ ~FiniteSamples(samples)
                THEN Refused("InvalidSignalMetadata")
                ELSE signal

DecodeApplicationPayload(payload) ==
  IF Len(payload) < AppMagicSize \/ SubSeq(payload, 1, AppMagicSize) # ApplicationPayloadMagic
  THEN Opaque
  ELSE IF Len(payload) < ApplicationCommonHeaderSize THEN Refused("TruncatedHeader")
  ELSE IF payload[AppMagicSize + 1] # ApplicationPayloadVersion THEN Refused("UnsupportedVersion")
  ELSE CASE payload[AppMagicSize + 2] = TextMessage -> DecodeTextMessage(payload)
         [] payload[AppMagicSize + 2] = SignalBlock -> DecodeSignalBlock(payload)
         [] OTHER -> Refused("UnknownKind")

=============================================================================
