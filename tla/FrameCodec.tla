----------------------------- MODULE FrameCodec -----------------------------
(***************************************************************************)
(* encodeFrame and decodeFrame (src/FrameCodec.cpp:91-213) over the layout *)
(* of FrameLayout, with the field accessors of include/stgs/ByteUtils.hpp. *)
(*                                                                         *)
(* The checks come in the order of the source, which decides what error a  *)
(* frame with several faults is counted under.  The checksum is a          *)
(* parameter: Crc32 defines the one the code uses.                         *)
(***************************************************************************)
EXTENDS FrameLayout

CONSTANTS
  ProtocolVersion,    \* the only version this codec speaks
  MaxBatteryPercent,
  SafeMode,           \* the largest Status value
  NonFinite,          \* the temperature symbols that are NaN or infinite
  Crc(_)              \* checksum of a sequence of symbols

ASSUME CodecAssumption ==
  ProtocolVersion \in Int /\ MaxBatteryPercent \in Nat /\ SafeMode \in Nat

----------------------------------------------------------------------------
(* encodeFrame refuses what decodeFrame would refuse. *)
Encodable(frame) ==
  /\ Len(frame.payload) <= MaxPayloadSize
  /\ frame.version = ProtocolVersion
  /\ frame.temperatureC \notin NonFinite
  /\ frame.batteryPercent <= MaxBatteryPercent
  /\ frame.status <= SafeMode

FrameBody(frame) ==
  FrameMagic \o
  <<frame.version, frame.satelliteId, frame.timestampMs, frame.temperatureC,
    frame.batteryPercent, frame.status, Len(frame.payload)>> \o
  frame.payload

EncodeFrame(frame) == Append(FrameBody(frame), Crc(FrameBody(frame)))

----------------------------------------------------------------------------
Rejected(code) == [ok |-> FALSE, error |-> code]

\* Mutant of DecodeChecks: the magic and the CRC are taken for granted.
DecodeChecksNoCrc(bytes) ==
  LET length == bytes[PayloadLengthOffset]
  IN  <<
    [fails |-> bytes[VersionOffset] # ProtocolVersion,  code |-> "UnsupportedVersion"],
    [fails |-> length > MaxPayloadSize,                 code |-> "PayloadTooLarge"],
    [fails |-> Len(bytes) # HeaderSize + length + CrcSize, code |-> "LengthMismatch"],
    [fails |-> bytes[TemperatureOffset] \in NonFinite,  code |-> "InvalidTemperature"],
    [fails |-> bytes[BatteryOffset] > MaxBatteryPercent, code |-> "InvalidBattery"],
    [fails |-> bytes[StatusOffset] > SafeMode,          code |-> "InvalidStatus"] >>

\* The checks decodeFrame makes of bytes that are long enough, in its order.
DecodeChecks(bytes) ==
  LET length == bytes[PayloadLengthOffset]
      last   == Len(bytes)
  IN  <<
    [fails |-> SubSeq(bytes, 1, MagicSize) # FrameMagic, code |-> "BadMagic"],
    [fails |-> bytes[VersionOffset] # ProtocolVersion,  code |-> "UnsupportedVersion"],
    [fails |-> length > MaxPayloadSize,                 code |-> "PayloadTooLarge"],
    [fails |-> last # HeaderSize + length + CrcSize,    code |-> "LengthMismatch"],
    [fails |-> bytes[last] # Crc(SubSeq(bytes, 1, last - CrcSize)), code |-> "BadCrc"],
    [fails |-> bytes[TemperatureOffset] \in NonFinite,  code |-> "InvalidTemperature"],
    [fails |-> bytes[BatteryOffset] > MaxBatteryPercent, code |-> "InvalidBattery"],
    [fails |-> bytes[StatusOffset] > SafeMode,          code |-> "InvalidStatus"] >>

FieldsOf(bytes) ==
  [version        |-> bytes[VersionOffset],
   satelliteId    |-> bytes[SatelliteIdOffset],
   timestampMs    |-> bytes[TimestampOffset],
   temperatureC   |-> bytes[TemperatureOffset],
   batteryPercent |-> bytes[BatteryOffset],
   status         |-> bytes[StatusOffset],
   payload        |-> SubSeq(bytes, HeaderSize + 1, Len(bytes) - CrcSize)]

DecodeFrame(bytes) ==
  IF Len(bytes) < MinFrameSize THEN Rejected("TooShort")
  ELSE LET checks == DecodeChecks(bytes)
           failed == {k \in DOMAIN checks : checks[k].fails}
       IN  IF failed = {} THEN [ok |-> TRUE, frame |-> FieldsOf(bytes)]
           ELSE Rejected(checks[CHOOSE k \in failed : \A j \in failed : k <= j].code)

=============================================================================
