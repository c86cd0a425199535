----------------------------- MODULE FrameLayout -----------------------------
(***************************************************************************)
(* The wire layout of an STGS frame (include/stgs/TelemetryFrame.hpp).     *)
(*                                                                         *)
(* A frame is magic, version, satellite id, timestamp, temperature,        *)
(* battery, status, payload length, payload, CRC.  The magic keeps its     *)
(* shape (a sequence of symbols, which may overlap itself the way "STGS"   *)
(* does); every other field is one symbol, whatever its width in bytes:    *)
(* no property tells the bytes of one field apart.  Offsets are those of   *)
(* the source plus one, since sequences are numbered from 1.               *)
(***************************************************************************)
EXTENDS Integers, Sequences

CONSTANTS
  FrameMagic,      \* the resynchronisation prefix
  MaxPayloadSize   \* largest payload length an encoder may announce

ASSUME MagicAssumption == FrameMagic \in Seq(Int) /\ Len(FrameMagic) > 0
ASSUME MaxPayloadAssumption == MaxPayloadSize \in Nat

MagicSize           == Len(FrameMagic)
VersionOffset       == MagicSize + 1
SatelliteIdOffset   == MagicSize + 2
TimestampOffset     == MagicSize + 3
TemperatureOffset   == MagicSize + 4
BatteryOffset       == MagicSize + 5
StatusOffset        == MagicSize + 6
PayloadLengthOffset == MagicSize + 7

HeaderSize   == PayloadLengthOffset
CrcSize      == 1
MinFrameSize == HeaderSize + CrcSize
MaxFrameSize == HeaderSize + MaxPayloadSize + CrcSize

=============================================================================
