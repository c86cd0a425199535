----------------------------- MODULE MCDownlink -----------------------------
(* Downlink on a small instance: symbols 0..15, a magic that overlaps       *)
(* itself as "STGS" does, payloads of at most two symbols that begin like a *)
(* magic, three frames, and a checksum without collisions.                  *)
EXTENDS Downlink, Bitwise

MCMagic == <<5, 6, 5>>
MCAppMagic == <<5, 4>>
MCFileHeader == <<5, 7, 1>>
MCPayloads == {<<>>, <<5>>, <<5, 6>>}
MCSignalFormat == [sampleRateHz |-> 6, frequencyHz |-> 2, nominalAmplitude |-> 3]
MCFrames == 3
MCXor(a, b) == a ^^ b
MCCommandLines ==
  {[transport |-> t, captures |-> FALSE, mode |-> "random", count |-> MCFrames,
    payloadSize |-> n, signalSamples |-> 0, message |-> <<>>] :
      t \in {"tcp", "udp"}, n \in 0..2}

\* Every frame this instance can encode has a checksum of its own, and no
\* other sequence of symbols has one: a collision of the real CRC-32 has
\* probability 2^-32 and is left out.
MCBody(i, p) ==
  FrameBody([version |-> ProtocolVersion, satelliteId |-> SatelliteId, timestampMs |-> 0,
             temperatureC |-> 2, batteryPercent |-> BatteryOf(i), status |-> 0,
             payload |-> p])

PerfectCrc(bytes) ==
  LET i == MaxBatteryPercent - bytes[BatteryOffset]
      p == SubSeq(bytes, HeaderSize + 1, Len(bytes))
  IN  IF i \in 0..MCFrames - 1 /\ p \in MCPayloads /\ bytes = MCBody(i, p)
      THEN 100 + 10 * i + Len(p) ELSE 99

=============================================================================
