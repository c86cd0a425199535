--------------------------- MODULE SimulatorProofs ---------------------------
(***************************************************************************)
(* What the proofs about the links of the simulator share: induction in a  *)
(* form the back-end provers can apply, the frames the factory makes, what *)
(* encodeFrame and decodeFrame do to them, and what the radio may damage.  *)
(***************************************************************************)
EXTENDS Simulator, WellFoundedInduction, SequenceTheorems, TLAPS

-----------------------------------------------------------------------------
(* Induction on the natural numbers, stated about a set of numbers instead *)
(* of a predicate.                                                         *)

\* A set of natural numbers has a least element.
LEMMA LeastExists ==
  ASSUME NEW T \in SUBSET Nat, T # {}
  PROVE  \E x \in T : \A y \in T : x <= y
  <1> DEFINE R == OpToRel(<, Nat)
  <1>1. IsWellFoundedOn(R, Nat)
    BY NatLessThanWellFounded
  <1> HIDE DEF R
  <1>2. PICK x \in T : \A y \in T : ~(<<y, x>> \in R)
    BY <1>1, WFMin
  <1>3. \A y \in T : ~(y < x)
    BY <1>2 DEF R, OpToRel
  <1> QED BY <1>2, <1>3

\* Induction on a set of numbers.
LEMMA SetInduction ==
  ASSUME NEW S, 0 \in S, \A n \in Nat : n \in S => n + 1 \in S
  PROVE  Nat \subseteq S
  <1> SUFFICES ASSUME Nat \ S # {} PROVE FALSE
    OBVIOUS
  <1>1. PICK x \in Nat \ S : \A y \in Nat \ S : x <= y
    BY LeastExists
  <1>2. x # 0 /\ x - 1 \in Nat
    BY <1>1
  <1>3. x - 1 \in S
    BY <1>1, <1>2
  <1> QED BY <1>1, <1>2, <1>3

-----------------------------------------------------------------------------
(* Frames *)

Frames ==
  [version : Int, satelliteId : Int, timestampMs : Int, temperatureC : Int,
   batteryPercent : Int, status : Int, payload : Seq(Int)]

\* A symbol of an encoded frame, and of one the radio may have damaged: nothing
\* is assumed of Crc and SymbolXor here.
Symbol == Int \cup {Crc(s) : s \in Seq(Int)}
Wire   == Symbol \cup {SymbolXor(b, CorruptionXorMask) : b \in Symbol}

-----------------------------------------------------------------------------
(* Encoded frames *)

LEMMA LayoutFacts ==
  /\ MagicSize \in Nat \ {0} /\ MagicSize = Len(FrameMagic)
  /\ HeaderSize = MagicSize + 7 /\ CrcSize = 1
  /\ MinFrameSize = MagicSize + 8
  /\ MaxPayloadSize \in Nat /\ MaxFrameSize = MagicSize + 8 + MaxPayloadSize
  <1>1. MagicSize \in Nat \ {0}
    BY MagicAssumption DEF MagicSize
  <1> QED BY <1>1, MaxPayloadAssumption DEF HeaderSize, CrcSize, MinFrameSize, MaxFrameSize,
             PayloadLengthOffset, MagicSize

LEMMA BodyFacts ==
  ASSUME NEW frame \in Frames
  PROVE  /\ FrameBody(frame) \in Seq(Int)
         /\ Len(FrameBody(frame)) = HeaderSize + Len(frame.payload)
         /\ \A i \in 1..MagicSize : FrameBody(frame)[i] = FrameMagic[i]
         /\ FrameBody(frame)[VersionOffset] = frame.version
         /\ FrameBody(frame)[SatelliteIdOffset] = frame.satelliteId
         /\ FrameBody(frame)[TimestampOffset] = frame.timestampMs
         /\ FrameBody(frame)[TemperatureOffset] = frame.temperatureC
         /\ FrameBody(frame)[BatteryOffset] = frame.batteryPercent
         /\ FrameBody(frame)[StatusOffset] = frame.status
         /\ FrameBody(frame)[PayloadLengthOffset] = Len(frame.payload)
         /\ \A i \in 1..Len(frame.payload) : FrameBody(frame)[HeaderSize + i] = frame.payload[i]
  <1> DEFINE m == FrameMagic
             h == <<frame.version, frame.satelliteId, frame.timestampMs, frame.temperatureC,
                    frame.batteryPercent, frame.status, Len(frame.payload)>>
             p == frame.payload
             g == m \o h
             n == Len(m)
             l == Len(p)
  <1>1. /\ frame.version \in Int /\ frame.satelliteId \in Int /\ frame.timestampMs \in Int
        /\ frame.temperatureC \in Int /\ frame.batteryPercent \in Int /\ frame.status \in Int
        /\ p \in Seq(Int)
    BY DEF Frames
  <1>2. m \in Seq(Int) /\ n \in Nat /\ n = MagicSize /\ l \in Nat
    BY <1>1, MagicAssumption DEF MagicSize
  <1>3. h \in Seq(Int) /\ Len(h) = 7
    BY <1>1
  <1>4. /\ h[1] = frame.version /\ h[2] = frame.satelliteId /\ h[3] = frame.timestampMs
        /\ h[4] = frame.temperatureC /\ h[5] = frame.batteryPercent /\ h[6] = frame.status
        /\ h[7] = l
    OBVIOUS
  <1>5. FrameBody(frame) = g \o p
    BY <1>1, <1>2, <1>3 DEF FrameBody
  <1> HIDE DEF h, p
  <1> HIDE DEF m
  <1>6. /\ g \in Seq(Int) /\ Len(g) = n + 7
        /\ \A i \in 1..n : g[i] = m[i]
        /\ \A i \in 1..7 : g[n + i] = h[i]
    <2>0. m \in Seq(Int) /\ h \in Seq(Int)
      BY <1>2, <1>3
    <2>1. g \in Seq(Int) /\ Len(g) = Len(m) + Len(h)
      BY <2>0
    <2>2. \A i \in 1..Len(m) : g[i] = m[i]
      BY <2>0
    <2>3. \A i \in 1..Len(h) : g[Len(m) + i] = h[i]
      BY <2>0
    <2> HIDE DEF g
    <2> QED BY <1>3, <2>1, <2>2, <2>3
  <1> HIDE DEF g
  <1>7. /\ g \o p \in Seq(Int) /\ Len(g \o p) = n + 7 + l
        /\ \A i \in 1..(n + 7) : (g \o p)[i] = g[i]
        /\ \A i \in 1..l : (g \o p)[(n + 7) + i] = p[i]
    <2>0. g \in Seq(Int) /\ p \in Seq(Int)
      BY <1>1, <1>6
    <2>1. g \o p \in Seq(Int) /\ Len(g \o p) = Len(g) + Len(p)
      BY <2>0
    <2>2. \A i \in 1..Len(g) : (g \o p)[i] = g[i]
      BY <2>0
    <2>3. \A i \in 1..Len(p) : (g \o p)[Len(g) + i] = p[i]
      BY <2>0
    <2> QED BY <1>6, <2>1, <2>2, <2>3
  <1> DEFINE b == FrameBody(frame)
  <1>8. b \in Seq(Int) /\ Len(b) = n + 7 + l
    BY <1>5, <1>7
  <1>9. \A i \in 1..n : b[i] = m[i]
    BY <1>2, <1>5, <1>6, <1>7
  <1>10. \A i \in 1..7 : b[n + i] = h[i]
    <2> TAKE i \in 1..7
    <2>1. n + i \in 1..(n + 7)
      BY <1>2
    <2> QED BY <1>5, <1>6, <1>7, <2>1
  <1>11. \A i \in 1..l : b[(n + 7) + i] = p[i]
    BY <1>5, <1>7
  <1>12. HeaderSize = n + 7 /\ VersionOffset = n + 1 /\ SatelliteIdOffset = n + 2
         /\ TimestampOffset = n + 3 /\ TemperatureOffset = n + 4 /\ BatteryOffset = n + 5
         /\ StatusOffset = n + 6 /\ PayloadLengthOffset = n + 7
    BY <1>2 DEF HeaderSize, VersionOffset, SatelliteIdOffset, TimestampOffset,
       TemperatureOffset, BatteryOffset, StatusOffset, PayloadLengthOffset
  <1> HIDE DEF b, n, l
  <1>13. /\ b[n + 1] = h[1] /\ b[n + 2] = h[2] /\ b[n + 3] = h[3] /\ b[n + 4] = h[4]
         /\ b[n + 5] = h[5] /\ b[n + 6] = h[6] /\ b[n + 7] = h[7]
    BY <1>10
  <1> QED BY <1>2, <1>4, <1>8, <1>9, <1>11, <1>12, <1>13 DEF b, m, l, p

LEMMA EncodeFacts ==
  ASSUME NEW frame \in Frames
  PROVE  /\ EncodeFrame(frame) \in Seq(Symbol)
         /\ Len(EncodeFrame(frame)) = Len(FrameBody(frame)) + 1
         /\ \A i \in 1..Len(FrameBody(frame)) : EncodeFrame(frame)[i] = FrameBody(frame)[i]
         /\ EncodeFrame(frame)[Len(FrameBody(frame)) + 1] = Crc(FrameBody(frame))
         /\ SubSeq(EncodeFrame(frame), 1, Len(FrameBody(frame))) = FrameBody(frame)
         /\ Encodable(frame) => LegalEntryLength(Len(EncodeFrame(frame)))
  <1> DEFINE b == FrameBody(frame)
             c == Crc(FrameBody(frame))
             e == EncodeFrame(frame)
  <1>1. b \in Seq(Int)
    BY BodyFacts
  <1>2. c \in Symbol
    BY <1>1 DEF Symbol
  <1>3. b \in Seq(Symbol)
    BY <1>1 DEF Symbol
  <1>4. e = Append(b, c)
    BY DEF EncodeFrame
  <1> HIDE DEF b, c, e
  <1>5. e \in Seq(Symbol) /\ Len(e) = Len(b) + 1
    BY <1>2, <1>3, <1>4
  <1>6. (\A i \in 1..Len(b) : e[i] = b[i]) /\ e[Len(b) + 1] = c
    BY <1>2, <1>3, <1>4
  <1>7. SubSeq(e, 1, Len(b)) = b
    BY <1>2, <1>3, <1>4
  <1>8. ASSUME Encodable(frame) PROVE LegalEntryLength(Len(e))
    <2>1. Len(b) = HeaderSize + Len(frame.payload)
      BY BodyFacts DEF b
    <2> DEFINE l == Len(frame.payload)
    <2>2. l \in Nat /\ l <= MaxPayloadSize
      BY <1>8 DEF Encodable, Frames
    <2>3. Len(e) = HeaderSize + l + 1
      BY <1>5, <2>1
    <2> HIDE DEF l
    <2> QED BY <2>2, <2>3, LayoutFacts DEF LegalEntryLength
  <1> QED BY <1>5, <1>6, <1>7, <1>8 DEF b, c, e

\* decodeFrame accepts what encodeFrame made, and gives it back.
LEMMA RoundTrip ==
  ASSUME NEW frame \in Frames, Encodable(frame)
  PROVE  DecodeFrame(EncodeFrame(frame)) = [ok |-> TRUE, frame |-> frame]
  <1> DEFINE b == FrameBody(frame)
             e == EncodeFrame(frame)
             l == Len(frame.payload)
             n == MagicSize
             last == Len(e)
  <1>1. /\ n \in Nat \ {0} /\ n = Len(FrameMagic) /\ l \in Nat /\ HeaderSize = n + 7 /\ CrcSize = 1
        /\ VersionOffset = n + 1 /\ SatelliteIdOffset = n + 2 /\ TimestampOffset = n + 3
        /\ TemperatureOffset = n + 4 /\ BatteryOffset = n + 5 /\ StatusOffset = n + 6
        /\ PayloadLengthOffset = n + 7 /\ MinFrameSize = n + 8
    BY LayoutFacts DEF Frames, VersionOffset, SatelliteIdOffset, TimestampOffset,
       TemperatureOffset, BatteryOffset, StatusOffset, PayloadLengthOffset, HeaderSize
  <1>2. /\ b \in Seq(Int) /\ Len(b) = HeaderSize + l
        /\ \A i \in 1..n : b[i] = FrameMagic[i]
        /\ \A i \in 1..l : b[HeaderSize + i] = frame.payload[i]
    BY BodyFacts
  <1>3. /\ b[VersionOffset] = frame.version /\ b[SatelliteIdOffset] = frame.satelliteId
        /\ b[TimestampOffset] = frame.timestampMs /\ b[TemperatureOffset] = frame.temperatureC
        /\ b[BatteryOffset] = frame.batteryPercent /\ b[StatusOffset] = frame.status
        /\ b[PayloadLengthOffset] = l
    BY BodyFacts
  <1>4. /\ e \in Seq(Symbol) /\ last = Len(b) + 1
        /\ e[last] = Crc(b) /\ SubSeq(e, 1, last - CrcSize) = b
        /\ \A i \in 1..Len(b) : e[i] = b[i]
    <2>1. last = Len(b) + 1 /\ last - CrcSize = Len(b)
      <3> DEFINE k == Len(b)
      <3>1. last = k + 1 /\ k \in Nat
        BY EncodeFacts, <1>2
      <3> HIDE DEF k, last
      <3> QED BY <3>1, <1>1 DEF k
    <2> QED BY <2>1, EncodeFacts
  <1> HIDE DEF b, e, l, n, last
  <1>5. last = n + l + 8
    BY <1>1, <1>2, <1>4
  <1>6. /\ e[VersionOffset] = frame.version /\ e[SatelliteIdOffset] = frame.satelliteId
        /\ e[TimestampOffset] = frame.timestampMs /\ e[TemperatureOffset] = frame.temperatureC
        /\ e[BatteryOffset] = frame.batteryPercent /\ e[StatusOffset] = frame.status
        /\ e[PayloadLengthOffset] = l
    <2> DEFINE k == Len(b)
    <2>0. k = n + 7 + l
      BY <1>1, <1>2
    <2> HIDE DEF k
    <2>1. \A i \in 1..7 : n + i \in 1..k
      <3>1. n \in Nat \ {0} /\ l \in Nat
        BY <1>1
      <3> QED BY <2>0, <3>1
    <2>2. \A i \in 1..7 : e[n + i] = b[n + i]
      BY <1>4, <2>1 DEF k
    <2>3. /\ e[n + 1] = b[n + 1] /\ e[n + 2] = b[n + 2] /\ e[n + 3] = b[n + 3] /\ e[n + 4] = b[n + 4]
          /\ e[n + 5] = b[n + 5] /\ e[n + 6] = b[n + 6] /\ e[n + 7] = b[n + 7]
      BY <2>2
    <2> QED BY <1>1, <1>3, <2>3
  <1>7. SubSeq(e, 1, n) = FrameMagic
    <2>1. FrameMagic \in Seq(Int) /\ FrameMagic \in Seq(Symbol)
      BY MagicAssumption DEF Symbol
    <2>2. n \in Nat /\ 1 <= n + 1 /\ n <= last
      <3>1. n \in Nat \ {0} /\ l \in Nat
        BY <1>1
      <3> QED BY <1>5, <3>1
    <2>3. SubSeq(e, 1, n) \in Seq(Symbol) /\ Len(SubSeq(e, 1, n)) = n
          /\ \A i \in 1..n : SubSeq(e, 1, n)[i] = e[i]
      <3>1. e \in Seq(Symbol)
        BY <1>4
      <3> QED BY <2>2, <3>1 DEF last
    <2>4. \A i \in 1..n : e[i] = FrameMagic[i]
      <3>1. \A i \in 1..n : i \in 1..Len(b)
        BY <1>1, <1>2
      <3> QED BY <1>2, <1>4, <3>1
    <2> DEFINE t == SubSeq(e, 1, n)
    <2>5. t \in Seq(Symbol) /\ Len(t) = Len(FrameMagic) /\ \A i \in 1..Len(t) : t[i] = FrameMagic[i]
      BY <1>1, <2>3, <2>4
    <2> HIDE DEF t
    <2>6. t = FrameMagic
      BY <2>1, <2>5
    <2> QED BY <2>6 DEF t
  <1>8. SubSeq(e, HeaderSize + 1, last - CrcSize) = frame.payload
    <2> DEFINE p == frame.payload
               u == n + 8
               v == n + 7 + l
               t == SubSeq(e, u, v)
    <2>1. p \in Seq(Int)
      BY DEF Frames
    <2>2. HeaderSize + 1 = u /\ last - CrcSize = v
      BY <1>1, <1>5
    <2>3. u \in 1..(last + 1) /\ v \in (u - 1)..last /\ v - u + 1 = l
      <3>1. n \in Nat \ {0} /\ l \in Nat
        BY <1>1
      <3> QED BY <1>5, <3>1
    <2>4. t \in Seq(Symbol) /\ Len(t) = v - u + 1 /\ \A i \in 1..(v - u + 1) : t[i] = e[u + i - 1]
      <3> HIDE DEF u, v
      <3> QED BY <1>4, <2>3, SubSeqProperties DEF last
    <2>5. ASSUME NEW i \in 1..l PROVE e[u + i - 1] = p[i]
      <3>1. u + i - 1 = (n + 7) + i /\ (n + 7) + i \in 1..Len(b)
        BY <1>1, <1>2
      <3> QED BY <1>1, <1>2, <1>4, <3>1
    <2> HIDE DEF u, v, t
    <2>6. Len(t) = l /\ \A i \in 1..l : t[i] = p[i]
      BY <2>3, <2>4, <2>5
    <2>7. t = p
      <3>1. p \in Seq(Symbol) /\ Len(p) = l
        BY <2>1 DEF Symbol, l
      <3> HIDE DEF p
      <3> QED BY <2>4, <2>6, <3>1
    <2> QED BY <2>2, <2>7 DEF t
  <1> DEFINE checks == DecodeChecks(e)
  <1>9. DOMAIN checks = 1..8
    BY DEF DecodeChecks
  <1>10. ~checks[1].fails /\ ~checks[2].fails /\ ~checks[3].fails /\ ~checks[4].fails
    <2>1. ~checks[1].fails
      BY <1>7 DEF DecodeChecks, n
    <2>2. ~checks[2].fails
      BY <1>6 DEF DecodeChecks, Encodable
    <2>3. ~checks[3].fails
      <3>1. l <= MaxPayloadSize
        BY DEF Encodable, l
      <3>2. checks[3].fails = (l > MaxPayloadSize)
        BY <1>6 DEF DecodeChecks
      <3>3. ~(l > MaxPayloadSize)
        BY <1>1, <3>1, LayoutFacts
      <3> QED BY <3>2, <3>3
    <2>4. ~checks[4].fails
      <3>1. last = HeaderSize + l + CrcSize
        BY <1>1, <1>5
      <3>2. checks[4].fails = (last # HeaderSize + l + CrcSize)
        BY <1>6 DEF DecodeChecks, last
      <3> QED BY <3>1, <3>2
    <2> QED BY <2>1, <2>2, <2>3, <2>4
  <1>11. ~checks[5].fails /\ ~checks[6].fails /\ ~checks[7].fails /\ ~checks[8].fails
    <2>1. ~checks[5].fails
      <3>1. checks[5].fails = (e[last] # Crc(SubSeq(e, 1, last - CrcSize)))
        BY DEF DecodeChecks, last
      <3> QED BY <1>4, <3>1
    <2>2. ~checks[6].fails
      BY <1>6 DEF DecodeChecks, Encodable
    <2>3. ~checks[7].fails
      <3>1. frame.batteryPercent <= MaxBatteryPercent /\ frame.batteryPercent \in Int
        BY DEF Encodable, Frames
      <3>2. checks[7].fails = (frame.batteryPercent > MaxBatteryPercent)
        BY <1>6 DEF DecodeChecks
      <3>3. ~(frame.batteryPercent > MaxBatteryPercent)
        BY <3>1, CodecAssumption
      <3> QED BY <3>2, <3>3
    <2>4. ~checks[8].fails
      <3>1. frame.status <= SafeMode /\ frame.status \in Int
        BY DEF Encodable, Frames
      <3>2. checks[8].fails = (frame.status > SafeMode)
        BY <1>6 DEF DecodeChecks
      <3>3. ~(frame.status > SafeMode)
        BY <3>1, CodecAssumption
      <3> QED BY <3>2, <3>3
    <2> QED BY <2>1, <2>2, <2>3, <2>4
  <1>12. {k \in DOMAIN checks : checks[k].fails} = {}
    <2> HIDE DEF checks
    <2>1. \A k \in 1..8 : k = 1 \/ k = 2 \/ k = 3 \/ k = 4 \/ k = 5 \/ k = 6 \/ k = 7 \/ k = 8
      OBVIOUS
    <2>2. \A k \in 1..8 : ~checks[k].fails
      BY <2>1, <1>10, <1>11
    <2> QED BY <1>9, <2>2
  <1>13. FieldsOf(e) = frame
    BY <1>6, <1>8 DEF FieldsOf, Frames, last
  <1>14. ~(Len(e) < MinFrameSize)
    BY <1>1, <1>5 DEF last
  <1> QED BY <1>12, <1>13, <1>14 DEF DecodeFrame, e

\* A checksum that sees every change of one symbol, in the frame or in itself, as
\* CRC-32 does: the change is a burst of eight bits.
CrcDetects ==
  \A frame \in Frames : Encodable(frame) =>
    /\ \A k \in 1..Len(FrameBody(frame)) :
         Crc(Corrupt(FrameBody(frame), k)) # Crc(FrameBody(frame))
    /\ SymbolXor(Crc(FrameBody(frame)), CorruptionXorMask) # Crc(FrameBody(frame))

LEMMA CorruptFacts ==
  ASSUME NEW bytes \in Seq(Symbol), NEW k \in DOMAIN bytes
  PROVE  /\ Corrupt(bytes, k) \in Seq(Wire)
         /\ Len(Corrupt(bytes, k)) = Len(bytes)
         /\ Corrupt(bytes, k)[k] = SymbolXor(bytes[k], CorruptionXorMask)
         /\ \A i \in 1..Len(bytes) \ {k} : Corrupt(bytes, k)[i] = bytes[i]
  <1> DEFINE d == Corrupt(bytes, k)
  <1>1. k \in 1..Len(bytes) /\ bytes[k] \in Symbol /\ bytes \in Seq(Wire)
    BY DEF Wire
  <1>2. SymbolXor(bytes[k], CorruptionXorMask) \in Wire
    BY <1>1 DEF Wire
  <1>3. d = [bytes EXCEPT ![k] = SymbolXor(bytes[k], CorruptionXorMask)]
    BY DEF Corrupt
  <1> HIDE DEF d
  <1>4. d \in Seq(Wire) /\ Len(d) = Len(bytes)
    BY <1>1, <1>2, <1>3
  <1>5. d[k] = SymbolXor(bytes[k], CorruptionXorMask) /\ \A i \in 1..Len(bytes) \ {k} : d[i] = bytes[i]
    BY <1>1, <1>3
  <1> QED BY <1>4, <1>5 DEF d

\* decodeFrame refuses a frame with one damaged symbol, wherever it is.
LEMMA DamagedIsRefused ==
  ASSUME CrcDetects, NEW frame \in Frames, Encodable(frame), NEW k \in DOMAIN EncodeFrame(frame)
  PROVE  ~DecodeFrame(Corrupt(EncodeFrame(frame), k)).ok
  <1> DEFINE b == FrameBody(frame)
             e == EncodeFrame(frame)
             d == Corrupt(e, k)
             n == Len(b)
  <1>1. /\ b \in Seq(Int) /\ b \in Seq(Symbol) /\ n \in Nat
        /\ e \in Seq(Symbol) /\ Len(e) = n + 1 /\ e[n + 1] = Crc(b)
        /\ \A i \in 1..n : e[i] = b[i]
    <2>1. b \in Seq(Int)
      BY BodyFacts
    <2>2. b \in Seq(Symbol) /\ n \in Nat
      BY <2>1 DEF Symbol
    <2> QED BY <2>1, <2>2, EncodeFacts
  <1>2. k \in 1..(n + 1)
    BY <1>1
  <1> HIDE DEF b, e
  <1>3. /\ d \in Seq(Wire) /\ Len(d) = n + 1
        /\ d[k] = SymbolXor(e[k], CorruptionXorMask)
        /\ \A i \in 1..(n + 1) \ {k} : d[i] = e[i]
    BY <1>1, CorruptFacts DEF e
  <1>4. /\ \A j \in 1..n : Crc(Corrupt(b, j)) # Crc(b)
        /\ SymbolXor(Crc(b), CorruptionXorMask) # Crc(b)
    BY DEF CrcDetects, b
  <1> HIDE DEF d, n
  <1>5. SubSeq(d, 1, n) \in Seq(Wire) /\ Len(SubSeq(d, 1, n)) = n
        /\ \A i \in 1..n : SubSeq(d, 1, n)[i] = d[i]
    BY <1>1, <1>3
  <1>6. d[n + 1] # Crc(SubSeq(d, 1, n))
    <2>1. CASE k = n + 1
      <3>1. \A i \in 1..n : i \in 1..(n + 1) \ {k}
        BY <1>1, <2>1
      <3>2. \A i \in 1..n : SubSeq(d, 1, n)[i] = b[i]
        BY <1>1, <1>3, <1>5, <3>1
      <3>3. SubSeq(d, 1, n) = b
        <4> DEFINE t == SubSeq(d, 1, n)
        <4>1. t \in Seq(Wire) /\ b \in Seq(Wire) /\ Len(t) = n /\ Len(b) = n /\ \A i \in 1..n : t[i] = b[i]
          BY <1>1, <1>5, <3>2 DEF n, Wire
        <4> HIDE DEF t
        <4>2. t = b
          BY <4>1
        <4> QED BY <4>2 DEF t
      <3> QED BY <1>1, <1>3, <1>4, <2>1, <3>3
    <2>2. CASE k # n + 1
      <3>1. k \in 1..n /\ n + 1 \in 1..(n + 1) \ {k}
        BY <1>1, <1>2, <2>2
      <3>2. d[n + 1] = Crc(b)
        BY <1>1, <1>3, <3>1
      <3> DEFINE t == SubSeq(d, 1, n)
                 c == Corrupt(b, k)
      <3>3. c \in Seq(Wire) /\ Len(c) = n /\ c[k] = SymbolXor(b[k], CorruptionXorMask)
            /\ \A i \in 1..n \ {k} : c[i] = b[i]
        BY <1>1, <3>1, CorruptFacts DEF n
      <3>4. t \in Seq(Wire) /\ Len(t) = n
        BY <1>5
      <3>5. ASSUME NEW i \in 1..n PROVE t[i] = c[i]
        <4>1. t[i] = d[i] /\ e[i] = b[i]
          BY <1>1, <1>5
        <4>2. CASE i = k
          BY <1>3, <3>3, <4>1, <4>2
        <4>3. CASE i # k
          <5>1. i \in 1..(n + 1) \ {k} /\ i \in 1..n \ {k}
            BY <1>1, <4>3
          <5> QED BY <1>3, <3>3, <4>1, <5>1
        <4> QED BY <4>2, <4>3
      <3> HIDE DEF t, c
      <3>6. t = c
        BY <3>3, <3>4, <3>5
      <3> QED BY <1>4, <3>1, <3>2, <3>6 DEF t, c
    <2> QED BY <2>1, <2>2
  <1> DEFINE checks == DecodeChecks(d)
             failed == {j \in DOMAIN checks : checks[j].fails}
  <1>7. 5 \in DOMAIN checks /\ checks[5].fails
    <2>1. checks[5].fails = (d[Len(d)] # Crc(SubSeq(d, 1, Len(d) - CrcSize))) /\ 5 \in DOMAIN checks
      BY DEF DecodeChecks
    <2>2. Len(d) - CrcSize = n
      BY <1>1, <1>3 DEF CrcSize
    <2> QED BY <1>3, <1>6, <2>1, <2>2
  <1>8. failed # {}
    BY <1>7
  <1> HIDE DEF checks, failed
  <1>9. \A code : ~Rejected(code).ok
    BY DEF Rejected
  <1>10. ~DecodeFrame(d).ok
    <2>1. CASE Len(d) < MinFrameSize
      BY <1>9, <2>1 DEF DecodeFrame
    <2>2. CASE ~(Len(d) < MinFrameSize)
      <3>1. DecodeFrame(d) =
              Rejected(checks[CHOOSE j \in failed : \A i \in failed : j <= i].code)
        BY <1>8, <2>2 DEF DecodeFrame, checks, failed
      <3> QED BY <1>9, <3>1
    <2> QED BY <2>1, <2>2
  <1> QED BY <1>10 DEF d, e

-----------------------------------------------------------------------------
(* The factory *)

\* What the simulator may have handed to the radio.
SentItems ==
  {x \in [frame : Frames, bytes : Seq(Wire), damage : Nat] :
     /\ Encodable(x.frame)
     /\ LegalEntryLength(Len(x.bytes))
     /\ \/ x.damage = 0 /\ x.bytes = EncodeFrame(x.frame)
        \/ /\ x.damage # 0
           /\ x.damage \in DOMAIN EncodeFrame(x.frame)
           /\ x.bytes = Corrupt(EncodeFrame(x.frame), x.damage)}

LEMMA SentFacts ==
  ASSUME NEW x \in SentItems
  PROVE  /\ x.frame \in Frames /\ x.bytes \in Seq(Wire) /\ x.damage \in Nat
         /\ Encodable(x.frame) /\ LegalEntryLength(Len(x.bytes))
         /\ x.damage = 0 => x.bytes = EncodeFrame(x.frame)
         /\ x.damage # 0 => /\ x.damage \in DOMAIN EncodeFrame(x.frame)
                            /\ x.bytes = Corrupt(EncodeFrame(x.frame), x.damage)
  BY DEF SentItems

LEMMA OptionFacts ==
  ASSUME options \in ParsedOptions
  PROVE  /\ options.mode \in {"random", "text", "signal"}
         /\ options.count \in Nat /\ options.signalSamples \in Nat
         /\ options.message \in Seq(Int)
         /\ options.mode = "signal" =>
              /\ EncodableSignal(SignalOf(options, 0, [k \in 1..options.signalSamples |-> 0]))
              /\ (options.count - 1) * options.signalSamples <= U32Max
  BY CommandLineAssumption DEF ParsedOptions

\* Payloads are made of what the factory is given.
LEMMA PayloadsOver ==
  ASSUME options \in ParsedOptions, NEW i \in Nat, NEW p \in PayloadsOf(i),
         NEW S, Nat \subseteq S, ApplicationPayloadMagic \in Seq(S), RandomPayloads \subseteq Seq(S),
         options.message \in Seq(S), SampleValues \subseteq S,
         SignalFormat.sampleRateHz \in S, SignalFormat.frequencyHz \in S,
         SignalFormat.nominalAmplitude \in S
  PROVE  p \in Seq(S)
  <1>0. /\ options.mode \in {"random", "text", "signal"}
        /\ options.signalSamples \in Nat /\ options.message \in Seq(S)
    BY OptionFacts
  <1>h. \A kind \in S : CommonHeader(kind) \in Seq(S)
    <2> TAKE kind \in S
    <2> DEFINE h == <<ApplicationPayloadVersion, kind>>
               m == ApplicationPayloadMagic
    <2>1. h \in Seq(S) /\ m \in Seq(S)
      BY DEF ApplicationPayloadVersion
    <2> HIDE DEF h, m
    <2>2. m \o h \in Seq(S)
      BY <2>1
    <2> QED BY <2>2 DEF CommonHeader, h, m
  <1>1. CASE options.mode = "random"
    <2>1. p \in RandomPayloads
      BY <1>1 DEF PayloadsOf
    <2> QED BY <2>1
  <1>2. CASE options.mode = "text"
    <2>1. p = EncodeTextMessagePayload(TextOf(i))
      BY <1>2 DEF PayloadsOf
    <2> DEFINE h == CommonHeader(TextMessage)
               n == i % (U32Max + 1)
               t == options.message
    <2>2. n \in S /\ t \in Seq(S) /\ h \in Seq(S)
      BY <1>0, <1>h, SimulatorAssumption DEF TextMessage
    <2>3. TextOf(i).sequence = n /\ TextOf(i).text = t
      BY DEF TextOf
    <2> HIDE DEF n, t, h
    <2>4. p = (h \o <<n>>) \o t
      BY <2>1, <2>3, Zenon DEF EncodeTextMessagePayload, h
    <2> DEFINE g == h \o <<n>>
    <2>5. g \in Seq(S)
      <3>1. <<n>> \in Seq(S)
        BY <2>2
      <3> QED BY <2>2, <3>1
    <2> HIDE DEF g
    <2>6. g \o t \in Seq(S)
      BY <2>2, <2>5
    <2> QED BY <2>4, <2>6 DEF g
  <1>3. CASE options.mode = "signal"
    <2>1. PICK s \in SignalsOf(i) : p = EncodeSignalBlockPayload(s)
      BY <1>3 DEF PayloadsOf
    <2>2. PICK x \in [1..options.signalSamples -> SampleValues] :
            s = SignalOf(options, i * options.signalSamples, x)
      BY <2>1 DEF SignalsOf
    <2>3. x \in Seq(S)
      <3>1. \A k \in 1..options.signalSamples : x[k] \in S
        OBVIOUS
      <3> DEFINE n == options.signalSamples
      <3>2. n \in Nat /\ x \in [1..n -> S]
        BY <1>0, <3>1
      <3> HIDE DEF n
      <3> QED BY <3>2
    <2> DEFINE h == CommonHeader(SignalBlock)
               f == <<s.sampleRateHz, s.frequencyHz, s.nominalAmplitude, s.startSampleIndex, Len(s.samples)>>
    <2>4. s.sampleRateHz \in S /\ s.frequencyHz \in S /\ s.nominalAmplitude \in S /\ s.samples = x
      BY <2>2 DEF SignalOf
    <2>5. s.startSampleIndex \in S
      <3>1. s.startSampleIndex = i * options.signalSamples
        BY <2>2 DEF SignalOf
      <3> DEFINE n == options.signalSamples
      <3>2. n \in Nat
        BY <1>0
      <3> HIDE DEF n
      <3>3. i * n \in S
        BY <3>2
      <3> QED BY <3>1, <3>3 DEF n
    <2>6. Len(s.samples) \in S
      BY <2>3, <2>4
    <2>7. h \in Seq(S) /\ f \in Seq(S)
      BY <1>h, <2>4, <2>5, <2>6 DEF SignalBlock
    <2>8. p = (h \o f) \o x
      BY <2>1, <2>4, Zenon DEF EncodeSignalBlockPayload
    <2> HIDE DEF h, f
    <2> DEFINE g == h \o f
    <2>9. g \in Seq(S)
      BY <2>7
    <2> HIDE DEF g
    <2>10. g \o x \in Seq(S)
      BY <2>3, <2>9
    <2> QED BY <2>8, <2>10 DEF g
  <1> QED BY <1>0, <1>1, <1>2, <1>3

LEMMA PayloadsTyped ==
  ASSUME options \in ParsedOptions, NEW i \in Nat, NEW p \in PayloadsOf(i)
  PROVE  p \in Seq(Int)
  <1>1. options.message \in Seq(Int) /\ Nat \subseteq Int
    BY OptionFacts
  <1>2. /\ SignalFormat.sampleRateHz \in Int /\ SignalFormat.frequencyHz \in Int
        /\ SignalFormat.nominalAmplitude \in Int
        /\ RandomPayloads \subseteq Seq(Int) /\ SampleValues \subseteq Int
    BY SimulatorAssumption
  <1> QED BY <1>1, <1>2, ApplicationAssumption, PayloadsOver

LEMMA FramesTyped ==
  ASSUME options \in ParsedOptions, NEW i \in Nat, NEW f \in FramesOf(i)
  PROVE  f \in Frames
  <1>1. PICK time \in Timestamps, temperature \in Temperatures, status \in 0..SafeMode, p \in PayloadsOf(i) :
          f = [version |-> ProtocolVersion, satelliteId |-> SatelliteId, timestampMs |-> time,
               temperatureC |-> temperature, batteryPercent |-> BatteryOf(i), status |-> status,
               payload |-> p]
    BY DEF FramesOf
  <1>2. p \in Seq(Int)
    BY PayloadsTyped
  <1>3. BatteryOf(i) \in Int
    BY CodecAssumption DEF BatteryOf
  <1>4. time \in Int /\ temperature \in Int /\ status \in Int /\ ProtocolVersion \in Int /\ SatelliteId \in Int
    BY SimulatorAssumption, CodecAssumption
  <1> QED BY <1>1, <1>2, <1>3, <1>4 DEF Frames

\* makeSignalPayload and its encoder against parseArgs: a block of finite samples
\* is never refused.
LEMMA BlockAccepted ==
  ASSUME options \in ParsedOptions, options.mode = "signal",
         NEW i \in Nat, i < options.count,
         NEW signal \in SignalsOf(i), FiniteSamples(signal.samples)
  PROVE  ~SignalRefused(i, signal)
  <1> DEFINE n == options.signalSamples
             c == options.count
             zero == [k \in 1..n |-> 0]
             probe == SignalOf(options, 0, zero)
  <1>1. n \in Nat /\ c \in Nat /\ EncodableSignal(probe) /\ (c - 1) * n <= U32Max
    BY OptionFacts
  <1>2. PICK x \in [1..n -> SampleValues] : signal = SignalOf(options, i * n, x)
    BY DEF SignalsOf
  <1>3. Len(x) = n /\ Len(zero) = n
    <2> HIDE DEF n
    <2>1. n \in Nat
      BY <1>1
    <2>2. Len(x) = n
      BY <2>1
    <2>3. Len(zero) = n
      BY <2>1
    <2> QED BY <2>2, <2>3
  <1>4. /\ signal.sampleRateHz = probe.sampleRateHz /\ signal.frequencyHz = probe.frequencyHz
        /\ signal.nominalAmplitude = probe.nominalAmplitude
        /\ signal.samples = x /\ probe.samples = zero
    BY <1>2 DEF SignalOf
  <1> HIDE DEF probe, zero
  <1>5. ValidSignalMetadata(probe) /\ Len(probe.samples) <= MaxSignalSamplesPerPayload
    BY <1>1 DEF EncodableSignal
  <1>6. ValidSignalMetadata(signal)
    BY <1>4, <1>5 DEF ValidSignalMetadata
  <1>7. EncodableSignal(signal)
    BY <1>3, <1>4, <1>5, <1>6 DEF EncodableSignal
  <1>8. ~(i * n > U32Max)
    <2>1. i < c
      OBVIOUS
    <2> HIDE DEF n, c
    <2>2. U32Max \in Nat /\ i <= c - 1 /\ c - 1 \in Nat
      BY <1>1, <2>1, SimulatorAssumption
    <2> DEFINE k == c - 1
               d == k - i
    <2>3. d \in Nat /\ k = i + d
      BY <2>2
    <2> HIDE DEF k, d
    <2>4. (i + d) * n = i * n + d * n /\ d * n >= 0 /\ d * n \in Int /\ i * n \in Int
      BY <1>1, <2>3
    <2>5. k * n <= U32Max
      BY <1>1 DEF k
    <2> QED BY <2>2, <2>3, <2>4, <2>5
  <1> QED BY <1>7, <1>8 DEF SignalRefused

LEMMA ItemFacts ==
  ASSUME NEW f \in Frames, Encodable(f)
  PROVE  /\ [frame |-> f, bytes |-> EncodeFrame(f), damage |-> 0] \in SentItems
         /\ \A k \in DOMAIN EncodeFrame(f) :
              [frame |-> f, bytes |-> Corrupt(EncodeFrame(f), k), damage |-> k] \in SentItems
  <1> DEFINE e == EncodeFrame(f)
  <1>1. e \in Seq(Symbol) /\ LegalEntryLength(Len(e))
    BY EncodeFacts
  <1>2. e \in Seq(Wire)
    BY <1>1 DEF Wire
  <1>3. [frame |-> f, bytes |-> e, damage |-> 0] \in SentItems
    BY <1>1, <1>2 DEF SentItems
  <1>4. ASSUME NEW k \in DOMAIN e
        PROVE  [frame |-> f, bytes |-> Corrupt(e, k), damage |-> k] \in SentItems
    <2>1. k \in Nat /\ k # 0
      BY <1>1
    <2>2. Corrupt(e, k) \in Seq(Wire) /\ Len(Corrupt(e, k)) = Len(e)
      BY <1>1, CorruptFacts
    <2> QED BY <1>1, <2>1, <2>2 DEF SentItems
  <1> QED BY <1>3, <1>4

\* One step of the simulator that hands a frame to the radio.
LEMMA TransmitFacts ==
  ASSUME options \in ParsedOptions, simIndex \in Nat, TransmitFrame \/ TransmitDamagedFrame
  PROVE  \E x \in SentItems :
           /\ x.frame \in FramesOf(simIndex)
           /\ sent' = Append(sent, x)
           /\ simBytes' = x.bytes
           /\ simPc = "frame"
           /\ simPc' \in {"send", "store"}
           /\ options.transport # "none" => simPc' = "send"
           /\ simOffset' = 0
           /\ UNCHANGED <<options, fileRoom, simIndex, simFault, link, capture>>
  <1>1. options \in ParsedOptions /\ simIndex \in Nat
    OBVIOUS
  <1>2. CASE TransmitFrame
    <2>1. PICK f \in FramesOf(simIndex) : Encodable(f) /\ Transmit(f, EncodeFrame(f), 0)
      BY <1>2 DEF TransmitFrame
    <2>2. f \in Frames
      BY <1>1, FramesTyped
    <2> DEFINE x == [frame |-> f, bytes |-> EncodeFrame(f), damage |-> 0]
    <2>3. x \in SentItems
      BY <2>1, <2>2, ItemFacts
    <2> QED BY <1>2, <2>1, <2>3 DEF Transmit, TransmitFrame, MoreFrames
  <1>3. CASE TransmitDamagedFrame
    <2>1. PICK f \in FramesOf(simIndex) : \E k \in DOMAIN EncodeFrame(f) :
            Encodable(f) /\ Transmit(f, Corrupt(EncodeFrame(f), k), k)
      BY <1>3 DEF TransmitDamagedFrame
    <2>2. PICK k \in DOMAIN EncodeFrame(f) : Encodable(f) /\ Transmit(f, Corrupt(EncodeFrame(f), k), k)
      BY <2>1
    <2>3. f \in Frames
      BY <1>1, FramesTyped
    <2> DEFINE x == [frame |-> f, bytes |-> Corrupt(EncodeFrame(f), k), damage |-> k]
    <2>4. x \in SentItems
      BY <2>2, <2>3, ItemFacts
    <2> QED BY <1>3, <2>2, <2>4 DEF Transmit, TransmitDamagedFrame, MoreFrames
  <1> QED BY <1>2, <1>3

=============================================================================
