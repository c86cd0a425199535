--------------------------- MODULE DownlinkProofs ---------------------------
(***************************************************************************)
(* Proofs about modules StreamExtractor and Downlink, for every magic,     *)
(* every limit on payloads, every stream and every way to cut it into      *)
(* reads.                                                                  *)
(*                                                                         *)
(* The extractor by itself: feed() keeps its buffer bounded, hands out the *)
(* candidates of one pass over the whole stream, and throws none away.     *)
(* Positions are positions of the stream.  A position the extractor has    *)
(* left behind is either inside a cut or Settled: what was already         *)
(* received shows that no frame begins there, and nothing that follows can *)
(* change that.                                                            *)
(*                                                                         *)
(* The downlink: it drives its extractor as the component allows; the      *)
(* places of layout tile the connection's stream, so what lies at an       *)
(* undamaged position is known; hence the cuts of an undamaged stream are  *)
(* the frames that were sent, damage costs no frame that begins a maximal  *)
(* frame behind it, and a frame that was never sent is accepted only next  *)
(* to damage.                                                              *)
(***************************************************************************)
EXTENDS Downlink, SimulatorProofs

-----------------------------------------------------------------------------
\* std::search returns the first occurrence.
LEMMA FirstInFacts ==
  ASSUME NEW S \in SUBSET Nat, S # {}
  PROVE  FirstIn(S) \in S /\ \A j \in S : FirstIn(S) <= j
  BY LeastExists DEF FirstIn

-----------------------------------------------------------------------------
(* Sizes, and what the code looks for, position by position *)

LEMMA SizeFacts ==
  /\ MagicSize \in Nat /\ MagicSize > 0
  /\ HeaderSize = MagicSize + 7 /\ PayloadLengthOffset = HeaderSize
  /\ CrcSize = 1 /\ MaxPayloadSize \in Nat
  /\ MinFrameSize = HeaderSize + 1 /\ MaxFrameSize = HeaderSize + MaxPayloadSize + 1
  BY MagicAssumption, MaxPayloadAssumption
     DEF MagicSize, HeaderSize, PayloadLengthOffset, CrcSize, MinFrameSize, MaxFrameSize

\* The same, all counted from the length of the magic.
LEMMA SizesFromMagic ==
  ASSUME NEW m, m = MagicSize
  PROVE  /\ m \in Nat /\ m > 0 /\ HeaderSize = m + 7 /\ PayloadLengthOffset = m + 7
         /\ MinFrameSize = m + 8 /\ MaxFrameSize = m + 8 + MaxPayloadSize
         /\ MaxPayloadSize \in Nat /\ CrcSize = 1
  <1>1. m \in Nat /\ m > 0 /\ HeaderSize = m + 7 /\ MaxPayloadSize \in Nat /\ CrcSize = 1
    BY SizeFacts
  <1>2. PayloadLengthOffset = m + 7
    BY <1>1, SizeFacts
  <1>3. MinFrameSize = m + 8
    <2>1. MinFrameSize = (m + 7) + 1
      BY <1>1, SizeFacts
    <2> QED BY <1>1, <2>1
  <1>4. MaxFrameSize = m + 8 + MaxPayloadSize
    <2>1. MaxFrameSize = (m + 7) + MaxPayloadSize + 1
      BY <1>1, SizeFacts
    <2> QED BY <1>1, <2>1
  <1> QED BY <1>1, <1>2, <1>3, <1>4

LEMMA MagicPointwise ==
  ASSUME NEW s \in Seq(Nat), NEW i \in Nat \ {0}
  PROVE  MagicAt(s, i) <=> /\ i + MagicSize - 1 <= Len(s)
                           /\ \A j \in 1..MagicSize : s[i + j - 1] = FrameMagic[j]
  <1> SUFFICES ASSUME i + MagicSize - 1 <= Len(s)
               PROVE  Slice(s, i, MagicSize) = FrameMagic
                        <=> \A j \in 1..MagicSize : s[i + j - 1] = FrameMagic[j]
    BY DEF MagicAt
  <1> DEFINE m == MagicSize
             p == SubSeq(s, i, i + m - 1)
  <1>1. m \in Nat /\ m > 0 /\ m = Len(FrameMagic) /\ FrameMagic \in Seq(Int)
    BY SizeFacts, MagicAssumption DEF MagicSize
  <1> HIDE DEF m
  <1>2. \A j \in i..i + m - 1 : s[j] \in Int
    BY <1>1 DEF m
  <1>3. /\ p \in Seq(Int) /\ Len(p) = m
        /\ \A j \in 1..m : p[j] = s[i + j - 1]
    BY <1>1, <1>2, SubSeqProperties
  <1>4. p = FrameMagic <=> \A j \in 1..m : p[j] = FrameMagic[j]
    BY <1>1, <1>3, SeqEqual
  <1> QED BY <1>3, <1>4 DEF Slice, m

\* The rest of a stream after its first c symbols.
LEMMA TailFacts ==
  ASSUME NEW s \in Seq(Nat), NEW c \in 0..Len(s)
  PROVE  LET b == SubSeq(s, c + 1, Len(s))
         IN  /\ b \in Seq(Nat)
             /\ Len(b) = Len(s) - c
             /\ \A i \in 1..Len(s) - c : b[i] = s[c + i]
  <1>1. c + 1 \in Int /\ Len(s) \in Int /\ \A i \in c + 1..Len(s) : s[i] \in Nat
    OBVIOUS
  <1> DEFINE b == SubSeq(s, c + 1, Len(s))
  <1>2. /\ b \in Seq(Nat)
        /\ Len(b) = IF c + 1 <= Len(s) THEN Len(s) - (c + 1) + 1 ELSE 0
        /\ \A i \in 1..Len(s) - (c + 1) + 1 : b[i] = s[c + 1 + i - 1]
    BY <1>1, SubSeqProperties
  <1> HIDE DEF b
  <1>3. \A i \in 1..Len(s) - c : b[i] = s[c + i]
    BY <1>2
  <1> QED BY <1>2, <1>3 DEF b

LEMMA TailOfTail ==
  ASSUME NEW s \in Seq(Nat), NEW c \in 0..Len(s), NEW n \in 0..Len(s) - c
  PROVE  SubSeq(SubSeq(s, c + 1, Len(s)), n + 1, Len(s) - c) = SubSeq(s, c + n + 1, Len(s))
  <1> DEFINE b == SubSeq(s, c + 1, Len(s))
             t == SubSeq(b, n + 1, Len(b))
             u == SubSeq(s, (c + n) + 1, Len(s))
  <1>1. b \in Seq(Nat) /\ Len(b) = Len(s) - c /\ \A i \in 1..Len(s) - c : b[i] = s[c + i]
    BY TailFacts
  <1>2. n \in 0..Len(b)
    BY <1>1
  <1>3. t \in Seq(Nat) /\ Len(t) = Len(b) - n /\ \A i \in 1..Len(b) - n : t[i] = b[n + i]
    BY <1>1, <1>2, TailFacts
  <1>4. c + n \in 0..Len(s)
    OBVIOUS
  <1>5. u \in Seq(Nat) /\ Len(u) = Len(s) - (c + n)
        /\ \A i \in 1..Len(s) - (c + n) : u[i] = s[(c + n) + i]
    BY <1>4, TailFacts
  <1> HIDE DEF b, t, u
  <1>6. Len(t) = Len(u) /\ \A i \in 1..Len(t) : t[i] = u[i]
    <2>1. Len(t) = Len(u) /\ Len(t) \in Nat /\ Len(s) \in Nat
      BY <1>1, <1>3, <1>5
    <2>2. ASSUME NEW i \in 1..Len(t) PROVE t[i] = u[i]
      <3>1. t[i] = b[n + i] /\ n + i \in 1..Len(s) - c
        BY <1>1, <1>3, <2>1
      <3>2. b[n + i] = s[c + (n + i)] /\ u[i] = s[(c + n) + i]
        BY <1>1, <1>5, <2>1, <3>1
      <3>3. c + (n + i) = (c + n) + i
        OBVIOUS
      <3> QED BY <3>1, <3>2, <3>3
    <2> QED BY <2>1, <2>2
  <1>7. t = u
    BY <1>3, <1>5, <1>6, SeqEqual
  <1> QED BY <1>1, <1>7 DEF b, t, u

LEMMA TailGrows ==
  ASSUME NEW s \in Seq(Nat), NEW c \in 0..Len(s), NEW x \in Seq(Nat)
  PROVE  SubSeq(s, c + 1, Len(s)) \o x = SubSeq(s \o x, c + 1, Len(s \o x))
  <1> DEFINE b == SubSeq(s, c + 1, Len(s))
             t == s \o x
             u == SubSeq(t, c + 1, Len(t))
             v == b \o x
  <1>1. b \in Seq(Nat) /\ Len(b) = Len(s) - c /\ \A i \in 1..Len(s) - c : b[i] = s[c + i]
    BY TailFacts
  <1>2. /\ t \in Seq(Nat) /\ Len(t) = Len(s) + Len(x)
        /\ \A i \in 1..Len(s) : t[i] = s[i]
        /\ \A i \in 1..Len(x) : t[Len(s) + i] = x[i]
    OBVIOUS
  <1>3. Len(s) \in Nat /\ Len(x) \in Nat /\ c \in Nat /\ c \in 0..Len(t)
    BY <1>2
  <1>4. u \in Seq(Nat) /\ Len(u) = Len(t) - c /\ \A i \in 1..Len(t) - c : u[i] = t[c + i]
    BY <1>2, <1>3, TailFacts
  <1> HIDE DEF b
  <1>5. /\ v \in Seq(Nat) /\ Len(v) = Len(b) + Len(x)
        /\ \A i \in 1..Len(b) : v[i] = b[i]
        /\ \A i \in 1..Len(x) : v[Len(b) + i] = x[i]
    <2>1. b \in Seq(Nat)
      BY <1>1
    <2> QED BY <2>1
  <1> HIDE DEF t, u, v
  <1>6. Len(u) = Len(v) /\ Len(v) = (Len(s) - c) + Len(x)
    BY <1>1, <1>2, <1>3, <1>4, <1>5
  <1>7. ASSUME NEW i \in 1..Len(v) PROVE v[i] = u[i]
    <2>1. i \in 1..Len(t) - c /\ i \in Nat
      BY <1>2, <1>3, <1>6
    <2>2. u[i] = t[c + i]
      BY <1>4, <2>1
    <2>3. CASE i <= Len(s) - c
      <3>1. i \in 1..Len(s) - c /\ c + i \in 1..Len(s)
        BY <1>3, <2>1, <2>3
      <3> QED BY <1>1, <1>2, <1>5, <2>2, <3>1
    <2>4. CASE i > Len(s) - c
      <3>1. i - (Len(s) - c) \in 1..Len(x)
        BY <1>3, <1>6, <2>1, <2>4
      <3>2. PICK k \in 1..Len(x) : k = i - (Len(s) - c)
        BY <3>1
      <3>3. i = (Len(s) - c) + k /\ c + i = Len(s) + k
        BY <1>3, <2>1, <3>2
      <3> QED BY <1>1, <1>2, <1>5, <2>2, <3>3
    <2> QED BY <1>3, <2>1, <2>3, <2>4
  <1>8. v = u
    BY <1>4, <1>5, <1>6, <1>7, SeqEqual
  <1> QED BY <1>8 DEF v, u, t, b

\* Looking into the buffer is looking into the stream.
LEMMA MagicInTail ==
  ASSUME NEW s \in Seq(Nat), NEW c \in 0..Len(s), NEW i \in Nat \ {0}
  PROVE  MagicAt(SubSeq(s, c + 1, Len(s)), i) <=> MagicAt(s, c + i)
  <1> DEFINE b == SubSeq(s, c + 1, Len(s))
  <1>1. b \in Seq(Nat) /\ Len(b) = Len(s) - c /\ \A k \in 1..Len(s) - c : b[k] = s[c + k]
    BY TailFacts
  <1> HIDE DEF b
  <1>2. MagicSize \in Nat /\ Len(s) \in Nat /\ c \in Nat /\ c + i \in Nat \ {0}
    BY SizeFacts
  <1>3. ASSUME i + MagicSize - 1 <= Len(s) - c, NEW j \in 1..MagicSize
        PROVE  b[i + j - 1] = s[(c + i) + j - 1]
    <2>1. i + j - 1 \in 1..Len(s) - c /\ c + (i + j - 1) = (c + i) + j - 1
      BY <1>2, <1>3
    <2> QED BY <1>1, <2>1
  <1>4. i + MagicSize - 1 <= Len(b) <=> (c + i) + MagicSize - 1 <= Len(s)
    BY <1>1, <1>2
  <1>5. MagicAt(b, i) <=> /\ i + MagicSize - 1 <= Len(b)
                          /\ \A j \in 1..MagicSize : b[i + j - 1] = FrameMagic[j]
    BY <1>1, MagicPointwise
  <1>6. MagicAt(s, c + i) <=> /\ (c + i) + MagicSize - 1 <= Len(s)
                              /\ \A j \in 1..MagicSize : s[(c + i) + j - 1] = FrameMagic[j]
    BY <1>2, MagicPointwise
  <1>7. MagicAt(b, i) <=> MagicAt(s, c + i)
    BY <1>1, <1>3, <1>4, <1>5, <1>6
  <1> QED BY <1>7 DEF b

\* Symbols that follow change nothing in what was there.
LEMMA MagicInPrefix ==
  ASSUME NEW s \in Seq(Nat), NEW b \in Seq(Nat), NEW i \in Nat \ {0},
         i + MagicSize - 1 <= Len(s)
  PROVE  MagicAt(s \o b, i) <=> MagicAt(s, i)
  <1> DEFINE t == s \o b
  <1>1. t \in Seq(Nat) /\ Len(t) = Len(s) + Len(b) /\ \A k \in 1..Len(s) : t[k] = s[k]
    BY ConcatProperties
  <1> HIDE DEF t
  <1>2. MagicSize \in Nat /\ Len(s) \in Nat /\ Len(b) \in Nat
    BY SizeFacts
  <1>3. \A j \in 1..MagicSize : i + j - 1 \in 1..Len(s)
    BY <1>2
  <1>4. \A j \in 1..MagicSize : t[i + j - 1] = s[i + j - 1]
    BY <1>1, <1>3
  <1>5. i + MagicSize - 1 <= Len(t)
    BY <1>1, <1>2
  <1>6. MagicAt(t, i) <=> MagicAt(s, i)
    BY <1>1, <1>4, <1>5, MagicPointwise
  <1> QED BY <1>6 DEF t

-----------------------------------------------------------------------------
(* Settled positions and passes *)

\* What is there already rules a frame out at i.
Settled(s, i) ==
  \/ i + MagicSize - 1 <= Len(s) /\ ~MagicAt(s, i)
  \/ i + HeaderSize - 1 <= Len(s) /\ s[i + PayloadLengthOffset - 1] > MaxPayloadSize

Cut == [start : Nat \ {0}, size : Nat]

InCut(cut, i) == i \in cut.start..(cut.start + cut.size - 1)

\* The first position after the k-th cut.
EndOf(cs, k) == IF k = 0 THEN 1 ELSE cs[k].start + cs[k].size

\* cs are the cuts of a pass over s that has left c positions behind.
Passed(s, cs, c) ==
  /\ \A k \in 1..Len(cs) :
       /\ CandidateAt(s, cs[k].start)
       /\ cs[k].size = FrameSizeAt(s, cs[k].start)
       /\ EndOf(cs, k - 1) <= cs[k].start
       /\ \A i \in EndOf(cs, k - 1)..(cs[k].start - 1) : Settled(s, i)
  /\ EndOf(cs, Len(cs)) <= c + 1
  /\ \A i \in EndOf(cs, Len(cs))..c : Settled(s, i)
  /\ \A i \in 1..c : Settled(s, i) \/ \E k \in 1..Len(cs) : InCut(cs[k], i)

LEMMA SettledIsNothing ==
  ASSUME NEW s \in Seq(Nat), NEW i \in Nat \ {0}, Settled(s, i)
  PROVE  ~CandidateAt(s, i) /\ ~PendingAt(s, i)
  <1>1. MagicSize \in Nat /\ HeaderSize \in Nat /\ MaxPayloadSize \in Nat /\ Len(s) \in Nat
        /\ PayloadLengthOffset = HeaderSize
    BY SizeFacts
  <1>2. CASE ~MagicAt(s, i)
    BY <1>2 DEF CandidateAt, PendingAt
  <1>3. CASE i + HeaderSize - 1 <= Len(s) /\ s[i + PayloadLengthOffset - 1] > MaxPayloadSize
    <2>1. i + HeaderSize - 1 \in 1..Len(s)
      BY <1>1, <1>3, SizeFacts
    <2>2. s[i + PayloadLengthOffset - 1] \in Nat
      BY <1>1, <2>1
    <2> QED BY <1>1, <1>3, <2>2 DEF CandidateAt, PendingAt
  <1> QED BY <1>2, <1>3 DEF Settled

LEMMA SettledKept ==
  ASSUME NEW s \in Seq(Nat), NEW b \in Seq(Nat), NEW i \in Nat \ {0}, Settled(s, i)
  PROVE  Settled(s \o b, i)
  <1>1. Len(s \o b) = Len(s) + Len(b) /\ \A k \in 1..Len(s) : (s \o b)[k] = s[k]
    BY ConcatProperties
  <1>2. MagicSize \in Nat /\ HeaderSize \in Nat /\ HeaderSize > 0 /\ Len(s) \in Nat /\ Len(b) \in Nat
        /\ PayloadLengthOffset = HeaderSize
    BY SizeFacts
  <1>3. CASE i + MagicSize - 1 <= Len(s) /\ ~MagicAt(s, i)
    <2>1. i + MagicSize - 1 <= Len(s \o b)
      BY <1>1, <1>2, <1>3
    <2> QED BY <1>3, <2>1, MagicInPrefix DEF Settled
  <1>4. CASE i + HeaderSize - 1 <= Len(s) /\ s[i + PayloadLengthOffset - 1] > MaxPayloadSize
    <2>1. i + HeaderSize - 1 <= Len(s \o b) /\ i + PayloadLengthOffset - 1 \in 1..Len(s)
      BY <1>1, <1>2, <1>4
    <2> QED BY <1>1, <1>4, <2>1 DEF Settled
  <1> QED BY <1>3, <1>4 DEF Settled

LEMMA CandidateFacts ==
  ASSUME NEW s \in Seq(Nat), NEW i \in Nat \ {0}, CandidateAt(s, i)
  PROVE  /\ FrameSizeAt(s, i) \in MinFrameSize..MaxFrameSize
         /\ FrameSizeAt(s, i) \in Nat /\ FrameSizeAt(s, i) > 0
         /\ i + FrameSizeAt(s, i) - 1 <= Len(s)
  <1>1. MagicSize \in Nat /\ HeaderSize \in Nat /\ HeaderSize > 0 /\ Len(s) \in Nat
        /\ PayloadLengthOffset = HeaderSize
    BY SizeFacts
  <1>2. i + PayloadLengthOffset - 1 \in 1..Len(s)
    BY <1>1 DEF CandidateAt
  <1>3. s[i + PayloadLengthOffset - 1] \in 0..MaxPayloadSize
    BY <1>2, SizeFacts DEF CandidateAt
  <1>4. PICK x \in 0..MaxPayloadSize : FrameSizeAt(s, i) = HeaderSize + x + 1
    BY <1>3, SizeFacts DEF FrameSizeAt
  <1>5. i + FrameSizeAt(s, i) - 1 <= Len(s)
    BY DEF CandidateAt
  <1> HIDE DEF FrameSizeAt
  <1> QED BY <1>1, <1>4, <1>5, SizeFacts

LEMMA CandidateKept ==
  ASSUME NEW s \in Seq(Nat), NEW b \in Seq(Nat), NEW i \in Nat \ {0}, CandidateAt(s, i)
  PROVE  CandidateAt(s \o b, i) /\ FrameSizeAt(s \o b, i) = FrameSizeAt(s, i)
  <1>1. Len(s \o b) = Len(s) + Len(b) /\ \A k \in 1..Len(s) : (s \o b)[k] = s[k]
    BY ConcatProperties
  <1>2. MagicSize \in Nat /\ HeaderSize \in Nat /\ HeaderSize > 0 /\ Len(s) \in Nat /\ Len(b) \in Nat
        /\ PayloadLengthOffset = HeaderSize
    BY SizeFacts
  <1>3. i + PayloadLengthOffset - 1 \in 1..Len(s)
    BY <1>2 DEF CandidateAt
  <1>4. (s \o b)[i + PayloadLengthOffset - 1] = s[i + PayloadLengthOffset - 1]
    BY <1>1, <1>3
  <1>5. FrameSizeAt(s \o b, i) = FrameSizeAt(s, i)
    BY <1>4 DEF FrameSizeAt
  <1>6. MagicAt(s \o b, i)
    BY MagicInPrefix DEF CandidateAt, MagicAt
  <1>7. i + HeaderSize - 1 <= Len(s \o b) /\ i + FrameSizeAt(s, i) - 1 <= Len(s \o b)
    BY <1>1, <1>2, CandidateFacts DEF CandidateAt
  <1>8. s[i + PayloadLengthOffset - 1] <= MaxPayloadSize
    BY DEF CandidateAt
  <1> QED BY <1>4, <1>5, <1>6, <1>7, <1>8 DEF CandidateAt

\* A pass remains one when the stream grows.
LEMMA PassedGrows ==
  ASSUME NEW s \in Seq(Nat), NEW b \in Seq(Nat), NEW cs \in Seq(Cut), NEW c \in Nat,
         Passed(s, cs, c)
  PROVE  Passed(s \o b, cs, c)
  <1>1. \A k \in 1..Len(cs) : cs[k].start \in Nat \ {0} /\ cs[k].size \in Nat
    <2> HIDE DEF Cut
    <2>1. \A k \in 1..Len(cs) : cs[k] \in Cut
      OBVIOUS
    <2> QED BY <2>1 DEF Cut
  <1>2. \A k \in 0..Len(cs) : EndOf(cs, k) \in Nat \ {0}
    BY <1>1 DEF EndOf
  <1>3. \A i \in Nat \ {0} : Settled(s, i) => Settled(s \o b, i)
    BY SettledKept
  <1>4. ASSUME NEW k \in 1..Len(cs)
        PROVE  /\ CandidateAt(s \o b, cs[k].start)
               /\ cs[k].size = FrameSizeAt(s \o b, cs[k].start)
               /\ EndOf(cs, k - 1) <= cs[k].start
               /\ \A i \in EndOf(cs, k - 1)..(cs[k].start - 1) : Settled(s \o b, i)
    <2>1. k - 1 \in 0..Len(cs)
      OBVIOUS
    <2>2. \A i \in EndOf(cs, k - 1)..(cs[k].start - 1) : i \in Nat \ {0}
      <3>1. EndOf(cs, k - 1) \in Nat \ {0} /\ cs[k].start \in Nat
        BY <1>1, <1>2, <2>1
      <3> HIDE DEF EndOf
      <3> QED BY <3>1
    <2>3. /\ CandidateAt(s, cs[k].start)
          /\ cs[k].size = FrameSizeAt(s, cs[k].start)
          /\ EndOf(cs, k - 1) <= cs[k].start
          /\ \A i \in EndOf(cs, k - 1)..(cs[k].start - 1) : Settled(s, i)
      BY DEF Passed
    <2> QED BY <1>1, <1>3, <2>2, <2>3, CandidateKept
  <1>5. \A i \in EndOf(cs, Len(cs))..c : i \in Nat \ {0}
    <2>1. EndOf(cs, Len(cs)) \in Nat \ {0}
      BY <1>2, Len(cs) \in 0..Len(cs)
    <2> QED BY <2>1
  <1>6. \A i \in EndOf(cs, Len(cs))..c : Settled(s \o b, i)
    BY <1>3, <1>5 DEF Passed
  <1>7. \A i \in 1..c : Settled(s \o b, i) \/ \E k \in 1..Len(cs) : InCut(cs[k], i)
    BY <1>3 DEF Passed
  <1> QED BY <1>4, <1>6, <1>7 DEF Passed

\* A pass that moves over settled positions.
LEMMA PassedSkips ==
  ASSUME NEW s \in Seq(Nat), NEW cs \in Seq(Cut), NEW c \in Nat, NEW d \in Nat, c <= d,
         Passed(s, cs, c), \A i \in c + 1..d : Settled(s, i)
  PROVE  Passed(s, cs, d)
  <1>1. EndOf(cs, Len(cs)) \in Nat
    <2> HIDE DEF Cut
    <2>1. Len(cs) # 0 => cs[Len(cs)] \in Cut
      OBVIOUS
    <2> QED BY <2>1 DEF Cut, EndOf
  <1>2. EndOf(cs, Len(cs)) <= d + 1
    BY <1>1 DEF Passed
  <1>3. \A i \in EndOf(cs, Len(cs))..d : i \in EndOf(cs, Len(cs))..c \/ i \in c + 1..d
    BY <1>1
  <1>4. \A i \in 1..d : i \in 1..c \/ i \in c + 1..d
    OBVIOUS
  <1> QED BY <1>2, <1>3, <1>4 DEF Passed

\* A pass that takes the candidate it has reached.
LEMMA PassedTakes ==
  ASSUME NEW s \in Seq(Nat), NEW cs \in Seq(Cut), NEW p \in Nat \ {0},
         Passed(s, cs, p - 1), CandidateAt(s, p)
  PROVE  Passed(s, Append(cs, [start |-> p, size |-> FrameSizeAt(s, p)]),
                p + FrameSizeAt(s, p) - 1)
  <1> DEFINE size == FrameSizeAt(s, p)
             cut == [start |-> p, size |-> size]
             ds == Append(cs, cut)
             n == Len(cs)
             d == p + size - 1
  <1>1. size \in Nat /\ size > 0
    BY CandidateFacts
  <1>2. cut \in Cut /\ cut.start = p /\ cut.size = size
    BY <1>1 DEF Cut
  <1> HIDE DEF size, cut
  <1>3. n \in Nat /\ ds \in Seq(Cut) /\ Len(ds) = n + 1 /\ ds[n + 1] = cut
        /\ \A k \in 1..n : ds[k] = cs[k] /\ cs[k] \in Cut
    <2> HIDE DEF Cut
    <2> QED BY <1>2, AppendProperties
  <1> HIDE DEF ds, n
  <1>4. \A k \in 0..n : EndOf(ds, k) = EndOf(cs, k)
    BY <1>3 DEF EndOf
  <1>5. EndOf(ds, n + 1) = d + 1
    BY <1>1, <1>2, <1>3 DEF EndOf
  <1>6. ASSUME NEW k \in 1..Len(ds)
        PROVE  /\ CandidateAt(s, ds[k].start)
               /\ ds[k].size = FrameSizeAt(s, ds[k].start)
               /\ EndOf(ds, k - 1) <= ds[k].start
               /\ \A i \in EndOf(ds, k - 1)..(ds[k].start - 1) : Settled(s, i)
    <2>1. CASE k \in 1..n
      <3>1. EndOf(ds, k - 1) = EndOf(cs, k - 1) /\ ds[k] = cs[k]
        BY <1>3, <1>4, <2>1
      <3> QED BY <2>1, <3>1 DEF Passed, n
    <2>2. CASE k = n + 1
      <3>1. EndOf(ds, k - 1) = EndOf(cs, Len(cs)) /\ ds[k] = cut
        BY <1>3, <1>4, <2>2 DEF n
      <3>2. EndOf(cs, Len(cs)) <= p /\ \A i \in EndOf(cs, Len(cs))..(p - 1) : Settled(s, i)
        BY DEF Passed
      <3> QED BY <1>2, <3>1, <3>2 DEF size
    <2> QED BY <1>3, <2>1, <2>2
  <1>7. EndOf(ds, Len(ds)) <= d + 1 /\ \A i \in EndOf(ds, Len(ds))..d : Settled(s, i)
    BY <1>1, <1>3, <1>5
  <1>8. ASSUME NEW i \in 1..d
        PROVE  Settled(s, i) \/ \E k \in 1..Len(ds) : InCut(ds[k], i)
    <2>1. CASE i <= p - 1
      <3>1. Settled(s, i) \/ \E k \in 1..n : InCut(cs[k], i)
        BY <1>1, <2>1 DEF Passed, n
      <3> QED BY <1>3, <3>1
    <2>2. CASE i >= p
      <3>1. InCut(ds[n + 1], i)
        BY <1>1, <1>2, <1>3, <2>2 DEF InCut
      <3> QED BY <1>3, <3>1
    <2> QED BY <1>1, <2>1, <2>2
  <1>9. Passed(s, ds, d)
    BY <1>6, <1>7, <1>8 DEF Passed
  <1> QED BY <1>9 DEF ds, cut, size

-----------------------------------------------------------------------------
(* The extractor's steps *)

StreamInv ==
  /\ feeding \in BOOLEAN
  /\ stream \in Seq(Nat)
  /\ consumed \in 0..Len(stream)
  /\ buffer = SubSeq(stream, consumed + 1, Len(stream))
  /\ cuts \in Seq(Cut)

\* Between two calls the rest cannot be cut: too short, or a frame begun.
AtRest == Len(stream) - consumed < MagicSize \/ PendingAt(stream, consumed + 1)

ExtractorInv ==
  /\ StreamInv
  /\ Passed(stream, cuts, consumed)
  /\ ~feeding => AtRest

\* Where in the stream std::search finds the magic.
Found == consumed + FirstIn(MagicsIn(buffer))

LEMMA BufferFacts ==
  ASSUME StreamInv
  PROVE  /\ buffer \in Seq(Nat) /\ Len(buffer) = Len(stream) - consumed
         /\ Len(stream) \in Nat /\ consumed \in Nat /\ Len(buffer) \in Nat
         /\ \A i \in Nat \ {0} : MagicAt(buffer, i) <=> MagicAt(stream, consumed + i)
  <1>1. stream \in Seq(Nat) /\ consumed \in 0..Len(stream)
        /\ buffer = SubSeq(stream, consumed + 1, Len(stream))
    BY DEF StreamInv
  <1>2. buffer \in Seq(Nat) /\ Len(buffer) = Len(stream) - consumed
    BY <1>1, TailFacts
  <1>3. \A i \in Nat \ {0} : MagicAt(buffer, i) <=> MagicAt(stream, consumed + i)
    BY <1>1, MagicInTail
  <1> QED BY <1>1, <1>2, <1>3

\* The search: everything before the magic it finds is settled.
LEMMA FoundFacts ==
  ASSUME StreamInv, MagicsIn(buffer) # {}
  PROVE  /\ Found \in Nat \ {0} /\ consumed + 1 <= Found /\ Found <= Len(stream)
         /\ MagicAt(stream, Found)
         /\ \A i \in consumed + 1..Found - 1 : Settled(stream, i)
         /\ Len(Aligned) = Len(stream) - Found + 1
         /\ \A j \in 1..Len(Aligned) : Aligned[j] = stream[Found + j - 1]
  <1> DEFINE f == FirstIn(MagicsIn(buffer))
  <1>1. /\ buffer \in Seq(Nat) /\ Len(buffer) = Len(stream) - consumed
        /\ Len(stream) \in Nat /\ consumed \in Nat /\ Len(buffer) \in Nat
        /\ \A i \in Nat \ {0} : MagicAt(buffer, i) <=> MagicAt(stream, consumed + i)
    BY BufferFacts
  <1>2. MagicsIn(buffer) \in SUBSET Nat
    BY DEF MagicsIn
  <1>3. f \in MagicsIn(buffer) /\ \A j \in MagicsIn(buffer) : f <= j
    BY <1>2, FirstInFacts
  <1>4. f \in 1..Len(buffer) /\ MagicAt(buffer, f) /\ Found = consumed + f
    BY <1>3 DEF MagicsIn, Found
  <1> HIDE DEF f
  <1>5. /\ Found \in Nat \ {0} /\ consumed + 1 <= Found /\ Found <= Len(stream)
        /\ MagicAt(stream, Found)
    BY <1>1, <1>4
  <1>6. MagicSize \in Nat /\ Found + MagicSize - 1 <= Len(stream)
    BY <1>5, SizeFacts DEF MagicAt
  <1>7. ASSUME NEW i \in consumed + 1..Found - 1 PROVE Settled(stream, i)
    <2>1. i - consumed \in 1..Len(buffer) /\ i - consumed < f /\ consumed + (i - consumed) = i
      BY <1>1, <1>4, <1>5
    <2>2. i - consumed \notin MagicsIn(buffer)
      <3>1. ~(f <= i - consumed)
        BY <1>1, <1>4, <2>1
      <3> QED BY <1>3, <3>1
    <2>3. ~MagicAt(buffer, i - consumed)
      BY <2>1, <2>2 DEF MagicsIn
    <2>4. ~MagicAt(stream, i)
      BY <1>1, <2>1, <2>3
    <2>5. i + MagicSize - 1 <= Len(stream)
      BY <1>1, <1>5, <1>6
    <2> QED BY <2>4, <2>5 DEF Settled
  <1>8. /\ Len(Aligned) = Len(stream) - Found + 1
        /\ \A j \in 1..Len(Aligned) : Aligned[j] = stream[Found + j - 1]
    <2>1. f - 1 \in 0..Len(buffer) /\ (f - 1) + 1 = f
      BY <1>1, <1>4
    <2>2. Aligned = SubSeq(buffer, (f - 1) + 1, Len(buffer))
      BY <2>1 DEF Aligned, f
    <2>3. Len(Aligned) = Len(buffer) - (f - 1)
          /\ \A j \in 1..Len(buffer) - (f - 1) : Aligned[j] = buffer[(f - 1) + j]
      BY <1>1, <2>1, <2>2, TailFacts
    <2>4. \A k \in 1..Len(stream) - consumed : buffer[k] = stream[consumed + k]
      BY TailFacts DEF StreamInv
    <2>5. Len(Aligned) = Len(stream) - Found + 1
      BY <1>1, <1>4, <2>3
    <2>6. ASSUME NEW j \in 1..Len(Aligned) PROVE Aligned[j] = stream[Found + j - 1]
      <3>1. j \in 1..Len(buffer) - (f - 1)
        BY <2>3, <2>6
      <3>2. (f - 1) + j \in 1..Len(stream) - consumed
            /\ consumed + ((f - 1) + j) = Found + j - 1
        BY <1>1, <1>4, <3>1
      <3> QED BY <2>3, <2>4, <3>1, <3>2
    <2> QED BY <2>5, <2>6
  <1> QED BY <1>5, <1>7, <1>8

\* Erasing from the front of buffer_.
LEMMA KeepLastFacts ==
  ASSUME StreamInv, NEW rest \in 0..Len(buffer), KeepLast(rest), stream' = stream
  PROVE  /\ consumed' = Len(stream) - rest
         /\ consumed' \in 0..Len(stream')
         /\ buffer' = SubSeq(stream', consumed' + 1, Len(stream'))
  <1>1. /\ Len(buffer) = Len(stream) - consumed
        /\ Len(stream) \in Nat /\ consumed \in Nat
    BY BufferFacts
  <1>2. consumed' = Len(stream) - rest /\ consumed' \in 0..Len(stream')
    BY <1>1 DEF KeepLast
  <1> DEFINE n == Len(buffer) - rest
  <1>3. n \in 0..Len(stream) - consumed /\ consumed + n + 1 = consumed' + 1
    BY <1>1, <1>2
  <1>4. buffer' = SubSeq(SubSeq(stream, consumed + 1, Len(stream)), n + 1, Len(stream) - consumed)
    BY <1>1 DEF KeepLast, StreamInv
  <1> HIDE DEF n
  <1>5. buffer' = SubSeq(stream, consumed + n + 1, Len(stream))
    BY <1>3, <1>4, TailOfTail DEF StreamInv
  <1> QED BY <1>2, <1>3, <1>5

\* What the length field says, seen from the stream.
LEMMA HeaderFacts ==
  ASSUME StreamInv, HeaderComplete
  PROVE  /\ Found + HeaderSize - 1 <= Len(stream)
         /\ Aligned[PayloadLengthOffset] = stream[Found + PayloadLengthOffset - 1]
         /\ Aligned[PayloadLengthOffset] \in Nat
         /\ FrameSizeAt(Aligned, 1) = FrameSizeAt(stream, Found)
         /\ FrameSizeAt(stream, Found) \in Nat
  <1>1. /\ Found \in Nat \ {0} /\ Found <= Len(stream) /\ Len(stream) \in Nat
        /\ Len(Aligned) = Len(stream) - Found + 1
        /\ \A j \in 1..Len(Aligned) : Aligned[j] = stream[Found + j - 1]
    BY FoundFacts, BufferFacts DEF HeaderComplete
  <1>2. HeaderSize \in Nat /\ HeaderSize > 0 /\ PayloadLengthOffset = HeaderSize /\ CrcSize = 1
    BY SizeFacts
  <1>3. HeaderSize \in 1..Len(Aligned) /\ Found + HeaderSize - 1 \in 1..Len(stream)
    BY <1>1, <1>2 DEF HeaderComplete
  <1>4. Aligned[PayloadLengthOffset] = stream[Found + PayloadLengthOffset - 1]
    BY <1>1, <1>2, <1>3
  <1>5. stream[Found + PayloadLengthOffset - 1] \in Nat
    BY <1>2, <1>3 DEF StreamInv
  <1>6. 1 + PayloadLengthOffset - 1 = PayloadLengthOffset
    BY <1>2
  <1>7. FrameSizeAt(Aligned, 1) = FrameSizeAt(stream, Found)
    BY <1>4, <1>6 DEF FrameSizeAt
  <1>8. FrameSizeAt(stream, Found) \in Nat
    BY <1>2, <1>5 DEF FrameSizeAt
  <1> QED BY <1>1, <1>2, <1>3, <1>4, <1>5, <1>7, <1>8

-----------------------------------------------------------------------------
LEMMA NothingPassed ==
  /\ SubSeq(<<>>, 0 + 1, Len(<<>>)) = <<>>
  /\ Passed(<<>>, <<>>, 0)
  <1>1. Len(<<>>) = 0 /\ 0 + 1 = 1
    OBVIOUS
  <1>2. SubSeq(<<>>, 0 + 1, Len(<<>>)) = <<>>
    BY <1>1, SubSeqEmpty
  <1>3. Passed(<<>>, <<>>, 0)
    BY <1>1 DEF Passed, EndOf
  <1> QED BY <1>2, <1>3

LEMMA ExtractorInvInit == ExtractorInit => ExtractorInv
  <1> SUFFICES ASSUME ExtractorInit PROVE ExtractorInv
    OBVIOUS
  <1>1. stream = <<>> /\ cuts = <<>> /\ consumed = 0 /\ buffer = <<>> /\ feeding = FALSE
    BY DEF ExtractorInit
  <1>2. stream \in Seq(Nat) /\ cuts \in Seq(Cut) /\ consumed \in 0..Len(stream)
    BY <1>1
  <1>3. feeding \in BOOLEAN /\ buffer = SubSeq(stream, consumed + 1, Len(stream))
    BY <1>1, NothingPassed
  <1>4. Passed(stream, cuts, consumed)
    BY <1>1, NothingPassed
  <1>5. AtRest
    BY <1>1, SizeFacts DEF AtRest
  <1> QED BY <1>2, <1>3, <1>4, <1>5 DEF ExtractorInv, StreamInv

LEMMA FeedStep ==
  ASSUME ExtractorInv, NEW bytes \in Seq(Nat), Feed(bytes)
  PROVE  ExtractorInv'
  <1>1. /\ stream \in Seq(Nat) /\ consumed \in 0..Len(stream) /\ cuts \in Seq(Cut)
        /\ buffer = SubSeq(stream, consumed + 1, Len(stream))
        /\ Passed(stream, cuts, consumed)
    BY DEF ExtractorInv, StreamInv
  <1>2. /\ stream' = stream \o bytes /\ buffer' = buffer \o bytes
        /\ feeding' = TRUE /\ consumed' = consumed /\ cuts' = cuts
    BY DEF Feed
  <1>3. stream' \in Seq(Nat) /\ Len(stream') = Len(stream) + Len(bytes)
        /\ (\A i \in 1..Len(stream) : stream'[i] = stream[i])
        /\ (\A i \in 1..Len(bytes) : stream'[Len(stream) + i] = bytes[i])
    <2>1. stream \in Seq(Nat) /\ bytes \in Seq(Nat)
      BY <1>1
    <2>2. /\ stream \o bytes \in Seq(Nat) /\ Len(stream \o bytes) = Len(stream) + Len(bytes)
          /\ \A i \in 1..Len(stream) : (stream \o bytes)[i] = stream[i]
          /\ \A i \in 1..Len(bytes) : (stream \o bytes)[Len(stream) + i] = bytes[i]
      BY <2>1
    <2>3. stream' = stream \o bytes
      BY <1>2
    <2> QED BY <2>2, <2>3, Zenon
  <1>4. consumed' \in 0..Len(stream')
    BY <1>1, <1>2, <1>3
  <1>5. buffer' = SubSeq(stream', consumed' + 1, Len(stream'))
    BY <1>1, <1>2, TailGrows
  <1>6. Passed(stream', cuts', consumed')
    BY <1>1, <1>2, PassedGrows
  <1> QED BY <1>1, <1>2, <1>3, <1>4, <1>5, <1>6 DEF ExtractorInv, StreamInv

LEMMA NoMagicStep ==
  ASSUME ExtractorInv, NoMagic
  PROVE  ExtractorInv'
  <1> DEFINE rest == IF Len(buffer) > MagicSize - 1 THEN MagicSize - 1 ELSE Len(buffer)
  <1>1. StreamInv /\ stream' = stream /\ cuts' = cuts /\ feeding' = FALSE
        /\ KeepLast(rest) /\ MagicsIn(buffer) = {}
    BY DEF ExtractorInv, NoMagic
  <1>2. /\ Len(buffer) = Len(stream) - consumed
        /\ Len(stream) \in Nat /\ consumed \in Nat /\ Len(buffer) \in Nat
    BY <1>1, BufferFacts
  <1>3. MagicSize \in Nat /\ MagicSize > 0
    BY SizeFacts
  <1>4. rest \in 0..Len(buffer) /\ rest < MagicSize /\ (rest = MagicSize - 1 \/ rest = Len(buffer))
    BY <1>2, <1>3
  <1> HIDE DEF rest
  <1>5. /\ consumed' = Len(stream) - rest /\ consumed' \in 0..Len(stream')
        /\ buffer' = SubSeq(stream', consumed' + 1, Len(stream'))
    BY <1>1, <1>4, KeepLastFacts
  <1>6. ASSUME NEW i \in consumed + 1..consumed' PROVE Settled(stream, i)
    <2>1. i - consumed \in 1..Len(buffer) /\ consumed + (i - consumed) = i
          /\ i + MagicSize - 1 <= Len(stream)
      <3>1. consumed' <= Len(stream) - (MagicSize - 1) \/ consumed' = consumed
        BY <1>2, <1>3, <1>4, <1>5
      <3>2. consumed' \in Nat /\ i \in Nat /\ consumed + 1 <= i /\ i <= consumed'
        BY <1>2, <1>5
      <3> QED BY <1>2, <1>3, <3>1, <3>2
    <2>2. ~MagicAt(buffer, i - consumed)
      BY <1>1, <2>1 DEF MagicsIn
    <2>3. ~MagicAt(stream, i)
      BY <1>1, <2>1, <2>2, BufferFacts
    <2> QED BY <2>1, <2>3 DEF Settled
  <1>7. Passed(stream, cuts, consumed')
    <2>1. consumed' \in Nat /\ consumed <= consumed'
      BY <1>1, <1>2, <1>4, <1>5
    <2> QED BY <1>2, <1>6, <2>1, PassedSkips DEF ExtractorInv, StreamInv
  <1>8. Len(stream') - consumed' < MagicSize
    BY <1>1, <1>2, <1>4, <1>5
  <1> QED BY <1>1, <1>5, <1>7, <1>8 DEF ExtractorInv, StreamInv, AtRest

\* The steps that leave the buffer aligned on a magic it goes on waiting for.
LEMMA AwaitStep ==
  ASSUME ExtractorInv, AwaitHeader \/ AwaitFrame
  PROVE  ExtractorInv'
  <1>1. StreamInv /\ stream' = stream /\ cuts' = cuts /\ feeding' = FALSE
        /\ KeepLast(Len(Aligned)) /\ MagicsIn(buffer) # {}
    BY DEF ExtractorInv, AwaitHeader, AwaitFrame, HeaderComplete
  <1>2. /\ Len(buffer) = Len(stream) - consumed
        /\ Len(stream) \in Nat /\ consumed \in Nat /\ Len(buffer) \in Nat
    BY <1>1, BufferFacts
  <1>3. /\ Found \in Nat \ {0} /\ consumed + 1 <= Found /\ Found <= Len(stream)
        /\ Len(Aligned) = Len(stream) - Found + 1
    BY <1>1, FoundFacts
  <1>4. MagicAt(stream, Found) /\ \A i \in consumed + 1..Found - 1 : Settled(stream, i)
    BY <1>1, FoundFacts
  <1>5. Len(Aligned) \in 0..Len(buffer)
    BY <1>2, <1>3
  <1>6. /\ consumed' = Len(stream) - Len(Aligned) /\ consumed' \in 0..Len(stream')
        /\ buffer' = SubSeq(stream', consumed' + 1, Len(stream'))
    BY <1>1, <1>5, KeepLastFacts
  <1>7. consumed' = Found - 1 /\ consumed' \in Nat /\ consumed <= consumed'
        /\ consumed' + 1 = Found
    BY <1>2, <1>3, <1>6
  <1>8. Passed(stream, cuts, consumed')
    BY <1>2, <1>4, <1>7, PassedSkips DEF ExtractorInv, StreamInv
  <1>9. PendingAt(stream, Found)
    <2>1. CASE AwaitHeader
      <3>1. HeaderSize \in Nat /\ Len(Aligned) < HeaderSize
        BY <2>1, SizeFacts DEF AwaitHeader
      <3>2. Found + HeaderSize - 1 > Len(stream)
        BY <1>2, <1>3, <3>1
      <3> QED BY <1>4, <3>2 DEF PendingAt
    <2>2. CASE AwaitFrame
      <3>1. /\ Aligned[PayloadLengthOffset] = stream[Found + PayloadLengthOffset - 1]
            /\ FrameSizeAt(Aligned, 1) = FrameSizeAt(stream, Found)
            /\ FrameSizeAt(stream, Found) \in Nat
        BY <1>1, <2>2, HeaderFacts DEF AwaitFrame
      <3>2. stream[Found + PayloadLengthOffset - 1] <= MaxPayloadSize
            /\ Len(Aligned) < FrameSizeAt(stream, Found)
        BY <2>2, <3>1 DEF AwaitFrame
      <3>3. Found + FrameSizeAt(stream, Found) - 1 > Len(stream)
        BY <1>2, <1>3, <3>1, <3>2
      <3> QED BY <1>4, <3>2, <3>3 DEF PendingAt
    <2> QED BY <2>1, <2>2
  <1>10. AtRest'
    BY <1>1, <1>7, <1>9 DEF AtRest
  <1> QED BY <1>1, <1>6, <1>8, <1>10 DEF ExtractorInv, StreamInv

LEMMA BadLengthStep ==
  ASSUME ExtractorInv, BadLength
  PROVE  ExtractorInv' /\ Len(buffer') < Len(buffer)
  <1>1. StreamInv /\ stream' = stream /\ cuts' = cuts /\ feeding' = feeding /\ feeding
        /\ KeepLast(Len(Aligned) - 1) /\ MagicsIn(buffer) # {} /\ HeaderComplete
        /\ Aligned[PayloadLengthOffset] > MaxPayloadSize
    BY DEF ExtractorInv, BadLength, HeaderComplete
  <1>2. /\ Len(buffer) = Len(stream) - consumed
        /\ Len(stream) \in Nat /\ consumed \in Nat /\ Len(buffer) \in Nat
    BY <1>1, BufferFacts
  <1>3. /\ Found \in Nat \ {0} /\ consumed + 1 <= Found /\ Found <= Len(stream)
        /\ Len(Aligned) = Len(stream) - Found + 1
    BY <1>1, FoundFacts
  <1>4. Len(Aligned) - 1 \in 0..Len(buffer)
    BY <1>2, <1>3
  <1>5. /\ consumed' = Len(stream) - (Len(Aligned) - 1) /\ consumed' \in 0..Len(stream')
        /\ buffer' = SubSeq(stream', consumed' + 1, Len(stream'))
    BY <1>1, <1>4, KeepLastFacts
  <1>6. consumed' = Found /\ consumed < consumed'
    BY <1>2, <1>3, <1>5
  <1>7. Settled(stream, Found)
    BY <1>1, HeaderFacts DEF Settled
  <1>8. \A i \in consumed + 1..Found - 1 : Settled(stream, i)
    BY <1>1, FoundFacts
  <1>9. \A i \in consumed + 1..Found : i \in consumed + 1..Found - 1 \/ i = Found
    BY <1>2, <1>3
  <1>10. Passed(stream, cuts, Found)
    <2>1. consumed <= Found /\ Found \in Nat
      BY <1>2, <1>3
    <2>2. \A i \in consumed + 1..Found : Settled(stream, i)
      BY <1>7, <1>8, <1>9
    <2> QED BY <1>2, <2>1, <2>2, PassedSkips DEF ExtractorInv, StreamInv
  <1>11. ExtractorInv'
    BY <1>1, <1>5, <1>6, <1>10 DEF ExtractorInv, StreamInv
  <1>12. Len(buffer') = Len(stream') - consumed'
    BY <1>11, TailFacts DEF ExtractorInv, StreamInv
  <1> QED BY <1>1, <1>2, <1>3, <1>6, <1>11, <1>12

LEMMA EmitStep ==
  ASSUME ExtractorInv, EmitFrame
  PROVE  ExtractorInv' /\ Len(buffer') < Len(buffer)
  <1> DEFINE size == FrameSizeAt(stream, Found)
  <1>1. StreamInv /\ MagicsIn(buffer) # {} /\ HeaderComplete /\ feeding
        /\ Aligned[PayloadLengthOffset] <= MaxPayloadSize
    BY DEF ExtractorInv, EmitFrame, HeaderComplete
  <1>2. /\ Found + HeaderSize - 1 <= Len(stream)
        /\ Aligned[PayloadLengthOffset] = stream[Found + PayloadLengthOffset - 1]
        /\ FrameSizeAt(Aligned, 1) = size
    BY <1>1, HeaderFacts
  <1>3. /\ stream' = stream /\ feeding' = feeding
        /\ Len(Aligned) >= size /\ KeepLast(Len(Aligned) - size)
        /\ cuts' = Append(cuts, [start |-> Found, size |-> size])
    BY <1>2 DEF EmitFrame, Found
  <1>4. /\ Len(buffer) = Len(stream) - consumed
        /\ Len(stream) \in Nat /\ consumed \in Nat /\ Len(buffer) \in Nat
    BY <1>1, BufferFacts
  <1>5. /\ Found \in Nat \ {0} /\ consumed + 1 <= Found /\ Found <= Len(stream)
        /\ Len(Aligned) = Len(stream) - Found + 1
    BY <1>1, FoundFacts
  <1>6. MagicAt(stream, Found) /\ \A i \in consumed + 1..Found - 1 : Settled(stream, i)
    BY <1>1, FoundFacts
  <1>7. size \in Nat
    BY <1>1, HeaderFacts
  <1>8. Found + size - 1 <= Len(stream)
    BY <1>3, <1>4, <1>5, <1>7
  <1>9. CandidateAt(stream, Found)
    BY <1>1, <1>2, <1>6, <1>8 DEF CandidateAt
  <1>10. size > 0
    BY <1>5, <1>9, CandidateFacts DEF StreamInv, ExtractorInv
  <1> HIDE DEF size
  <1>11. Len(Aligned) - size \in 0..Len(buffer)
    BY <1>3, <1>4, <1>5, <1>7
  <1>12. /\ consumed' = Len(stream) - (Len(Aligned) - size) /\ consumed' \in 0..Len(stream')
         /\ buffer' = SubSeq(stream', consumed' + 1, Len(stream'))
    BY <1>1, <1>3, <1>11, KeepLastFacts
  <1>13. consumed' = Found + size - 1 /\ consumed < consumed'
    BY <1>4, <1>5, <1>7, <1>10, <1>12
  <1>14. Passed(stream, cuts, Found - 1)
    <2>1. consumed <= Found - 1 /\ Found - 1 \in Nat
      BY <1>4, <1>5
    <2> QED BY <1>4, <1>6, <2>1, PassedSkips DEF ExtractorInv, StreamInv
  <1>15. Passed(stream, cuts', consumed')
    BY <1>3, <1>5, <1>9, <1>13, <1>14, PassedTakes DEF ExtractorInv, StreamInv, size
  <1>16. cuts' \in Seq(Cut)
    <2>1. [start |-> Found, size |-> size] \in Cut
      BY <1>5, <1>7 DEF Cut
    <2> HIDE DEF Cut
    <2> QED BY <1>3, <2>1 DEF ExtractorInv, StreamInv
  <1>17. ExtractorInv'
    BY <1>1, <1>3, <1>12, <1>15, <1>16 DEF ExtractorInv, StreamInv
  <1>18. Len(buffer') = Len(stream') - consumed'
    BY <1>17, TailFacts DEF ExtractorInv, StreamInv
  <1> QED BY <1>3, <1>4, <1>5, <1>7, <1>13, <1>17, <1>18

LEMMA ExtractorInvNext == ExtractorInv /\ [ExtractorNext]_extractorVars => ExtractorInv'
  <1> SUFFICES ASSUME ExtractorInv, [ExtractorNext]_extractorVars PROVE ExtractorInv'
    OBVIOUS
  <1>1. ASSUME NEW bytes \in Seq(Nat), Feed(bytes) PROVE ExtractorInv'
    BY <1>1, FeedStep
  <1>2. CASE Scan
    BY <1>2, NoMagicStep, AwaitStep, BadLengthStep, EmitStep DEF Scan
  <1>3. CASE Take \/ UNCHANGED extractorVars
    <2>1. UNCHANGED <<buffer, feeding, stream, consumed, cuts>>
      BY <1>3 DEF Take, extractorVars
    <2> QED BY <2>1 DEF ExtractorInv, StreamInv, AtRest
  <1>4. CASE Clear
    <2>1. /\ stream' = <<>> /\ cuts' = <<>> /\ consumed' = 0 /\ buffer' = <<>>
          /\ feeding' = feeding
      BY <1>4 DEF Clear
    <2>2. stream' \in Seq(Nat) /\ cuts' \in Seq(Cut) /\ consumed' \in 0..Len(stream')
      BY <2>1
    <2>3. buffer' = SubSeq(stream', consumed' + 1, Len(stream'))
      BY <2>1, NothingPassed
    <2>4. Passed(stream', cuts', consumed')
      BY <2>1, NothingPassed
    <2>5. AtRest'
      BY <2>1, SizeFacts DEF AtRest
    <2> QED BY <2>1, <2>2, <2>3, <2>4, <2>5 DEF ExtractorInv, StreamInv
  <1> QED BY <1>1, <1>2, <1>3, <1>4 DEF ExtractorNext

LEMMA ExtractorInvariant == ExtractorSpec => []ExtractorInv
  BY ExtractorInvInit, ExtractorInvNext, PTL DEF ExtractorSpec

-----------------------------------------------------------------------------
(* The theorems *)

\* The buffer is always the part of the stream that has not been consumed, and
\* no candidate is shorter than a header and a CRC or longer than the largest
\* frame (feed(), FrameCodec.cpp:250-294).
THEOREM ExtractorTypeTheorem == ExtractorSpec => []ExtractorTypeOK
  <1>1. ExtractorInv => ExtractorTypeOK
    <2> SUFFICES ASSUME ExtractorInv, NEW k \in DOMAIN cuts
                 PROVE  cuts[k].size \in MinFrameSize..MaxFrameSize
      BY DEF ExtractorInv, StreamInv, ExtractorTypeOK
    <2>1. k \in 1..Len(cuts) /\ cuts[k].start \in Nat \ {0}
      <3> HIDE DEF Cut
      <3>1. k \in 1..Len(cuts) /\ cuts[k] \in Cut
        BY DEF ExtractorInv, StreamInv
      <3> QED BY <3>1 DEF Cut
    <2>2. CandidateAt(stream, cuts[k].start) /\ cuts[k].size = FrameSizeAt(stream, cuts[k].start)
      BY <2>1 DEF ExtractorInv, Passed
    <2> QED BY <2>1, <2>2, CandidateFacts DEF ExtractorInv, StreamInv
  <1> QED BY <1>1, ExtractorInvariant, PTL

\* Between two calls the extractor holds less than one frame, whatever was fed
\* to it and however it was cut (FrameCodec.cpp:260-291).
THEOREM BufferTheorem == ExtractorSpec => []BufferBounded
  <1>1. ExtractorInv => BufferBounded
    <2> SUFFICES ASSUME ExtractorInv, ~feeding PROVE Len(buffer) < MaxFrameSize
      BY DEF BufferBounded
    <2>1. /\ Len(buffer) = Len(stream) - consumed
          /\ Len(stream) \in Nat /\ consumed \in Nat /\ Len(buffer) \in Nat
      BY BufferFacts DEF ExtractorInv
    <2>2. /\ MagicSize \in Nat /\ HeaderSize = MagicSize + 7 /\ MaxPayloadSize \in Nat
          /\ MaxFrameSize = HeaderSize + MaxPayloadSize + 1
          /\ PayloadLengthOffset = HeaderSize /\ CrcSize = 1
      BY SizeFacts
    <2>3. CASE Len(stream) - consumed < MagicSize
      BY <2>1, <2>2, <2>3
    <2>4. CASE PendingAt(stream, consumed + 1)
      <3>1. CASE consumed + 1 + HeaderSize - 1 > Len(stream)
        BY <2>1, <2>2, <3>1
      <3>2. CASE /\ consumed + 1 + HeaderSize - 1 <= Len(stream)
                 /\ stream[consumed + 1 + PayloadLengthOffset - 1] <= MaxPayloadSize
                 /\ consumed + 1 + FrameSizeAt(stream, consumed + 1) - 1 > Len(stream)
        <4> DEFINE x == stream[consumed + 1 + PayloadLengthOffset - 1]
        <4>1. consumed + 1 + PayloadLengthOffset - 1 \in 1..Len(stream)
          BY <2>1, <2>2, <3>2
        <4>2. x \in Nat /\ x <= MaxPayloadSize
          BY <3>2, <4>1 DEF ExtractorInv, StreamInv
        <4>3. FrameSizeAt(stream, consumed + 1) = HeaderSize + x + 1
          BY <2>2 DEF FrameSizeAt
        <4> HIDE DEF x
        <4> QED BY <2>1, <2>2, <3>2, <4>2, <4>3
      <3>3. consumed + 1 + HeaderSize - 1 \in Int
        BY <2>1, <2>2
      <3> QED BY <2>1, <2>4, <3>1, <3>2, <3>3 DEF PendingAt
    <2> QED BY <2>3, <2>4 DEF ExtractorInv, AtRest
  <1> QED BY <1>1, ExtractorInvariant, PTL

\* Resynchronisation throws no frame away: a candidate whose bytes have left the
\* buffer was handed out or began inside one that was (the erase calls of
\* feed(), FrameCodec.cpp:263-288).
THEOREM NothingDiscardedTheorem == ExtractorSpec => []NoFrameDiscarded
  <1>1. ExtractorInv => NoFrameDiscarded
    <2> SUFFICES ASSUME ExtractorInv, NEW i \in 1..consumed, CandidateAt(stream, i)
                 PROVE  \E k \in DOMAIN cuts : InCut(cuts[k], i)
      BY DEF NoFrameDiscarded, InCut
    <2>1. stream \in Seq(Nat) /\ i \in Nat \ {0} /\ DOMAIN cuts = 1..Len(cuts)
      BY DEF ExtractorInv, StreamInv
    <2>2. ~Settled(stream, i)
      BY <2>1, SettledIsNothing
    <2> QED BY <2>1, <2>2 DEF ExtractorInv, Passed
  <1> QED BY <1>1, ExtractorInvariant, PTL

\* feed() ends (FrameCodec.cpp:256-293): a pass of its loop that does not return
\* leaves fewer bytes in buffer_.
PassShrinks == feeding /\ feeding' => Len(buffer') < Len(buffer)

\* No behaviour stays in the loop of feed() without consuming: the length of
\* buffer_ is a variant of the loop, so it ends whatever the bytes are.
THEOREM FeedEndsTheorem == ExtractorSpec => [][PassShrinks]_extractorVars
  <1>1. ExtractorInv /\ [ExtractorNext]_extractorVars => [PassShrinks]_extractorVars
    <2> SUFFICES ASSUME ExtractorInv, ExtractorNext, feeding, feeding'
                 PROVE  Len(buffer') < Len(buffer)
      BY DEF PassShrinks
    <2>1. BadLength \/ EmitFrame
      BY DEF ExtractorNext, Feed, Take, Clear, Scan, NoMagic, AwaitHeader, AwaitFrame
    <2> QED BY <2>1, BadLengthStep, EmitStep
  <1> QED BY <1>1, ExtractorInvariant, PTL DEF ExtractorSpec

-----------------------------------------------------------------------------
(* The reference pass over a whole stream *)

Reference(s) == CHOOSE f : f = [i \in 1..Len(s) + 1 |-> PassFrom(s, f, i)]

\* The pass at i depends on later positions only.
LEMMA PassLooksAhead ==
  ASSUME NEW s \in Seq(Nat), NEW i \in 1..Len(s) + 1, NEW f, NEW g,
         \A j \in i + 1..Len(s) + 1 : f[j] = g[j]
  PROVE  PassFrom(s, f, i) = PassFrom(s, g, i)
  <1>1. CASE i > Len(s) \/ PendingAt(s, i)
    BY <1>1 DEF PassFrom
  <1>2. CASE ~(i > Len(s) \/ PendingAt(s, i)) /\ CandidateAt(s, i)
    <2>1. FrameSizeAt(s, i) \in Nat /\ FrameSizeAt(s, i) > 0 /\ i + FrameSizeAt(s, i) - 1 <= Len(s)
      BY <1>2, CandidateFacts
    <2>2. i + FrameSizeAt(s, i) \in i + 1..Len(s) + 1
      BY <2>1
    <2> QED BY <1>2, <2>2 DEF PassFrom
  <1>3. CASE ~(i > Len(s) \/ PendingAt(s, i)) /\ ~CandidateAt(s, i)
    <2>1. i + 1 \in i + 1..Len(s) + 1
      BY <1>3
    <2> QED BY <1>3, <2>1 DEF PassFrom
  <1> QED BY <1>1, <1>2, <1>3

\* The recursive definition of the reference defines something: it is built
\* from the end of the stream backwards.
LEMMA ReferenceExists ==
  ASSUME NEW s \in Seq(Nat)
  PROVE  \A i \in 1..Len(s) + 1 : Reference(s)[i] = PassFrom(s, Reference(s), i)
  <1> DEFINE L == Len(s) + 1
             Good(g, n) == \A i \in 1..L : i > L - n => g[i] = PassFrom(s, g, i)
             Reached == {n \in Nat : \E g : Good(g, n)}
  <1>0. L \in Nat /\ L = Len(s) + 1
    OBVIOUS
  <1> HIDE DEF L
  <1>1. 0 \in Reached
    <2>1. Good(<<>>, 0)
      BY <1>0
    <2> QED BY <2>1
  <1>2. ASSUME NEW n \in Nat, n \in Reached PROVE n + 1 \in Reached
    <2>1. PICK g : Good(g, n)
      BY <1>2
    <2> DEFINE h == [i \in 1..L |-> IF i = L - n THEN PassFrom(s, g, i) ELSE g[i]]
    <2>2. ASSUME NEW i \in 1..L, i > L - (n + 1) PROVE h[i] = PassFrom(s, h, i)
      <3>1. \A j \in i + 1..L : j \in 1..L /\ j # L - n
        BY <1>0, <2>2
      <3>2. \A j \in i + 1..L : h[j] = g[j]
        BY <3>1
      <3>3. PassFrom(s, h, i) = PassFrom(s, g, i)
        BY <1>0, <3>2, PassLooksAhead
      <3>4. CASE i = L - n
        BY <3>3, <3>4
      <3>5. CASE i # L - n
        <4>1. i > L - n
          BY <1>0, <2>2, <3>5
        <4> QED BY <2>1, <3>3, <3>5, <4>1
      <3> QED BY <3>4, <3>5
    <2>3. Good(h, n + 1)
      BY <2>2
    <2> HIDE DEF h, Good
    <2> QED BY <2>3
  <1>3. Nat \subseteq Reached
    <2> HIDE DEF Reached
    <2> QED BY <1>1, <1>2, SetInduction
  <1>4. PICK g : Good(g, L)
    BY <1>0, <1>3
  <1>5. \A i \in 1..L : g[i] = PassFrom(s, g, i)
    BY <1>0, <1>4
  <1> DEFINE f == [i \in 1..L |-> g[i]]
  <1>6. \A i \in 1..L : f[i] = PassFrom(s, f, i)
    <2> TAKE i \in 1..L
    <2>1. \A j \in i + 1..L : j \in 1..L
      BY <1>0
    <2>2. \A j \in i + 1..L : f[j] = g[j]
      BY <2>1
    <2>3. PassFrom(s, f, i) = PassFrom(s, g, i)
      BY <1>0, <2>2, PassLooksAhead
    <2> QED BY <1>5, <2>3
  <1>7. f = [i \in 1..L |-> PassFrom(s, f, i)]
    BY <1>6
  <1> HIDE DEF f
  <1>8. Reference(s) = [i \in 1..L |-> PassFrom(s, Reference(s), i)]
    BY <1>0, <1>7 DEF Reference
  <1>9. \A i \in 1..L : [j \in 1..L |-> PassFrom(s, Reference(s), j)][i]
                          = PassFrom(s, Reference(s), i)
    OBVIOUS
  <1> QED BY <1>0, <1>8, <1>9

LEMMA CutsOfIsReference ==
  ASSUME NEW s
  PROVE  CutsOf(s) = Reference(s)[1]
  BY DEF CutsOf, Reference

\* A run of positions the pass just moves over.
LEMMA EqualAlong ==
  ASSUME NEW f, NEW a \in Nat, NEW b \in Nat, a <= b,
         \A i \in a..(b - 1) : f[i] = f[i + 1]
  PROVE  f[a] = f[b]
  <1> DEFINE Same == {n \in Nat : a + n <= b => f[a] = f[a + n]}
  <1>1. 0 \in Same
    OBVIOUS
  <1>2. ASSUME NEW n \in Nat, n \in Same PROVE n + 1 \in Same
    <2> SUFFICES ASSUME a + (n + 1) <= b PROVE f[a] = f[a + (n + 1)]
      OBVIOUS
    <2>1. a + n <= b /\ a + n \in a..(b - 1) /\ (a + n) + 1 = a + (n + 1)
      OBVIOUS
    <2>2. f[a + n] = f[(a + n) + 1]
      BY <2>1
    <2> QED BY <1>2, <2>1, <2>2
  <1>3. Nat \subseteq Same
    <2> HIDE DEF Same
    <2> QED BY <1>1, <1>2, SetInduction
  <1>4. b - a \in Nat /\ a + (b - a) = b
    OBVIOUS
  <1>5. b - a \in Same
    BY <1>3, <1>4
  <1> QED BY <1>4, <1>5

LEMMA ReferenceSkips ==
  ASSUME NEW s \in Seq(Nat), NEW i \in 1..Len(s), ~CandidateAt(s, i), ~PendingAt(s, i)
  PROVE  Reference(s)[i] = Reference(s)[i + 1]
  <1>1. i \in 1..Len(s) + 1 /\ ~(i > Len(s))
    OBVIOUS
  <1>2. Reference(s)[i] = PassFrom(s, Reference(s), i)
    BY <1>1, ReferenceExists
  <1> QED BY <1>1, <1>2 DEF PassFrom

\* A pass that is over, or waits, has made the cuts of the reference.
LEMMA PassedIsReference ==
  ASSUME NEW s \in Seq(Nat), NEW cs \in Seq(Cut), NEW c \in 0..Len(s), Passed(s, cs, c),
         Len(s) - c < MagicSize \/ PendingAt(s, c + 1)
  PROVE  cs = CutsOf(s)
  <1> DEFINE f == Reference(s)
             n == Len(cs)
             e(k) == EndOf(cs, k)
  <1>0. Len(s) \in Nat /\ c \in Nat /\ c <= Len(s) /\ n \in Nat /\ MagicSize \in Nat
    BY SizeFacts
  <1>1. \A k \in 1..n : cs[k] \in Cut
    OBVIOUS
  <1>2. \A k \in 1..n : /\ cs[k].start \in Nat \ {0} /\ cs[k].size \in Nat
                        /\ cs[k] = [start |-> cs[k].start, size |-> cs[k].size]
    BY <1>1 DEF Cut
  <1>3. \A k \in 0..n : e(k) \in Nat \ {0}
    <2> TAKE k \in 0..n
    <2>1. CASE k = 0
      BY <2>1 DEF EndOf
    <2>2. CASE k \in 1..n
      <3>0. cs[k].start \in Nat \ {0} /\ cs[k].size \in Nat
        BY <1>2, <2>2
      <3>1. cs[k].start + cs[k].size \in Nat \ {0} /\ k # 0
        BY <2>2, <3>0
      <3> QED BY <3>1 DEF EndOf
    <2> QED BY <1>0, <2>1, <2>2
  <1>4. /\ \A k \in 1..n :
             /\ CandidateAt(s, cs[k].start)
             /\ cs[k].size = FrameSizeAt(s, cs[k].start)
             /\ e(k - 1) <= cs[k].start
             /\ \A i \in e(k - 1)..(cs[k].start - 1) : Settled(s, i)
        /\ e(n) <= c + 1
        /\ \A i \in e(n)..c : Settled(s, i)
    BY DEF Passed
  <1>5. \A k \in 1..n : e(k) = cs[k].start + cs[k].size
    BY <1>0 DEF EndOf
  <1>6. e(0) = 1
    BY DEF EndOf
  <1> HIDE DEF f, n, e, Cut
  <1>7. \A i \in 1..Len(s) : Settled(s, i) => f[i] = f[i + 1]
    BY SettledIsNothing, ReferenceSkips DEF f
  <1>8. f[c + 1] = <<>>
    <2>1. CASE PendingAt(s, c + 1)
      <3>1. c + 1 \in 1..Len(s) + 1
        BY <1>0
      <3>2. f[c + 1] = PassFrom(s, f, c + 1)
        BY <3>1, ReferenceExists DEF f
      <3> QED BY <2>1, <3>2 DEF PassFrom
    <2>2. CASE Len(s) - c < MagicSize
      <3>1. ASSUME NEW i \in c + 1..(Len(s) + 1 - 1) PROVE f[i] = f[i + 1]
        <4>1. i \in 1..Len(s) /\ ~(i + MagicSize - 1 <= Len(s))
          BY <1>0, <2>2
        <4>2. ~MagicAt(s, i)
          BY <4>1 DEF MagicAt
        <4> QED BY <4>1, <4>2, ReferenceSkips DEF f, CandidateAt, PendingAt
      <3>2. c + 1 \in Nat /\ Len(s) + 1 \in Nat /\ c + 1 <= Len(s) + 1
        BY <1>0
      <3>3. f[c + 1] = f[Len(s) + 1]
        <4> DEFINE z == Len(s) + 1
        <4>1. c + 1 \in Nat /\ z \in Nat /\ c + 1 <= z /\ \A i \in c + 1..(z - 1) : f[i] = f[i + 1]
          <5>1. \A i \in c + 1..(Len(s) + 1 - 1) : f[i] = f[i + 1]
            BY <3>1
          <5> QED BY <3>2, <5>1
        <4> HIDE DEF z, f
        <4>2. f[c + 1] = f[z]
          BY <4>1, EqualAlong
        <4> QED BY <4>2 DEF z
      <3>4. Len(s) + 1 \in 1..Len(s) + 1 /\ Len(s) + 1 > Len(s)
        BY <1>0
      <3>5. f[Len(s) + 1] = PassFrom(s, f, Len(s) + 1)
        BY <3>4, ReferenceExists DEF f
      <3> QED BY <3>3, <3>4, <3>5 DEF PassFrom
    <2> QED BY <2>1, <2>2
  <1>9. f[e(n)] = <<>>
    <2>1. e(n) \in Nat \ {0} /\ c + 1 \in Nat
      BY <1>0, <1>3
    <2>2. ASSUME NEW i \in e(n)..(c + 1 - 1) PROVE f[i] = f[i + 1]
      <3>1. i \in 1..Len(s) /\ i \in e(n)..c
        BY <1>0, <2>1
      <3> QED BY <1>4, <1>7, <3>1
    <2>3. e(n) <= c + 1
      BY <1>4
    <2>4. f[e(n)] = f[c + 1]
      BY <2>1, <2>2, <2>3, EqualAlong
    <2> QED BY <1>8, <2>4
  <1> DEFINE Right == {m \in Nat : m <= n => f[e(n - m)] = SubSeq(cs, n - m + 1, n)}
  <1>10. 0 \in Right
    <2>1. n - 0 = n /\ n - 0 + 1 > n /\ n - 0 + 1 \in Int /\ n \in Int
      BY <1>0
    <2>2. SubSeq(cs, n - 0 + 1, n) = <<>>
      BY <2>1, SubSeqEmpty
    <2> QED BY <1>9, <2>1, <2>2
  <1>11. ASSUME NEW m \in Nat, m \in Right PROVE m + 1 \in Right
    <2> SUFFICES ASSUME m + 1 <= n
                 PROVE  f[e(n - (m + 1))] = SubSeq(cs, n - (m + 1) + 1, n)
      OBVIOUS
    <2> DEFINE k == n - m
    <2>1. k \in 1..n /\ k - 1 = n - (m + 1) /\ k = n - (m + 1) + 1 /\ k - 1 \in 0..n /\ m <= n
      BY <1>0
    <2>2. f[e(k)] = SubSeq(cs, k + 1, n)
      BY <1>11, <2>1
    <2> HIDE DEF k
    <2> DEFINE p == cs[k].start
               q == cs[k].size
    <2>3. p \in Nat \ {0} /\ q \in Nat /\ CandidateAt(s, p) /\ q = FrameSizeAt(s, p)
          /\ e(k) = p + q /\ cs[k] = [start |-> p, size |-> q]
      BY <1>2, <1>4, <1>5, <2>1
    <2>4. e(k - 1) \in Nat \ {0} /\ e(k - 1) <= p
          /\ \A i \in e(k - 1)..(p - 1) : Settled(s, i)
      BY <1>3, <1>4, <2>1
    <2> HIDE DEF p, q
    <2>5. q > 0 /\ p + q - 1 <= Len(s)
      BY <2>3, CandidateFacts
    <2>6. p \in 1..Len(s) /\ p \in 1..Len(s) + 1
      <3>1. Len(s) \in Nat /\ p \in Nat \ {0} /\ q \in Nat
        BY <1>0, <2>3
      <3> QED BY <2>5, <3>1
    <2>7. f[e(k - 1)] = f[p]
      <3>1. ASSUME NEW i \in e(k - 1)..(p - 1) PROVE f[i] = f[i + 1]
        <4>1. i \in 1..Len(s)
          <5> DEFINE d == e(k - 1)
          <5>1. d \in Nat \ {0} /\ Len(s) \in Nat /\ i \in d..(p - 1) /\ p \in 1..Len(s)
            BY <1>0, <2>4, <2>6
          <5> HIDE DEF d
          <5> QED BY <5>1
        <4> QED BY <1>7, <2>4, <4>1
      <3> QED BY <2>3, <2>4, <3>1, EqualAlong
    <2>8. f[p] = PassFrom(s, f, p)
      BY <2>6, ReferenceExists DEF f
    <2>9. ~PendingAt(s, p) /\ ~(p > Len(s))
      <3>1. ~(p > Len(s)) /\ ~(p + FrameSizeAt(s, p) - 1 > Len(s))
        <4>1. Len(s) \in Nat /\ p \in 1..Len(s) /\ q \in Nat /\ p + q - 1 <= Len(s)
          BY <1>0, <2>3, <2>5, <2>6
        <4>2. ~(p > Len(s)) /\ ~(p + q - 1 > Len(s))
          BY <4>1
        <4> QED BY <2>3, <4>2
      <3>2. HeaderSize \in Nat /\ p + HeaderSize - 1 <= Len(s)
        BY <2>3, SizeFacts DEF CandidateAt
      <3>3. ~(p + HeaderSize - 1 > Len(s))
        BY <1>0, <2>3, <3>2
      <3> QED BY <3>1, <3>3 DEF PendingAt
    <2>10. f[p] = <<cs[k]>> \o f[p + q]
      BY <2>3, <2>8, <2>9 DEF PassFrom
    <2>11. SubSeq(cs, k, n) = <<cs[k]>> \o SubSeq(cs, k + 1, n)
      <3>1. k \in 1..Len(cs) /\ n \in k..Len(cs)
        BY <1>0, <2>1 DEF n
      <3> QED BY <3>1, SubSeqRecursiveFirst
    <2> QED BY <2>1, <2>2, <2>3, <2>7, <2>10, <2>11
  <1>12. Nat \subseteq Right
    <2> HIDE DEF Right
    <2> QED BY <1>10, <1>11, SetInduction
  <1>13. f[e(n - n)] = SubSeq(cs, n - n + 1, n)
    BY <1>0, <1>12
  <1>14. n - n = 0 /\ n - n + 1 = 1
    BY <1>0
  <1>15. f[1] = cs
    BY <1>6, <1>13, <1>14, SubSeqFull DEF n
  <1> QED BY <1>15, CutsOfIsReference DEF f

\* How TCP cuts a stream into reads makes no difference (feed(),
\* FrameCodec.cpp:250-294): after every call, the candidates handed out so far
\* are those that one pass over everything received finds, for every stream and
\* every sequence of reads.
THEOREM ChunkingTheorem == ExtractorSpec => []ChunkingIrrelevant
  <1>1. ExtractorInv => ChunkingIrrelevant
    BY PassedIsReference DEF ExtractorInv, StreamInv, AtRest, ChunkingIrrelevant
  <1> QED BY <1>1, ExtractorInvariant, PTL

-----------------------------------------------------------------------------
(* What the simulator puts on the link *)

\* Checksums and damaged symbols are symbols.
NaturalSymbols ==
  /\ \A s \in Seq(Nat) : Crc(s) \in Nat
  /\ \A b \in Nat : SymbolXor(b, CorruptionXorMask) \in Nat

Carried == {x \in SentItems : x.bytes \in Seq(Nat) /\ EncodeFrame(x.frame) \in Seq(Nat)}

\* Made of symbols that are natural numbers.
LEMMA FramesNatural ==
  ASSUME NaturalSymbols, options \in ParsedOptions, NEW i \in Nat, NEW f \in FramesOf(i)
  PROVE  EncodeFrame(f) \in Seq(Nat)
  <1>1. PICK time \in Timestamps, temperature \in Temperatures, status \in 0..SafeMode, p \in PayloadsOf(i) :
          f = [version |-> ProtocolVersion, satelliteId |-> SatelliteId, timestampMs |-> time,
               temperatureC |-> temperature, batteryPercent |-> BatteryOf(i), status |-> status,
               payload |-> p]
    BY DEF FramesOf
  <1>2. p \in Seq(Nat)
    <2>1. options.message \in Seq(Nat)
      BY SymbolAssumption DEF ParsedOptions
    <2>2. /\ SignalFormat.sampleRateHz \in Nat /\ SignalFormat.frequencyHz \in Nat
          /\ SignalFormat.nominalAmplitude \in Nat
      BY SymbolAssumption
    <2>3. ApplicationPayloadMagic \in Seq(Nat) /\ RandomPayloads \subseteq Seq(Nat) /\ SampleValues \subseteq Nat
      BY SymbolAssumption
    <2> QED BY <2>1, <2>2, <2>3, PayloadsOver
  <1>3. BatteryOf(i) \in Nat
    <2>1. MaxBatteryPercent \in Nat
      BY CodecAssumption
    <2>2. i % (MaxBatteryPercent + 1) \in 0..MaxBatteryPercent
      BY <2>1
    <2> QED BY <2>1, <2>2 DEF BatteryOf
  <1> DEFINE h == <<f.version, f.satelliteId, f.timestampMs, f.temperatureC,
                    f.batteryPercent, f.status, Len(f.payload)>>
             m == FrameMagic
             g == m \o h
             b == g \o p
  <1>4. /\ f.version \in Nat /\ f.satelliteId \in Nat /\ f.timestampMs \in Nat /\ f.temperatureC \in Nat
        /\ f.batteryPercent \in Nat /\ f.status \in Nat /\ f.payload = p
    BY <1>1, <1>3, SymbolAssumption
  <1>5. h \in Seq(Nat) /\ m \in Seq(Nat)
    BY <1>2, <1>4, SymbolAssumption
  <1>6. FrameBody(f) = b
    BY <1>4 DEF FrameBody
  <1> HIDE DEF h, m
  <1>7. g \in Seq(Nat)
    BY <1>5
  <1> HIDE DEF g
  <1>8. b \in Seq(Nat)
    BY <1>2, <1>7
  <1>9. Crc(b) \in Nat
    BY <1>8 DEF NaturalSymbols
  <1> HIDE DEF b
  <1>10. Append(b, Crc(b)) \in Seq(Nat)
    BY <1>8, <1>9
  <1> QED BY <1>6, <1>10 DEF EncodeFrame

LEMMA CarriedItem ==
  ASSUME NaturalSymbols, NEW x \in SentItems, EncodeFrame(x.frame) \in Seq(Nat)
  PROVE  x \in Carried
  <1> DEFINE e == EncodeFrame(x.frame)
             d == x.damage
  <1>1. CASE d = 0
    BY <1>1, SentFacts DEF Carried
  <1>2. CASE d # 0
    <2>1. d \in DOMAIN e /\ x.bytes = Corrupt(e, d) /\ e \in Seq(Nat)
      BY <1>2, SentFacts
    <2> HIDE DEF e, d
    <2>2. d \in 1..Len(e) /\ e[d] \in Nat
      BY <2>1
    <2>3. SymbolXor(e[d], CorruptionXorMask) \in Nat
      BY <2>2 DEF NaturalSymbols
    <2>4. Corrupt(e, d) = [e EXCEPT ![d] = SymbolXor(e[d], CorruptionXorMask)]
      BY DEF Corrupt
    <2>5. Corrupt(e, d) \in Seq(Nat)
      BY <2>1, <2>2, <2>3, <2>4
    <2> QED BY <2>1, <2>5 DEF Carried, e
  <1> QED BY <1>1, <1>2

\* The shape of what is carried, damaged or not.
LEMMA CarriedFacts ==
  ASSUME NEW x \in Carried
  PROVE  /\ x \in SentItems /\ x.bytes \in Seq(Nat) /\ x.damage \in Nat
         /\ x.frame \in Frames /\ Encodable(x.frame)
         /\ EncodeFrame(x.frame) \in Seq(Nat) /\ Len(EncodeFrame(x.frame)) = Len(x.bytes)
         /\ Len(x.bytes) \in MinFrameSize..MaxFrameSize
         /\ x.damage = 0 => x.bytes = EncodeFrame(x.frame)
         /\ x.damage # 0 => x.damage \in 1..Len(x.bytes)
         /\ \A i \in 1..Len(x.bytes) : i # x.damage => x.bytes[i] = EncodeFrame(x.frame)[i]
         /\ \A i \in 1..MagicSize : EncodeFrame(x.frame)[i] = FrameMagic[i]
         /\ EncodeFrame(x.frame)[PayloadLengthOffset] = Len(x.bytes) - MinFrameSize
  <1> DEFINE e == EncodeFrame(x.frame)
             b == FrameBody(x.frame)
  <1>1. /\ x \in SentItems /\ x.bytes \in Seq(Nat) /\ x.damage \in Nat
        /\ x.frame \in Frames /\ Encodable(x.frame) /\ e \in Seq(Nat)
        /\ LegalEntryLength(Len(x.bytes))
    BY SentFacts DEF Carried
  <1>2. /\ x.damage = 0 => x.bytes = e
        /\ x.damage # 0 => x.damage \in DOMAIN e /\ x.bytes = Corrupt(e, x.damage)
    BY <1>1, SentFacts
  <1>3. e \in Seq(Symbol) /\ Len(e) = Len(b) + 1 /\ (\A i \in 1..Len(b) : e[i] = b[i])
    BY <1>1, EncodeFacts
  <1>4. /\ b \in Seq(Int) /\ Len(b) = HeaderSize + Len(x.frame.payload)
        /\ (\A i \in 1..MagicSize : b[i] = FrameMagic[i])
        /\ b[PayloadLengthOffset] = Len(x.frame.payload)
    BY <1>1, BodyFacts
  <1>5. Len(x.frame.payload) \in Nat
    BY <1>1 DEF Frames
  <1> HIDE DEF e, b
  <1>6. /\ Len(x.bytes) = Len(e)
        /\ x.damage # 0 => x.damage \in 1..Len(e)
        /\ \A i \in 1..Len(e) : i # x.damage => x.bytes[i] = e[i]
    <2>1. CASE x.damage = 0
      BY <1>2, <2>1
    <2>2. CASE x.damage # 0
      <3>1. x.damage \in DOMAIN e /\ x.bytes = Corrupt(e, x.damage)
        BY <1>2, <2>2
      <3>2. /\ Len(Corrupt(e, x.damage)) = Len(e)
            /\ \A i \in 1..Len(e) \ {x.damage} : Corrupt(e, x.damage)[i] = e[i]
        BY <1>3, <3>1, CorruptFacts
      <3>3. x.damage \in 1..Len(e)
        BY <1>3, <3>1
      <3> QED BY <3>1, <3>2, <3>3
    <2> QED BY <2>1, <2>2
  <1>7. Len(x.bytes) \in MinFrameSize..MaxFrameSize
    <2>1. Len(x.bytes) \in Nat /\ MinFrameSize \in Nat /\ MaxFrameSize \in Nat
      BY <1>1, SizeFacts
    <2> QED BY <1>1, <2>1 DEF LegalEntryLength
  <1>8. \A i \in 1..MagicSize : e[i] = FrameMagic[i]
    <2> DEFINE l == Len(b)
               y == Len(x.frame.payload)
    <2>1. MagicSize \in Nat /\ HeaderSize = MagicSize + 7 /\ l = HeaderSize + y /\ y \in Nat
      BY <1>4, <1>5, SizeFacts
    <2> HIDE DEF l, y
    <2>2. \A i \in 1..MagicSize : i \in 1..l
      BY <2>1
    <2> QED BY <1>3, <1>4, <2>2 DEF l
  <1>9. e[PayloadLengthOffset] = Len(x.bytes) - MinFrameSize
    <2> DEFINE l == Len(b)
               y == Len(x.frame.payload)
               z == Len(e)
    <2>1. /\ MagicSize \in Nat /\ HeaderSize = MagicSize + 7 /\ l = HeaderSize + y /\ y \in Nat
          /\ PayloadLengthOffset = HeaderSize /\ MinFrameSize = HeaderSize + 1 /\ z = l + 1
      BY <1>3, <1>4, <1>5, SizeFacts
    <2> HIDE DEF l, y, z
    <2>2. PayloadLengthOffset \in 1..l /\ y = z - MinFrameSize
      BY <2>1
    <2>3. e[PayloadLengthOffset] = y
      BY <1>3, <1>4, <2>2 DEF l, y
    <2> QED BY <1>6, <2>2, <2>3 DEF z
  <1> QED BY <1>1, <1>2, <1>6, <1>7, <1>8, <1>9 DEF e

-----------------------------------------------------------------------------
(* Where the frames lie in the stream of a connection *)

Place == [start : Nat \ {0}, size : Nat, bad : SUBSET Nat]

Width(f) == IF f.size = 0 THEN 1 ELSE f.size

InPlace(f, i) == i \in f.start..(f.start + Width(f) - 1)

\* x lies at f, as far as it has been written to t.
Carries(f, x, t) ==
  /\ f.size = Len(x.bytes)
  /\ f.bad = {f.start + d - 1 : d \in {x.damage} \ {0}}
  /\ \A i \in 1..f.size : f.start + i - 1 <= Len(t) => t[f.start + i - 1] = x.bytes[i]

Foreign(f) == f.size = 0 /\ f.bad = {f.start}

\* The places of lay hold the items and foreign symbols, do not overlap, and
\* leave no symbol of t without one.
Tiled(lay, items, t) ==
  /\ \A k \in 1..Len(lay) : Foreign(lay[k]) \/ \E j \in 1..Len(items) : Carries(lay[k], items[j], t)
  /\ \A k, l \in 1..Len(lay) : k < l => lay[k].start + Width(lay[k]) <= lay[l].start
  /\ \A i \in 1..Len(t) : \E k \in 1..Len(lay) : InPlace(lay[k], i)

BadOf(lay) == UNION {lay[k].bad : k \in 1..Len(lay)}

LEMMA PlaceFacts ==
  ASSUME NEW lay \in Seq(Place), NEW k \in 1..Len(lay)
  PROVE  /\ lay[k] \in Place /\ lay[k].start \in Nat \ {0} /\ lay[k].size \in Nat
         /\ Width(lay[k]) \in Nat \ {0} /\ (lay[k].size # 0 => Width(lay[k]) = lay[k].size)
  <1>1. lay[k] \in Place
    <2> HIDE DEF Place
    <2> QED OBVIOUS
  <1>2. lay[k].start \in Nat \ {0} /\ lay[k].size \in Nat
    BY <1>1 DEF Place
  <1> QED BY <1>1, <1>2 DEF Width

\* The item that holds an undamaged position.
LEMMA OwnerOf ==
  ASSUME NEW lay \in Seq(Place), NEW items \in Seq(Carried), NEW t \in Seq(Nat),
         Tiled(lay, items, t), NEW i \in 1..Len(t), i \notin BadOf(lay)
  PROVE  \E k \in 1..Len(lay), j \in 1..Len(items) :
           InPlace(lay[k], i) /\ lay[k].size # 0 /\ Carries(lay[k], items[j], t)
  <1>1. PICK k \in 1..Len(lay) : InPlace(lay[k], i)
    BY DEF Tiled
  <1>2. lay[k].start \in Nat \ {0} /\ lay[k].size \in Nat
    BY PlaceFacts
  <1>3. ~Foreign(lay[k])
    <2> SUFFICES ASSUME Foreign(lay[k]) PROVE FALSE
      OBVIOUS
    <2>1. Width(lay[k]) = 1 /\ lay[k].bad = {lay[k].start}
      BY DEF Foreign, Width
    <2>2. i = lay[k].start
      BY <1>1, <1>2, <2>1 DEF InPlace
    <2> QED BY <2>1, <2>2 DEF BadOf
  <1>4. PICK j \in 1..Len(items) : Carries(lay[k], items[j], t)
    BY <1>3 DEF Tiled
  <1>5. lay[k].size # 0
    <2>1. items[j] \in Carried
      OBVIOUS
    <2>2. Len(items[j].bytes) \in MinFrameSize..MaxFrameSize /\ MinFrameSize \in Nat /\ MinFrameSize > 0
          /\ MaxFrameSize \in Nat
      BY <2>1, CarriedFacts, SizeFacts
    <2>3. lay[k].size = Len(items[j].bytes)
      BY <1>4 DEF Carries
    <2> QED BY <2>2, <2>3
  <1> QED BY <1>1, <1>4, <1>5

\* Every undamaged position of the place f holds what the encoder wrote there for x.
Owned(f, x, t, lay) ==
  \A i \in 1..f.size :
    (f.start + i - 1 <= Len(t) /\ f.start + i - 1 \notin BadOf(lay))
      => t[f.start + i - 1] = EncodeFrame(x.frame)[i]

\* An undamaged position of an item holds what the encoder wrote.
LEMMA OwnedSymbols ==
  ASSUME NEW lay \in Seq(Place), NEW k \in 1..Len(lay), NEW x \in Carried, NEW t \in Seq(Nat),
         Carries(lay[k], x, t)
  PROVE  Owned(lay[k], x, t, lay)
  <1> SUFFICES ASSUME NEW i \in 1..lay[k].size,
                      lay[k].start + i - 1 <= Len(t), lay[k].start + i - 1 \notin BadOf(lay)
               PROVE  t[lay[k].start + i - 1] = EncodeFrame(x.frame)[i]
    BY DEF Owned
  <1>1. lay[k].start \in Nat \ {0} /\ lay[k].size \in Nat
    BY PlaceFacts
  <1>2. lay[k].size = Len(x.bytes) /\ t[lay[k].start + i - 1] = x.bytes[i]
    BY DEF Carries
  <1>3. i # x.damage
    <2> SUFFICES ASSUME i = x.damage PROVE FALSE
      OBVIOUS
    <2>1. i # 0
      BY <1>1
    <2>2. lay[k].start + i - 1 \in lay[k].bad
      BY <2>1 DEF Carries
    <2> QED BY <2>2 DEF BadOf
  <1>4. x.bytes[i] = EncodeFrame(x.frame)[i]
    BY <1>2, <1>3, CarriedFacts
  <1> QED BY <1>2, <1>4

\* An item none of whose positions is bad is undamaged.
LEMMA OwnedWhole ==
  ASSUME NEW lay \in Seq(Place), NEW k \in 1..Len(lay), NEW x \in Carried, NEW t,
         Carries(lay[k], x, t),
         \A i \in lay[k].start..(lay[k].start + lay[k].size - 1) : i \notin BadOf(lay)
  PROVE  x.damage = 0 /\ x.bytes = EncodeFrame(x.frame)
  <1>1. lay[k].start \in Nat \ {0} /\ lay[k].size \in Nat
    BY PlaceFacts
  <1>2. lay[k].size = Len(x.bytes)
    BY DEF Carries
  <1>3. x.damage = 0
    <2> SUFFICES ASSUME x.damage # 0 PROVE FALSE
      OBVIOUS
    <2>1. x.damage \in 1..Len(x.bytes)
      BY CarriedFacts
    <2>2. lay[k].start + x.damage - 1 \in lay[k].bad
      BY DEF Carries
    <2>3. lay[k].start + x.damage - 1 \in lay[k].start..(lay[k].start + lay[k].size - 1)
      BY <1>1, <1>2, <2>1
    <2> QED BY <2>2, <2>3 DEF BadOf
  <1> QED BY <1>3, CarriedFacts

\* Two places that share a position are the same.
LEMMA OnePlace ==
  ASSUME NEW lay \in Seq(Place), NEW items, NEW t, Tiled(lay, items, t),
         NEW k \in 1..Len(lay), NEW l \in 1..Len(lay), NEW i,
         InPlace(lay[k], i), InPlace(lay[l], i)
  PROVE  k = l
  <1> DEFINE a == lay[k].start
             b == lay[l].start
             v == Width(lay[k])
             w == Width(lay[l])
  <1>1. a \in Nat \ {0} /\ b \in Nat \ {0} /\ v \in Nat \ {0} /\ w \in Nat \ {0}
    BY PlaceFacts
  <1>2. (k < l => a + v <= b) /\ (l < k => b + w <= a)
    BY DEF Tiled
  <1>3. i \in a..(a + v - 1) /\ i \in b..(b + w - 1)
    BY DEF InPlace
  <1> HIDE DEF a, b, v, w
  <1>4. ~(k < l) /\ ~(l < k)
    BY <1>1, <1>2, <1>3
  <1> QED BY <1>4

\* Where an item ends, the next place begins.
LEMMA NextPlace ==
  ASSUME NEW lay \in Seq(Place), NEW items, NEW t \in Seq(Nat), Tiled(lay, items, t),
         NEW k \in 1..Len(lay), lay[k].start + Width(lay[k]) <= Len(t)
  PROVE  \E l \in 1..Len(lay) : lay[l].start = lay[k].start + Width(lay[k])
  <1> DEFINE a == lay[k].start
             v == Width(lay[k])
             g == a + v
  <1>1. a \in Nat \ {0} /\ v \in Nat \ {0}
    BY PlaceFacts
  <1> HIDE DEF a, v
  <1>2. g \in 1..Len(t)
    BY <1>1 DEF a, v
  <1>3. PICK l \in 1..Len(lay) : InPlace(lay[l], g)
    BY <1>2 DEF Tiled
  <1> DEFINE b == lay[l].start
             w == Width(lay[l])
  <1>4. b \in Nat \ {0} /\ w \in Nat \ {0} /\ g \in b..(b + w - 1)
    BY <1>3, PlaceFacts DEF InPlace
  <1> HIDE DEF b, w
  <1>5. CASE b = g
    BY <1>5 DEF b, a, v
  <1>6. CASE b # g
    <2>1. g - 1 \in b..(b + w - 1) /\ g - 1 \in a..(a + v - 1)
      BY <1>1, <1>4, <1>6
    <2>2. k = l
      BY <2>1, OnePlace DEF InPlace, a, b, v, w
    <2>3. g \in a..(a + v - 1)
      BY <1>4, <2>2 DEF a, b, v, w
    <2> QED BY <1>1, <2>3
  <1> QED BY <1>5, <1>6

LEMMA FirstPlace ==
  ASSUME NEW lay \in Seq(Place), NEW items, NEW t \in Seq(Nat), Tiled(lay, items, t), 1 <= Len(t)
  PROVE  \E l \in 1..Len(lay) : lay[l].start = 1
  <1>1. 1 \in 1..Len(t)
    OBVIOUS
  <1>2. PICK l \in 1..Len(lay) : InPlace(lay[l], 1)
    BY <1>1 DEF Tiled
  <1>3. lay[l].start \in Nat \ {0} /\ Width(lay[l]) \in Nat \ {0}
    BY PlaceFacts
  <1>4. lay[l].start = 1
    BY <1>2, <1>3 DEF InPlace
  <1> QED BY <1>4

\* What the extractor sees where an undamaged item begins.
LEMMA ItemSeen ==
  ASSUME NEW lay \in Seq(Place), NEW k \in 1..Len(lay), NEW x \in Carried, NEW t \in Seq(Nat),
         Carries(lay[k], x, t),
         \A i \in lay[k].start..(lay[k].start + lay[k].size - 1) : i \notin BadOf(lay)
  PROVE  LET a == lay[k].start
             n == lay[k].size
         IN  /\ a \in Nat \ {0} /\ n \in MinFrameSize..MaxFrameSize
             /\ ~Settled(t, a)
             /\ a + HeaderSize - 1 <= Len(t) => FrameSizeAt(t, a) = n
             /\ a + n - 1 <= Len(t) => /\ CandidateAt(t, a) /\ FrameSizeAt(t, a) = n
                                       /\ Slice(t, a, n) = EncodeFrame(x.frame)
  <1> DEFINE a == lay[k].start
             n == lay[k].size
             e == EncodeFrame(x.frame)
             m == MagicSize
  <1>0. m \in Nat /\ m > 0 /\ HeaderSize = m + 7 /\ PayloadLengthOffset = m + 7
        /\ MinFrameSize = m + 8 /\ MaxFrameSize = m + 8 + MaxPayloadSize
        /\ MaxPayloadSize \in Nat /\ CrcSize = 1
    BY SizesFromMagic
  <1>1. a \in Nat \ {0} /\ n \in Nat
    BY PlaceFacts
  <1>2. n = Len(x.bytes) /\ n \in MinFrameSize..MaxFrameSize
    BY CarriedFacts DEF Carries
  <1>3. /\ e \in Seq(Nat) /\ Len(e) = n
        /\ (\A i \in 1..m : e[i] = FrameMagic[i])
        /\ e[PayloadLengthOffset] = n - MinFrameSize
    BY <1>2, CarriedFacts
  <1>4. x.bytes = e
    BY OwnedWhole
  <1>5. \A i \in 1..n : a + i - 1 <= Len(t) => t[a + i - 1] = e[i]
    BY <1>4 DEF Carries
  <1>6. Len(t) \in Nat
    OBVIOUS
  <1> HIDE DEF a, n, e, m
  <1>7. ASSUME a + m - 1 <= Len(t) PROVE MagicAt(t, a)
    <2>1. \A j \in 1..m : j \in 1..n /\ a + j - 1 <= Len(t)
      BY <1>0, <1>1, <1>2, <1>6, <1>7
    <2>2. \A j \in 1..m : t[a + j - 1] = FrameMagic[j]
      BY <1>3, <1>5, <2>1
    <2> QED BY <1>1, <1>7, <2>2, MagicPointwise DEF m
  <1>8. ASSUME a + HeaderSize - 1 <= Len(t)
        PROVE  t[a + PayloadLengthOffset - 1] = n - MinFrameSize
    <2>1. PayloadLengthOffset \in 1..n /\ a + PayloadLengthOffset - 1 <= Len(t)
      BY <1>0, <1>1, <1>2, <1>8
    <2> QED BY <1>3, <1>5, <2>1
  <1>9. a + HeaderSize - 1 <= Len(t) => FrameSizeAt(t, a) = n
    <2> HAVE a + HeaderSize - 1 <= Len(t)
    <2>1. FrameSizeAt(t, a) = HeaderSize + (n - MinFrameSize) + CrcSize
      BY <1>8 DEF FrameSizeAt
    <2> QED BY <1>0, <1>1, <2>1
  <1>10. ~Settled(t, a)
    <2>1. ~(a + m - 1 <= Len(t) /\ ~MagicAt(t, a))
      BY <1>7
    <2>2. ASSUME a + HeaderSize - 1 <= Len(t) PROVE ~(t[a + PayloadLengthOffset - 1] > MaxPayloadSize)
      <3>1. n - MinFrameSize <= MaxPayloadSize /\ n - MinFrameSize \in Nat
        BY <1>0, <1>2
      <3> QED BY <1>0, <1>8, <2>2, <3>1
    <2> QED BY <2>1, <2>2 DEF Settled, m
  <1>11. ASSUME a + n - 1 <= Len(t)
         PROVE  CandidateAt(t, a) /\ FrameSizeAt(t, a) = n /\ Slice(t, a, n) = e
    <2>1. a + m - 1 <= Len(t) /\ a + HeaderSize - 1 <= Len(t)
      <3> DEFINE z == Len(t)
      <3>1. z \in Nat /\ m \in Nat /\ n \in (m + 8)..(m + 8 + MaxPayloadSize) /\ MaxPayloadSize \in Nat
            /\ a \in Nat /\ a + n - 1 <= z
        BY <1>0, <1>1, <1>2, <1>6, <1>11
      <3> HIDE DEF z
      <3>2. a + m - 1 <= z /\ a + (m + 7) - 1 <= z
        BY <3>1
      <3> QED BY <1>0, <3>2 DEF z
    <2>2. MagicAt(t, a) /\ FrameSizeAt(t, a) = n
      BY <1>7, <1>9, <2>1
    <2>3. t[a + PayloadLengthOffset - 1] <= MaxPayloadSize
      <3>1. n - MinFrameSize <= MaxPayloadSize
        BY <1>0, <1>2
      <3> QED BY <1>8, <2>1, <3>1
    <2>4. CandidateAt(t, a)
      BY <1>11, <2>1, <2>2, <2>3 DEF CandidateAt
    <2> DEFINE u == SubSeq(t, a, a + n - 1)
    <2>5. /\ u \in Seq(Nat) /\ Len(u) = n /\ \A i \in 1..n : u[i] = t[a + i - 1]
      <3>1. n > 0
        BY <1>0, <1>2
      <3> DEFINE z == a + n - 1
      <3>2. z \in Nat /\ z <= Len(t) /\ a <= z /\ z - a + 1 = n
        BY <1>1, <1>11, <3>1
      <3> HIDE DEF z
      <3>3. \A i \in a..z : t[i] \in Nat
        BY <1>1, <1>6, <3>2
      <3>4. SubSeq(t, a, z) \in Seq(Nat) /\ Len(SubSeq(t, a, z)) = z - a + 1
            /\ \A i \in 1..(z - a + 1) : SubSeq(t, a, z)[i] = t[a + i - 1]
        BY <1>1, <3>2, <3>3, SubSeqProperties
      <3> QED BY <3>2, <3>4 DEF z
    <2>6. ASSUME NEW i \in 1..n PROVE u[i] = e[i]
      <3>1. a + i - 1 <= Len(t)
        BY <1>1, <1>6, <1>11
      <3> QED BY <1>5, <2>5, <3>1
    <2> HIDE DEF u
    <2>7. u = e
      BY <1>3, <2>5, <2>6, SeqEqual
    <2> QED BY <2>2, <2>4, <2>7 DEF Slice, u
  <1> QED BY <1>1, <1>2, <1>9, <1>10, <1>11 DEF a, n, e

\* The same places, seen by someone who has read less.
LEMMA TiledPrefix ==
  ASSUME NEW lay \in Seq(Place), NEW items, NEW s \in Seq(Nat), NEW r \in Seq(Nat),
         Tiled(lay, items, s \o r)
  PROVE  Tiled(lay, items, s)
  <1> DEFINE t == s \o r
  <1>1. t \in Seq(Nat) /\ Len(t) = Len(s) + Len(r) /\ \A i \in 1..Len(s) : t[i] = s[i]
    BY ConcatProperties
  <1>2. Len(s) \in Nat /\ Len(r) \in Nat
    OBVIOUS
  <1> HIDE DEF t
  <1>3. ASSUME NEW k \in 1..Len(lay), NEW j \in 1..Len(items), Carries(lay[k], items[j], t)
        PROVE  Carries(lay[k], items[j], s)
    <2>1. lay[k].start \in Nat \ {0} /\ lay[k].size \in Nat
      BY PlaceFacts
    <2>2. ASSUME NEW i \in 1..lay[k].size, lay[k].start + i - 1 <= Len(s)
          PROVE  s[lay[k].start + i - 1] = items[j].bytes[i]
      <3>1. lay[k].start + i - 1 \in 1..Len(s) /\ lay[k].start + i - 1 <= Len(t)
        <4> DEFINE a == lay[k].start
                   n == lay[k].size
                   z == Len(s)
        <4>1. a \in Nat \ {0} /\ n \in Nat /\ i \in 1..n /\ a + i - 1 <= z /\ z \in Nat
              /\ Len(r) \in Nat /\ Len(t) = z + Len(r)
          BY <1>1, <1>2, <2>1, <2>2
        <4> HIDE DEF a, n, z
        <4>2. a + i - 1 \in 1..z /\ a + i - 1 <= Len(t)
          BY <4>1
        <4> QED BY <4>2 DEF a, z
      <3>2. t[lay[k].start + i - 1] = items[j].bytes[i]
        BY <1>3, <3>1 DEF Carries
      <3> QED BY <1>1, <3>1, <3>2
    <2> QED BY <1>3, <2>2 DEF Carries
  <1>4. \A k \in 1..Len(lay) : Foreign(lay[k]) \/ \E j \in 1..Len(items) : Carries(lay[k], items[j], s)
    BY <1>3 DEF Tiled, t
  <1>5. \A i \in 1..Len(s) : i \in 1..Len(t)
    BY <1>1, <1>2
  <1>6. \A i \in 1..Len(s) : \E k \in 1..Len(lay) : InPlace(lay[k], i)
    BY <1>5 DEF Tiled, t
  <1> QED BY <1>4, <1>6 DEF Tiled

-----------------------------------------------------------------------------
(* Frames that hold no magic but their own *)

\* No magic begins inside an encoded frame, and none begins there and ends in
\* the magic of the frame that follows.
NoStray(items) ==
  \A j \in 1..Len(items) :
    \A i \in 2..Len(EncodeFrame(items[j].frame)) :
      ~MagicAt(EncodeFrame(items[j].frame) \o FrameMagic, i)

LEMMA MagicBegins ==
  ASSUME NEW lay \in Seq(Place), NEW items \in Seq(Carried), NEW s \in Seq(Nat),
         Tiled(lay, items, s), NoStray(items),
         NEW p \in Nat \ {0}, MagicAt(s, p),
         \A i \in p..(p + MagicSize - 1) : i \notin BadOf(lay)
  PROVE  \E k \in 1..Len(lay), j \in 1..Len(items) :
           lay[k].start = p /\ lay[k].size # 0 /\ Carries(lay[k], items[j], s)
  <1> DEFINE m == MagicSize
             z == Len(s)
  <1>0. m \in Nat /\ m > 0 /\ z \in Nat /\ FrameMagic \in Seq(Nat) /\ m = Len(FrameMagic)
    BY SizeFacts, SymbolAssumption DEF MagicSize
  <1>1. p + m - 1 <= z /\ \A j \in 1..m : s[p + j - 1] = FrameMagic[j]
    BY MagicPointwise
  <1>2. \A i \in p..(p + m - 1) : i \in 1..z /\ i \notin BadOf(lay)
    <2>1. \A i \in p..(p + m - 1) : i \notin BadOf(lay)
      OBVIOUS
    <2> HIDE DEF m, z
    <2>2. \A i \in p..(p + m - 1) : i \in 1..z
      BY <1>0, <1>1
    <2> QED BY <2>1, <2>2
  <1>3. p \in p..(p + m - 1)
    BY <1>0
  <1>4. PICK k \in 1..Len(lay), j \in 1..Len(items) :
          InPlace(lay[k], p) /\ lay[k].size # 0 /\ Carries(lay[k], items[j], s)
    BY <1>2, <1>3, OwnerOf
  <1>5. CASE lay[k].start = p
    BY <1>4, <1>5
  <1>6. CASE lay[k].start # p
    <2> DEFINE a == lay[k].start
               n == lay[k].size
               x == items[j]
               e == EncodeFrame(x.frame)
               c == p - a + 1
               w == e \o FrameMagic
    <2>1. a \in Nat \ {0} /\ n \in Nat \ {0} /\ Width(lay[k]) = n
      BY <1>4, PlaceFacts
    <2>2. p \in a..(a + n - 1)
      BY <1>4, <2>1 DEF InPlace
    <2>3. x \in Carried
      OBVIOUS
    <2>4. e \in Seq(Nat) /\ Len(e) = n
      BY <1>4, <2>3, CarriedFacts DEF Carries
    <2>5. \A i \in 1..n : (a + i - 1 <= z /\ a + i - 1 \notin BadOf(lay)) => s[a + i - 1] = e[i]
      <3>1. Carries(lay[k], x, s) /\ x \in Carried
        BY <1>4, <2>3
      <3> HIDE DEF x
      <3>2. Owned(lay[k], x, s, lay)
        BY <3>1, OwnedSymbols
      <3> QED BY <3>2 DEF Owned
    <2> HIDE DEF x, e
    <2>6. /\ w \in Seq(Nat) /\ Len(w) = n + m
          /\ (\A i \in 1..n : w[i] = e[i])
          /\ (\A i \in 1..m : w[n + i] = FrameMagic[i])
      <3>1. e \in Seq(Nat) /\ FrameMagic \in Seq(Nat) /\ Len(e) = n /\ Len(FrameMagic) = m
        BY <1>0, <2>4
      <3> HIDE DEF n, m
      <3>0. e \in Seq(Nat) /\ FrameMagic \in Seq(Nat)
        BY <3>1
      <3>2. w \in Seq(Nat) /\ Len(w) = Len(e) + Len(FrameMagic)
        BY <3>0
      <3>3. \A i \in 1..Len(e) : w[i] = e[i]
        BY <3>1
      <3>4. \A i \in 1..Len(FrameMagic) : w[Len(e) + i] = FrameMagic[i]
        BY <3>0, ConcatProperties, SMTT(40)
      <3> HIDE DEF w
      <3> QED BY <3>1, <3>2, <3>3, <3>4
    <2>7. c \in 2..n
      <3>1. a # p
        BY <1>6
      <3> HIDE DEF a, n
      <3> QED BY <2>1, <2>2, <3>1
    <2> HIDE DEF w
    <2>8. ASSUME NEW i \in 1..m PROVE w[c + i - 1] = FrameMagic[i]
      <3>1. p + i - 1 \in p..(p + m - 1)
        <4> HIDE DEF m
        <4> QED BY <1>0
      <3>2. p + i - 1 \in 1..z /\ p + i - 1 \notin BadOf(lay)
        BY <1>2, <3>1
      <3>3. s[p + i - 1] = FrameMagic[i]
        BY <1>1
      <3>4. CASE c + i - 1 <= n
        <4>1. c + i - 1 \in 1..n /\ a + (c + i - 1) - 1 = p + i - 1
          <5> HIDE DEF a, n, m
          <5> QED BY <1>0, <2>1, <2>2, <2>7, <3>4
        <4>2. s[a + (c + i - 1) - 1] = e[c + i - 1]
          <5>1. a + (c + i - 1) - 1 <= z /\ a + (c + i - 1) - 1 \notin BadOf(lay)
            <6> HIDE DEF a, c, z
            <6> QED BY <3>2, <4>1
          <5> HIDE DEF a, c, z, n
          <5> QED BY <2>5, <4>1, <5>1
        <4>3. w[c + i - 1] = e[c + i - 1]
          BY <2>6, <4>1
        <4> HIDE DEF a, c, z, n
        <4> QED BY <3>3, <4>1, <4>2, <4>3
      <3>5. CASE c + i - 1 > n
        <4> DEFINE g == a + n
                   d == c + i - 1 - n
        <4>1. d \in 1..m /\ c + i - 1 = n + d /\ g + d - 1 = p + i - 1 /\ g \in p..(p + m - 1)
          <5> HIDE DEF a, n, m
          <5> QED BY <1>0, <2>1, <2>2, <2>7, <3>5
        <4>2. g \in 1..z /\ g \notin BadOf(lay)
          BY <1>2, <4>1
        <4>3. PICK l \in 1..Len(lay) : lay[l].start = g
          <5>1. lay[k].start + Width(lay[k]) <= Len(s) /\ lay[k].start + Width(lay[k]) = g
            <6>1. g <= z
              BY <4>2
            <6> QED BY <2>1, <6>1
          <5> QED BY <5>1, NextPlace
        <4>4. lay[l].size # 0
          <5> SUFFICES ASSUME lay[l].size = 0 PROVE FALSE
            OBVIOUS
          <5>1. ~\E q \in 1..Len(items) : Carries(lay[l], items[q], s)
            <6> SUFFICES ASSUME NEW q \in 1..Len(items), Carries(lay[l], items[q], s) PROVE FALSE
              OBVIOUS
            <6>1. Len(items[q].bytes) \in MinFrameSize..MaxFrameSize
              <7>1. items[q] \in Carried
                OBVIOUS
              <7> QED BY <7>1, CarriedFacts
            <6>2. MinFrameSize \in Nat /\ MinFrameSize > 0 /\ MaxFrameSize \in Nat
              BY SizeFacts
            <6> QED BY <6>1, <6>2 DEF Carries
          <5>2. Foreign(lay[l])
            BY <5>1 DEF Tiled
          <5> QED BY <4>2, <4>3, <5>2 DEF Foreign, BadOf
        <4>5. PICK q \in 1..Len(items) : Carries(lay[l], items[q], s)
          BY <4>4 DEF Tiled, Foreign
        <4> DEFINE y == items[q]
                   b == lay[l].size
        <4>6. y \in Carried /\ b = Len(y.bytes)
          BY <4>5 DEF Carries
        <4>7. b \in MinFrameSize..MaxFrameSize /\ \A h \in 1..m : EncodeFrame(y.frame)[h] = FrameMagic[h]
          BY <4>6, CarriedFacts
        <4>8. d \in 1..b
          <5>1. MinFrameSize \in Nat /\ MaxFrameSize \in Nat /\ m < MinFrameSize
            BY SizeFacts
          <5>2. d \in 1..m /\ m \in Nat /\ b \in MinFrameSize..MaxFrameSize
            BY <1>0, <4>1, <4>7
          <5> HIDE DEF d, b, m
          <5> QED BY <5>1, <5>2
        <4>9. s[lay[l].start + d - 1] = EncodeFrame(y.frame)[d]
          <5>1. lay[l].start + d - 1 = p + i - 1
            <6> HIDE DEF g, d
            <6> QED BY <4>1, <4>3
          <5>2. lay[l].start + d - 1 <= Len(s) /\ lay[l].start + d - 1 \notin BadOf(lay)
            <6> HIDE DEF d
            <6> QED BY <3>2, <5>1
          <5> HIDE DEF d
          <5>3. Owned(lay[l], y, s, lay)
            BY <4>5, <4>6, OwnedSymbols
          <5> HIDE DEF y
          <5> QED BY <4>8, <5>2, <5>3 DEF Owned
        <4>10. s[p + i - 1] = FrameMagic[d]
          <5>1. lay[l].start + d - 1 = p + i - 1
            <6> HIDE DEF g, d
            <6> QED BY <4>1, <4>3
          <5> HIDE DEF d, y
          <5> QED BY <4>1, <4>7, <4>9, <5>1
        <4>11. w[c + i - 1] = FrameMagic[d]
          <5> HIDE DEF c, d, n
          <5> QED BY <2>6, <4>1
        <4> HIDE DEF c, d
        <4> QED BY <3>3, <4>10, <4>11
      <3> HIDE DEF c, n
      <3>6. c + i - 1 \in Int /\ n \in Int
        <4>1. n \in Nat /\ c \in 2..n
          BY <2>1, <2>7
        <4>2. i \in Int
          OBVIOUS
        <4> QED BY <4>1, <4>2
      <3> QED BY <3>4, <3>5, <3>6
    <2>9. c + MagicSize - 1 <= Len(w)
      <3> HIDE DEF n, c
      <3> QED BY <1>0, <2>1, <2>6, <2>7
    <2>10. c \in Nat \ {0}
      <3> HIDE DEF n, c
      <3> QED BY <2>1, <2>7
    <2>11. MagicAt(w, c)
      <3> HIDE DEF c
      <3> QED BY <2>6, <2>8, <2>9, <2>10, MagicPointwise
    <2>12. ~MagicAt(w, c)
      <3>1. c \in 2..Len(EncodeFrame(items[j].frame))
        BY <2>4, <2>7 DEF e, x
      <3> HIDE DEF c
      <3> QED BY <3>1 DEF NoStray, w, e, x
    <2> QED BY <2>11, <2>12
  <1> QED BY <1>5, <1>6

\* None of the positions of the frame announced at p is damaged.
Unhurt(s, p, lay) == \A i \in p..(p + FrameSizeAt(s, p) - 1) : i \notin BadOf(lay)

\* The bytes w are one of the items that were sent, as the encoder wrote it.
AsEncoded(w, items) ==
  \E j \in 1..Len(items) : items[j].damage = 0 /\ w = EncodeFrame(items[j].frame)

\* A candidate that no damage reaches is a frame as it was encoded.
LEMMA CleanCut ==
  ASSUME NEW lay \in Seq(Place), NEW items \in Seq(Carried), NEW s \in Seq(Nat),
         Tiled(lay, items, s), NoStray(items),
         NEW p \in Nat \ {0}, CandidateAt(s, p), Unhurt(s, p, lay)
  PROVE  AsEncoded(Slice(s, p, FrameSizeAt(s, p)), items)
  <1> SUFFICES \E j \in 1..Len(items) :
                 items[j].damage = 0 /\ Slice(s, p, FrameSizeAt(s, p)) = EncodeFrame(items[j].frame)
    BY DEF AsEncoded
  <1> USE DEF Unhurt
  <1> DEFINE n == FrameSizeAt(s, p)
             m == MagicSize
             v == PayloadLengthOffset
  <1>0. /\ m \in Nat /\ v = m + 7 /\ HeaderSize = m + 7 /\ MinFrameSize = m + 8 /\ CrcSize = 1
        /\ MaxFrameSize \in Nat
    <2> HIDE DEF m, v
    <2>1. m \in Nat /\ HeaderSize = m + 7 /\ v = HeaderSize /\ CrcSize = 1 /\ MaxPayloadSize \in Nat
          /\ MinFrameSize = HeaderSize + 1 /\ MaxFrameSize = HeaderSize + MaxPayloadSize + 1
      BY SizeFacts DEF m, v
    <2> QED BY <2>1
  <1>1. n \in MinFrameSize..MaxFrameSize /\ p + n - 1 <= Len(s) /\ Len(s) \in Nat
    BY CandidateFacts
  <1>2. MagicAt(s, p)
    BY DEF CandidateAt
  <1>3. \A i \in p..(p + n - 1) : i \notin BadOf(lay)
    OBVIOUS
  <1> HIDE DEF n, m, v
  <1>4. \A i \in p..(p + m - 1) : i \notin BadOf(lay)
    BY <1>0, <1>1, <1>3
  <1>5. PICK k \in 1..Len(lay), j \in 1..Len(items) :
          lay[k].start = p /\ lay[k].size # 0 /\ Carries(lay[k], items[j], s)
    BY <1>2, <1>4, MagicBegins DEF m
  <1> DEFINE x == items[j]
             b == lay[k].size
  <1>6. x \in Carried /\ b = Len(x.bytes)
    BY <1>5 DEF Carries
  <1>7. b \in MinFrameSize..MaxFrameSize /\ EncodeFrame(x.frame)[v] = b - MinFrameSize
    BY <1>6, CarriedFacts DEF v
  <1>8. v \in 1..b /\ p + v - 1 <= Len(s) /\ p + v - 1 \notin BadOf(lay)
    <2>1. v \in 1..b /\ p + v - 1 <= Len(s) /\ p + v - 1 \in p..(p + n - 1)
      <3> HIDE DEF b
      <3> QED BY <1>0, <1>1, <1>7
    <2> QED BY <1>3, <2>1
  <1>9. s[p + v - 1] = b - MinFrameSize
    <2>1. s[lay[k].start + v - 1] = EncodeFrame(x.frame)[v]
      <3>1. lay[k].start + v - 1 <= Len(s) /\ lay[k].start + v - 1 \notin BadOf(lay)
        BY <1>5, <1>8
      <3>2. Carries(lay[k], x, s)
        BY <1>5
      <3> HIDE DEF x
      <3>3. Owned(lay[k], x, s, lay)
        BY <1>6, <3>2, OwnedSymbols
      <3> QED BY <1>8, <3>1, <3>3 DEF Owned
    <2> QED BY <1>5, <1>7, <2>1
  <1>10. n = b
    <2>1. n = HeaderSize + (b - MinFrameSize) + CrcSize
      BY <1>9 DEF FrameSizeAt, n, v
    <2> HIDE DEF b
    <2> QED BY <1>0, <1>7, <2>1
  <1>11. \A i \in lay[k].start..(lay[k].start + lay[k].size - 1) : i \notin BadOf(lay)
    BY <1>3, <1>5, <1>10
  <1>12. Slice(s, p, n) = EncodeFrame(x.frame)
    <2>1. lay[k].start + lay[k].size - 1 <= Len(s)
      BY <1>1, <1>5, <1>10
    <2>2. Slice(s, lay[k].start, lay[k].size) = EncodeFrame(x.frame)
      <3>1. Carries(lay[k], x, s)
        BY <1>5
      <3> HIDE DEF x
      <3> QED BY <1>6, <1>11, <2>1, <3>1, ItemSeen
    <2> QED BY <1>5, <1>10, <2>2
  <1>13. x.damage = 0
    <2>1. Carries(lay[k], x, s)
      BY <1>5
    <2> HIDE DEF x
    <2> QED BY <1>6, <1>11, <2>1, OwnedWhole
  <1> QED BY <1>12, <1>13 DEF n

\* A frame that damage can reach only from a maximal frame's length before it.
OutOfReach(lay, k) ==
  /\ lay[k].size # 0
  /\ \A b \in BadOf(lay) : b >= lay[k].start + lay[k].size \/ b + MaxFrameSize <= lay[k].start

\* A magic shortly before such a frame begins a frame that ends before it.
LEMMA NoneAcross ==
  ASSUME NEW lay \in Seq(Place), NEW items \in Seq(Carried), NEW s \in Seq(Nat),
         Tiled(lay, items, s), NoStray(items),
         NEW k \in 1..Len(lay), OutOfReach(lay, k), lay[k].start + lay[k].size - 1 <= Len(s),
         NEW p \in Nat \ {0}, p < lay[k].start, lay[k].start < p + MaxFrameSize, MagicAt(s, p)
  PROVE  p + HeaderSize - 1 <= Len(s) /\ p + FrameSizeAt(s, p) <= lay[k].start
         /\ FrameSizeAt(s, p) \in Nat
  <1> DEFINE f == lay[k].start
             n == lay[k].size
             m == MagicSize
  <1>0. /\ m \in Nat /\ HeaderSize = m + 7 /\ MinFrameSize = m + 8 /\ MaxFrameSize \in Nat
        /\ Len(s) \in Nat
    <2> HIDE DEF m
    <2>1. m \in Nat /\ HeaderSize = m + 7 /\ MaxPayloadSize \in Nat
          /\ MinFrameSize = HeaderSize + 1 /\ MaxFrameSize = HeaderSize + MaxPayloadSize + 1
      BY SizeFacts DEF m
    <2> QED BY <2>1
  <1>1. f \in Nat \ {0} /\ n \in Nat /\ Width(lay[k]) = n /\ n # 0
    BY PlaceFacts DEF OutOfReach
  <1>2. n \in MinFrameSize..MaxFrameSize
    <2>1. PICK j \in 1..Len(items) : Carries(lay[k], items[j], s)
      BY <1>1 DEF Tiled, Foreign
    <2>2. items[j] \in Carried
      OBVIOUS
    <2> QED BY <2>1, <2>2, CarriedFacts DEF Carries
  <1>3. p < f /\ f < p + MaxFrameSize /\ f + n - 1 <= Len(s)
    OBVIOUS
  <1>4. ASSUME NEW i \in p..(f + n - 1) PROVE i \notin BadOf(lay)
    <2> SUFFICES ASSUME i \in BadOf(lay) PROVE FALSE
      OBVIOUS
    <2>1. i >= f + n \/ i + MaxFrameSize <= f
      BY DEF OutOfReach
    <2> HIDE DEF f, n
    <2> QED BY <1>0, <1>1, <1>3, <2>1
  <1>5. \A i \in p..(p + m - 1) : i \notin BadOf(lay)
    <2>1. \A i \in p..(p + m - 1) : i \in p..(f + n - 1)
      <3> HIDE DEF f, n, m
      <3> QED BY <1>0, <1>1, <1>2, <1>3
    <2> QED BY <1>4, <2>1
  <1>6. PICK l \in 1..Len(lay), j \in 1..Len(items) :
          lay[l].start = p /\ lay[l].size # 0 /\ Carries(lay[l], items[j], s)
    BY <1>5, MagicBegins
  <1> DEFINE x == items[j]
             b == lay[l].size
  <1>7. x \in Carried /\ b = Len(x.bytes) /\ Width(lay[l]) = b
    BY <1>6 DEF Carries, Width
  <1>8. b \in MinFrameSize..MaxFrameSize
    BY <1>7, CarriedFacts
  <1>9. p + b <= f
    <2>1. (l < k => p + b <= f) /\ (k < l => f + n <= p)
      BY <1>1, <1>6, <1>7 DEF Tiled
    <2>2. l # k
      BY <1>3, <1>6
    <2> HIDE DEF f, n, b
    <2>3. ~(k < l)
      BY <1>1, <1>3, <2>1
    <2> QED BY <2>1, <2>2, <2>3
  <1>10. \A i \in lay[l].start..(lay[l].start + lay[l].size - 1) : i \notin BadOf(lay)
    <2>1. \A i \in p..(p + b - 1) : i \in p..(f + n - 1)
      <3> HIDE DEF f, n, b
      <3> QED BY <1>0, <1>1, <1>8, <1>9
    <2> QED BY <1>4, <1>6, <2>1
  <1>11. lay[l].start + HeaderSize - 1 <= Len(s) => FrameSizeAt(s, lay[l].start) = lay[l].size
    <2>1. Carries(lay[l], x, s)
      BY <1>6
    <2> HIDE DEF x
    <2> QED BY <1>7, <1>10, <2>1, ItemSeen
  <1>12. p + HeaderSize - 1 <= Len(s)
    <2> HIDE DEF f, n, b, m
    <2>1. f \in Nat /\ n \in Nat /\ n # 0 /\ f + n - 1 <= Len(s) /\ p + b <= f
      BY <1>1, <1>3, <1>9
    <2>2. HeaderSize = m + 7 /\ m \in Nat /\ Len(s) \in Nat /\ b \in Nat /\ m + 8 <= b
      BY <1>0, <1>8
    <2> DEFINE e == Len(s)
               g == HeaderSize
    <2>3. p \in Nat /\ f <= e /\ e \in Nat /\ g \in Nat /\ g < b
      BY <2>1, <2>2
    <2> HIDE DEF e, g
    <2>4. p + g - 1 <= e
      BY <2>1, <2>2, <2>3
    <2> QED BY <2>4 DEF e, g
  <1>13. FrameSizeAt(s, p) = b
    BY <1>6, <1>11, <1>12
  <1>14. FrameSizeAt(s, p) \in Nat
    BY <1>0, <1>8, <1>13
  <1>15. p + FrameSizeAt(s, p) <= lay[k].start
    BY <1>9, <1>13
  <1> QED BY <1>12, <1>14, <1>15

\* A frame out of reach of any damage is cut exactly, once the extractor rests.
LEMMA FrameFound ==
  ASSUME NEW lay \in Seq(Place), NEW items \in Seq(Carried), NEW s \in Seq(Nat),
         Tiled(lay, items, s), NoStray(items),
         NEW cs \in Seq(Cut), NEW c \in 0..Len(s), Passed(s, cs, c),
         Len(s) - c < MagicSize \/ PendingAt(s, c + 1),
         NEW k \in 1..Len(lay), OutOfReach(lay, k), lay[k].start + lay[k].size - 1 <= Len(s)
  PROVE  \E h \in 1..Len(cs), j \in 1..Len(items) :
           /\ cs[h].start = lay[k].start
           /\ Slice(s, cs[h].start, cs[h].size) = EncodeFrame(items[j].frame)
  <1> DEFINE f == lay[k].start
             n == lay[k].size
             m == MagicSize
             z == Len(s)
  <1>0. /\ m \in Nat /\ HeaderSize = m + 7 /\ MinFrameSize = m + 8 /\ MaxFrameSize \in Nat
        /\ MaxFrameSize = m + 8 + MaxPayloadSize /\ MaxPayloadSize \in Nat
        /\ PayloadLengthOffset = m + 7 /\ CrcSize = 1 /\ z \in Nat /\ c \in Nat /\ c <= z
    <2> HIDE DEF m, z
    <2>1. m \in Nat /\ HeaderSize = m + 7 /\ MaxPayloadSize \in Nat /\ PayloadLengthOffset = HeaderSize
          /\ CrcSize = 1
          /\ MinFrameSize = HeaderSize + 1 /\ MaxFrameSize = HeaderSize + MaxPayloadSize + 1
      BY SizeFacts DEF m
    <2>2. z \in Nat /\ c \in 0..z
      BY DEF z
    <2> QED BY <2>1, <2>2
  <1>1. f \in Nat \ {0} /\ n \in Nat /\ Width(lay[k]) = n /\ n # 0
    BY PlaceFacts DEF OutOfReach
  <1>2. PICK j \in 1..Len(items) : Carries(lay[k], items[j], s)
    BY <1>1 DEF Tiled, Foreign
  <1>3. \A i \in lay[k].start..(lay[k].start + lay[k].size - 1) : i \notin BadOf(lay)
    <2> SUFFICES ASSUME NEW i \in f..(f + n - 1), i \in BadOf(lay) PROVE FALSE
      OBVIOUS
    <2>1. i >= f + n \/ i + MaxFrameSize <= f
      BY DEF OutOfReach
    <2> HIDE DEF f, n
    <2> QED BY <1>0, <1>1, <2>1
  <1> DEFINE x == items[j]
  <1>4. /\ n \in MinFrameSize..MaxFrameSize
        /\ CandidateAt(s, f) /\ FrameSizeAt(s, f) = n /\ Slice(s, f, n) = EncodeFrame(x.frame)
    <2>1. Carries(lay[k], x, s) /\ x \in Carried
      BY <1>2
    <2> HIDE DEF x
    <2> QED BY <1>3, <2>1, ItemSeen
  <1>5. f + n - 1 <= z
    OBVIOUS
  <1>6. ASSUME NEW p \in Nat \ {0}, p < f, f < p + MaxFrameSize, MagicAt(s, p)
        PROVE  p + HeaderSize - 1 <= z /\ p + FrameSizeAt(s, p) <= f /\ FrameSizeAt(s, p) \in Nat
    BY <1>6, NoneAcross
  <1> HIDE DEF f, n, m, z, x
  <1>7. f <= c
    <2> SUFFICES ASSUME ~(f <= c) PROVE FALSE
      OBVIOUS
    <2> DEFINE p == c + 1
    <2>1. p \in Nat \ {0} /\ p <= f
      BY <1>0, <1>1
    <2>2. CASE z - c < m
      BY <1>0, <1>1, <1>4, <1>5, <2>1, <2>2
    <2>3. CASE PendingAt(s, p)
      <3>1. MagicAt(s, p)
        BY <2>3 DEF PendingAt
      <3>2. CASE p = f
        <4>1. FrameSizeAt(s, p) = n /\ CandidateAt(s, p)
          BY <1>4, <3>2
        <4>2. ~(p + HeaderSize - 1 > z) /\ ~(p + FrameSizeAt(s, p) - 1 > z)
          <5> HIDE DEF p
          <5>1. f + n - 1 <= z /\ n \in MinFrameSize..MaxFrameSize /\ f \in Nat
            BY <1>1, <1>4, <1>5
          <5>2. HeaderSize = m + 7 /\ MinFrameSize = m + 8 /\ m \in Nat /\ MaxFrameSize \in Nat /\ z \in Nat
            BY <1>0
          <5>3. f + HeaderSize - 1 <= z
            <6>1. n \in Nat /\ m + 8 <= n
              BY <5>1, <5>2
            <6> QED BY <5>1, <5>2, <6>1
          <5>4. ~(f + HeaderSize - 1 > z) /\ ~(f + n - 1 > z)
            BY <5>1, <5>2, <5>3
          <5> QED BY <3>2, <4>1, <5>4
        <4> QED BY <2>3, <4>2 DEF PendingAt, z
      <3>3. CASE p < f
        <4>1. f < p + MaxFrameSize
          <5>1. CASE p + HeaderSize - 1 > z
            <6> HIDE DEF p
            <6>1. HeaderSize = m + 7 /\ MaxFrameSize = m + 8 + MaxPayloadSize /\ m \in Nat /\ MaxPayloadSize \in Nat
                  /\ z \in Nat
              BY <1>0
            <6>2. f + n - 1 <= z /\ n \in Nat \ {0} /\ f \in Nat /\ p \in Nat
              BY <1>1, <1>5, <2>1
            <6>3. f <= z /\ z < p + m + 6
              BY <5>1, <6>1, <6>2
            <6> QED BY <6>1, <6>2, <6>3
          <5>2. CASE /\ p + HeaderSize - 1 <= z
                     /\ s[p + PayloadLengthOffset - 1] <= MaxPayloadSize
                     /\ p + FrameSizeAt(s, p) - 1 > z
            <6> DEFINE y == s[p + PayloadLengthOffset - 1]
            <6>0. p + HeaderSize - 1 <= z
              BY <5>2
            <6>1. p + PayloadLengthOffset - 1 \in 1..z
              <7> HIDE DEF p
              <7> QED BY <1>0, <2>1, <6>0
            <6>2. y \in Nat
              BY <6>1 DEF z
            <6>3. FrameSizeAt(s, p) = HeaderSize + y + CrcSize
              BY DEF FrameSizeAt
            <6>4. y <= MaxPayloadSize
              BY <5>2
            <6> HIDE DEF y, p
            <6> QED BY <1>0, <1>1, <1>5, <2>1, <5>2, <6>2, <6>3, <6>4
          <5>3. p + HeaderSize - 1 > z \/ p + HeaderSize - 1 <= z
            BY <1>0, <2>1
          <5> QED BY <2>3, <5>1, <5>2, <5>3 DEF PendingAt, z
        <4>2. p + HeaderSize - 1 <= z /\ p + FrameSizeAt(s, p) <= f /\ FrameSizeAt(s, p) \in Nat
          BY <1>6, <2>1, <3>1, <3>3, <4>1
        <4> DEFINE y == FrameSizeAt(s, p)
        <4>3. y \in Nat /\ p + y <= f
          BY <4>2
        <4> HIDE DEF y, p
        <4>4. ~(p + HeaderSize - 1 > z) /\ ~(p + y - 1 > z)
          BY <1>0, <1>1, <1>4, <1>5, <2>1, <4>2, <4>3
        <4> QED BY <2>3, <4>4 DEF PendingAt, z, y
      <3> QED BY <1>1, <2>1, <3>2, <3>3
    <2> QED BY <2>2, <2>3 DEF m, z
  <1>8. ~Settled(s, f)
    BY <1>1, <1>4, SettledIsNothing
  <1>9. PICK h \in 1..Len(cs) : InCut(cs[h], f)
    <2>1. f \in 1..c
      BY <1>0, <1>1, <1>7
    <2> QED BY <1>8, <2>1 DEF Passed
  <1> DEFINE p == cs[h].start
             q == cs[h].size
  <1>10. p \in Nat \ {0} /\ q \in Nat
    <2>1. cs[h] \in Cut
      <3> HIDE DEF Cut
      <3> QED OBVIOUS
    <2> QED BY <2>1 DEF Cut
  <1>11. CandidateAt(s, p) /\ q = FrameSizeAt(s, p)
    BY DEF Passed
  <1>12. q \in MinFrameSize..MaxFrameSize /\ MagicAt(s, p)
    BY <1>10, <1>11, CandidateFacts DEF CandidateAt
  <1>13. p <= f /\ f <= p + q - 1
    BY <1>9, <1>10, <1>1 DEF InCut
  <1>14. p = f
    <2> SUFFICES ASSUME p # f PROVE FALSE
      OBVIOUS
    <2> HIDE DEF p, q
    <2>1. p < f /\ f < p + MaxFrameSize
      BY <1>0, <1>1, <1>10, <1>12, <1>13
    <2>2. p + FrameSizeAt(s, p) <= f
      BY <1>6, <1>10, <1>12, <2>1
    <2> QED BY <1>1, <1>10, <1>11, <1>13, <2>2
  <1>15. q = n
    BY <1>4, <1>11, <1>14
  <1>16. Slice(s, p, q) = EncodeFrame(x.frame)
    BY <1>4, <1>14, <1>15
  <1> QED BY <1>14, <1>16 DEF f, x

-----------------------------------------------------------------------------
(* A connection nothing disturbs *)

IsItem(lay, items, s, cut) ==
  \E k \in 1..Len(lay), j \in 1..Len(items) :
    /\ cut.start = lay[k].start /\ cut.size = lay[k].size /\ lay[k].size # 0
    /\ items[j].damage = 0
    /\ Slice(s, cut.start, cut.size) = EncodeFrame(items[j].frame)

\* Whatever the payloads hold, the cuts are the frames that were sent: the
\* extractor never looks inside a frame it has taken.
LEMMA CleanCuts ==
  ASSUME NEW lay \in Seq(Place), NEW items \in Seq(Carried), NEW s \in Seq(Nat),
         Tiled(lay, items, s), BadOf(lay) = {},
         NEW cs \in Seq(Cut), NEW c \in Nat, Passed(s, cs, c)
  PROVE  \A h \in 1..Len(cs) : IsItem(lay, items, s, cs[h])
  <1> DEFINE n == Len(cs)
             Good == {h \in Nat : h # 0 /\ h <= n => IsItem(lay, items, s, cs[h])}
  <1>0. n \in Nat /\ Len(s) \in Nat
    OBVIOUS
  <1>1. 0 \in Good
    OBVIOUS
  <1>2. ASSUME NEW h \in Nat, h \in Good PROVE h + 1 \in Good
    <2> SUFFICES ASSUME h + 1 <= n PROVE IsItem(lay, items, s, cs[h + 1])
      OBVIOUS
    <2> DEFINE p == cs[h + 1].start
               q == cs[h + 1].size
               e == EndOf(cs, h)
    <2>1. h + 1 \in 1..n /\ (h + 1) - 1 = h
      BY <1>0
    <2>2. p \in Nat \ {0} /\ q \in Nat
      <3>1. cs[h + 1] \in Cut
        <4> HIDE DEF Cut
        <4> QED BY <2>1
      <3> QED BY <3>1 DEF Cut
    <2>3. CandidateAt(s, p) /\ q = FrameSizeAt(s, p) /\ e <= p /\ \A i \in e..(p - 1) : Settled(s, i)
      BY <2>1 DEF Passed
    <2>4. p + q - 1 <= Len(s) /\ q > 0
      BY <2>2, <2>3, CandidateFacts
    <2> HIDE DEF n, p, q
    <2>5. p <= Len(s) /\ 1 <= Len(s)
      BY <1>0, <2>2, <2>4
    <2>6. PICK l \in 1..Len(lay) : lay[l].start = e
      <3>1. CASE h = 0
        <4>1. e = 1
          BY <3>1 DEF EndOf
        <4> QED BY <2>5, <4>1, FirstPlace
      <3>2. CASE h # 0
        <4>1. h <= n
          BY <1>0, <2>1
        <4>2. IsItem(lay, items, s, cs[h])
          BY <1>2, <3>2, <4>1
        <4>3. PICK k \in 1..Len(lay) : cs[h].start = lay[k].start /\ cs[h].size = lay[k].size /\ lay[k].size # 0
          BY <4>2 DEF IsItem
        <4>4. e = lay[k].start + Width(lay[k])
          BY <3>2, <4>3 DEF EndOf, Width
        <4>5. lay[k].start \in Nat /\ Width(lay[k]) \in Nat
          BY PlaceFacts
        <4>6. lay[k].start + Width(lay[k]) <= Len(s)
          <5>1. e <= p /\ p <= Len(s) /\ e \in Nat
            BY <2>3, <2>5, <4>4, <4>5
          <5> HIDE DEF e
          <5> QED BY <1>0, <2>2, <4>4, <5>1
        <4> QED BY <4>4, <4>6, NextPlace
      <3> QED BY <3>1, <3>2
    <2>7. ~Foreign(lay[l])
      BY DEF Foreign, BadOf
    <2>8. PICK j \in 1..Len(items) : Carries(lay[l], items[j], s)
      BY <2>7 DEF Tiled
    <2> DEFINE x == items[j]
               a == lay[l].start
               b == lay[l].size
    <2>9. x \in Carried /\ Carries(lay[l], x, s)
      BY <2>8
    <2> HIDE DEF x
    <2>10. \A i \in lay[l].start..(lay[l].start + lay[l].size - 1) : i \notin BadOf(lay)
      OBVIOUS
    <2>11. /\ a \in Nat \ {0} /\ b \in MinFrameSize..MaxFrameSize /\ ~Settled(s, a)
           /\ a + HeaderSize - 1 <= Len(s) => FrameSizeAt(s, a) = b
           /\ a + b - 1 <= Len(s) => Slice(s, a, b) = EncodeFrame(x.frame)
      BY <2>9, <2>10, ItemSeen
    <2>12. x.damage = 0
      BY <2>9, <2>10, OwnedWhole
    <2> HIDE DEF e
    <2>13. p = a
      <3> SUFFICES ASSUME p # a PROVE FALSE
        OBVIOUS
      <3>1. e = a /\ e \in Nat
        BY <2>6, <2>11
      <3>2. e \in e..(p - 1)
        BY <2>2, <2>3, <3>1
      <3> QED BY <2>3, <2>11, <3>1, <3>2
    <2>14. p + HeaderSize - 1 <= Len(s)
      BY <2>3 DEF CandidateAt
    <2>15. q = b
      BY <2>3, <2>11, <2>13, <2>14
    <2>16. Slice(s, p, q) = EncodeFrame(x.frame)
      BY <2>4, <2>11, <2>13, <2>15
    <2>17. b # 0
      <3>1. MinFrameSize \in Nat /\ MinFrameSize > 0 /\ MaxFrameSize \in Nat
        BY SizeFacts
      <3> HIDE DEF b
      <3> QED BY <2>11, <3>1
    <2> QED BY <2>12, <2>13, <2>15, <2>16, <2>17 DEF IsItem, p, q, x
  <1>3. Nat \subseteq Good
    <2> HIDE DEF Good
    <2> QED BY <1>1, <1>2, SetInduction
  <1>4. ASSUME NEW h \in 1..n PROVE IsItem(lay, items, s, cs[h])
    <2>1. h \in Nat /\ h # 0 /\ h <= n
      BY <1>0
    <2> QED BY <1>3, <2>1
  <1> QED BY <1>4

-----------------------------------------------------------------------------
(* The candidates the station accepts *)

Got(candidate) == [at |-> candidate.at, frame |-> candidate.result.frame]

\* One turn of the loop that hands out candidates: f[k] is what k of them gave.
Turn(c, f, k) ==
  IF k = 0 THEN <<>>
  ELSE IF Accepts(c[k].result)
       THEN Append(f[k - 1], [at |-> c[k].at, frame |-> c[k].result.frame])
       ELSE f[k - 1]

Gathered(c) == CHOOSE f : f = [k \in 0..Len(c) |-> Turn(c, f, k)]

LEMMA TurnLocal ==
  ASSUME NEW c, NEW f, NEW g, NEW k \in Nat, k # 0 => f[k - 1] = g[k - 1]
  PROVE  Turn(c, f, k) = Turn(c, g, k)
  BY DEF Turn

LEMMA GatheredExists ==
  ASSUME NEW c, Len(c) \in Nat
  PROVE  \A k \in 0..Len(c) : Gathered(c)[k] = Turn(c, Gathered(c), k)
  <1> DEFINE L == Len(c)
             Good(f, n) == \A k \in 0..n : f[k] = Turn(c, f, k)
             Reached == {n \in Nat : \E f : Good(f, n)}
  <1>0. L \in Nat
    OBVIOUS
  <1>1. 0 \in Reached
    <2> DEFINE f == [k \in 0..0 |-> <<>>]
    <2>1. Good(f, 0)
      BY DEF Turn
    <2> HIDE DEF f, Good
    <2> QED BY <2>1
  <1>2. ASSUME NEW n \in Nat, n \in Reached PROVE n + 1 \in Reached
    <2>1. PICK f : Good(f, n)
      BY <1>2
    <2> DEFINE g == [k \in 0..(n + 1) |-> IF k = n + 1 THEN Turn(c, f, n + 1) ELSE f[k]]
    <2>2. ASSUME NEW k \in 0..(n + 1) PROVE g[k] = Turn(c, g, k)
      <3>1. k # 0 => k - 1 \in 0..(n + 1) /\ k - 1 # n + 1
        OBVIOUS
      <3>2. k # 0 => f[k - 1] = g[k - 1]
        BY <3>1
      <3>3. Turn(c, f, k) = Turn(c, g, k)
        BY <3>2, TurnLocal, k \in Nat
      <3>4. CASE k = n + 1
        BY <3>3, <3>4
      <3>5. CASE k # n + 1
        <4>1. k \in 0..n
          BY <3>5
        <4> QED BY <2>1, <3>3, <3>5, <4>1
      <3> QED BY <3>4, <3>5
    <2>3. Good(g, n + 1)
      BY <2>2
    <2> HIDE DEF g, Good
    <2> QED BY <2>3
  <1>3. Nat \subseteq Reached
    <2> HIDE DEF Reached
    <2> QED BY <1>1, <1>2, SetInduction
  <1> HIDE DEF L
  <1>4. PICK g : Good(g, L)
    BY <1>0, <1>3
  <1> DEFINE f == [k \in 0..L |-> g[k]]
  <1>5. ASSUME NEW k \in 0..L PROVE f[k] = Turn(c, f, k)
    <2>1. k \in Nat /\ (k # 0 => k - 1 \in 0..L)
      BY <1>0
    <2>2. k # 0 => g[k - 1] = f[k - 1]
      BY <2>1
    <2>3. Turn(c, g, k) = Turn(c, f, k)
      BY <2>1, <2>2, TurnLocal
    <2> QED BY <1>4, <2>3
  <1>6. f = [k \in 0..L |-> Turn(c, f, k)]
    BY <1>5
  <1> HIDE DEF f
  <1>7. Gathered(c) = [k \in 0..L |-> Turn(c, Gathered(c), k)]
    BY <1>6 DEF Gathered, L
  <1>8. \A k \in 0..L : [i \in 0..L |-> Turn(c, Gathered(c), i)][k] = Turn(c, Gathered(c), k)
    OBVIOUS
  <1> QED BY <1>7, <1>8 DEF L

\* What AcceptedOf keeps: the accepted candidates, all of them and no others.
LEMMA AcceptedOfFacts ==
  ASSUME NEW c, Len(c) \in Nat
  PROVE  /\ AcceptedOf(c) \in Seq({Got(c[k]) : k \in {i \in 1..Len(c) : Accepts(c[i].result)}})
         /\ \A k \in 1..Len(c) : Accepts(c[k].result) =>
              \E j \in 1..Len(AcceptedOf(c)) : AcceptedOf(c)[j] = Got(c[k])
  <1> DEFINE L == Len(c)
             f == Gathered(c)
             S == {Got(c[k]) : k \in {i \in 1..L : Accepts(c[i].result)}}
             All(n) == /\ f[n] \in Seq(S)
                       /\ \A k \in 1..n : Accepts(c[k].result) =>
                            \E j \in 1..Len(f[n]) : f[n][j] = Got(c[k])
             Good == {n \in Nat : n <= L => All(n)}
  <1>0. L \in Nat /\ \A k \in 0..L : f[k] = Turn(c, f, k)
    BY GatheredExists
  <1>1. AcceptedOf(c) = f[L]
    BY DEF AcceptedOf, Gathered, Turn
  <1> HIDE DEF L, f, S
  <1>2. 0 \in Good
    <2>1. f[0] = <<>>
      <3>1. 0 \in 0..L
        BY <1>0
      <3> QED BY <1>0, <3>1 DEF Turn
    <2>2. \A k \in 1..0 : FALSE
      OBVIOUS
    <2>3. f[0] \in Seq(S)
      <3>1. <<>> \in Seq(S)
        OBVIOUS
      <3> QED BY <2>1, <3>1
    <2>4. All(0)
      BY <2>2, <2>3
    <2> HIDE DEF All
    <2> QED BY <2>4
  <1>3. ASSUME NEW n \in Nat, n \in Good PROVE n + 1 \in Good
    <2> SUFFICES ASSUME n + 1 <= L PROVE All(n + 1)
      OBVIOUS
    <2>1. n + 1 \in 0..L /\ n + 1 \in 1..L /\ n <= L /\ n + 1 # 0 /\ (n + 1) - 1 = n
      BY <1>0
    <2>2. All(n)
      BY <1>3, <2>1
    <2>3. f[n + 1] = IF Accepts(c[n + 1].result) THEN Append(f[n], Got(c[n + 1])) ELSE f[n]
      BY <1>0, <2>1, Zenon DEF Turn, Got
    <2>4. CASE ~Accepts(c[n + 1].result)
      <3>1. f[n + 1] = f[n]
        BY <2>3, <2>4
      <3>2. \A k \in 1..(n + 1) : k \in 1..n \/ k = n + 1
        OBVIOUS
      <3> QED BY <2>2, <2>4, <3>1, <3>2
    <2>5. CASE Accepts(c[n + 1].result)
      <3> DEFINE x == Got(c[n + 1])
                 q == f[n]
                 r == f[n + 1]
      <3>1. r = Append(q, x) /\ x \in S
        BY <2>1, <2>3, <2>5 DEF S
      <3>2. q \in Seq(S) /\ \A k \in 1..n : Accepts(c[k].result) => \E j \in 1..Len(q) : q[j] = Got(c[k])
        BY <2>2
      <3> HIDE DEF x, q, r
      <3>3. r \in Seq(S) /\ Len(r) = Len(q) + 1 /\ Len(q) \in Nat
        BY <3>1, <3>2
      <3>4. r[Len(q) + 1] = x /\ \A j \in 1..Len(q) : r[j] = q[j]
        BY <3>1, <3>2
      <3>5. ASSUME NEW k \in 1..(n + 1), Accepts(c[k].result)
            PROVE  \E j \in 1..Len(r) : r[j] = Got(c[k])
        <4>1. CASE k = n + 1
          <5>1. Len(q) + 1 \in 1..Len(r)
            BY <3>3
          <5> QED BY <3>4, <4>1, <5>1 DEF x
        <4>2. CASE k # n + 1
          <5>1. k \in 1..n
            BY <4>2
          <5>2. PICK j \in 1..Len(q) : q[j] = Got(c[k])
            BY <3>2, <3>5, <5>1
          <5>3. j \in 1..Len(r)
            BY <3>3
          <5> QED BY <3>4, <5>2, <5>3
        <4> QED BY <4>1, <4>2
      <3> QED BY <3>3, <3>5 DEF r
    <2> QED BY <2>4, <2>5
  <1>4. Nat \subseteq Good
    <2> HIDE DEF Good
    <2> QED BY <1>2, <1>3, SetInduction
  <1>5. All(L)
    <2>1. L \in Nat /\ L <= L
      BY <1>0
    <2>2. L \in Good
      BY <1>4, <2>1
    <2> HIDE DEF All
    <2> QED BY <2>1, <2>2
  <1> QED BY <1>1, <1>5 DEF L, S

-----------------------------------------------------------------------------
(* The link and the extractor *)

LinkInv ==
  /\ OverTcp => link \in Seq(Nat)
  /\ ~OverTcp => /\ feeding = FALSE /\ frames = <<>> /\ layout = <<>>
                 /\ link \in Seq(Seq(Nat))
                 /\ \A k \in 1..Len(link) : \E j \in 1..Len(sent) : link[k] = sent[j].bytes

BaseInv ==
  /\ options \in ParsedOptions
  /\ simIndex \in Nat
  /\ sent \in Seq(Carried)
  /\ simPc = "send" => /\ sent # <<>> /\ simBytes = sent[Len(sent)].bytes
                       /\ simOffset \in 0..Len(simBytes)
  /\ LinkInv

LEMMA BaseInit == Init => BaseInv
  <1> SUFFICES ASSUME Init PROVE BaseInv
    OBVIOUS
  <1>1. /\ options \in ParsedOptions /\ simIndex = 0 /\ sent = <<>> /\ simPc # "send" /\ link = <<>>
        /\ feeding = FALSE /\ frames = <<>> /\ layout = <<>>
    BY DEF Init, SimInit, ExtractorInit
  <1>2. sent \in Seq(Carried) /\ link \in Seq(Nat) /\ link \in Seq(Seq(Nat)) /\ Len(link) = 0
    BY <1>1
  <1> QED BY <1>1, <1>2 DEF BaseInv, LinkInv

\* The radio is handed a frame, and over TCP the frame is given a place.
LEMMA RadioFacts ==
  ASSUME NaturalSymbols, BaseInv, Radio
  PROVE  \E x \in Carried :
           /\ sent' = Append(sent, x)
           /\ simBytes' = x.bytes
           /\ simOffset' = 0
           /\ simPc = "frame"
           /\ simPc' \in {"send", "store"} /\ (OverTcp => simPc' = "send")
           /\ UNCHANGED <<options, simIndex, link, extractorVars, accepted, rejected, duplicates>>
           /\ layout' = IF OverTcp
                        THEN Append(layout, [start |-> NextStreamPosition, size |-> Len(x.bytes),
                                             bad |-> {NextStreamPosition + d - 1 : d \in {x.damage} \ {0}}])
                        ELSE layout
  <1>1. TransmitFrame \/ TransmitDamagedFrame
    BY DEF Radio
  <1>2. PICK x \in SentItems :
           /\ x.frame \in FramesOf(simIndex)
           /\ sent' = Append(sent, x)
           /\ simBytes' = x.bytes
           /\ simPc = "frame"
           /\ simPc' \in {"send", "store"}
           /\ options.transport # "none" => simPc' = "send"
           /\ simOffset' = 0
           /\ UNCHANGED <<options, fileRoom, simIndex, simFault, link, capture>>
    BY <1>1, TransmitFacts DEF BaseInv
  <1>3. EncodeFrame(x.frame) \in Seq(Nat)
    BY <1>2, FramesNatural DEF BaseInv
  <1>4. x \in Carried
    BY <1>3, CarriedItem
  <1>5. sent'[Len(sent')] = x
    <2> DEFINE q == Append(sent, x)
    <2>1. sent \in Seq(Carried)
      BY DEF BaseInv
    <2>2. q[Len(q)] = x
      BY <1>4, <2>1
    <2> QED BY <1>2, <2>2
  <1>6. layout' = IF OverTcp
                  THEN Append(layout, [start |-> NextStreamPosition, size |-> Len(x.bytes),
                                       bad |-> {NextStreamPosition + d - 1 : d \in {x.damage} \ {0}}])
                  ELSE layout
    BY <1>2, <1>5 DEF Radio
  <1>7. UNCHANGED <<extractorVars, accepted, rejected, duplicates>>
    BY DEF Radio
  <1>8. OverTcp => simPc' = "send"
    BY <1>2 DEF OverTcp
  <1> QED BY <1>2, <1>4, <1>6, <1>7, <1>8

LEMMA WithoutFacts ==
  ASSUME NEW S, NEW q \in Seq(S), NEW k \in 1..Len(q)
  PROVE  /\ Without(q, k) \in Seq(S)
         /\ \A i \in 1..Len(Without(q, k)) : \E j \in 1..Len(q) : Without(q, k)[i] = q[j]
  <1> DEFINE T == {q[j] : j \in 1..Len(q)}
             a == SubSeq(q, 1, k - 1)
             b == SubSeq(q, k + 1, Len(q))
             w == a \o b
  <1>1. T \subseteq S /\ q \in Seq(T)
    <2>1. \A j \in 1..Len(q) : q[j] \in S /\ q[j] \in T
      OBVIOUS
    <2>2. T \subseteq S
      BY <2>1
    <2> HIDE DEF T
    <2>3. q \in Seq(T)
      BY <2>1
    <2> QED BY <2>2, <2>3
  <1> HIDE DEF T
  <1>2. a \in Seq(T)
    <2>1. \A i \in 1..(k - 1) : q[i] \in T
      BY <1>1
    <2> QED BY <2>1, SubSeqProperties
  <1>3. b \in Seq(T)
    <2>1. \A i \in (k + 1)..Len(q) : q[i] \in T
      BY <1>1
    <2> QED BY <2>1, SubSeqProperties
  <1> HIDE DEF a, b
  <1>4. w \in Seq(T)
    BY <1>2, <1>3
  <1> HIDE DEF w
  <1>5. \A i \in 1..Len(w) : w[i] \in T
    BY <1>4
  <1>6. w \in Seq(S)
    BY <1>1, <1>4
  <1> QED BY <1>5, <1>6 DEF w, a, b, T, Without

\* The steps that touch neither the link nor the extractor.
QuietStep == (SendFails \/ StoreFrame \/ FinishRun) /\ UNCHANGED <<extractorVars, airVars>>

LEMMA QuietFacts ==
  ASSUME QuietStep
  PROVE  /\ UNCHANGED <<options, simBytes, simOffset, link, sent, extractorVars, airVars>>
         /\ simPc' # "send" /\ (simPc' = "frame" => simPc = "store")
         /\ simPc' \in {"frame", "done", "failed"}
         /\ simIndex \in Nat => simIndex' \in Nat
  BY DEF QuietStep, SendFails, StoreFrame, FinishRun, Throw

LEMMA BaseStep ==
  ASSUME NaturalSymbols
  PROVE  BaseInv /\ [Next]_vars => BaseInv'
  <1> SUFFICES ASSUME BaseInv, [Next]_vars PROVE BaseInv'
    OBVIOUS
  <1>i. /\ options \in ParsedOptions /\ simIndex \in Nat /\ sent \in Seq(Carried) /\ LinkInv
        /\ simPc = "send" => /\ sent # <<>> /\ simBytes = sent[Len(sent)].bytes
                             /\ simOffset \in 0..Len(simBytes)
    BY DEF BaseInv
  <1>1. CASE Radio
    <2>1. PICK x \in Carried :
           /\ sent' = Append(sent, x)
           /\ simBytes' = x.bytes
           /\ simOffset' = 0
           /\ UNCHANGED <<options, simIndex, link, extractorVars>>
           /\ ~OverTcp => layout' = layout
      BY <1>1, RadioFacts
    <2> DEFINE q == Append(sent, x)
    <2>2. q \in Seq(Carried) /\ q # <<>> /\ q[Len(q)] = x /\ Len(q) = Len(sent) + 1
          /\ \A j \in 1..Len(sent) : j \in 1..Len(q) /\ q[j] = sent[j]
      <3>1. sent \in Seq(Carried)
        BY <1>i
      <3>2. q \in Seq(Carried) /\ q # <<>> /\ q[Len(q)] = x /\ Len(q) = Len(sent) + 1
        BY <3>1
      <3>3. \A j \in 1..Len(sent) : q[j] = sent[j]
        BY <3>1
      <3>4. \A j \in 1..Len(sent) : j \in 1..Len(q)
        <4> HIDE DEF q
        <4> QED BY <3>1, <3>2
      <3> QED BY <3>2, <3>3, <3>4
    <2> HIDE DEF q
    <2>3. 0 \in 0..Len(x.bytes)
      BY CarriedFacts
    <2>4. LinkInv'
      <3>1. OverTcp' = OverTcp /\ feeding' = feeding /\ frames' = frames /\ link' = link /\ sent' = q
        BY <2>1 DEF OverTcp, extractorVars, q
      <3> QED BY <1>i, <2>1, <2>2, <3>1 DEF LinkInv
    <2> QED BY <1>i, <2>1, <2>2, <2>3, <2>4 DEF BaseInv, q
  <1>2. CASE QuietStep
    <2>1. /\ UNCHANGED <<options, simBytes, simOffset, link, sent, extractorVars, airVars>>
          /\ simPc' # "send" /\ simIndex' \in Nat
      BY <1>i, <1>2, QuietFacts
    <2>2. LinkInv'
      BY <1>i, <2>1 DEF LinkInv, OverTcp, extractorVars, airVars
    <2> QED BY <1>i, <2>1, <2>2 DEF BaseInv
  <1>3. CASE SendSome /\ UNCHANGED <<extractorVars, airVars>>
    <2>1. PICK n \in 1..(Len(simBytes) - simOffset) :
            /\ link' = link \o SubSeq(simBytes, simOffset + 1, simOffset + n)
            /\ simOffset' = simOffset + n
      BY <1>3 DEF SendSome
    <2>2. /\ UNCHANGED <<options, simIndex, simBytes, sent, extractorVars, airVars>>
          /\ OverTcp /\ simPc = "send"
      BY <1>3 DEF SendSome, OverTcp
    <2> DEFINE w == sent[Len(sent)].bytes
               o == simOffset
               z == Len(w)
    <2>3. simBytes = w /\ w \in Seq(Nat) /\ o \in 0..z /\ link \in Seq(Nat) /\ sent # <<>>
      <3>1. sent # <<>> /\ simBytes = w /\ o \in 0..Len(simBytes)
        BY <1>i, <2>2
      <3>2. sent[Len(sent)] \in Carried
        BY <1>i, <3>1
      <3> QED BY <1>i, <2>2, <3>1, <3>2, CarriedFacts DEF LinkInv
    <2>4. n \in 1..(z - o) /\ z \in Nat
      BY <2>1, <2>3
    <2> HIDE DEF w, o, z
    <2>5. o + n \in 0..z /\ \A i \in (o + 1)..(o + n) : i \in 1..z
      BY <2>3, <2>4
    <2> DEFINE u == SubSeq(w, o + 1, o + n)
    <2>6. u \in Seq(Nat)
      <3>1. \A i \in (o + 1)..(o + n) : w[i] \in Nat
        BY <2>3, <2>5 DEF z
      <3>2. o + 1 \in Int /\ o + n \in Int
        BY <2>3, <2>4
      <3> QED BY <3>1, <3>2, SubSeqProperties
    <2> HIDE DEF u
    <2>7. link \o u \in Seq(Nat)
      BY <2>3, <2>6
    <2>8. link' \in Seq(Nat)
      BY <2>1, <2>3, <2>7 DEF u, o
    <2>9. LinkInv' /\ simOffset' \in 0..Len(simBytes')
      <3>1. OverTcp'
        BY <2>2 DEF OverTcp
      <3>2. Len(simBytes') = z /\ simOffset' = o + n
        BY <2>1, <2>2, <2>3 DEF o, z
      <3> QED BY <2>5, <2>8, <3>1, <3>2 DEF LinkInv
    <2> QED BY <1>i, <2>2, <2>9 DEF BaseInv
  <1>4. CASE SendDatagram /\ UNCHANGED <<extractorVars, airVars>>
    <2>1. /\ link' = Append(link, simBytes) /\ simPc' = "store" /\ ~OverTcp /\ simPc = "send"
          /\ UNCHANGED <<options, simIndex, sent, extractorVars, airVars>>
      BY <1>4 DEF SendDatagram, OverTcp
    <2>2. sent # <<>> /\ simBytes = sent[Len(sent)].bytes
      BY <1>i, <2>1
    <2>3. Len(sent) \in 1..Len(sent) /\ sent[Len(sent)] \in Carried
      BY <1>i, <2>2
    <2>4. simBytes \in Seq(Nat)
      BY <2>2, <2>3, CarriedFacts
    <2>5. /\ link \in Seq(Seq(Nat))
          /\ \A k \in 1..Len(link) : \E j \in 1..Len(sent) : link[k] = sent[j].bytes
      BY <1>i, <2>1 DEF LinkInv
    <2> DEFINE S == Seq(Nat)
               b == simBytes
               r == Append(link, b)
    <2>6. link \in Seq(S) /\ b \in S
      BY <2>4, <2>5
    <2> HIDE DEF S, b
    <2>7. r \in Seq(S) /\ Len(r) = Len(link) + 1 /\ r[Len(link) + 1] = b /\ \A k \in 1..Len(link) : r[k] = link[k]
      BY <2>6
    <2>8. ASSUME NEW k \in 1..Len(r) PROVE \E j \in 1..Len(sent) : r[k] = sent[j].bytes
      <3>1. k = Len(link) + 1 \/ k \in 1..Len(link)
        <4>1. Len(link) \in Nat
          BY <2>6
        <4> HIDE DEF r
        <4> QED BY <2>7, <4>1
      <3> HIDE DEF r
      <3> QED BY <2>2, <2>3, <2>5, <2>7, <3>1 DEF b
    <2>9. LinkInv'
      <3>1. ~OverTcp' /\ feeding' = FALSE /\ frames' = <<>> /\ layout' = <<>> /\ link' = r /\ sent' = sent
        BY <1>i, <2>1 DEF LinkInv, OverTcp, extractorVars, airVars, b
      <3> HIDE DEF r
      <3> QED BY <2>7, <2>8, <3>1 DEF LinkInv, S
    <2> QED BY <1>i, <2>1, <2>9 DEF BaseInv
  <1>5. CASE ForeignSymbol
    <2>1. PICK symbol \in NoiseSymbols : link' = Append(link, symbol)
      BY <1>5 DEF ForeignSymbol
    <2>2. /\ UNCHANGED <<options, simIndex, simPc, simBytes, simOffset, sent, extractorVars>>
          /\ OverTcp
      BY <1>5 DEF ForeignSymbol
    <2>3. link \in Seq(Nat) /\ symbol \in Nat
      BY <1>i, <2>2, SymbolAssumption DEF LinkInv
    <2>4. Append(link, symbol) \in Seq(Nat)
      BY <2>3
    <2>5. LinkInv'
      BY <2>1, <2>2, <2>4 DEF LinkInv, OverTcp
    <2> QED BY <1>i, <2>2, <2>5 DEF BaseInv
  <1>6. CASE ReceiveBytes
    <2>1. PICK n \in 1..Len(link) : LinkOnly(SubSeq(link, n + 1, Len(link)))
      BY <1>6 DEF ReceiveBytes
    <2>2. /\ UNCHANGED <<options, simIndex, simPc, simBytes, simOffset, sent, layout>>
          /\ OverTcp /\ link' = SubSeq(link, n + 1, Len(link))
      BY <1>6, <2>1 DEF ReceiveBytes, LinkOnly, airVars
    <2>3. link \in Seq(Nat)
      BY <1>i, <2>2 DEF LinkInv
    <2>4. n \in 0..Len(link)
      BY <2>3
    <2>5. SubSeq(link, n + 1, Len(link)) \in Seq(Nat)
      BY <2>3, <2>4, TailFacts
    <2>6. LinkInv'
      BY <2>2, <2>5 DEF LinkInv, OverTcp
    <2> QED BY <1>i, <2>2, <2>6 DEF BaseInv
  <1>7. CASE ExtractorStep \/ HandCandidates \/ EraseClient
    <2>1. UNCHANGED <<options, simIndex, simPc, simBytes, simOffset, sent, link, layout>>
      BY <1>7 DEF ExtractorStep, HandCandidates, EraseClient, simVars, airVars
    <2>2. OverTcp
      <3> SUFFICES ASSUME ~OverTcp PROVE FALSE
        OBVIOUS
      <3>1. feeding = FALSE /\ frames = <<>>
        BY <1>i DEF LinkInv
      <3> QED BY <1>7, <3>1 DEF ExtractorStep, HandCandidates, EraseClient, Scan, NoMagic, AwaitHeader,
               BadLength, AwaitFrame, EmitFrame, HeaderComplete, Take
    <2>3. LinkInv'
      BY <1>i, <2>1, <2>2 DEF LinkInv, OverTcp
    <2> QED BY <1>i, <2>1, <2>3 DEF BaseInv
  <1>8. CASE ReceiveDatagram \/ LoseDatagram \/ DuplicateDatagram
    <2>1. PICK k \in DOMAIN link : LinkOnly(Without(link, k)) \/ LinkOnly(Append(link, link[k]))
      BY <1>8 DEF ReceiveDatagram, LoseDatagram, DuplicateDatagram
    <2>2. /\ UNCHANGED <<options, simIndex, simPc, simBytes, simOffset, sent>>
          /\ link' = Without(link, k) \/ link' = Append(link, link[k])
      BY <2>1 DEF LinkOnly
    <2>3. UNCHANGED <<feeding, frames, layout>> /\ ~OverTcp
      BY <1>8 DEF ReceiveDatagram, LoseDatagram, DuplicateDatagram, extractorVars, airVars, OverTcp
    <2>4. /\ link \in Seq(Seq(Nat)) /\ feeding = FALSE /\ frames = <<>> /\ layout = <<>>
          /\ \A i \in 1..Len(link) : \E j \in 1..Len(sent) : link[i] = sent[j].bytes
      BY <1>i, <2>3 DEF LinkInv
    <2> DEFINE S == Seq(Nat)
    <2>5. link \in Seq(S) /\ k \in 1..Len(link)
      BY <2>4
    <2> HIDE DEF S
    <2>6. /\ Without(link, k) \in Seq(S)
          /\ \A i \in 1..Len(Without(link, k)) : \E j \in 1..Len(link) : Without(link, k)[i] = link[j]
      BY <2>5, WithoutFacts
    <2>7. /\ Append(link, link[k]) \in Seq(S)
          /\ \A i \in 1..Len(Append(link, link[k])) : \E j \in 1..Len(link) : Append(link, link[k])[i] = link[j]
      <3> DEFINE x == link[k]
                 r == Append(link, x)
      <3>1. x \in S
        BY <2>5
      <3> HIDE DEF x
      <3>2. r \in Seq(S) /\ Len(r) = Len(link) + 1 /\ r[Len(link) + 1] = x /\ (\A i \in 1..Len(link) : r[i] = link[i])
        BY <2>5, <3>1
      <3>3. Len(link) \in Nat
        BY <2>5
      <3> HIDE DEF r
      <3>4. \A i \in 1..Len(r) : i = Len(link) + 1 \/ i \in 1..Len(link)
        BY <3>2, <3>3
      <3>5. \A i \in 1..Len(r) : \E j \in 1..Len(link) : r[i] = link[j]
        BY <2>5, <3>2, <3>4 DEF x
      <3> QED BY <3>2, <3>5 DEF r, x
    <2>8. link' \in Seq(S) /\ \A i \in 1..Len(link') : \E j \in 1..Len(link) : link'[i] = link[j]
      BY <2>2, <2>6, <2>7
    <2>9. \A i \in 1..Len(link') : \E j \in 1..Len(sent) : link'[i] = sent[j].bytes
      <3> TAKE i \in 1..Len(link')
      <3>1. PICK h \in 1..Len(link) : link'[i] = link[h]
        BY <2>8
      <3>2. PICK j \in 1..Len(sent) : link[h] = sent[j].bytes
        BY <2>4
      <3> QED BY <3>1, <3>2
    <2>10. LinkInv'
      BY <2>2, <2>3, <2>4, <2>8, <2>9 DEF LinkInv, OverTcp, S
    <2> QED BY <1>i, <2>2, <2>10 DEF BaseInv
  <1>9. CASE UNCHANGED vars
    <2>1. UNCHANGED <<options, simIndex, simPc, simBytes, simOffset, sent, link, layout, feeding, frames>>
      BY <1>9 DEF vars, simVars, extractorVars
    <2>2. LinkInv'
      BY <1>i, <2>1 DEF LinkInv, OverTcp
    <2> QED BY <1>i, <2>1, <2>2 DEF BaseInv
  <1> QED BY <1>1, <1>2, <1>3, <1>4, <1>5, <1>6, <1>7, <1>8, <1>9
          DEF Next, SimulatorStep, QuietStep, Finished

-----------------------------------------------------------------------------
(* The downlink drives its extractor as the component allows *)

LEMMA ReadsAreSymbols ==
  ASSUME BaseInv, OverTcp, NEW n \in 1..Len(link)
  PROVE  /\ link \in Seq(Nat) /\ SubSeq(link, 1, n) \in Seq(Nat)
         /\ SubSeq(link, n + 1, Len(link)) \in Seq(Nat)
         /\ SubSeq(link, 1, n) \o SubSeq(link, n + 1, Len(link)) = link
  <1> DEFINE a == SubSeq(link, 1, n)
             r == SubSeq(link, n + 1, Len(link))
             z == Len(link)
             t == a \o r
  <1>1. link \in Seq(Nat)
    BY DEF BaseInv, LinkInv
  <1>2. z \in Nat /\ n \in 0..z /\ n \in Nat
    BY <1>1
  <1>3. a \in Seq(Nat) /\ Len(a) = n /\ \A i \in 1..n : a[i] = link[i]
    BY <1>1
  <1>4. r \in Seq(Nat) /\ Len(r) = z - n /\ \A i \in 1..(z - n) : r[i] = link[n + i]
    BY <1>1, <1>2, TailFacts
  <1> HIDE DEF a, r
  <1>5. /\ t \in Seq(Nat) /\ Len(t) = n + (z - n)
        /\ \A i \in 1..n : t[i] = a[i]
        /\ \A i \in 1..(z - n) : t[n + i] = r[i]
    <2>0. a \in Seq(Nat) /\ r \in Seq(Nat)
      BY <1>3, <1>4
    <2>1. t \in Seq(Nat) /\ Len(t) = Len(a) + Len(r)
      BY <2>0
    <2>2. \A i \in 1..Len(a) : t[i] = a[i]
      BY <2>0
    <2>3. \A i \in 1..Len(r) : t[Len(a) + i] = r[i]
      BY <2>0, ConcatProperties
    <2> QED BY <1>3, <1>4, <2>1, <2>2, <2>3
  <1>6. ASSUME NEW i \in 1..z PROVE t[i] = link[i]
    <2>1. CASE i <= n
      <3>1. i \in 1..n
        BY <1>2, <2>1 DEF z
      <3> QED BY <1>3, <1>5, <3>1
    <2>2. CASE i > n
      <3> HIDE DEF z, t
      <3>1. i - n \in 1..(z - n) /\ n + (i - n) = i
        BY <1>2, <2>2
      <3>2. t[n + (i - n)] = link[n + (i - n)]
        BY <1>4, <1>5, <3>1
      <3> QED BY <3>1, <3>2
    <2>3. i <= n \/ i > n
      BY <1>2
    <2> QED BY <2>1, <2>2, <2>3
  <1>7. Len(t) = z
    <2> HIDE DEF t, z
    <2> QED BY <1>2, <1>5
  <1> HIDE DEF t
  <1>8. t = link
    BY <1>1, <1>5, <1>6, <1>7, SeqEqual DEF z
  <1> QED BY <1>1, <1>3, <1>4, <1>8 DEF t, a, r

LEMMA DrivesExtractor == BaseInv /\ [Next]_vars => [ExtractorNext]_extractorVars
  <1> SUFFICES ASSUME BaseInv, [Next]_vars PROVE [ExtractorNext]_extractorVars
    OBVIOUS
  <1>1. CASE SimulatorStep \/ ForeignSymbol
    BY <1>1 DEF SimulatorStep, Radio, ForeignSymbol
  <1>2. CASE ReceiveBytes
    <2>1. PICK n \in 1..Len(link) : Feed(SubSeq(link, 1, n))
      BY <1>2 DEF ReceiveBytes
    <2>2. SubSeq(link, 1, n) \in Seq(Nat)
      BY <1>2, ReadsAreSymbols DEF ReceiveBytes
    <2> QED BY <2>1, <2>2 DEF ExtractorNext
  <1>3. CASE ExtractorStep \/ HandCandidates \/ EraseClient
    BY <1>3 DEF ExtractorStep, HandCandidates, EraseClient, ExtractorNext
  <1>4. CASE ReceiveDatagram \/ LoseDatagram \/ DuplicateDatagram
    BY <1>4 DEF ReceiveDatagram, LoseDatagram, DuplicateDatagram
  <1>5. CASE UNCHANGED vars
    BY <1>5 DEF vars
  <1> QED BY <1>1, <1>2, <1>3, <1>4, <1>5 DEF Next, Finished

LEMMA BaseInvariant ==
  ASSUME NaturalSymbols
  PROVE  Spec => []BaseInv
  BY BaseInit, BaseStep, PTL DEF Spec

\* The extractor of a connection sees what module StreamExtractor allows: the
\* link only ever feeds it symbols, and hands out, erases and waits as its
\* caller does (the client loop, NetworkServerTcp.cpp:160-200, around feed(),
\* FrameCodec.cpp:250-304).
\* Its promises hold in every downlink.
THEOREM DownlinkRefinesExtractor ==
  ASSUME NaturalSymbols
  PROVE  Spec => ExtractorSpec
  <1>1. Init => ExtractorInit
    BY DEF Init
  <1> QED BY <1>1, DrivesExtractor, BaseInvariant, PTL DEF Spec, ExtractorSpec

LEMMA DownlinkExtractorInv ==
  ASSUME NaturalSymbols
  PROVE  Spec => []ExtractorInv
  BY DownlinkRefinesExtractor, ExtractorInvariant, PTL

\* On a real connection too: less than one frame is held between two reads,
\* the reads' sizes make no difference, and resynchronisation throws no
\* candidate away (FrameCodec.cpp:250-294).
THEOREM DownlinkExtraction ==
  ASSUME NaturalSymbols
  PROVE  Spec => [](BufferBounded /\ ChunkingIrrelevant /\ NoFrameDiscarded)
  BY DownlinkRefinesExtractor, BufferTheorem, ChunkingTheorem, NothingDiscardedTheorem, PTL

-----------------------------------------------------------------------------
(* The layout of the connection's stream as it grows *)

\* No place of lay reaches beyond n.
EndsBy(lay, n) == \A k \in 1..Len(lay) : lay[k].start + Width(lay[k]) <= n + 1

\* items2 keeps the items where they are.
Keeps(items, items2) == \A j \in 1..Len(items) : j \in 1..Len(items2) /\ items2[j] = items[j]

Holds(f, items, t) == Foreign(f) \/ \E j \in 1..Len(items) : Carries(f, items[j], t)

\* A place behind everything written so far.
LEMMA TiledAppend ==
  ASSUME NEW lay \in Seq(Place), NEW items, NEW items2, NEW t \in Seq(Nat),
         Tiled(lay, items, t), EndsBy(lay, Len(t)),
         Keeps(items, items2), NEW f \in Place, f.start = Len(t) + 1, Holds(f, items2, t)
  PROVE  /\ Append(lay, f) \in Seq(Place) /\ Len(Append(lay, f)) = Len(lay) + 1
         /\ Append(lay, f)[Len(lay) + 1] = f
         /\ \A k \in 1..Len(lay) : Append(lay, f)[k] = lay[k]
         /\ Tiled(Append(lay, f), items2, t)
  <1> DEFINE q == Append(lay, f)
             n == Len(lay)
  <1>1. q \in Seq(Place) /\ Len(q) = n + 1 /\ q[n + 1] = f /\ (\A k \in 1..n : q[k] = lay[k])
    <2> HIDE DEF Place
    <2> QED OBVIOUS
  <1>2. n \in Nat
    OBVIOUS
  <1> HIDE DEF q, n
  <1>3. \A k \in 1..Len(q) : k \in 1..n \/ k = n + 1
    BY <1>1, <1>2
  <1>4. \A k \in 1..n : k \in 1..Len(q)
    BY <1>1, <1>2
  <1>5. \A k \in 1..Len(q) : Foreign(q[k]) \/ \E j \in 1..Len(items2) : Carries(q[k], items2[j], t)
    <2> SUFFICES ASSUME NEW k \in 1..Len(q)
                 PROVE  Foreign(q[k]) \/ \E j \in 1..Len(items2) : Carries(q[k], items2[j], t)
      OBVIOUS
    <2>1. CASE k = n + 1
      BY <1>1, <2>1 DEF Holds
    <2>2. CASE k \in 1..n
      <3>1. q[k] = lay[k]
        BY <1>1, <2>2
      <3>2. Foreign(lay[k]) \/ \E j \in 1..Len(items) : Carries(lay[k], items[j], t)
        BY <2>2 DEF Tiled, n
      <3> QED BY <3>1, <3>2 DEF Keeps
    <2> QED BY <1>3, <2>1, <2>2
  <1>6. \A k, l \in 1..Len(q) : k < l => q[k].start + Width(q[k]) <= q[l].start
    <2> SUFFICES ASSUME NEW k \in 1..Len(q), NEW l \in 1..Len(q), k < l
                 PROVE  q[k].start + Width(q[k]) <= q[l].start
      OBVIOUS
    <2>1. k \in 1..n /\ (l \in 1..n \/ l = n + 1)
      BY <1>1, <1>2
    <2>2. CASE l \in 1..n
      BY <1>1, <2>1, <2>2 DEF Tiled, n
    <2>3. CASE l = n + 1
      <3>1. lay[k].start + Width(lay[k]) <= Len(t) + 1
        BY <2>1 DEF EndsBy, n
      <3> QED BY <1>1, <2>1, <2>3, <3>1
    <2> QED BY <2>1, <2>2, <2>3
  <1>7. \A i \in 1..Len(t) : \E k \in 1..Len(q) : InPlace(q[k], i)
    BY <1>1, <1>4 DEF Tiled, n
  <1>8. Tiled(q, items2, t)
    BY <1>5, <1>6, <1>7 DEF Tiled
  <1> QED BY <1>1, <1>8 DEF q, n

LEMMA CarriesGrows ==
  ASSUME NEW lay \in Seq(Place), NEW k \in 1..Len(lay), NEW x, NEW t \in Seq(Nat), NEW u \in Seq(Nat),
         Carries(lay[k], x, t), lay[k].start + Width(lay[k]) <= Len(t) + 1
  PROVE  Carries(lay[k], x, t \o u)
  <1> DEFINE a == lay[k].start
             n == lay[k].size
             z == Len(t)
  <1>1. a \in Nat \ {0} /\ n \in Nat /\ (n # 0 => a + n <= z + 1) /\ z \in Nat
    <2>1. a \in Nat \ {0} /\ n \in Nat /\ (n # 0 => Width(lay[k]) = n)
      BY PlaceFacts
    <2>2. z \in Nat /\ a + Width(lay[k]) <= z + 1
      OBVIOUS
    <2> QED BY <2>1, <2>2
  <1>2. \A i \in 1..z : (t \o u)[i] = t[i]
    OBVIOUS
  <1>3. ASSUME NEW i \in 1..n PROVE (t \o u)[a + i - 1] = x.bytes[i]
    <2> HIDE DEF a, n, z
    <2>1. a + i - 1 \in 1..z /\ a + i - 1 <= z
      BY <1>1
    <2>2. t[a + i - 1] = x.bytes[i]
      BY <2>1 DEF Carries, a, n, z
    <2> QED BY <1>2, <2>1, <2>2
  <1> QED BY <1>3 DEF Carries, a, n

\* More is written: at most the last place is still being filled.
LEMMA TiledGrows ==
  ASSUME NEW lay \in Seq(Place), NEW items, NEW t \in Seq(Nat), NEW u \in Seq(Nat),
         Tiled(lay, items, t), lay # <<>>,
         \A k \in 1..Len(lay) : k # Len(lay) => lay[k].start + Width(lay[k]) <= Len(t) + 1,
         Foreign(lay[Len(lay)]) \/ \E j \in 1..Len(items) : Carries(lay[Len(lay)], items[j], t \o u),
         \A i \in (Len(t) + 1)..(Len(t) + Len(u)) : InPlace(lay[Len(lay)], i)
  PROVE  Tiled(lay, items, t \o u)
  <1> DEFINE r == t \o u
             n == Len(lay)
  <1>1. n \in 1..n /\ n \in Nat
    <2> HIDE DEF Place
    <2> QED OBVIOUS
  <1>2. Len(r) = Len(t) + Len(u) /\ Len(t) \in Nat /\ Len(u) \in Nat
    OBVIOUS
  <1>3. ASSUME NEW k \in 1..n
        PROVE  Foreign(lay[k]) \/ \E j \in 1..Len(items) : Carries(lay[k], items[j], r)
    <2>1. CASE k = n
      BY <2>1
    <2>2. CASE k # n
      <3>1. Foreign(lay[k]) \/ \E j \in 1..Len(items) : Carries(lay[k], items[j], t)
        BY DEF Tiled
      <3>2. lay[k].start + Width(lay[k]) <= Len(t) + 1
        BY <2>2
      <3>3. ASSUME NEW j \in 1..Len(items), Carries(lay[k], items[j], t)
            PROVE  Carries(lay[k], items[j], r)
        BY <3>2, <3>3, CarriesGrows
      <3> QED BY <3>1, <3>3
    <2> QED BY <2>1, <2>2
  <1> HIDE DEF r, n
  <1>4. ASSUME NEW i \in 1..Len(r) PROVE \E k \in 1..n : InPlace(lay[k], i)
    <2>1. i \in 1..Len(t) \/ i \in (Len(t) + 1)..(Len(t) + Len(u))
      BY <1>2
    <2>2. CASE i \in 1..Len(t)
      BY <2>2 DEF Tiled, n
    <2>3. CASE i \in (Len(t) + 1)..(Len(t) + Len(u))
      BY <1>1, <2>3 DEF n
    <2> QED BY <2>1, <2>2, <2>3
  <1> QED BY <1>3, <1>4 DEF Tiled, r, n

\* lay tells where items lie in t, with the sender at pc, off symbols into the
\* last of them.
Laid(lay, items, t, pc, off) ==
  /\ lay \in Seq(Place)
  /\ Tiled(lay, items, t)
  /\ pc \in {"frame", "store"} => EndsBy(lay, Len(t))
  /\ pc = "send" => /\ lay # <<>>
                    /\ Carries(lay[Len(lay)], items[Len(items)], t)
                    /\ lay[Len(lay)].start + off = Len(t) + 1

LEMMA LaidFrame ==
  ASSUME NEW lay, NEW items \in Seq(Carried), NEW t \in Seq(Nat), NEW off,
         Laid(lay, items, t, "frame", off), NEW x \in Carried, NEW p, p = Len(t) + 1
  PROVE  Laid(Append(lay, [start |-> p, size |-> Len(x.bytes),
                           bad |-> {p + d - 1 : d \in {x.damage} \ {0}}]),
              Append(items, x), t, "send", 0)
  <1> DEFINE f == [start |-> p, size |-> Len(x.bytes),
                   bad |-> {p + d - 1 : d \in {x.damage} \ {0}}]
             q == Append(lay, f)
             r == Append(items, x)
  <1>1. lay \in Seq(Place) /\ Tiled(lay, items, t) /\ EndsBy(lay, Len(t))
    BY DEF Laid
  <1>2. x.damage \in Nat /\ Len(x.bytes) \in Nat /\ Len(t) \in Nat
    BY CarriedFacts
  <1>3. f \in Place
    <2>1. p \in Nat \ {0}
      BY <1>2
    <2>2. \A d \in {x.damage} \ {0} : p + d - 1 \in Nat
      BY <1>2
    <2> QED BY <1>2, <2>1, <2>2 DEF Place
  <1>4. f.start = Len(t) + 1 /\ f.size = Len(x.bytes)
        /\ f.bad = {f.start + d - 1 : d \in {x.damage} \ {0}}
    OBVIOUS
  <1> HIDE DEF f
  <1>5. Carries(f, x, t)
    <2> DEFINE z == Len(t)
               a == f.start
    <2>1. ASSUME NEW i \in 1..f.size PROVE ~(a + i - 1 <= z)
      <3>1. a = z + 1 /\ z \in Nat /\ i \in Nat \ {0}
        BY <1>2, <1>4
      <3> HIDE DEF a, z
      <3> QED BY <3>1
    <2> QED BY <1>4, <2>1 DEF Carries
  <1>6. /\ Len(r) = Len(items) + 1 /\ r[Len(items) + 1] = x /\ Len(items) \in Nat
        /\ \A j \in 1..Len(items) : r[j] = items[j]
    OBVIOUS
  <1> HIDE DEF r
  <1>7. Keeps(items, r) /\ Holds(f, r, t)
    <2>1. Len(items) + 1 \in 1..Len(r) /\ \A j \in 1..Len(items) : j \in 1..Len(r) /\ r[j] = items[j]
      BY <1>6
    <2> QED BY <1>5, <1>6, <2>1 DEF Keeps, Holds
  <1>9. /\ q \in Seq(Place) /\ Len(q) = Len(lay) + 1 /\ q[Len(lay) + 1] = f
        /\ Tiled(q, r, t)
    BY <1>1, <1>3, <1>4, <1>7, TiledAppend
  <1> HIDE DEF q
  <1>10. q # <<>>
    <2>1. Len(lay) \in Nat
      BY <1>1
    <2>2. Len(q) # 0
      BY <1>9, <2>1
    <2> QED BY <2>2
  <1>11. q[Len(q)] = f /\ r[Len(r)] = x /\ f.start + 0 = Len(t) + 1
    BY <1>2, <1>4, <1>6, <1>9
  <1>12. Laid(q, r, t, "send", 0)
    BY <1>5, <1>9, <1>10, <1>11 DEF Laid
  <1> QED BY <1>12 DEF q, r, f

LEMMA LaidNoise ==
  ASSUME NEW lay, NEW items, NEW t \in Seq(Nat), NEW off,
         Laid(lay, items, t, "frame", off), NEW symbol \in Nat, NEW p, p = Len(t) + 1
  PROVE  Laid(Append(lay, [start |-> p, size |-> 0, bad |-> {p}]),
              items, t \o <<symbol>>, "frame", off)
  <1> DEFINE f == [start |-> p, size |-> 0, bad |-> {p}]
             q == Append(lay, f)
             u == <<symbol>>
             r == t \o u
             z == Len(t)
  <1>1. lay \in Seq(Place) /\ Tiled(lay, items, t) /\ EndsBy(lay, z)
    BY DEF Laid
  <1>2. z \in Nat /\ u \in Seq(Nat) /\ Len(u) = 1
    OBVIOUS
  <1>3. Len(r) = z + 1
    <2> HIDE DEF u
    <2>1. u \in Seq(Nat)
      BY <1>2
    <2>2. Len(r) = Len(t) + Len(u)
      BY <2>1
    <2> QED BY <1>2, <2>2
  <1>4. f \in Place /\ Foreign(f) /\ f.start = z + 1 /\ Width(f) = 1
    <2>1. f \in Place
      BY <1>2 DEF Place
    <2> QED BY <2>1 DEF Foreign, Width
  <1> HIDE DEF f, u
  <1>5. /\ q \in Seq(Place) /\ Len(q) = Len(lay) + 1 /\ q[Len(lay) + 1] = f
        /\ \A k \in 1..Len(lay) : q[k] = lay[k]
        /\ Tiled(q, items, t)
    <2>1. Keeps(items, items) /\ Holds(f, items, t)
      BY <1>4 DEF Keeps, Holds
    <2> QED BY <1>1, <1>4, <2>1, TiledAppend
  <1>6. Len(lay) \in Nat
    BY <1>1
  <1> HIDE DEF q, r, z
  <1>7. q # <<>> /\ q[Len(q)] = f
    <2>1. Len(q) # 0
      BY <1>5, <1>6
    <2> QED BY <1>5, <2>1
  <1>8. ASSUME NEW k \in 1..Len(q)
        PROVE  q[k].start + Width(q[k]) <= z + 2 /\ (k # Len(q) => q[k].start + Width(q[k]) <= z + 1)
    <2>1. CASE k = Len(q)
      BY <1>2, <1>4, <1>7, <2>1
    <2>2. CASE k # Len(q)
      <3>1. k \in 1..Len(lay)
        BY <1>5, <1>6, <2>2
      <3> DEFINE g == lay[k].start + Width(lay[k])
      <3>2. g <= z + 1
        BY <1>1, <3>1 DEF EndsBy
      <3>3. g \in Nat /\ q[k].start + Width(q[k]) = g
        BY <1>1, <1>5, <3>1, PlaceFacts
      <3> HIDE DEF g
      <3> QED BY <1>2, <3>2, <3>3
    <2> QED BY <2>1, <2>2
  <1>9. \A i \in (z + 1)..(z + Len(u)) : InPlace(f, i)
    BY <1>2, <1>4 DEF InPlace
  <1>10. Tiled(q, items, r)
    <2>1. \A k \in 1..Len(q) : k # Len(q) => q[k].start + Width(q[k]) <= Len(t) + 1
      BY <1>8 DEF z
    <2>2. \A i \in (Len(t) + 1)..(Len(t) + Len(u)) : InPlace(q[Len(q)], i)
      BY <1>7, <1>9 DEF z
    <2>3. Foreign(q[Len(q)])
      BY <1>4, <1>7
    <2> QED BY <1>2, <1>5, <1>7, <2>1, <2>2, <2>3, TiledGrows DEF r
  <1>11. EndsBy(q, Len(r))
    <2>1. z + 1 + 1 = z + 2
      BY <1>2
    <2> QED BY <1>3, <1>8, <2>1 DEF EndsBy
  <1>12. Laid(q, items, r, "frame", off)
    BY <1>5, <1>10, <1>11 DEF Laid
  <1> QED BY <1>12 DEF q, r, f, u, z

LEMMA LaidSend ==
  ASSUME NEW lay, NEW items \in Seq(Carried), NEW t \in Seq(Nat), NEW off, items # <<>>,
         Laid(lay, items, t, "send", off),
         off \in 0..Len(items[Len(items)].bytes),
         NEW n \in 1..(Len(items[Len(items)].bytes) - off)
  PROVE  Laid(lay, items, t \o SubSeq(items[Len(items)].bytes, off + 1, off + n),
              IF off + n = Len(items[Len(items)].bytes) THEN "store" ELSE "send", off + n)
  <1> DEFINE x == items[Len(items)]
             w == x.bytes
             b == Len(w)
             u == SubSeq(w, off + 1, off + n)
             r == t \o u
             z == Len(t)
             m == Len(lay)
             f == lay[m]
             a == f.start
  <1>1. Len(items) \in 1..Len(items) /\ x \in Carried
    OBVIOUS
  <1>2. w \in Seq(Nat) /\ b \in Nat /\ b > 0
    <2>1. w \in Seq(Nat) /\ b \in MinFrameSize..MaxFrameSize
      BY <1>1, CarriedFacts
    <2>2. MinFrameSize \in Nat /\ MinFrameSize > 0 /\ MaxFrameSize \in Nat
      BY SizeFacts
    <2> QED BY <2>1, <2>2
  <1>3. /\ lay \in Seq(Place) /\ Tiled(lay, items, t) /\ lay # <<>>
        /\ Carries(f, x, t) /\ a + off = z + 1
    BY DEF Laid
  <1>4. z \in Nat /\ m \in 1..m /\ m \in Nat
    <2> HIDE DEF Place
    <2> QED BY <1>3
  <1> HIDE DEF x
  <1>5. off \in 0..b /\ n \in 1..(b - off) /\ f.size = b
    BY <1>3 DEF x, Carries
  <1>6. a \in Nat \ {0} /\ Width(f) = b
    <2>1. lay \in Seq(Place) /\ m \in 1..Len(lay)
      BY <1>3, <1>4
    <2>2. a \in Nat \ {0} /\ (f.size # 0 => Width(f) = f.size)
      BY <2>1, PlaceFacts
    <2>3. b # 0
      BY <1>2
    <2> QED BY <1>5, <2>2, <2>3
  <1> HIDE DEF w, b
  <1>7. u \in Seq(Nat) /\ Len(u) = n /\ \A d \in 1..n : u[d] = w[off + d]
    <2>1. off + 1 \in Nat \ {0} /\ off + n \in Nat /\ off + n <= b /\ off + 1 <= off + n
      BY <1>2, <1>5
    <2>2. \A i \in (off + 1)..(off + n) : i \in 1..b
      BY <1>2, <1>5
    <2>3. \A i \in (off + 1)..(off + n) : w[i] \in Nat
      BY <1>2, <2>2 DEF b
    <2>4. /\ u \in Seq(Nat)
          /\ Len(u) = IF off + 1 <= off + n THEN (off + n) - (off + 1) + 1 ELSE 0
          /\ \A i \in 1..((off + n) - (off + 1) + 1) : u[i] = w[(off + 1) + i - 1]
      BY <2>1, <2>3, SubSeqProperties
    <2> HIDE DEF u
    <2>5. (off + n) - (off + 1) + 1 = n
      BY <1>2, <1>5
    <2>6. \A d \in 1..n : (off + 1) + d - 1 = off + d
      BY <1>2, <1>5
    <2> QED BY <2>1, <2>4, <2>5, <2>6
  <1> HIDE DEF u
  <1>8. /\ r \in Seq(Nat) /\ Len(r) = z + n
        /\ (\A i \in 1..z : r[i] = t[i])
        /\ (\A i \in 1..n : r[z + i] = u[i])
    <2>0. u \in Seq(Nat)
      BY <1>7
    <2>1. r \in Seq(Nat) /\ Len(r) = z + Len(u) /\ (\A i \in 1..z : r[i] = t[i])
      BY <2>0
    <2>2. \A i \in 1..Len(u) : r[z + i] = u[i]
      BY <2>0, ConcatProperties
    <2> QED BY <1>7, <2>1, <2>2
  <1> HIDE DEF r, z, a
  <1>9. Carries(f, x, r)
    <2> SUFFICES ASSUME NEW i \in 1..b, a + i - 1 <= Len(r) PROVE r[a + i - 1] = w[i]
      BY <1>3, <1>5 DEF Carries, a, w, b
    <2>1. CASE a + i - 1 <= z
      <3>1. a + i - 1 \in 1..z
        BY <1>4, <1>6, <2>1
      <3>2. t[a + i - 1] = w[i]
        BY <1>3, <1>5, <2>1 DEF Carries, a, w, b, z
      <3> QED BY <1>8, <3>1, <3>2
    <2>2. CASE a + i - 1 > z
      <3> DEFINE d == a + i - 1 - z
      <3>1. d \in 1..n /\ z + d = a + i - 1 /\ off + d = i
        BY <1>2, <1>3, <1>4, <1>5, <1>6, <1>8, <2>2
      <3> HIDE DEF d
      <3>2. r[z + d] = w[off + d]
        BY <1>7, <1>8, <3>1
      <3> QED BY <3>1, <3>2
    <2>3. a + i - 1 <= z \/ a + i - 1 > z
      BY <1>4, <1>6
    <2> QED BY <2>1, <2>2, <2>3
  <1>10. \A i \in (z + 1)..(z + n) : InPlace(f, i)
    <2>1. \A i \in (z + 1)..(z + n) : i \in a..(a + b - 1)
      BY <1>2, <1>3, <1>4, <1>5, <1>6
    <2> QED BY <1>6, <2>1 DEF InPlace, a
  <1>11. \A k \in 1..m : k # m => lay[k].start + Width(lay[k]) <= z + 1
    <2> SUFFICES ASSUME NEW k \in 1..m, k # m PROVE lay[k].start + Width(lay[k]) <= z + 1
      OBVIOUS
    <2> DEFINE g == lay[k].start + Width(lay[k])
    <2>1. k < m
      BY <1>4
    <2>2. g <= a
      BY <1>3, <1>4, <2>1 DEF Tiled, a
    <2>3. g \in Nat
      BY <1>3, PlaceFacts
    <2> HIDE DEF g
    <2>4. g <= z + 1
      BY <1>2, <1>3, <1>4, <1>5, <1>6, <2>2, <2>3
    <2> QED BY <2>4 DEF g
  <1>12. Tiled(lay, items, r)
    <2>1. \A k \in 1..Len(lay) : k # Len(lay) => lay[k].start + Width(lay[k]) <= Len(t) + 1
      BY <1>11 DEF z, m
    <2>2. \A i \in (Len(t) + 1)..(Len(t) + Len(u)) : InPlace(lay[Len(lay)], i)
      BY <1>7, <1>10 DEF z, f, m
    <2>3. \E j \in 1..Len(items) : Carries(lay[Len(lay)], items[j], t \o u)
      BY <1>1, <1>9 DEF r, x, f, m
    <2> QED BY <1>3, <1>7, <2>1, <2>2, <2>3, TiledGrows DEF r
  <1>13. CASE off + n = b
    <2>1. EndsBy(lay, Len(r))
      <3> SUFFICES ASSUME NEW k \in 1..m PROVE lay[k].start + Width(lay[k]) <= Len(r) + 1
        BY DEF EndsBy, m
      <3> DEFINE g == lay[k].start + Width(lay[k])
      <3>1. g \in Nat
        BY <1>3, PlaceFacts
      <3>2. CASE k = m
        <4>1. g = a + b
          BY <1>6, <3>2 DEF a
        <4> HIDE DEF g
        <4>2. g <= Len(r) + 1
          <5>1. a \in Nat /\ b \in Nat /\ z \in Nat /\ off \in Nat /\ n \in Nat
            BY <1>2, <1>4, <1>5, <1>6
          <5>2. a + off = z + 1 /\ off + n = b /\ Len(r) = z + n
            BY <1>3, <1>8, <1>13
          <5> HIDE DEF b
          <5>3. Len(r) + 1 = a + b
            BY <5>1, <5>2
          <5> QED BY <4>1, <5>1, <5>3
        <4> QED BY <4>2 DEF g
      <3>3. CASE k # m
        <4>1. g <= z + 1
          BY <1>11, <3>3
        <4> HIDE DEF g
        <4>2. g <= Len(r) + 1
          BY <1>2, <1>4, <1>5, <1>8, <3>1, <4>1
        <4> QED BY <4>2 DEF g
      <3> QED BY <3>2, <3>3
    <2>2. Laid(lay, items, r, "store", off + n)
      BY <1>3, <1>12, <2>1 DEF Laid
    <2> QED BY <1>13, <2>2 DEF r, u, b, w, x
  <1>14. CASE off + n # b
    <2>1. a + (off + n) = Len(r) + 1
      <3>1. a \in Nat /\ off \in Nat /\ n \in Nat /\ z \in Nat
        BY <1>2, <1>4, <1>5, <1>6
      <3>2. a + off = z + 1 /\ Len(r) = z + n
        BY <1>3, <1>8
      <3> QED BY <3>1, <3>2
    <2>2. Laid(lay, items, r, "send", off + n)
      BY <1>3, <1>9, <1>12, <2>1 DEF Laid, f, m, a, x
    <2> QED BY <1>14, <2>2 DEF r, u, b, w, x
  <1> QED BY <1>13, <1>14

LEMMA LaidLater ==
  ASSUME NEW lay, NEW items, NEW t, NEW pc, NEW off, Laid(lay, items, t, pc, off),
         NEW pc2, NEW off2, pc2 # "send", pc2 \in {"frame", "store"} => pc \in {"frame", "store"}
  PROVE  Laid(lay, items, t, pc2, off2)
  BY DEF Laid

\* A read moves the border between what was received and what is under way.
LEMMA ReadKeeps ==
  ASSUME NEW s \in Seq(Nat), NEW a \in Seq(Nat), NEW r \in Seq(Nat)
  PROVE  (s \o a) \o r = s \o (a \o r)
  BY ConcatAssociative, SMTT(60)

TileInv == OverTcp => Laid(layout, sent, stream \o link, simPc, simOffset)

LEMMA TileInit == Init => TileInv
  <1> SUFFICES ASSUME Init, OverTcp PROVE Laid(layout, sent, stream \o link, simPc, simOffset)
    BY DEF TileInv
  <1>1. layout = <<>> /\ sent = <<>> /\ stream = <<>> /\ link = <<>> /\ simPc # "send"
    BY DEF Init, SimInit, ExtractorInit
  <1>2. stream \o link = <<>>
    BY <1>1
  <1>3. layout \in Seq(Place) /\ Len(layout) = 0 /\ Len(<<>>) = 0
    BY <1>1
  <1>4. Tiled(layout, sent, <<>>) /\ EndsBy(layout, Len(<<>>))
    BY <1>3 DEF Tiled, EndsBy
  <1> QED BY <1>1, <1>2, <1>3, <1>4 DEF Laid

LEMMA TileStep ==
  ASSUME NaturalSymbols
  PROVE  BaseInv /\ ExtractorInv /\ TileInv /\ [Next]_vars => TileInv'
  <1> SUFFICES ASSUME BaseInv, ExtractorInv, TileInv, [Next]_vars, OverTcp'
               PROVE  Laid(layout', sent', stream' \o link', simPc', simOffset')
    BY DEF TileInv
  <1> DEFINE t == stream \o link
  <1>1. options' = options
    BY DEF Next, SimulatorStep, Radio, TransmitFrame, TransmitDamagedFrame, Transmit, SendSome, SendDatagram,
           SendFails, StoreFrame, FinishRun, ForeignSymbol, ReceiveBytes, LinkOnly, ExtractorStep, HandCandidates,
           EraseClient, ReceiveDatagram, LoseDatagram, DuplicateDatagram, Finished, vars, simVars
  <1>2. OverTcp
    BY <1>1 DEF OverTcp
  <1>3. Laid(layout, sent, t, simPc, simOffset)
    BY <1>2 DEF TileInv
  <1>4. stream \in Seq(Nat) /\ link \in Seq(Nat) /\ sent \in Seq(Carried)
    BY <1>2 DEF ExtractorInv, StreamInv, BaseInv, LinkInv
  <1>5. t \in Seq(Nat) /\ NextStreamPosition = Len(t) + 1
    BY <1>4 DEF NextStreamPosition
  <1>6. CASE Radio
    <2>1. PICK x \in Carried :
            /\ sent' = Append(sent, x)
            /\ simOffset' = 0
            /\ simPc = "frame"
            /\ simPc' = "send"
            /\ UNCHANGED <<link, extractorVars>>
            /\ layout' = Append(layout, [start |-> NextStreamPosition, size |-> Len(x.bytes),
                                         bad |-> {NextStreamPosition + d - 1 : d \in {x.damage} \ {0}}])
      BY <1>2, <1>6, RadioFacts
    <2>2. stream' \o link' = t
      BY <2>1 DEF extractorVars
    <2> HIDE DEF t
    <2>3. Laid(layout, sent, t, "frame", simOffset)
      BY <1>3, <2>1
    <2>4. Laid(layout', sent', t, "send", 0)
      BY <1>4, <1>5, <2>1, <2>3, LaidFrame
    <2> QED BY <2>1, <2>2, <2>4
  <1>7. CASE QuietStep
    <2>1. /\ UNCHANGED <<simOffset, link, sent, extractorVars, airVars>>
          /\ simPc' # "send" /\ (simPc' = "frame" => simPc = "store" \/ simPc = "frame") /\ simPc' # "store"
      BY <1>7, QuietFacts
    <2>2. stream' \o link' = t /\ layout' = layout /\ sent' = sent
      BY <2>1 DEF extractorVars, airVars
    <2> HIDE DEF t
    <2> QED BY <1>3, <2>1, <2>2, LaidLater
  <1>8. CASE SendSome /\ UNCHANGED <<extractorVars, airVars>>
    <2> DEFINE w == sent[Len(sent)].bytes
    <2>1. /\ simPc = "send" /\ sent # <<>> /\ simBytes = w /\ simOffset \in 0..Len(w)
      BY <1>8 DEF BaseInv, SendSome
    <2>2. PICK n \in 1..(Len(w) - simOffset) :
            /\ link' = link \o SubSeq(w, simOffset + 1, simOffset + n)
            /\ simOffset' = simOffset + n
            /\ simPc' = IF simOffset + n = Len(w) THEN "store" ELSE "send"
      BY <1>8, <2>1 DEF SendSome
    <2>3. stream' = stream /\ layout' = layout /\ sent' = sent
      BY <1>8 DEF extractorVars, airVars, SendSome
    <2> DEFINE u == SubSeq(w, simOffset + 1, simOffset + n)
    <2>4. u \in Seq(Nat)
      <3>1. w \in Seq(Nat)
        <4>1. sent[Len(sent)] \in Carried
          BY <1>4, <2>1
        <4> QED BY <4>1, CarriedFacts
      <3> HIDE DEF w
      <3> DEFINE b == Len(w)
                 o == simOffset
      <3>2. b \in Nat /\ o \in 0..b /\ n \in 1..(b - o)
        BY <2>1, <3>1
      <3>3. \A i \in (o + 1)..(o + n) : w[i] \in Nat
        <4> HIDE DEF b, o
        <4>1. \A i \in (o + 1)..(o + n) : i \in 1..b
          BY <3>2
        <4> QED BY <3>1, <4>1 DEF b
      <3> HIDE DEF b, o
      <3>4. o + 1 \in Int /\ o + n \in Int
        BY <3>2
      <3> QED BY <3>3, <3>4, SubSeqProperties DEF o
    <2> HIDE DEF u
    <2>5. stream' \o link' = t \o u
      <3>1. link' = link \o u
        BY <2>2 DEF u
      <3>2. (stream \o link) \o u = stream \o (link \o u)
        BY <1>4, <2>4, ReadKeeps
      <3> QED BY <2>3, <3>1, <3>2
    <2> HIDE DEF t
    <2>6. Laid(layout, sent, t, "send", simOffset)
      BY <1>3, <2>1
    <2>7. Laid(layout, sent, t \o u, simPc', simOffset')
      BY <1>4, <1>5, <2>1, <2>2, <2>6, LaidSend DEF u
    <2> QED BY <2>3, <2>5, <2>7
  <1>9. CASE ForeignSymbol
    <2>1. PICK symbol \in NoiseSymbols : link' = Append(link, symbol)
      BY <1>9 DEF ForeignSymbol
    <2>2. /\ layout' = Append(layout, [start |-> NextStreamPosition, size |-> 0,
                                       bad |-> {NextStreamPosition}])
          /\ simPc = "frame" /\ simPc' = simPc /\ simOffset' = simOffset /\ sent' = sent /\ stream' = stream
      BY <1>9 DEF ForeignSymbol, extractorVars
    <2>3. symbol \in Nat
      BY SymbolAssumption
    <2>4. stream' \o link' = t \o <<symbol>>
      <3>1. link' = link \o <<symbol>> /\ <<symbol>> \in Seq(Nat)
        BY <1>4, <2>1, <2>3, AppendIsConcat
      <3> QED BY <1>4, <2>2, <3>1, ConcatAssociative
    <2> HIDE DEF t
    <2>5. Laid(layout, sent, t, "frame", simOffset)
      BY <1>3, <2>2
    <2>6. Laid(layout', sent, t \o <<symbol>>, "frame", simOffset)
      BY <1>5, <2>2, <2>3, <2>5, LaidNoise
    <2> QED BY <2>2, <2>4, <2>6
  <1>10. CASE ReceiveBytes
    <2>1. PICK n \in 1..Len(link) : Feed(SubSeq(link, 1, n)) /\ LinkOnly(SubSeq(link, n + 1, Len(link)))
      BY <1>10 DEF ReceiveBytes
    <2> DEFINE a == SubSeq(link, 1, n)
               r == SubSeq(link, n + 1, Len(link))
    <2>2. /\ stream' = stream \o a /\ link' = r
          /\ UNCHANGED <<simPc, simOffset, sent, layout>>
      BY <1>10, <2>1 DEF Feed, LinkOnly, ReceiveBytes, airVars
    <2>3. a \in Seq(Nat) /\ r \in Seq(Nat) /\ a \o r = link
      BY <1>2, ReadsAreSymbols
    <2> HIDE DEF a, r
    <2>4. stream' \o link' = t
      <3>1. stream \in Seq(Nat) /\ a \in Seq(Nat) /\ r \in Seq(Nat)
        BY <1>4, <2>3
      <3>2. (stream \o a) \o r = stream \o link
        BY <2>3, <3>1, ReadKeeps
      <3> QED BY <2>2, <3>2
    <2> HIDE DEF t
    <2> QED BY <1>3, <2>2, <2>4
  <1>11. CASE ExtractorStep \/ HandCandidates
    <2>1. UNCHANGED <<simPc, simOffset, sent, layout, stream, link>>
      BY <1>11 DEF ExtractorStep, HandCandidates, simVars, airVars, Scan, NoMagic, AwaitHeader, BadLength,
                   AwaitFrame, EmitFrame, Take
    <2> QED BY <1>3, <2>1
  <1>12. CASE EraseClient
    <2>1. /\ UNCHANGED <<simPc, simOffset, sent, layout, link>>
          /\ stream' = <<>> /\ link = <<>> /\ simPc \in Ended
      BY <1>12 DEF EraseClient, Clear, simVars, airVars
    <2>2. stream' \o link' = <<>>
      BY <2>1
    <2>3. simPc \notin {"frame", "store", "send"}
      BY <2>1 DEF Ended
    <2>4. layout \in Seq(Place) /\ Tiled(layout, sent, t)
      BY <1>3 DEF Laid
    <2> HIDE DEF t
    <2>5. <<>> \o t = t /\ <<>> \in Seq(Nat)
      BY <1>5, ConcatEmptySeq
    <2>6. Tiled(layout, sent, <<>>)
      BY <1>5, <2>4, <2>5, TiledPrefix
    <2>7. Laid(layout, sent, <<>>, simPc, simOffset)
      BY <2>3, <2>4, <2>6 DEF Laid
    <2> QED BY <2>1, <2>2, <2>7
  <1>13. CASE UNCHANGED vars
    <2>1. UNCHANGED <<simPc, simOffset, sent, layout, stream, link>>
      BY <1>13 DEF vars, simVars, extractorVars
    <2> QED BY <1>3, <2>1
  <1>14. CASE SendDatagram \/ ReceiveDatagram \/ LoseDatagram \/ DuplicateDatagram
    BY <1>2, <1>14 DEF OverTcp, SendDatagram, ReceiveDatagram, LoseDatagram, DuplicateDatagram
  <1> QED BY <1>6, <1>7, <1>8, <1>9, <1>10, <1>11, <1>12, <1>13, <1>14
          DEF Next, SimulatorStep, QuietStep, Finished

-----------------------------------------------------------------------------
(* The candidates and what became of them *)

CutBytes(s, cut) == Slice(s, cut.start, cut.size)

\* What the callback makes of the bytes of a cut.
Outcome(s, cut) == [at |-> cut.start, frame |-> DecodeFrame(CutBytes(s, cut)).frame]

\* fs are the last cuts, not yet handed out; the earlier ones that decode are
\* among acc.
Handed(fs, cs, s, acc) ==
  /\ fs \in Seq(Seq(Nat))
  /\ Len(fs) <= Len(cs)
  /\ \A k \in 1..Len(fs) : fs[k] = CutBytes(s, cs[Len(cs) - Len(fs) + k])
  /\ \A k \in 1..(Len(cs) - Len(fs)) :
       DecodeFrame(CutBytes(s, cs[k])).ok => \E j \in 1..Len(acc) : acc[j] = Outcome(s, cs[k])

\* A cut's bytes stay what they are when the stream grows.
LEMMA CutBytesKept ==
  ASSUME NEW s \in Seq(Nat), NEW b \in Seq(Nat), NEW cs \in Seq(Cut), NEW c, Passed(s, cs, c),
         NEW k \in 1..Len(cs)
  PROVE  /\ CutBytes(s \o b, cs[k]) = CutBytes(s, cs[k])
         /\ CutBytes(s, cs[k]) \in Seq(Nat)
  <1> DEFINE p == cs[k].start
             n == cs[k].size
             z == Len(s)
  <1>1. cs[k] \in Cut
    <2> HIDE DEF Cut
    <2> QED OBVIOUS
  <1>2. p \in Nat \ {0} /\ CandidateAt(s, p) /\ n = FrameSizeAt(s, p)
    BY <1>1 DEF Cut, Passed
  <1>3. n \in Nat /\ n > 0 /\ p + n - 1 <= z
    BY <1>2, CandidateFacts
  <1>4. z \in Nat
    OBVIOUS
  <1> HIDE DEF p, n, z
  <1>5. p \in 1..z /\ p + n - 1 \in 1..z
    BY <1>2, <1>3, <1>4
  <1>6. SubSeq(s \o b, p, p + n - 1) = SubSeq(s, p, p + n - 1)
    BY <1>5, SubSeqOfConcat1 DEF z
  <1>7. SubSeq(s, p, p + n - 1) \in Seq(Nat)
    <2>1. \A i \in p..(p + n - 1) : i \in 1..z
      BY <1>2, <1>3, <1>4
    <2>2. \A i \in p..(p + n - 1) : s[i] \in Nat
      BY <2>1 DEF z
    <2> QED BY <1>2, <1>3, <2>2, SubSeqProperties
  <1> QED BY <1>6, <1>7 DEF CutBytes, Slice, p, n

LEMMA HandedGrows ==
  ASSUME NEW s \in Seq(Nat), NEW b \in Seq(Nat), NEW cs \in Seq(Cut), NEW c, Passed(s, cs, c),
         NEW fs, NEW acc, Handed(fs, cs, s, acc)
  PROVE  Handed(fs, cs, s \o b, acc)
  <1>1. \A k \in 1..Len(cs) : CutBytes(s \o b, cs[k]) = CutBytes(s, cs[k])
    BY CutBytesKept
  <1> DEFINE n == Len(fs)
             m == Len(cs)
  <1>2. n \in Nat /\ m \in Nat /\ n <= m
    BY DEF Handed
  <1> HIDE DEF n, m
  <1>3. (\A k \in 1..n : m - n + k \in 1..m) /\ (\A k \in 1..(m - n) : k \in 1..m)
    BY <1>2
  <1>4. \A k \in 1..n : fs[k] = CutBytes(s \o b, cs[m - n + k])
    BY <1>1, <1>3 DEF Handed, n, m
  <1>5. \A k \in 1..(m - n) :
          DecodeFrame(CutBytes(s \o b, cs[k])).ok => \E j \in 1..Len(acc) : acc[j] = Outcome(s \o b, cs[k])
    <2> SUFFICES ASSUME NEW k \in 1..(m - n), DecodeFrame(CutBytes(s \o b, cs[k])).ok
                 PROVE  \E j \in 1..Len(acc) : acc[j] = Outcome(s \o b, cs[k])
      OBVIOUS
    <2>1. CutBytes(s \o b, cs[k]) = CutBytes(s, cs[k])
      BY <1>1, <1>3 DEF m
    <2>2. Outcome(s \o b, cs[k]) = Outcome(s, cs[k])
      BY <2>1 DEF Outcome
    <2> QED BY <2>1, <2>2 DEF Handed, n, m
  <1> QED BY <1>4, <1>5 DEF Handed, n, m

\* A candidate is cut from the stream.
LEMMA HandedCut ==
  ASSUME NEW s \in Seq(Nat), NEW cs \in Seq(Cut), NEW fs, NEW acc, Handed(fs, cs, s, acc),
         NEW cut \in Cut, CutBytes(s, cut) \in Seq(Nat)
  PROVE  Handed(Append(fs, CutBytes(s, cut)), Append(cs, cut), s, acc)
  <1> DEFINE S == Seq(Nat)
             x == CutBytes(s, cut)
             gs == Append(fs, x)
             ds == Append(cs, cut)
             n == Len(fs)
             m == Len(cs)
  <1>1. fs \in Seq(S) /\ n \in Nat /\ m \in Nat /\ n <= m
    BY DEF Handed
  <1>2. x \in S
    OBVIOUS
  <1> HIDE DEF S, x
  <1>3. gs \in Seq(S) /\ Len(gs) = n + 1 /\ gs[n + 1] = x /\ \A k \in 1..n : gs[k] = fs[k]
    BY <1>1, <1>2
  <1>4. Len(ds) = m + 1 /\ ds[m + 1] = cut /\ \A k \in 1..m : ds[k] = cs[k]
    <2> HIDE DEF Cut
    <2> QED OBVIOUS
  <1> HIDE DEF gs, ds, n, m
  <1>5. Len(ds) - Len(gs) = m - n /\ Len(gs) <= Len(ds)
    BY <1>1, <1>3, <1>4
  <1>6. ASSUME NEW k \in 1..Len(gs) PROVE gs[k] = CutBytes(s, ds[Len(ds) - Len(gs) + k])
    <2>1. CASE k \in 1..n
      <3>1. m - n + k \in 1..m
        BY <1>1, <2>1
      <3>2. fs[k] = CutBytes(s, cs[m - n + k])
        BY <2>1 DEF Handed, n, m
      <3> QED BY <1>3, <1>4, <1>5, <2>1, <3>1, <3>2
    <2>2. CASE k = n + 1
      <3>1. m - n + k = m + 1
        BY <1>1, <2>2
      <3> QED BY <1>3, <1>4, <1>5, <2>2, <3>1 DEF x
    <2> QED BY <1>1, <1>3, <2>1, <2>2
  <1>7. ASSUME NEW k \in 1..(Len(ds) - Len(gs)), DecodeFrame(CutBytes(s, ds[k])).ok
        PROVE  \E j \in 1..Len(acc) : acc[j] = Outcome(s, ds[k])
    <2>1. k \in 1..(m - n)
      BY <1>5
    <2>2. k \in 1..m
      BY <1>1, <2>1
    <2>3. ds[k] = cs[k]
      BY <1>4, <2>2
    <2> QED BY <1>7, <2>1, <2>3 DEF Handed, n, m
  <1>8. Handed(gs, ds, s, acc)
    BY <1>3, <1>5, <1>6, <1>7 DEF Handed, S
  <1> QED BY <1>8 DEF gs, ds, x

LEMMA HandedMore ==
  ASSUME NEW s, NEW cs, NEW fs, NEW acc, Handed(fs, cs, s, acc),
         NEW acc2, \A j \in 1..Len(acc) : j \in 1..Len(acc2) /\ acc2[j] = acc[j]
  PROVE  Handed(fs, cs, s, acc2)
  BY DEF Handed

\* The candidates of one feed(), decoded one by one.
Decoded(fs, cs) ==
  [k \in DOMAIN fs |-> [at |-> cs[Len(cs) - Len(fs) + k].start, result |-> DecodeFrame(fs[k])]]

LEMMA DecodedFacts ==
  ASSUME NEW s, NEW cs \in Seq(Cut), NEW fs, NEW acc, Handed(fs, cs, s, acc)
  PROVE  /\ Len(Decoded(fs, cs)) = Len(fs) /\ Len(fs) \in Nat
         /\ \A k \in 1..Len(fs) :
              /\ Len(cs) - Len(fs) + k \in 1..Len(cs)
              /\ Decoded(fs, cs)[k].result = DecodeFrame(CutBytes(s, cs[Len(cs) - Len(fs) + k]))
              /\ Got(Decoded(fs, cs)[k]) = Outcome(s, cs[Len(cs) - Len(fs) + k])
  <1> DEFINE e(k) == [at |-> cs[Len(cs) - Len(fs) + k].start, result |-> DecodeFrame(fs[k])]
             S == Seq(Nat)
             n == Len(fs)
             m == Len(cs)
  <1>1. fs \in Seq(S) /\ n \in Nat /\ m \in Nat /\ n <= m
    BY DEF Handed
  <1>2. DOMAIN fs = 1..n
    <2> HIDE DEF S
    <2> QED BY <1>1
  <1>3. Decoded(fs, cs) = [k \in 1..n |-> e(k)]
    BY <1>2 DEF Decoded
  <1>4. Len(Decoded(fs, cs)) = n
    <2> HIDE DEF e
    <2> QED BY <1>1, <1>3
  <1>5. ASSUME NEW k \in 1..n
        PROVE  /\ m - n + k \in 1..m
               /\ Decoded(fs, cs)[k].result = DecodeFrame(CutBytes(s, cs[m - n + k]))
               /\ Got(Decoded(fs, cs)[k]) = Outcome(s, cs[m - n + k])
    <2>1. fs[k] = CutBytes(s, cs[m - n + k])
      BY DEF Handed
    <2>2. Decoded(fs, cs)[k] = [at |-> cs[m - n + k].start, result |-> DecodeFrame(fs[k])]
      BY <1>3
    <2>3. m - n + k \in 1..m
      <3> HIDE DEF n, m
      <3> QED BY <1>1
    <2> QED BY <2>1, <2>2, <2>3 DEF Got, Outcome
  <1> QED BY <1>1, <1>4, <1>5

\* All that a has beyond acc is the outcome of cuts that decode.
OnlyOutcomes(a, acc, s, cs) ==
  \A j \in 1..Len(a) :
    \/ j \in 1..Len(acc) /\ a[j] = acc[j]
    \/ \E k \in 1..Len(cs) : DecodeFrame(CutBytes(s, cs[k])).ok /\ a[j] = Outcome(s, cs[k])

LEMMA HandedOut ==
  ASSUME NEW s, NEW cs \in Seq(Cut), NEW fs, NEW S, NEW acc \in Seq(S), Handed(fs, cs, s, acc)
  PROVE  /\ Handed(<<>>, cs, s, acc \o AcceptedOf(Decoded(fs, cs)))
         /\ \E T : acc \o AcceptedOf(Decoded(fs, cs)) \in Seq(T)
         /\ OnlyOutcomes(acc \o AcceptedOf(Decoded(fs, cs)), acc, s, cs)
  <1> DEFINE c == Decoded(fs, cs)
             n == Len(fs)
             m == Len(cs)
             G == {Got(c[k]) : k \in {i \in 1..Len(c) : Accepts(c[i].result)}}
             g == AcceptedOf(c)
             T == S \cup G
             a == acc \o g
  <1>1. Len(c) = n /\ n \in Nat
        /\ \A k \in 1..n : /\ m - n + k \in 1..m
                           /\ c[k].result = DecodeFrame(CutBytes(s, cs[m - n + k]))
                           /\ Got(c[k]) = Outcome(s, cs[m - n + k])
    <2> HIDE DEF G, g, T, a
    <2>1. Handed(fs, cs, s, acc) /\ cs \in Seq(Cut)
      OBVIOUS
    <2>2. Len(c) = n /\ n \in Nat
      BY <2>1, DecodedFacts
    <2>3. \A k \in 1..n : m - n + k \in 1..m
      BY <2>1, DecodedFacts
    <2>4. \A k \in 1..n : c[k].result = DecodeFrame(CutBytes(s, cs[m - n + k]))
      BY <2>1, DecodedFacts
    <2>5. \A k \in 1..n : Got(c[k]) = Outcome(s, cs[m - n + k])
      BY <2>1, DecodedFacts
    <2> QED BY <2>2, <2>3, <2>4, <2>5
  <1>2. m \in Nat /\ n <= m
    BY DEF Handed
  <1> HIDE DEF c
  <1>3. /\ g \in Seq(G)
        /\ \A k \in 1..Len(c) : Accepts(c[k].result) => \E j \in 1..Len(g) : g[j] = Got(c[k])
    BY <1>1, AcceptedOfFacts
  <1> HIDE DEF g
  <1>4. \A y \in G : \E k \in 1..m : DecodeFrame(CutBytes(s, cs[k])).ok /\ y = Outcome(s, cs[k])
    <2> SUFFICES ASSUME NEW i \in 1..Len(c), Accepts(c[i].result)
                 PROVE  \E k \in 1..m : DecodeFrame(CutBytes(s, cs[k])).ok /\ Got(c[i]) = Outcome(s, cs[k])
      OBVIOUS
    <2> QED BY <1>1 DEF Accepts
  <1> HIDE DEF G
  <1>5. acc \in Seq(T) /\ g \in Seq(T)
    BY <1>3
  <1> HIDE DEF T
  <1>6. a \in Seq(T) /\ Len(a) = Len(acc) + Len(g) /\ (\A j \in 1..Len(acc) : a[j] = acc[j])
    BY <1>5
  <1>7. \A j \in 1..Len(g) : a[Len(acc) + j] = g[j]
    BY <1>5, ConcatProperties
  <1>8. Len(acc) \in Nat /\ Len(g) \in Nat
    BY <1>3
  <1> HIDE DEF a
  <1>9. (\A j \in 1..Len(acc) : j \in 1..Len(a)) /\ (\A j \in 1..Len(g) : Len(acc) + j \in 1..Len(a))
    BY <1>6, <1>8
  <1>10. ASSUME NEW j \in 1..Len(a)
         PROVE  \/ j \in 1..Len(acc) /\ a[j] = acc[j]
                \/ \E k \in 1..m : DecodeFrame(CutBytes(s, cs[k])).ok /\ a[j] = Outcome(s, cs[k])
    <2>1. CASE j \in 1..Len(acc)
      BY <1>6, <2>1
    <2>2. CASE j \notin 1..Len(acc)
      <3> DEFINE i == j - Len(acc)
      <3>1. i \in 1..Len(g) /\ Len(acc) + i = j
        BY <1>6, <1>8, <2>2
      <3> HIDE DEF i
      <3>2. g[i] \in G
        BY <1>3, <3>1
      <3>3. a[j] = g[i]
        BY <1>7, <3>1
      <3> QED BY <1>4, <3>2, <3>3
    <2> QED BY <2>1, <2>2
  <1>11. ASSUME NEW k \in 1..m, DecodeFrame(CutBytes(s, cs[k])).ok
         PROVE  \E j \in 1..Len(a) : a[j] = Outcome(s, cs[k])
    <2>1. CASE k <= m - n
      <3>1. k \in 1..(m - n)
        BY <1>1, <1>2, <2>1
      <3>2. PICK j \in 1..Len(acc) : acc[j] = Outcome(s, cs[k])
        BY <1>11, <3>1 DEF Handed
      <3> QED BY <1>6, <1>9, <3>2
    <2>2. CASE k > m - n
      <3> DEFINE i == k - (m - n)
      <3>1. i \in 1..n /\ m - n + i = k
        <4> HIDE DEF m, n
        <4> QED BY <1>1, <1>2, <2>2
      <3> HIDE DEF i
      <3>2. Accepts(c[i].result) /\ Got(c[i]) = Outcome(s, cs[k])
        BY <1>1, <1>11, <3>1 DEF Accepts
      <3>3. PICK j \in 1..Len(g) : g[j] = Got(c[i])
        BY <1>1, <1>3, <3>1, <3>2
      <3> QED BY <1>7, <1>9, <3>2, <3>3
    <2>3. k <= m - n \/ k > m - n
      <3> HIDE DEF m, n
      <3> QED BY <1>1, <1>2
    <2> QED BY <2>1, <2>2, <2>3
  <1>12. Handed(<<>>, cs, s, a)
    <2>1. <<>> \in Seq(Seq(Nat)) /\ Len(<<>>) = 0 /\ m - 0 = m /\ 0 <= m
      BY <1>2
    <2> HIDE DEF m
    <2>2. \A k \in 1..(m - 0) :
            DecodeFrame(CutBytes(s, cs[k])).ok => \E j \in 1..Len(a) : a[j] = Outcome(s, cs[k])
      BY <1>11, <2>1
    <2> QED BY <2>1, <2>2 DEF Handed, m
  <1> QED BY <1>6, <1>10, <1>12 DEF OnlyOutcomes, a, g, c, m

HandInv ==
  /\ Handed(frames, cuts, stream, accepted)
  /\ \E S : accepted \in Seq(S)

LEMMA HandInit == Init => HandInv
  <1> SUFFICES ASSUME Init PROVE HandInv
    OBVIOUS
  <1>1. frames = <<>> /\ cuts = <<>> /\ accepted = <<>>
    BY DEF Init, ExtractorInit
  <1>2. frames \in Seq(Seq(Nat)) /\ Len(frames) = 0 /\ Len(cuts) = 0 /\ accepted \in Seq(Nat)
    BY <1>1
  <1> QED BY <1>2 DEF HandInv, Handed

\* What feed() puts in its result is the slice of the stream it cut.
LEMMA EmitFacts ==
  ASSUME ExtractorInv, EmitFrame
  PROVE  \E cut \in Cut : /\ CutBytes(stream, cut) \in Seq(Nat)
                          /\ frames' = Append(frames, CutBytes(stream, cut))
                          /\ cuts' = Append(cuts, cut)
                          /\ stream' = stream
  <1> DEFINE p == Found
             n == FrameSizeAt(stream, p)
             cut == [start |-> p, size |-> n]
             z == Len(stream)
             g == Aligned
  <1>0. StreamInv /\ HeaderComplete /\ MagicsIn(buffer) # {} /\ stream \in Seq(Nat)
    BY DEF ExtractorInv, StreamInv, EmitFrame, HeaderComplete
  <1>1. /\ p \in Nat \ {0} /\ Len(g) = z - p + 1
        /\ \A j \in 1..Len(g) : g[j] = stream[p + j - 1]
    BY <1>0, FoundFacts
  <1>2. FrameSizeAt(g, 1) = n /\ n \in Nat /\ g[PayloadLengthOffset] \in Nat
        /\ g[PayloadLengthOffset] = stream[p + PayloadLengthOffset - 1]
    BY <1>0, HeaderFacts
  <1>3. /\ Len(g) >= n /\ frames' = Append(frames, Slice(g, 1, n))
        /\ cuts' = Append(cuts, cut) /\ stream' = stream
    BY <1>2 DEF EmitFrame, Found
  <1>4. z \in Nat /\ g \in Seq(Nat)
    <2>1. buffer \in Seq(Nat)
      BY <1>0, BufferFacts
    <2>2. Len(buffer) \in Nat
      BY <2>1
    <2>3. FirstIn(MagicsIn(buffer)) \in MagicsIn(buffer)
      <3>1. MagicsIn(buffer) \subseteq 1..Len(buffer)
        BY DEF MagicsIn
      <3>2. MagicsIn(buffer) \in SUBSET Nat
        BY <2>2, <3>1
      <3> QED BY <1>0, <3>2, FirstInFacts
    <2> DEFINE i == FirstIn(MagicsIn(buffer))
               l == Len(buffer)
    <2>4. i \in 1..l
      BY <2>3 DEF MagicsIn
    <2> HIDE DEF i, l
    <2>5. \A j \in i..l : j \in 1..l
      BY <2>2, <2>4 DEF l
    <2>6. \A j \in i..l : buffer[j] \in Nat
      BY <2>1, <2>5 DEF l
    <2>7. i \in Int /\ l \in Int
      BY <2>2, <2>4 DEF l
    <2>8. SubSeq(buffer, i, l) \in Seq(Nat)
      BY <2>6, <2>7, SubSeqProperties
    <2> QED BY <1>0, <2>8 DEF Aligned, i, l
  <1>5. n > 0
    <2>1. HeaderSize \in Nat /\ HeaderSize > 0 /\ CrcSize = 1
      BY SizeFacts
    <2>2. n = HeaderSize + g[PayloadLengthOffset] + CrcSize
      BY <1>2 DEF FrameSizeAt
    <2> QED BY <1>2, <2>1, <2>2
  <1>6. cut \in Cut
    BY <1>1, <1>2 DEF Cut
  <1> HIDE DEF p, n, z, g
  <1>7. p + n - 1 <= z
    BY <1>1, <1>2, <1>3, <1>4
  <1> DEFINE u == SubSeq(g, 1, 1 + n - 1)
             v == SubSeq(stream, p, p + n - 1)
  <1>8. u \in Seq(Nat) /\ Len(u) = n /\ \A j \in 1..n : u[j] = g[j]
    <2>1. 1 + n - 1 = n
      BY <1>2
    <2>2. n <= Len(g) /\ Len(g) \in Nat
      BY <1>3, <1>4
    <2>3. \A j \in 1..n : j \in 1..Len(g)
      BY <1>2, <2>2
    <2>4. \A j \in 1..n : g[j] \in Nat
      BY <1>4, <2>3
    <2>5. /\ SubSeq(g, 1, n) \in Seq(Nat)
          /\ Len(SubSeq(g, 1, n)) = IF 1 <= n THEN n - 1 + 1 ELSE 0
          /\ \A j \in 1..(n - 1 + 1) : SubSeq(g, 1, n)[j] = g[1 + j - 1]
      BY <1>2, <2>4, SubSeqProperties
    <2>6. n - 1 + 1 = n /\ 1 <= n /\ \A j \in 1..n : 1 + j - 1 = j
      BY <1>2, <1>5
    <2> QED BY <2>1, <2>5, <2>6
  <1>9. v \in Seq(Nat) /\ Len(v) = n /\ \A j \in 1..n : v[j] = stream[p + j - 1]
    <2>1. \A j \in p..(p + n - 1) : j \in 1..z
      BY <1>1, <1>2, <1>4, <1>7
    <2>2. \A j \in p..(p + n - 1) : stream[j] \in Nat
      BY <1>0, <2>1 DEF z
    <2>3. p \in Int /\ p + n - 1 \in Int /\ p <= p + n - 1 /\ (p + n - 1) - p + 1 = n
      BY <1>1, <1>2, <1>5
    <2>4. /\ v \in Seq(Nat)
          /\ Len(v) = IF p <= p + n - 1 THEN (p + n - 1) - p + 1 ELSE 0
          /\ \A j \in 1..((p + n - 1) - p + 1) : v[j] = stream[p + j - 1]
      BY <2>2, <2>3, SubSeqProperties
    <2> QED BY <2>3, <2>4
  <1> HIDE DEF u, v
  <1>10. \A j \in 1..n : u[j] = v[j]
    <2>1. Len(g) \in Nat
      BY <1>4
    <2>2. \A j \in 1..n : j \in 1..Len(g)
      BY <1>2, <1>3, <2>1
    <2> QED BY <1>1, <1>8, <1>9, <2>2
  <1>11. u = v
    BY <1>8, <1>9, <1>10, SeqEqual
  <1>12. CutBytes(stream, cut) = v /\ Slice(g, 1, n) = u
    BY DEF CutBytes, Slice, u, v
  <1> QED BY <1>3, <1>6, <1>9, <1>11, <1>12

LEMMA HandStep == BaseInv /\ ExtractorInv /\ HandInv /\ [Next]_vars => HandInv'
  <1> SUFFICES ASSUME BaseInv, ExtractorInv, HandInv, [Next]_vars PROVE HandInv'
    OBVIOUS
  <1>1. /\ stream \in Seq(Nat) /\ cuts \in Seq(Cut) /\ Passed(stream, cuts, consumed)
        /\ Handed(frames, cuts, stream, accepted)
    BY DEF ExtractorInv, StreamInv, HandInv
  <1>2. PICK S : accepted \in Seq(S)
    BY DEF HandInv
  <1>3. CASE UNCHANGED <<frames, cuts, stream, accepted>>
    BY <1>3 DEF HandInv
  <1>4. CASE ReceiveBytes
    <2>1. PICK n \in 1..Len(link) : Feed(SubSeq(link, 1, n))
      BY <1>4 DEF ReceiveBytes
    <2> DEFINE b == SubSeq(link, 1, n)
    <2>2. b \in Seq(Nat)
      BY <1>4, ReadsAreSymbols DEF ReceiveBytes
    <2>3. stream' = stream \o b /\ frames' = frames /\ cuts' = cuts /\ accepted' = accepted
      BY <1>4, <2>1 DEF Feed, ReceiveBytes, airVars
    <2> HIDE DEF b
    <2>4. Handed(frames, cuts, stream \o b, accepted)
      BY <1>1, <2>2, HandedGrows
    <2> QED BY <1>2, <2>3, <2>4 DEF HandInv
  <1>5. CASE ExtractorStep
    <2>1. accepted' = accepted
      BY <1>5 DEF ExtractorStep, airVars
    <2>2. CASE EmitFrame
      <3>1. PICK cut \in Cut : /\ CutBytes(stream, cut) \in Seq(Nat)
                               /\ frames' = Append(frames, CutBytes(stream, cut))
                               /\ cuts' = Append(cuts, cut)
                               /\ stream' = stream
        BY <2>2, EmitFacts
      <3>2. Handed(Append(frames, CutBytes(stream, cut)), Append(cuts, cut), stream, accepted)
        BY <1>1, <3>1, HandedCut
      <3> QED BY <1>2, <2>1, <3>1, <3>2 DEF HandInv
    <2>3. CASE ~EmitFrame
      <3>1. UNCHANGED <<frames, cuts, stream>>
        BY <1>5, <2>3 DEF ExtractorStep, Scan, NoMagic, AwaitHeader, BadLength, AwaitFrame
      <3> QED BY <1>3, <2>1, <3>1
    <2> QED BY <2>2, <2>3
  <1>6. CASE HandCandidates
    <2>1. /\ frames' = <<>> /\ cuts' = cuts /\ stream' = stream
          /\ accepted' = accepted \o AcceptedOf(Candidates)
      BY <1>6 DEF HandCandidates, Take
    <2>2. Candidates = Decoded(frames, cuts)
      BY DEF Candidates, Decoded
    <2>3. /\ Handed(<<>>, cuts, stream, accepted \o AcceptedOf(Decoded(frames, cuts)))
          /\ \E T : accepted \o AcceptedOf(Decoded(frames, cuts)) \in Seq(T)
      BY <1>1, <1>2, HandedOut
    <2> QED BY <2>1, <2>2, <2>3 DEF HandInv
  <1>7. CASE EraseClient
    <2>1. frames' = frames /\ frames = <<>> /\ cuts' = <<>> /\ accepted' = accepted
      BY <1>7 DEF EraseClient, Clear, airVars
    <2>2. frames' \in Seq(Seq(Nat)) /\ Len(frames') = 0 /\ Len(cuts') = 0
      BY <2>1
    <2>3. Handed(frames', cuts', stream', accepted')
      BY <2>2 DEF Handed
    <2> QED BY <1>2, <2>1, <2>3 DEF HandInv
  <1>8. CASE ReceiveDatagram
    <2>1. PICK k \in DOMAIN link :
            \/ accepted' = Append(accepted, [at |-> 0, frame |-> DecodeFrame(link[k]).frame])
            \/ accepted' = accepted
      BY <1>8 DEF ReceiveDatagram
    <2>2. UNCHANGED <<frames, cuts, stream>>
      BY <1>8 DEF ReceiveDatagram, extractorVars
    <2>3. CASE accepted' = accepted
      BY <1>3, <2>2, <2>3
    <2>4. CASE accepted' = Append(accepted, [at |-> 0, frame |-> DecodeFrame(link[k]).frame])
      <3> DEFINE y == [at |-> 0, frame |-> DecodeFrame(link[k]).frame]
                 T == S \cup {y}
                 r == Append(accepted, y)
      <3>1. accepted \in Seq(T) /\ y \in T
        BY <1>2
      <3> HIDE DEF T, y
      <3>2. r \in Seq(T) /\ Len(r) = Len(accepted) + 1 /\ (\A j \in 1..Len(accepted) : r[j] = accepted[j])
        BY <3>1
      <3>3. Len(accepted) \in Nat
        BY <1>2
      <3> HIDE DEF r
      <3>4. \A j \in 1..Len(accepted) : j \in 1..Len(r)
        BY <3>2, <3>3
      <3>5. \A j \in 1..Len(accepted) : j \in 1..Len(r) /\ r[j] = accepted[j]
        BY <3>2, <3>4
      <3>6. Handed(frames, cuts, stream, r)
        BY <1>1, <3>5, HandedMore
      <3>7. accepted' = r
        BY <2>4 DEF r, y
      <3> QED BY <2>2, <3>2, <3>6, <3>7 DEF HandInv
    <2> QED BY <2>1, <2>3, <2>4
  <1>9. CASE SimulatorStep \/ ForeignSymbol \/ LoseDatagram \/ DuplicateDatagram \/ Finished \/ UNCHANGED vars
    <2>1. UNCHANGED <<frames, cuts, stream, accepted>>
      BY <1>9 DEF SimulatorStep, Radio, ForeignSymbol, LoseDatagram, DuplicateDatagram, Finished, vars, airVars,
                  extractorVars
    <2> QED BY <1>3, <2>1
  <1> QED BY <1>4, <1>5, <1>6, <1>7, <1>8, <1>9 DEF Next

-----------------------------------------------------------------------------
(* What is accepted was sent, or lies where damage is *)

WasSent(frame, items) == \E j \in 1..Len(items) : items[j].damage = 0 /\ items[j].frame = frame

\* Damage lies in lay, and where payloads hold no magic, not far behind at.
DamageNear(at, items, lay) ==
  /\ BadOf(lay) # {}
  /\ NoStray(items) => \E b \in BadOf(lay) : b \in at..(at + MaxFrameSize - 1)

Credible(e, items, lay) == WasSent(e.frame, items) \/ DamageNear(e.at, items, lay)

LEMMA CredibleLater ==
  ASSUME NEW e, NEW items, NEW lay, Credible(e, items, lay),
         NEW items2, NEW lay2, Keeps(items, items2), Keeps(lay, lay2)
  PROVE  Credible(e, items2, lay2)
  <1>1. WasSent(e.frame, items) => WasSent(e.frame, items2)
    BY DEF WasSent, Keeps
  <1>2. BadOf(lay) \subseteq BadOf(lay2)
    BY DEF BadOf, Keeps
  <1>3. NoStray(items2) => NoStray(items)
    <2> SUFFICES ASSUME NoStray(items2), NEW j \in 1..Len(items),
                        NEW i \in 2..Len(EncodeFrame(items[j].frame))
                 PROVE  ~MagicAt(EncodeFrame(items[j].frame) \o FrameMagic, i)
      BY DEF NoStray
    <2>1. j \in 1..Len(items2) /\ items2[j] = items[j]
      BY DEF Keeps
    <2> QED BY <2>1 DEF NoStray
  <1> QED BY <1>1, <1>2, <1>3 DEF Credible, DamageNear

LEMMA KeepsAppend ==
  ASSUME NEW S, NEW q \in Seq(S), NEW r, \E f : r = Append(q, f)
  PROVE  Keeps(q, r)
  <1>1. PICK f : r = Append(q, f)
    OBVIOUS
  <1>2. Len(r) = Len(q) + 1 /\ Len(q) \in Nat /\ \A j \in 1..Len(q) : r[j] = q[j]
    BY <1>1
  <1>3. \A j \in 1..Len(q) : j \in 1..Len(r)
    BY <1>2
  <1> QED BY <1>2, <1>3 DEF Keeps

\* An undamaged frame decodes to what was sent.
LEMMA DecodesToSent ==
  ASSUME NEW items \in Seq(Carried), NEW j \in 1..Len(items), NEW bytes,
         items[j].damage = 0, bytes = EncodeFrame(items[j].frame)
  PROVE  /\ DecodeFrame(bytes).ok /\ DecodeFrame(bytes).frame = items[j].frame
         /\ WasSent(DecodeFrame(bytes).frame, items)
  <1>1. items[j] \in Carried
    OBVIOUS
  <1>2. items[j].frame \in Frames /\ Encodable(items[j].frame)
    BY <1>1, CarriedFacts
  <1>3. DecodeFrame(bytes) = [ok |-> TRUE, frame |-> items[j].frame]
    BY <1>2, RoundTrip
  <1>4. DecodeFrame(bytes).ok /\ DecodeFrame(bytes).frame = items[j].frame
    BY <1>3
  <1> QED BY <1>4 DEF WasSent

LEMMA CutCredible ==
  ASSUME NEW lay \in Seq(Place), NEW items \in Seq(Carried), NEW s \in Seq(Nat), Tiled(lay, items, s),
         NEW cs \in Seq(Cut), NEW c \in Nat, Passed(s, cs, c), NEW k \in 1..Len(cs)
  PROVE  Credible(Outcome(s, cs[k]), items, lay)
  <1> DEFINE p == cs[k].start
             n == cs[k].size
             w == CutBytes(s, cs[k])
  <1>1. Outcome(s, cs[k]).at = p /\ Outcome(s, cs[k]).frame = DecodeFrame(w).frame
    BY DEF Outcome
  <1>2. ASSUME NEW j \in 1..Len(items), items[j].damage = 0, w = EncodeFrame(items[j].frame)
        PROVE  Credible(Outcome(s, cs[k]), items, lay)
    <2>1. WasSent(DecodeFrame(w).frame, items)
      BY <1>2, DecodesToSent
    <2> QED BY <1>1, <2>1 DEF Credible
  <1>3. CASE BadOf(lay) = {}
    <2>1. IsItem(lay, items, s, cs[k])
      BY <1>3, CleanCuts
    <2>2. \E j \in 1..Len(items) : items[j].damage = 0 /\ w = EncodeFrame(items[j].frame)
      BY <2>1 DEF IsItem, CutBytes
    <2> QED BY <1>2, <2>2
  <1>4. CASE BadOf(lay) # {} /\ ~DamageNear(p, items, lay)
    <2>1. NoStray(items) /\ \A b \in BadOf(lay) : b \notin p..(p + MaxFrameSize - 1)
      BY <1>4 DEF DamageNear
    <2>2. cs[k] \in Cut
      <3> HIDE DEF Cut
      <3> QED OBVIOUS
    <2>3. p \in Nat \ {0} /\ CandidateAt(s, p) /\ n = FrameSizeAt(s, p)
      BY <2>2 DEF Cut, Passed
    <2>4. n \in MinFrameSize..MaxFrameSize /\ MaxFrameSize \in Nat /\ MinFrameSize \in Nat
      BY <2>3, CandidateFacts, SizeFacts
    <2> HIDE DEF p, n
    <2>5. \A i \in p..(p + n - 1) : i \in p..(p + MaxFrameSize - 1)
      BY <2>3, <2>4
    <2>6. \A i \in p..(p + n - 1) : i \notin BadOf(lay)
      BY <2>1, <2>5
    <2>7. \E j \in 1..Len(items) : items[j].damage = 0 /\ Slice(s, p, n) = EncodeFrame(items[j].frame)
      <3>1. Unhurt(s, p, lay)
        BY <2>3, <2>6 DEF Unhurt
      <3>2. NoStray(items) /\ CandidateAt(s, p) /\ p \in Nat \ {0}
        BY <2>1, <2>3
      <3> HIDE DEF p
      <3>3. AsEncoded(Slice(s, p, FrameSizeAt(s, p)), items)
        BY <3>1, <3>2, CleanCut, Zenon
      <3> QED BY <2>3, <3>3 DEF AsEncoded
    <2> QED BY <1>2, <2>7 DEF CutBytes, p, n
  <1>5. CASE DamageNear(p, items, lay)
    BY <1>1, <1>5 DEF Credible
  <1> QED BY <1>3, <1>4, <1>5

\* A datagram is accepted as what it was sent as, or not at all.
LEMMA DatagramCredible ==
  ASSUME CrcDetects, NEW items \in Seq(Carried), NEW j \in 1..Len(items), NEW bytes,
         bytes = items[j].bytes, DecodeFrame(bytes).ok
  PROVE  WasSent(DecodeFrame(bytes).frame, items)
  <1> DEFINE x == items[j]
             d == x.damage
  <1>1. x \in Carried
    OBVIOUS
  <1> HIDE DEF x
  <1>2. x \in SentItems /\ x.frame \in Frames /\ Encodable(x.frame) /\ (d = 0 => x.bytes = EncodeFrame(x.frame))
    BY <1>1, CarriedFacts
  <1>3. CASE d = 0
    BY <1>2, <1>3, DecodesToSent DEF x
  <1>4. CASE d # 0
    <2>1. d \in DOMAIN EncodeFrame(x.frame) /\ x.bytes = Corrupt(EncodeFrame(x.frame), d)
      BY <1>2, <1>4, SentFacts
    <2>2. ~DecodeFrame(x.bytes).ok
      BY <1>2, <2>1, DamagedIsRefused
    <2> QED BY <2>2 DEF x
  <1> QED BY <1>3, <1>4

AcceptInv == \A k \in 1..Len(accepted) : Credible(accepted[k], sent, layout)

LEMMA AcceptStep ==
  ASSUME NaturalSymbols, CrcDetects
  PROVE  BaseInv /\ ExtractorInv /\ TileInv /\ HandInv /\ AcceptInv /\ [Next]_vars => AcceptInv'
  <1> SUFFICES ASSUME BaseInv, ExtractorInv, TileInv, HandInv, AcceptInv, [Next]_vars PROVE AcceptInv'
    OBVIOUS
  <1>1. sent \in Seq(Carried) /\ stream \in Seq(Nat) /\ cuts \in Seq(Cut) /\ consumed \in Nat
        /\ Passed(stream, cuts, consumed) /\ Handed(frames, cuts, stream, accepted)
    BY DEF BaseInv, ExtractorInv, StreamInv, HandInv
  <1>2. PICK S : accepted \in Seq(S)
    BY DEF HandInv
  <1>3. ASSUME accepted' = accepted, Keeps(sent, sent'), Keeps(layout, layout')
        PROVE  AcceptInv'
    <2> SUFFICES ASSUME NEW k \in 1..Len(accepted) PROVE Credible(accepted[k], sent', layout')
      BY <1>3 DEF AcceptInv
    <2>1. Credible(accepted[k], sent, layout)
      BY DEF AcceptInv
    <2> QED BY <1>3, <2>1, CredibleLater
  <1>4. Keeps(sent, sent) /\ Keeps(layout, layout)
    BY DEF Keeps
  <1>5. CASE UNCHANGED <<accepted, sent, layout>>
    <2>1. Keeps(sent, sent') /\ Keeps(layout, layout')
      BY <1>4, <1>5
    <2> QED BY <1>3, <1>5, <2>1
  <1>6. CASE Radio
    <2>1. PICK x \in Carried : sent' = Append(sent, x)
      BY <1>6, RadioFacts
    <2>2. accepted' = accepted
      BY <1>6, RadioFacts
    <2>3. Keeps(sent, sent')
      BY <1>1, <2>1, KeepsAppend
    <2>4. Keeps(layout, layout')
      <3>1. CASE ~OverTcp
        BY <1>4, <1>6, <3>1, RadioFacts
      <3>2. CASE OverTcp
        <4>1. layout \in Seq(Place)
          BY <3>2 DEF TileInv, Laid
        <4>2. \E f : layout' = Append(layout, f)
          BY <1>6, <3>2, RadioFacts
        <4> QED BY <4>1, <4>2, KeepsAppend
      <3> QED BY <3>1, <3>2
    <2> QED BY <1>3, <2>2, <2>3, <2>4
  <1>7. CASE ForeignSymbol
    <2>1. accepted' = accepted /\ sent' = sent /\ OverTcp /\ \E f : layout' = Append(layout, f)
      BY <1>7 DEF ForeignSymbol
    <2>2. layout \in Seq(Place)
      BY <2>1 DEF TileInv, Laid
    <2>3. Keeps(layout, layout') /\ Keeps(sent, sent')
      BY <1>4, <2>1, <2>2, KeepsAppend
    <2> QED BY <1>3, <2>1, <2>3
  <1>8. CASE HandCandidates
    <2>1. /\ sent' = sent /\ layout' = layout /\ frames # <<>>
          /\ accepted' = accepted \o AcceptedOf(Candidates)
      BY <1>8 DEF HandCandidates, Take, simVars
    <2>2. Candidates = Decoded(frames, cuts)
      BY DEF Candidates, Decoded
    <2>3. OverTcp
      BY <2>1 DEF BaseInv, LinkInv
    <2>4. link \in Seq(Nat) /\ layout \in Seq(Place) /\ Tiled(layout, sent, stream \o link)
      BY <2>3 DEF TileInv, Laid, BaseInv, LinkInv
    <2>5. Tiled(layout, sent, stream)
      BY <1>1, <2>4, TiledPrefix
    <2>6. \A k \in 1..Len(cuts) : Credible(Outcome(stream, cuts[k]), sent, layout)
      BY <1>1, <2>4, <2>5, CutCredible
    <2> DEFINE a == accepted \o AcceptedOf(Decoded(frames, cuts))
    <2>7. OnlyOutcomes(a, accepted, stream, cuts)
      BY <1>1, <1>2, HandedOut
    <2>8. accepted' = a
      BY <2>1, <2>2
    <2> HIDE DEF a
    <2>9. \A j \in 1..Len(a) : Credible(a[j], sent, layout)
      BY <2>6, <2>7 DEF AcceptInv, OnlyOutcomes
    <2> QED BY <2>1, <2>8, <2>9 DEF AcceptInv
  <1>9. CASE ReceiveDatagram
    <2>1. PICK k \in DOMAIN link :
            \/ /\ DecodeFrame(link[k]).ok
               /\ accepted' = Append(accepted, [at |-> 0, frame |-> DecodeFrame(link[k]).frame])
            \/ accepted' = accepted
      BY <1>9 DEF ReceiveDatagram, Accepts
    <2>2. layout' = layout /\ sent' = sent /\ ~OverTcp
      BY <1>9 DEF ReceiveDatagram, LinkOnly, OverTcp
    <2>3. CASE accepted' = accepted
      BY <1>5, <2>2, <2>3
    <2>4. CASE /\ DecodeFrame(link[k]).ok
               /\ accepted' = Append(accepted, [at |-> 0, frame |-> DecodeFrame(link[k]).frame])
      <3> DEFINE y == [at |-> 0, frame |-> DecodeFrame(link[k]).frame]
                 T == S \cup {y}
                 r == Append(accepted, y)
      <3>1. /\ link \in Seq(Seq(Nat))
            /\ \A i \in 1..Len(link) : \E j \in 1..Len(sent) : link[i] = sent[j].bytes
        BY <2>2 DEF BaseInv, LinkInv
      <3>2. k \in 1..Len(link)
        BY <3>1
      <3>3. PICK j \in 1..Len(sent) : link[k] = sent[j].bytes
        BY <3>1, <3>2
      <3>4. WasSent(y.frame, sent)
        BY <1>1, <2>4, <3>3, DatagramCredible
      <3>5. Credible(y, sent, layout)
        BY <3>4 DEF Credible
      <3>6. accepted \in Seq(T) /\ y \in T
        BY <1>2
      <3> HIDE DEF T, y
      <3>7. r \in Seq(T) /\ Len(r) = Len(accepted) + 1 /\ r[Len(accepted) + 1] = y
            /\ (\A i \in 1..Len(accepted) : r[i] = accepted[i])
        BY <3>6
      <3>8. Len(accepted) \in Nat
        BY <1>2
      <3>9. accepted' = r
        BY <2>4 DEF y
      <3> HIDE DEF r
      <3>10. \A i \in 1..Len(r) : i = Len(accepted) + 1 \/ i \in 1..Len(accepted)
        BY <3>7, <3>8
      <3>11. \A i \in 1..Len(r) : Credible(r[i], sent, layout)
        BY <3>5, <3>7, <3>10 DEF AcceptInv
      <3> QED BY <2>2, <3>9, <3>11 DEF AcceptInv
    <2> QED BY <2>1, <2>3, <2>4
  <1>10. CASE ReceiveBytes \/ ExtractorStep \/ EraseClient \/ LoseDatagram \/ DuplicateDatagram \/ UNCHANGED vars
    <2>1. UNCHANGED <<accepted, sent, layout>>
      BY <1>10 DEF ReceiveBytes, ExtractorStep, EraseClient, LoseDatagram, DuplicateDatagram, LinkOnly, vars,
                   simVars, airVars
    <2> QED BY <1>5, <2>1
  <1>11. CASE (SendSome \/ SendDatagram \/ SendFails \/ StoreFrame \/ FinishRun) /\ UNCHANGED <<extractorVars, airVars>>
    <2>1. UNCHANGED <<accepted, sent, layout>>
      BY <1>11 DEF SendSome, SendDatagram, SendFails, StoreFrame, FinishRun, airVars
    <2> QED BY <1>5, <2>1
  <1> QED BY <1>6, <1>7, <1>8, <1>9, <1>10, <1>11 DEF Next, SimulatorStep, Finished

-----------------------------------------------------------------------------
(* The theorems about the downlink *)

DownlinkInv == BaseInv /\ ExtractorInv /\ TileInv /\ HandInv

LEMMA DownlinkInvariant ==
  ASSUME NaturalSymbols
  PROVE  Spec => []DownlinkInv
  <1>1. Init => DownlinkInv
    BY BaseInit, ExtractorInvInit, TileInit, HandInit DEF Init, DownlinkInv
  <1>2. DownlinkInv /\ [Next]_vars => DownlinkInv'
    <2> SUFFICES ASSUME BaseInv, ExtractorInv, TileInv, HandInv, [Next]_vars PROVE DownlinkInv'
      BY DEF DownlinkInv
    <2>1. BaseInv'
      BY BaseStep
    <2>2. ExtractorInv'
      BY DrivesExtractor, ExtractorInvNext
    <2>3. TileInv'
      BY TileStep
    <2>4. HandInv'
      BY HandStep
    <2> QED BY <2>1, <2>2, <2>3, <2>4 DEF DownlinkInv
  <1> QED BY <1>1, <1>2, PTL DEF Spec

LEMMA AcceptInvariant ==
  ASSUME NaturalSymbols, CrcDetects
  PROVE  Spec => []AcceptInv
  <1>1. Init => AcceptInv
    <2> SUFFICES ASSUME Init PROVE AcceptInv
      OBVIOUS
    <2>1. Len(accepted) = 0
      BY DEF Init
    <2> QED BY <2>1 DEF AcceptInv
  <1>2. DownlinkInv /\ AcceptInv /\ [Next]_vars => AcceptInv'
    BY AcceptStep DEF DownlinkInv
  <1> QED BY <1>1, <1>2, DownlinkInvariant, PTL DEF Spec

\* Both kinds of link.
LEMMA DomainFacts ==
  ASSUME DownlinkInv
  PROVE  /\ DOMAIN accepted = 1..Len(accepted) /\ DOMAIN sent = 1..Len(sent)
         /\ DOMAIN layout = 1..Len(layout) /\ BadPlaces = BadOf(layout)
  <1>1. PICK S : accepted \in Seq(S)
    BY DEF DownlinkInv, HandInv
  <1>2. DOMAIN accepted = 1..Len(accepted)
    BY <1>1
  <1>3. DOMAIN sent = 1..Len(sent)
    <2>1. sent \in Seq(Carried)
      BY DEF DownlinkInv, BaseInv
    <2> QED BY <2>1
  <1>4. layout \in Seq(Place)
    <2>1. CASE OverTcp
      BY <2>1 DEF DownlinkInv, TileInv, Laid
    <2>2. CASE ~OverTcp
      <3>1. layout = <<>>
        BY <2>2 DEF DownlinkInv, BaseInv, LinkInv
      <3> QED BY <3>1
    <2> QED BY <2>1, <2>2
  <1>5. DOMAIN layout = 1..Len(layout)
    <2> HIDE DEF Place
    <2> QED BY <1>4
  <1> QED BY <1>2, <1>3, <1>5 DEF BadPlaces, BadOf

\* Only what was sent is accepted (decodeFrame, FrameCodec.cpp:141-213, and
\* feed(), :250-294), for every payload, every way TCP cuts the stream, and
\* every loss, duplication and reordering of datagrams.  Over TCP this is for a
\* connection nothing was damaged on: after damage the extractor may put
\* together a candidate no encoder made, and that its CRC is wrong is a matter
\* of chance.  Over UDP no place is ever bad, and damaged frames are included.
THEOREM AcceptedTheorem ==
  ASSUME NaturalSymbols, CrcDetects
  PROVE  Spec => [](BadPlaces = {} => AcceptedAreSent)
  <1>1. DownlinkInv /\ AcceptInv => (BadPlaces = {} => AcceptedAreSent)
    <2> SUFFICES ASSUME DownlinkInv, AcceptInv, BadPlaces = {}, NEW k \in DOMAIN accepted
                 PROVE  \E j \in SentWhole : accepted[k].frame = sent[j].frame
      BY DEF AcceptedAreSent
    <2>1. k \in 1..Len(accepted) /\ DOMAIN sent = 1..Len(sent) /\ BadOf(layout) = {}
      BY DomainFacts
    <2>2. WasSent(accepted[k].frame, sent)
      BY <2>1 DEF AcceptInv, Credible, DamageNear
    <2> QED BY <2>1, <2>2 DEF WasSent, SentWhole
  <1> QED BY <1>1, DownlinkInvariant, AcceptInvariant, PTL

\* No frame sent so far holds a magic except at its beginning, and none ends
\* with symbols that the magic of the next one completes to a magic.
NoStrayMagic ==
  \A j \in DOMAIN sent :
    \A i \in 2..Len(EncodeFrame(sent[j].frame)) :
      ~MagicAt(EncodeFrame(sent[j].frame) \o FrameMagic, i)

\* A frame that was accepted and never sent lies where damage is: a bad place is
\* less than one maximal frame behind its beginning.
ForgeriesAreNearDamage ==
  \A k \in DOMAIN accepted :
    \/ \E j \in SentWhole : accepted[k].frame = sent[j].frame
    \/ \E b \in BadPlaces : b \in accepted[k].at..(accepted[k].at + MaxFrameSize - 1)

\* On a damaged connection too, everything accepted away from the damage was
\* sent: resynchronisation (FrameCodec.cpp:258-291) never assembles a frame out
\* of sound bytes.
THEOREM ForgeryTheorem ==
  ASSUME NaturalSymbols, CrcDetects
  PROVE  Spec => [](NoStrayMagic => ForgeriesAreNearDamage)
  <1>1. DownlinkInv /\ AcceptInv => (NoStrayMagic => ForgeriesAreNearDamage)
    <2> SUFFICES ASSUME DownlinkInv, AcceptInv, NoStrayMagic, NEW k \in DOMAIN accepted
                 PROVE  \/ \E j \in SentWhole : accepted[k].frame = sent[j].frame
                        \/ \E b \in BadPlaces : b \in accepted[k].at..(accepted[k].at + MaxFrameSize - 1)
      BY DEF ForgeriesAreNearDamage
    <2>1. k \in 1..Len(accepted) /\ DOMAIN sent = 1..Len(sent) /\ BadPlaces = BadOf(layout)
      BY DomainFacts
    <2>2. NoStray(sent)
      BY <2>1 DEF NoStray, NoStrayMagic
    <2>3. WasSent(accepted[k].frame, sent) \/ DamageNear(accepted[k].at, sent, layout)
      BY <2>1 DEF AcceptInv, Credible
    <2> QED BY <2>1, <2>2, <2>3 DEF WasSent, SentWhole, DamageNear
  <1> QED BY <1>1, DownlinkInvariant, AcceptInvariant, PTL

\* Loss is local (resynchronisation in feed(), FrameCodec.cpp:258-291): an
\* undamaged frame that begins at least one maximal frame behind the last damage
\* is accepted, for every magic, payload, limit, number and place of damaged and
\* foreign symbols, and every way TCP cuts the stream, as long as payloads hold
\* no magic.
THEOREM LossTheorem ==
  ASSUME NaturalSymbols
  PROVE  Spec => [](NoStrayMagic => LossIsLocal)
  <1>1. DownlinkInv => (NoStrayMagic => LossIsLocal)
    <2> SUFFICES ASSUME DownlinkInv, NoStrayMagic, ~feeding, frames = <<>>, NEW k \in DOMAIN layout,
                        Untouched(k), layout[k].start + layout[k].size - 1 <= Len(stream)
                 PROVE  \E j \in DOMAIN accepted : accepted[j].at = layout[k].start
      BY DEF LossIsLocal
    <2>1. /\ DOMAIN accepted = 1..Len(accepted) /\ DOMAIN sent = 1..Len(sent)
          /\ DOMAIN layout = 1..Len(layout) /\ BadPlaces = BadOf(layout)
      BY DomainFacts
    <2>2. OverTcp
      <3> SUFFICES ASSUME ~OverTcp PROVE FALSE
        OBVIOUS
      <3>1. layout = <<>>
        BY DEF DownlinkInv, BaseInv, LinkInv
      <3> QED BY <3>1
    <2>3. NoStray(sent)
      BY <2>1 DEF NoStray, NoStrayMagic
    <2>4. /\ sent \in Seq(Carried) /\ stream \in Seq(Nat) /\ link \in Seq(Nat) /\ cuts \in Seq(Cut)
          /\ consumed \in 0..Len(stream) /\ Passed(stream, cuts, consumed)
          /\ Len(stream) - consumed < MagicSize \/ PendingAt(stream, consumed + 1)
      BY <2>2 DEF DownlinkInv, BaseInv, LinkInv, ExtractorInv, StreamInv, AtRest
    <2>5. layout \in Seq(Place) /\ Tiled(layout, sent, stream \o link)
      BY <2>2 DEF DownlinkInv, TileInv, Laid
    <2>6. Tiled(layout, sent, stream)
      BY <2>4, <2>5, TiledPrefix
    <2>7. k \in 1..Len(layout) /\ OutOfReach(layout, k)
      BY <2>1 DEF Untouched, OutOfReach
    <2>8. PICK h \in 1..Len(cuts), j \in 1..Len(sent) :
            /\ cuts[h].start = layout[k].start
            /\ Slice(stream, cuts[h].start, cuts[h].size) = EncodeFrame(sent[j].frame)
      BY <2>3, <2>4, <2>5, <2>6, <2>7, FrameFound
    <2>9. DecodeFrame(CutBytes(stream, cuts[h])).ok
      <3>1. sent[j] \in Carried
        BY <2>4
      <3>2. sent[j].frame \in Frames /\ Encodable(sent[j].frame)
        BY <3>1, CarriedFacts
      <3>3. DecodeFrame(EncodeFrame(sent[j].frame)) = [ok |-> TRUE, frame |-> sent[j].frame]
        BY <3>2, RoundTrip
      <3>4. CutBytes(stream, cuts[h]) = EncodeFrame(sent[j].frame)
        BY <2>8 DEF CutBytes
      <3> QED BY <3>3, <3>4
    <2>10. PICK i \in 1..Len(accepted) : accepted[i] = Outcome(stream, cuts[h])
      <3>1. Handed(frames, cuts, stream, accepted)
        BY DEF DownlinkInv, HandInv
      <3>2. Len(frames) = 0 /\ Len(cuts) \in Nat
        BY <2>4
      <3>3. h \in 1..(Len(cuts) - Len(frames))
        BY <3>2
      <3> QED BY <2>9, <3>1, <3>3 DEF Handed
    <2>11. accepted[i].at = layout[k].start
      BY <2>8, <2>10 DEF Outcome
    <2> QED BY <2>1, <2>11
  <1> QED BY <1>1, DownlinkInvariant, PTL

=============================================================================
