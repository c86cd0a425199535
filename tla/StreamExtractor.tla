--------------------------- MODULE StreamExtractor ---------------------------
(***************************************************************************)
(* StreamFrameExtractor (src/FrameCodec.cpp:250-304): cuts the bytes of    *)
(* one TCP connection into candidate frames.                               *)
(*                                                                         *)
(* feed() appends the received bytes to buffer_ and loops; each exit of    *)
(* one pass through the loop is an action here, so that the end of the     *)
(* loop is something to check.  The server calls feed() from one thread    *)
(* and hands out every returned candidate before it reads again: Take.     *)
(*                                                                         *)
(* stream, consumed and cuts are history variables: the bytes fed so far,  *)
(* how many of them have left the buffer, and where each candidate lay.    *)
(***************************************************************************)
EXTENDS FrameLayout

VARIABLES
  buffer,    \* buffer_
  feeding,   \* feed() is running
  frames,    \* its local vector of candidates, then its result
  stream, consumed, cuts

extractorVars == <<buffer, feeding, frames, stream, consumed, cuts>>

----------------------------------------------------------------------------
(* What the code looks for. *)

Slice(s, first, size) == SubSeq(s, first, first + size - 1)

MagicAt(s, i) ==
  i + MagicSize - 1 <= Len(s) /\ Slice(s, i, MagicSize) = FrameMagic

\* Positions std::search may return; the first one is its result.
MagicsIn(s) == {i \in 1..Len(s) : MagicAt(s, i)}

FirstIn(S) == CHOOSE i \in S : \A j \in S : i <= j

FrameSizeAt(s, i) == HeaderSize + s[i + PayloadLengthOffset - 1] + CrcSize

\* The buffer from the first magic on: what one pass of the loop looks at.
Aligned == SubSeq(buffer, FirstIn(MagicsIn(buffer)), Len(buffer))

----------------------------------------------------------------------------
ExtractorInit ==
  /\ buffer = <<>>
  /\ feeding = FALSE
  /\ frames = <<>>
  /\ stream = <<>>
  /\ consumed = 0
  /\ cuts = <<>>

Feed(bytes) ==
  /\ ~feeding
  /\ frames = <<>>
  /\ buffer' = buffer \o bytes
  /\ feeding' = TRUE
  /\ stream' = stream \o bytes
  /\ UNCHANGED <<frames, consumed, cuts>>

\* The buffer keeps its last rest bytes.
KeepLast(rest) ==
  /\ buffer' = SubSeq(buffer, Len(buffer) - rest + 1, Len(buffer))
  /\ consumed' = consumed + Len(buffer) - rest

\* Mutant of NoMagic: garbage is kept.
NoMagicKeepsAll ==
  /\ feeding
  /\ MagicsIn(buffer) = {}
  /\ feeding' = FALSE
  /\ UNCHANGED <<buffer, consumed, frames, stream, cuts>>

\* Mutant of NoMagic: one byte too few is kept for a magic cut by TCP.
NoMagicKeepsTooLittle ==
  /\ feeding
  /\ MagicsIn(buffer) = {}
  /\ KeepLast(IF Len(buffer) > MagicSize - 2 THEN MagicSize - 2 ELSE Len(buffer))
  /\ feeding' = FALSE
  /\ UNCHANGED <<frames, stream, cuts>>

\* No magic in the buffer: only what may be the start of one is kept.
NoMagic ==
  /\ feeding
  /\ MagicsIn(buffer) = {}
  /\ KeepLast(IF Len(buffer) > MagicSize - 1 THEN MagicSize - 1 ELSE Len(buffer))
  /\ feeding' = FALSE
  /\ UNCHANGED <<frames, stream, cuts>>

\* The magic is there, the header is not complete.
AwaitHeader ==
  /\ feeding
  /\ MagicsIn(buffer) # {}
  /\ Len(Aligned) < HeaderSize
  /\ KeepLast(Len(Aligned))
  /\ feeding' = FALSE
  /\ UNCHANGED <<frames, stream, cuts>>

HeaderComplete ==
  /\ feeding
  /\ MagicsIn(buffer) # {}
  /\ Len(Aligned) >= HeaderSize

\* Mutant of BadLength: the whole header is dropped.
BadLengthDropsHeader ==
  /\ HeaderComplete
  /\ Aligned[PayloadLengthOffset] > MaxPayloadSize
  /\ KeepLast(Len(Aligned) - HeaderSize)
  /\ UNCHANGED <<feeding, frames, stream, cuts>>

\* Mutant of BadLength: everything received so far is dropped.
BadLengthDropsAll ==
  /\ HeaderComplete
  /\ Aligned[PayloadLengthOffset] > MaxPayloadSize
  /\ KeepLast(0)
  /\ UNCHANGED <<feeding, frames, stream, cuts>>

\* Mutant of BadLength: the buffer is aligned on the magic but keeps it.
BadLengthKeepsMagic ==
  /\ HeaderComplete
  /\ Aligned[PayloadLengthOffset] > MaxPayloadSize
  /\ KeepLast(Len(Aligned))
  /\ UNCHANGED <<feeding, frames, stream, cuts>>

\* An impossible length: one byte is dropped and the search goes on.
BadLength ==
  /\ HeaderComplete
  /\ Aligned[PayloadLengthOffset] > MaxPayloadSize
  /\ KeepLast(Len(Aligned) - 1)
  /\ UNCHANGED <<feeding, frames, stream, cuts>>

\* A legal header whose frame is not complete.
AwaitFrame ==
  /\ HeaderComplete
  /\ Aligned[PayloadLengthOffset] <= MaxPayloadSize
  /\ Len(Aligned) < FrameSizeAt(Aligned, 1)
  /\ KeepLast(Len(Aligned))
  /\ feeding' = FALSE
  /\ UNCHANGED <<frames, stream, cuts>>

EmitFrame ==
  /\ HeaderComplete
  /\ Aligned[PayloadLengthOffset] <= MaxPayloadSize
  /\ LET size == FrameSizeAt(Aligned, 1)
     IN  /\ Len(Aligned) >= size
         /\ frames' = Append(frames, Slice(Aligned, 1, size))
         /\ KeepLast(Len(Aligned) - size)
         /\ cuts' = Append(cuts, [start |-> consumed + FirstIn(MagicsIn(buffer)),
                                  size  |-> size])
  /\ UNCHANGED <<feeding, stream>>

\* The caller has walked the returned candidates.
Take ==
  /\ ~feeding
  /\ frames # <<>>
  /\ frames' = <<>>
  /\ UNCHANGED <<buffer, feeding, stream, consumed, cuts>>

\* clear(), or the fresh extractor of a new connection.
Clear ==
  /\ ~feeding
  /\ frames = <<>>
  /\ buffer' = <<>>
  /\ stream' = <<>>
  /\ consumed' = 0
  /\ cuts' = <<>>
  /\ UNCHANGED <<feeding, frames>>

Scan == NoMagic \/ AwaitHeader \/ BadLength \/ AwaitFrame \/ EmitFrame

\* The component by itself: feed() may be given anything, cut anywhere.
ExtractorNext == (\E bytes \in Seq(Nat) : Feed(bytes)) \/ Scan \/ Take \/ Clear

ExtractorSpec == ExtractorInit /\ [][ExtractorNext]_extractorVars

----------------------------------------------------------------------------
(* What the component promises. *)

\* A legal frame header, and all the bytes it announces, start at s[i].
CandidateAt(s, i) ==
  /\ MagicAt(s, i)
  /\ i + HeaderSize - 1 <= Len(s)
  /\ s[i + PayloadLengthOffset - 1] <= MaxPayloadSize
  /\ i + FrameSizeAt(s, i) - 1 <= Len(s)

\* A legal header whose frame the end of s cuts short, or a header cut short.
PendingAt(s, i) ==
  /\ MagicAt(s, i)
  /\ \/ i + HeaderSize - 1 > Len(s)
     \/ /\ s[i + PayloadLengthOffset - 1] <= MaxPayloadSize
        /\ i + FrameSizeAt(s, i) - 1 > Len(s)

(* The reference: one left-to-right pass over the whole of s, which takes  *)
(* each candidate whole, waits at a pending one and otherwise moves on.    *)
PassFrom(s, later, i) ==
  IF i > Len(s) \/ PendingAt(s, i) THEN <<>>
  ELSE IF CandidateAt(s, i)
       THEN <<[start |-> i, size |-> FrameSizeAt(s, i)]>> \o later[i + FrameSizeAt(s, i)]
       ELSE later[i + 1]

CutsOf(s) ==
  LET from[i \in 1..Len(s) + 1] == PassFrom(s, from, i)
  IN  from[1]

(* Type invariant.  The buffer is the tail of the stream that has not been *)
(* consumed, and no candidate has a size outside the layout's limits.      *)
ExtractorTypeOK ==
  /\ feeding \in BOOLEAN
  /\ consumed \in 0..Len(stream)
  /\ buffer = SubSeq(stream, consumed + 1, Len(stream))
  /\ \A k \in DOMAIN cuts : cuts[k].size \in MinFrameSize..MaxFrameSize

(* Between two calls the extractor holds less than one frame, whatever has *)
(* been fed to it: no peer can make buffer_ grow (FrameCodec.cpp:260-291). *)
BufferBounded == ~feeding => Len(buffer) < MaxFrameSize

(* How TCP cut the stream into reads makes no difference: after each call  *)
(* the candidates handed out so far are exactly those one pass over the    *)
(* whole stream finds (feed(), FrameCodec.cpp:250-294).                    *)
ChunkingIrrelevant == ~feeding => cuts = CutsOf(stream)

(* Resynchronisation never throws a candidate away: when the bytes of a    *)
(* candidate have left the buffer, it was handed out, or it began inside   *)
(* one that was (the erase calls, FrameCodec.cpp:263-288).                 *)
NoFrameDiscarded ==
  \A i \in 1..consumed :
    CandidateAt(stream, i) =>
      \E k \in DOMAIN cuts : i \in cuts[k].start..(cuts[k].start + cuts[k].size - 1)

(* feed() always returns: whatever the buffer holds, the pass it is in for  *)
(* returns or leaves fewer bytes to look at (FrameCodec.cpp:256-293; the    *)
(* BadLength pass is the one that could spin).                              *)
FeedReturns ==
  feeding => ENABLED <<Scan /\ (feeding' => Len(buffer') < Len(buffer))>>_extractorVars

=============================================================================
