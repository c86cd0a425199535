-------------------------------- MODULE Replay --------------------------------
(***************************************************************************)
(* STGF capture files (src/Replay.cpp): FrameFileWriter over an ofstream,  *)
(* and FrameFileReader.  A file is a header (magic and version) and then,  *)
(* for each frame, its length in two symbols and its bytes.                *)
(***************************************************************************)
EXTENDS FrameLayout, FileStream

CONSTANTS
  FileHeader,   \* ReplayMagic and the format version
  LengthBase    \* a length symbol is below LengthBase

ASSUME ReplayAssumption ==
  FileHeader \in Seq(Int) /\ FileHeader # <<>> /\ LengthBase \in Nat \ {0}

ReplayLengthFieldSize == 2

LengthField(n) == <<n \div LengthBase, n % LengthBase>>

Entry(frameBytes) == LengthField(Len(frameBytes)) \o frameBytes

LegalEntryLength(n) == n >= MinFrameSize /\ n <= MaxFrameSize

----------------------------------------------------------------------------
(* FrameFileWriter: the streams its operations may leave behind. *)

OpenWriter(room) == AfterWrite(FreshStream, FileHeader, room)

\* writeFrame refuses other sizes and throws if the stream is bad afterwards.
Writable(frameBytes) == LegalEntryLength(Len(frameBytes))

AfterWriteFrame(s, frameBytes, room) == AfterWrite(s, Entry(frameBytes), room)

----------------------------------------------------------------------------
(* FrameFileReader: the constructor, then readNext from position pos (the  *)
(* number of symbols read so far).                                         *)

OpensAsReplay(file) ==
  Len(file) >= Len(FileHeader) /\ SubSeq(file, 1, Len(FileHeader)) = FileHeader

ReadEnds(result)  == [result |-> result]

\* Mutant of ReadNext: a short length field at the end is taken for the end.
ReadNextLenient(file, pos) ==
  LET left   == Len(file) - pos
      length == file[pos + 1] * LengthBase + file[pos + 2]
  IN  IF left < ReplayLengthFieldSize THEN ReadEnds("nullopt")
      ELSE IF ~LegalEntryLength(length) THEN ReadEnds("throw")
      ELSE IF left < ReplayLengthFieldSize + length THEN ReadEnds("throw")
      ELSE [result |-> "frame", next |-> pos + ReplayLengthFieldSize + length,
            bytes  |-> SubSeq(file, pos + ReplayLengthFieldSize + 1,
                              pos + ReplayLengthFieldSize + length)]

ReadNext(file, pos) ==
  LET left   == Len(file) - pos
      length == file[pos + 1] * LengthBase + file[pos + 2]
  IN  IF left = 0 THEN ReadEnds("nullopt")
      ELSE IF left < ReplayLengthFieldSize THEN ReadEnds("throw")
      ELSE IF ~LegalEntryLength(length) THEN ReadEnds("throw")
      ELSE IF left < ReplayLengthFieldSize + length THEN ReadEnds("throw")
      ELSE [result |-> "frame", next |-> pos + ReplayLengthFieldSize + length,
            bytes  |-> SubSeq(file, pos + ReplayLengthFieldSize + 1,
                              pos + ReplayLengthFieldSize + length)]

=============================================================================
