--------------------------- MODULE TelemetryOutput ---------------------------
(***************************************************************************)
(* TelemetryOutput (apps/ground_station/TelemetryOutput.cpp): the CSV or   *)
(* JSON export file.  The document is a sequence of tokens: the opening,   *)
(* a row per frame, the separators JSON needs, the closing.  How a row is  *)
(* spelled is left out: it holds digits, a status name and hexadecimal     *)
(* digits only, so neither escape function ever has anything to escape.    *)
(***************************************************************************)
EXTENDS FileStream, SequencesExt

VARIABLES
  outFormat,     \* "csv" or "json", "none" before the file is opened
  outRoom,       \* tokens the device can take
  outStream,     \* out_
  firstRow,      \* firstJsonFrame_
  outFinished    \* finished_

outVars == <<outFormat, outRoom, outStream, firstRow, outFinished>>

Opening   == [token |-> "opening"]
Separator == [token |-> "separator"]
Closing   == [token |-> "closing"]
Row(frame) == [token |-> "row", frame |-> frame]

OutputInit ==
  /\ outFormat = "none"
  /\ outRoom = 0
  /\ outStream = FreshStream
  /\ firstRow = TRUE
  /\ outFinished = FALSE

\* The constructor does not look at the stream after writing the header.
OpenOutput(format, room) ==
  /\ outFormat' = format
  /\ outRoom' = room
  /\ outStream' \in AfterWrite(outStream, <<Opening>>, room)
  /\ UNCHANGED <<firstRow, outFinished>>

\* Mutant of RowTokens: the separator between two rows is left out.
RowTokensNoSeparator(frame) == <<Row(frame)>>

RowTokens(frame) ==
  IF outFormat = "json" /\ ~firstRow THEN <<Separator, Row(frame)>> ELSE <<Row(frame)>>

\* write(): the row, then the check of the stream; throws says which way.
WriteRow(frame, throws) ==
  /\ outStream' \in AfterWrite(outStream, RowTokens(frame), outRoom)
  /\ outStream'.bad = throws
  /\ firstRow' = IF outFormat = "json" THEN FALSE ELSE firstRow
  /\ UNCHANGED <<outFormat, outRoom, outFinished>>

ClosingTokens == IF outFormat = "json" THEN <<Closing>> ELSE <<>>

\* finish(): the closing, a flush, and the check of the stream.
FinishOutput(throws) ==
  /\ ~outFinished
  /\ \E s \in AfterWrite(outStream, ClosingTokens, outRoom) :
       outStream' = AfterFlush(s, outRoom)
  /\ outStream'.bad = throws
  /\ outFinished' = ~throws
  /\ UNCHANGED <<outFormat, outRoom, firstRow>>

\* The document a reader expects for these rows.
Document(rows) ==
  IF outFormat = "json"
  THEN <<Opening>>
       \o FlattenSeq([n \in 1..Len(rows) |->
                        IF n = 1 THEN <<Row(rows[n])>> ELSE <<Separator, Row(rows[n])>>])
       \o <<Closing>>
  ELSE <<Opening>> \o [n \in 1..Len(rows) |-> Row(rows[n])]

=============================================================================
