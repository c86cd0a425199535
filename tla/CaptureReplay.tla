---------------------------- MODULE CaptureReplay ----------------------------
(***************************************************************************)
(* A capture and its replay: the simulator records a run in an STGF file,  *)
(* and may fail, run out of space or be killed on the way; once it is gone *)
(* the ground station replays the file (receiveReplay, GroundStationInput  *)
(* .cpp), decodes each frame, interprets its payload                       *)
(* (processApplicationPayload) and exports it.                             *)
(*                                                                         *)
(* The station's threads are those of module Pipeline; here they are what  *)
(* that module shows them to be: frames reach the writer in the order they *)
(* were read (backlog), and when the input throws, the frames not yet      *)
(* exported may be lost, with or without a gap the writer notices.         *)
(***************************************************************************)
EXTENDS Simulator, TelemetryOutput

CONSTANTS
  OutRooms,        \* sizes at which the export's device may be full
  ExtremeSamples,  \* finite samples that overflow the projection filter
  RotAllowed       \* bound: whether the stored file may be damaged

ASSUME OutRoomsAssumption == OutRooms \subseteq Nat

VARIABLES
  stPc,        \* "off", "opened", "reading", "draining", or the exit status
  readPos,     \* symbols of the file read so far
  backlog,     \* decode results the writer has not taken
  inputFailed, \* the reader threw
  interrupted, \* a signal cleared running_ before the end of the file
  rows,        \* history: the frames exported
  readCount,   \* received_
  appErrors,   \* localApplicationErrors
  rot          \* the file was damaged after it was written

stationVars == <<stPc, readPos, backlog, inputFailed, interrupted, rows, readCount, appErrors>>
vars == <<simVars, outVars, stationVars, rot>>

Init ==
  /\ SimInit
  /\ OutputInit
  /\ stPc = "off"
  /\ readPos = 0
  /\ backlog = <<>>
  /\ inputFailed = FALSE
  /\ interrupted = FALSE
  /\ rows = <<>>
  /\ readCount = 0
  /\ appErrors = 0
  /\ rot = FALSE

----------------------------------------------------------------------------
SimulatorStep ==
  /\ \/ OpenCapture \/ LoseFrame \/ TransmitFrame \/ TransmitDamagedFrame
     \/ RefuseFrame \/ StoreFrame \/ FinishRun \/ KillSimulator
  /\ UNCHANGED <<outVars, stationVars, rot>>

\* One symbol of the stored file changes.  Bound: once, in the file of a run
\* that succeeded, and only if no frame was damaged before it was stored (the
\* two could cancel out).
Rot ==
  /\ RotAllowed
  /\ simPc = "done"
  /\ stPc = "off"
  /\ ~rot
  /\ simStats.corrupted = 0
  /\ \E k \in DOMAIN capture.disk : capture' = [capture EXCEPT !.disk = Corrupt(@, k)]
  /\ rot' = TRUE
  /\ UNCHANGED <<options, fileRoom, simPc, simIndex, simBytes, simOffset, simStats,
                 simFault, link, sent, outVars, stationVars>>

----------------------------------------------------------------------------
(* The station. *)

StartStation ==
  /\ simPc \in Ended
  /\ stPc = "off"
  /\ \/ \E format \in {"csv", "json"}, room \in OutRooms : OpenOutput(format, room) /\ stPc' = "opened"
     \/ stPc' = "exit1" /\ UNCHANGED outVars   \* the file cannot be opened
  /\ UNCHANGED <<simVars, readPos, backlog, inputFailed, interrupted, rows, readCount, appErrors, rot>>

\* Mutant of InputThrows: the frames given up are the oldest ones, and the
\* writer does not ask for the sequence it expects.
InputThrowsLosesFirst ==
  /\ inputFailed' = TRUE
  /\ stPc' = "draining"
  /\ \E n \in 0..Len(backlog) : backlog' = SubSeq(backlog, n + 1, Len(backlog))

\* The input throws: failPipeline closes both queues, and whatever the
\* decoders still hold may not reach the writer any more.
InputThrows ==
  /\ inputFailed' = TRUE
  /\ stPc' = "draining"
  /\ \E n \in 0..Len(backlog) : backlog' = SubSeq(backlog, 1, n)

OpenReplay ==
  /\ stPc = "opened"
  /\ IF OpensAsReplay(capture.disk)
     THEN /\ stPc' = "reading"
          /\ readPos' = Len(FileHeader)
          /\ UNCHANGED <<backlog, inputFailed>>
     ELSE InputThrows /\ UNCHANGED readPos
  /\ UNCHANGED <<simVars, outVars, interrupted, rows, readCount, appErrors, rot>>

\* readNext(), and the frame on its way to the writer.
ReadFrame ==
  /\ stPc = "reading"
  /\ LET r == ReadNext(capture.disk, readPos)
     IN  \/ /\ r.result = "frame"
            /\ readPos' = r.next
            /\ backlog' = Append(backlog, DecodeFrame(r.bytes))
            /\ readCount' = readCount + 1
            /\ UNCHANGED <<stPc, inputFailed>>
         \/ /\ r.result = "nullopt"
            /\ stPc' = "draining"
            /\ UNCHANGED <<readPos, backlog, inputFailed, readCount>>
         \/ /\ r.result = "throw"
            /\ InputThrows
            /\ UNCHANGED <<readPos, readCount>>
  /\ UNCHANGED <<simVars, outVars, interrupted, rows, appErrors, rot>>

\* SIGINT: the loop of receiveReplay ends before its next readNext().
StopReplay ==
  /\ stPc = "reading"
  /\ stPc' = "draining"
  /\ interrupted' = TRUE
  /\ UNCHANGED <<simVars, outVars, readPos, backlog, inputFailed, rows, readCount, appErrors, rot>>

WriterRuns == stPc \in {"reading", "draining"} /\ backlog # <<>>

\* The filters and metrics throw when a filtered sample leaves a float's range.
FilterOverflows(content) ==
  content.kind = "signal" /\ \E k \in DOMAIN content.samples : content.samples[k] \in ExtremeSamples

RejectFrame ==
  /\ WriterRuns
  /\ ~Head(backlog).ok
  /\ backlog' = Tail(backlog)
  /\ UNCHANGED <<simVars, outVars, stPc, readPos, inputFailed, interrupted, rows, readCount, appErrors, rot>>

ExportFrame ==
  /\ WriterRuns
  /\ Head(backlog).ok
  /\ LET frame   == Head(backlog).frame
         content == DecodeApplicationPayload(frame.payload)
     IN  /\ ~FilterOverflows(content)
         /\ appErrors' = IF content.kind = "error" THEN appErrors + 1 ELSE appErrors
         /\ WriteRow(frame, FALSE)
         /\ rows' = Append(rows, frame)
  /\ backlog' = Tail(backlog)
  /\ UNCHANGED <<simVars, stPc, readPos, inputFailed, interrupted, readCount, rot>>

\* The writer throws: a full device, or a filter that overflows.
WriterFails ==
  /\ WriterRuns
  /\ Head(backlog).ok
  /\ LET frame   == Head(backlog).frame
         content == DecodeApplicationPayload(frame.payload)
     IN  \/ FilterOverflows(content) /\ UNCHANGED outVars
         \/ ~FilterOverflows(content) /\ WriteRow(frame, TRUE)
  /\ stPc' = "exit1"
  /\ UNCHANGED <<simVars, readPos, backlog, inputFailed, interrupted, rows, readCount, appErrors, rot>>

\* The writer has drained its queue: finish(), then run() returns or rethrows.
FinishExport ==
  /\ stPc = "draining"
  /\ backlog = <<>>
  /\ \E throws \in BOOLEAN :
       /\ FinishOutput(throws)
       /\ stPc' = IF throws \/ inputFailed THEN "exit1" ELSE "exit0"
  /\ UNCHANGED <<simVars, readPos, backlog, inputFailed, interrupted, rows, readCount, appErrors, rot>>

\* After a failed input the writer may instead find a gap and throw.
GapFound ==
  /\ stPc = "draining"
  /\ inputFailed
  /\ stPc' = "exit1"
  /\ UNCHANGED <<simVars, outVars, readPos, backlog, inputFailed, interrupted, rows, readCount, appErrors, rot>>

Finished == stPc \in {"exit0", "exit1"} /\ UNCHANGED vars

Next ==
  \/ SimulatorStep \/ Rot
  \/ StartStation \/ OpenReplay \/ ReadFrame \/ StopReplay
  \/ RejectFrame \/ ExportFrame \/ WriterFails \/ FinishExport \/ GapFound
  \/ Finished

Spec == Init /\ [][Next]_vars

----------------------------------------------------------------------------
\* The undamaged frames among the first n that were sent, in order.
UndamagedAmong(n) ==
  FlattenSeq([k \in 1..n |-> IF sent[k].damage = 0 THEN <<sent[k].frame>> ELSE <<>>])

\* A file made of its header and the entries of the first n frames.
FileOf(n) == FileHeader \o FlattenSeq([k \in 1..n |-> Entry(sent[k].bytes)])

(* What is exported is what was sent, in order and without a gap, up to    *)
(* where the capture ends; the frames the radio damaged are left out, and  *)
(* nothing else is (writeFrame and readNext, Replay.cpp:75-148).           *)
ExportIsPrefix == ~rot => IsPrefix(rows, UndamagedAmong(Len(sent)))

(* A replay that returns 0 and was not stopped by a signal replayed a whole *)
(* number of entries: a capture cut inside an entry, by a kill or a full    *)
(* device, is never taken for a normal end of file (readNext's checks,      *)
(* Replay.cpp:129-146).                                                     *)
CutIsNoticed ==
  stPc = "exit0" /\ ~interrupted /\ ~rot => \E n \in 0..Len(sent) : capture.disk = FileOf(n)

(* When the simulator returned 0, and the station returned 0 without being  *)
(* stopped, every undamaged frame of the run is in the export; and stopped  *)
(* or not, every frame the station read is (SimulatorApp.cpp:186,           *)
(* Replay.cpp:94-101, GroundStationInput.cpp:45-61).                        *)
CleanRunIsComplete ==
  stPc = "exit0" /\ ~rot =>
    /\ simPc = "done" /\ ~interrupted => rows = UndamagedAmong(Len(sent))
    /\ rows = UndamagedAmong(readCount)

(* Damage is noticed, before or after the frame was stored: every row of   *)
(* the export is a frame that was sent and left alone (the CRC and length  *)
(* checks, FrameCodec.cpp:167-185, Crc32.cpp:50-59).                       *)
DamageIsNoticed ==
  \A k \in DOMAIN rows : \E j \in DOMAIN sent : sent[j].damage = 0 /\ rows[k] = sent[j].frame

(* A payload is read as what it is: when the station takes it for a text   *)
(* or a signal, encoding that again gives the same bytes, and a text run's *)
(* messages come back with their sequence number modulo the counter's      *)
(* width (ApplicationPayload.cpp:70-206).                                  *)
PayloadReadExactly ==
  \A k \in DOMAIN rows :
    LET content == DecodeApplicationPayload(rows[k].payload)
    IN  /\ content.kind = "text" =>
             EncodableText(content) /\ EncodeTextMessagePayload(content) = rows[k].payload
        /\ content.kind = "signal" =>
             EncodableSignal(content) /\ EncodeSignalBlockPayload(content) = rows[k].payload
        /\ options.mode = "text" =>
             \E i \in 0..options.count - 1 : content = TextOf(i) /\ rows[k].batteryPercent = BatteryOf(i)

(* A finished export is a complete document: opened, closed, separated,    *)
(* and holding exactly the exported rows, whatever part of it was still in *)
(* the stream's buffer and however late the device filled up               *)
(* (TelemetryOutput.cpp:23-72).                                            *)
FinishedIsWellFormed == outFinished => outStream.disk = Document(rows)

=============================================================================
