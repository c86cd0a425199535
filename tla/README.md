# Verification of the space-telemetry ground station

TLA+ models of the ground station (C++20, `apps/`, `include/stgs/`, `src/` of the
repository), the TLC runs that check them on small instances, and TLAPS proofs of
the properties that matter for every number of threads, capacity or configuration.
Line numbers refer to the repository's files.

## 1. The system

A satellite (or `satellite_simulator`) sends binary STGS frames over UDP or TCP;
`ground_station` receives them (or replays an STGF capture), decodes them in
parallel, and writes telemetry, health transitions and application messages in
reception order.

    NetworkServer (UDP/TCP) | FrameFileReader       main thread: submit(), a sequence number each
            |
        rawQueue_      BlockingQueue<RawWorkItem>       bounded
            |
        decoderLoop x N                                 decodeFrame(), CRC
            |
        decodedQueue_  BlockingQueue<DecodedWorkItem>   bounded
            |
        writerLoop                                      reorder map -> health, STGA, export

    running_ (atomic flag)  <- PosixSignalStopController, submit(), failPipeline(), end of replay
    asyncFailure_           <- the first exception of any thread, rethrown by run()

### Inventory

| component | state | operations | what is hard | what makes it correct |
|---|---|---|---|---|
| `BlockingQueue` | queue, closed flag, mutex, two condition variables | push, pop, close | notification after the unlock, spurious wakeups, close against sleepers | bound kept, FIFO exactly once, nullopt only at the end, nobody sleeps for ever |
| `GroundStationPipeline` | two queues, `running_`, counters, captured exception, reorder map | run, startWorkers, submit, decoderLoop, writerLoop, failPipeline, stopWorkers | four kinds of thread, shutdown order, a failure anywhere at any time | reception order, nothing lost unless a failure is reported, a stop or a failure ends the run once its threads exist (finding 2) |
| progress thread | previous counter values | periodic status line, stop token | non-atomic read of four counters | lines never go back, ends when asked |
| `StationHealthMonitor` | sliding window, state | recordDecoded, recordRejected, snapshot | boundaries of the thresholds, partly filled window | settled state, hysteresis as wide as configured |
| `NetworkServer` TCP | clients, poll snapshot, stop flag | run, stop, poll, recv, accept | snapshot against a vector being erased from, hang-up with data, stop from another thread | no misdirected event, no leaked socket, drained clients, stop ends it once no client floods it (finding 4) |
| `NetworkServer` UDP | socket, stop flag | run, stop | truncated datagrams, stop between two receptions | datagrams whole, once, in order |
| `StreamFrameExtractor` | byte buffer | feed, clear | resynchronisation, arbitrary chunking | same frames for every chunking, bounded buffer |
| `FrameCodec`, `Crc32` | none | encodeFrame, decodeFrame | order of checks, lengths | round trip, nothing corrupt accepted |
| `FrameFileReader/Writer` | file position, stream buffer | readNext, writeFrame, flush | kill or full device while capturing, truncated files | what is read is a prefix of what was written, a cut is reported |
| `PosixSignalStopController` | signal mask, waiter thread, error | constructor, waitLoop, finish | signals before, during and after the wait | a signal ends the process, but for findings 2 and 4, and never in the middle of an export |
| `TelemetryOutput` | stream, finished flag | write, finish | writes that fail only at the last flush | a complete document or an exception |
| `ApplicationPayload`, `GroundStationProcessing` | none | STGA decode, dispatch | lengths and ranges, filters that throw | a payload is read as exactly what was encoded; format errors are counted |
| `PortDiagnostics` | none | probe, scan, find first free port | check-then-bind window | a lost port is reported and ends the process |
| simulator | socket, capture, frame counter | parseArgs, run, frame factory, sendAll | partial sends, injected damage, index overflow | every byte sent once, in order; accepted options never fail half-way |
| `GroundStationApp`, `main` | the exception under way, the exit status | run | construction and unwinding order around four threads | status 0 only for a complete run; a failure ends the process, but for findings 2 and 4 |
| station options, logger, terminal UI, signal processing | - | parsing, text, floating point | - | not modelled, see section 7 |

The hazards of this code, each with its line and the properties aimed at it, are the
`hazards` of `PROJECT.json`.

## 2. Modules

| module | models |
|---|---|
| `ClosableFifo` | what a `BlockingQueue` promises: bounded FIFO, nothing accepted once closed, exhaustion only when closed and empty |
| `BlockingQueue` | `BlockingQueue.hpp`: one action per critical section and one per notification |
| `OrderedExport` | what the pipeline promises: effects in reception order, success only if complete |
| `Pipeline` | `GroundStationPipeline.cpp`, `GroundStationWorkers.cpp`, `GroundStationInput.cpp`: main, decoders, writer, failures and shutdown |
| `StationHealth` | `StationHealth.cpp` with the constructor's validation |
| `TcpServer` | `NetworkServer.cpp`, `NetworkServerTcp.cpp` with kernel and peers |
| `FrameLayout`, `FrameCodec`, `Crc32` | `TelemetryFrame.hpp`, `encodeFrame`, `decodeFrame`, `Crc32.cpp` |
| `StreamExtractor` | `StreamFrameExtractor` of `FrameCodec.cpp`, and a one-pass reference |
| `ApplicationPayload` | `ApplicationPayload.cpp`, `processApplicationPayload` |
| `FileStream`, `Replay`, `TelemetryOutput` | `std::ofstream` (external), `Replay.cpp`, `TelemetryOutput.cpp` |
| `Simulator` | the satellite simulator: options across fields, loop, frame factory, `sendAll`, capture |
| `Downlink` | composition: simulator, TCP connection or lossy UDP network, extractor, decoder |
| `CaptureReplay` | composition: simulator, capture file, crash or full device, replay, export |
| `SignalStop`, `UdpServer`, `TcpLoop`, `PortSelection`, `Progress` | the signal controller, `runUdp`, `runTcp` as the process sees it, the port search, `progressLoop` |
| `GroundStation` | composition: `main` and `run()` around those five, from start to exit status |
| `MC*` | the TLC instances |
| `BlockingQueueProofs`, `PipelineProofs`, `StationHealthProofs`, `TcpServerProofs`, `DownlinkProofs`, `GroundStationProofs`, `CaptureReplayProofs` | theorems about the module of that name; `DownlinkProofs` also about `StreamExtractor` |
| `SimulatorProofs` | lemmas about the codec and the frame factory that both compositions cite, and induction over the naturals, stated for sets |

**BlockingQueue.** `queue`, `closed` are the fields; `prod`, `cons`, `closer` say where
each thread is. Testing the predicate and falling asleep is one step, because
`std::condition_variable` releases the mutex atomically; each `notify_*` is a later
step of its own because the code unlocks first. `sent`, `refused`, `popped` are
history.

**Pipeline.** The queues are used through their abstract specification, which
`BlockingQueue` is proved to implement: push and pop are single steps that block.
Every statement of `failPipeline()` and `stopWorkers()` that another thread can
observe is a step. A frame is a sequence number and whether `decodeFrame()` accepts
it (`Verdicts` says which answers an instance has). `input` is chosen at the start among
`Inputs`: a replay reads `running_` before each frame and ends by itself; the network ends
only when `running_` is false, and may hand over the rest of a batch after that.
`Faults` selects what may throw: thread creation, the input, a decoder, the
export, its finalisation. The writer's turn on one frame (counter, health, STGA,
row, counter, erase, increment) is one step: no other thread reads the map, and the
counters it touches are only compared at its boundaries.

**StationHealth.** The configuration is chosen in `Init` among all those offered
and accepted by the constructor. Rates are rationals compared by cross
multiplication; the code's doubles are these rationals rounded and give the same
answer for windows below 2^25 samples. `dwell` is history.

**TcpServer.** A connection is a count of unread bytes and the state of its peer; the
extractor is the count of bytes it holds, since the modelled peers send well-formed
frames cut anywhere. `conn`, `peer`, `inbox`, `unsent` and what `poll()` reports are
external. `pfds` is emptied when the scan is over, as its entries are not read again.

**FrameLayout, FrameCodec, Crc32.** A field is one symbol whatever its width in bytes; the
magic keeps its shape because resynchronisation depends on how it overlaps itself. The
checks of `decodeFrame` are a sequence in the source's order and the first that fails gives
the error. The CRC has the source's table, feedback, initial value and final XOR at a
smaller width.

**StreamExtractor.** Each exit of one pass through the loop of `feed()` is an action
(`NoMagic`, `AwaitHeader`, `BadLength`, `AwaitFrame`, `EmitFrame`). `stream`, `consumed` and
`cuts` are history; `CutsOf` is the reference: one left-to-right pass over the whole stream.
`ExtractorSpec` is the component alone, fed with any bytes cut anywhere: the theorems are
about it, the runs meet it inside `Downlink`.

**Simulator.** Random draws are choices. `SendSome` is one `send()` that takes any part of
the rest; a frame may be dropped, damaged in one symbol, refused by the factory, sent and
stored. `ParsedOptions` has the checks of `parseArgs` that relate several options. The
bitwise exclusive or of `maybeCorrupt` is the parameter `SymbolXor`, given its bits by the
`MC` modules, so that the proofs need nothing of it.

**Downlink.** Over TCP the bytes cross a connection of bounded size and arrive in reads of
any length, with foreign symbols between frames; over UDP datagrams are lost, duplicated
and reordered. `layout` (history) says where each frame and each damage lies.

**CaptureReplay.** A stream has what the operating system holds and what is still in the
process, so that a kill loses the second and a full device shows at any later flush. The
station's threads are replaced by what `Pipeline` shows of them: frames reach the writer in
reading order, and a failed input may lose any tail.

**TcpLoop.** The test of both flags, the poll and the draining loops of `runTcp`, with the
clients reduced to one flag: something waits to be read or accepted. It may be set again
without end, and the draining loops read no flag, so a flood holds the process as it does
the server of `TcpServer`.

**GroundStation.** `mainPc` follows `main` and `run()`: port, logger, controller, pipeline,
workers, bind, serve, join, summary, `finish()`, exit; a throw unwinds through the
destructors that exist at that point. The creation of each worker thread may fail: before
the writer exists the process unwinds, asking the progress thread to stop; from then on the
destructors wait for workers that nobody wakes (`Stranded`, finding 2), with both signals
blocked. Decoders and writer are one thread that moves the counters and never blocks
`submit()` (their inside, with the bounded queues, is `Pipeline`); the UDP loop is there step
by step. A signal sent while the same one is pending merges with it and is not a step.

Operators described as mutants in the modules are deliberately wrong versions of the
definition that follows them; `PROJECT.json` lists which property each one breaks.
They are used by nothing.

## 3. Runs

| run | instance | shows |
|---|---|---|
| `queue` | 2 producers x 2 pushes, 2 consumers, 2 closers, capacity 2, fair | no lost wakeup on either side or by close; blocked push returns, close ends consumers, accepted is delivered; refinement of `ClosableFifo`, which has the bound, the order and when nullopt may be returned |
| `pipeline_safety` | network input, 3 frames valid or not, 2 decoders, capacity 1, all faults | nothing lost unless failed, complete on return, root cause, refinement of `OrderedExport` (reception order, success only if complete) |
| `pipeline_live` | replay or network, 4 valid frames, 2 decoders, capacity 1, faults of decoders and export, fair | a stop, which is all that ends a healthy network run, and every such failure end the run, also with both decoders blocked on the full decoded queue or main on the full raw queue; a captured exception is rethrown; a replay ends |
| `pipeline_truncated` | violation | finding 1 |
| `pipeline_spawn` | violation | finding 2 |
| `health_window` | all configurations with windows up to 4 and rates in quarters | type, settled state, true reason, width of the hysteresis |
| `health_oscillation` | violation | finding 3 |
| `tcp` | 2 clients x 3 bytes, frames and reads of 2 bytes, receive buffer of 3, all faults, fair | snapshot alignment, socket ownership, only hung-up clients erased and all of them drained; a visible stop ends the server, traffic is served |
| `tcp_flood` | violation | finding 4 |
| `downlink` | 3 frames, payloads of 0 to 2 symbols, one damaged symbol or two foreign ones, 1 duplicate | bounded buffer, cuts independent of the reads, no candidate discarded, only sent frames accepted, loss is local, every `feed()` returns |
| `capture` | runs of 1 to 3 frames in all three payload modes, device full at 2, 22 or 59 symbols, export at 0 or 5 | options and factory agree, export is a prefix of what was sent, cuts and damage noticed, clean runs complete, payloads read exactly, finished documents whole |
| `station` | 2 ports, a signal sent up to twice, 2 datagrams of legal or excessive size or a TCP client that sends one frame and other bytes without end; failing ports, logger, mask, threads, export, sockets, `poll` and `sigtimedwait`; fair | a signal never cuts an export short; exit status 0 is clean; datagrams whole and in order; progress lines advance; signals and failures end the process unless it is `Stranded` (finding 2) or the TCP client never pauses (finding 4) |

**Bounds.** Two threads of a kind are enough for a notification to reach the wrong one;
capacity 2 is the least at which order inside the queue matters, capacity 1 makes the
queues full and empty as often as possible. Three frames and two decoders let a later
frame overtake an earlier one; with the fourth of `pipeline_live` both decoders are blocked
on the full decoded queue when the writer has failed with the first frame, or main on the
full raw queue when both decoders have failed. All three blocked at once would take six
frames, which is out of the temporal check's reach; the proofs of the close order
(`ControlInv`) hold for any number. An input that throws and a failing `finish()` are outcomes of
`pipeline_safety`; they are left out of `pipeline_live`, and its frames are all valid, to
keep its temporal check within five minutes. Nothing there depends on the verdict: a
rejected frame takes the same way through both queues. One frame over TCP is enough in
`station`, whose counters have their two frames over UDP; what floods is its other bytes,
which are not counted and not bounded.
Reads and frames of two bytes over three sent split a frame over reads and leave an
incomplete one at a hang-up; several frames in one read are `downlink`'s, whose reads hold
a whole frame and the beginning of the next. The magic of the instances overlaps itself as
"STGS" does and payloads begin like it. In `downlink` the checksum has no collisions, so
that what is checked is the extractor and the order of checks; in `capture` it is the real
algorithm at 8 bits, which finds every change of one symbol; a file is damaged after
writing only when nothing in it was damaged before, as two changes may cancel out at that
width. The capacities of the devices in `capture` fall inside the header, inside the first
entries and beyond the longest file. A second signal of the same kind is what meets the
waiter already gone; two kinds differ in nothing the code looks at. A window
of four holds every order of growth, full window and slide relative to the thresholds.

**Deadlock** is checked except in `pipeline_safety` and `pipeline_spawn`, where a thread
that cannot be created really leaves the program hanging (finding 2). In `station` the same
hang is no deadlock for TLC, because the progress thread and the waiter go on.

**Fairness.** Weak fairness of each thread's own steps: the operating system schedules
runnable threads, a mutex that keeps being released is obtained, `poll()`, `sigtimedwait()`
and `wait_for()` return after their timeout. `accept()` has strong fairness in `tcp`: it may
fail any number of times, but not at every attempt for ever while connections wait. Nobody
owes a push, a close, a frame, a signal, a spurious wakeup, a connection or a failure. That
TCP clients pause now and then is not assumed of the program: it is the hypothesis
`ClientsPause` of the two liveness properties of `station`, and without it TLC refutes them.

## 4. Findings

1. `FinishedFileIsComplete`: when the input throws, both queues are closed at once and
   decoders drop what they hold. If the tail of the sequence is lost the writer sees no
   gap and finalises the file (`GroundStationWorkers.cpp` 144-150), against its comment
   at 85-86. `run()` does report the error.
2. `SpawnFailureIsRelayed`: `startWorkers()` is outside the `try` of `run()`; if a decoder
   thread cannot be created, the destructors join workers that wait on open queues. SIGINT
   and SIGTERM are blocked by then, so the process is left to SIGKILL (`Stranded`).
3. `NoImmediateReversal`: equal degradation and recovery rates are accepted
   (`StationHealth.cpp` 49) and make the state flip on every record at that rate.
4. `StopEndsServer` under endless traffic: the `recv` loop (`NetworkServerTcp.cpp` 171-201)
   reads no stop flag. A signal then does not end the process either, until the client pauses.

One observation without a run: `NetworkServer::run()` clears `stopRequested_` first
(`NetworkServer.cpp` 88), so a `stop()` made before `run()` would be forgotten. No caller in
the repository does that.

## 5. Proofs

All theorems hold for every set of threads, every capacity, every layout of frames, every
number of frames and every subset of faults that the assumptions allow. The assumptions are
the named ones of the modules, which TLC evaluates on the runs: `QueueAssumption`,
`PipelineAssumption`, `HealthAssumption`, `TcpAssumption`, `UdpAssumption`; a magic that is
not empty and a payload limit (`MagicAssumption`, `MaxPayloadAssumption`); and types of the
parameters (`CodecAssumption`, `ReplayAssumption`, `ApplicationAssumption`,
`SimulatorAssumption`, `CommandLineAssumption`, `OutRoomsAssumption`, and in `Downlink`
`SymbolAssumption`: a symbol is an unsigned number). Some theorems have hypotheses of their
own about the checksum, which is a parameter:

- `CrcDetects`: the checksum of a body with one symbol changed differs from the body's. CRC-32
  satisfies it, because the simulator changes one byte of the frame, a burst of at most eight
  bits, and a CRC detects every burst no longer than itself. Nothing is assumed of two changes
  or of bytes put together from several frames;
- `NaturalSymbols` and `IntegerSymbols`: checksums and damaged symbols are symbols again, as
  the bytes of the code are.

Type correctness, the queue's bound, `NulloptMeansDrained`, `EffectsInReceptionOrder`,
`ShutdownOrder` and `CountersLagByAtMostOne` are proved for every instance, so no run
repeats them.

*BlockingQueueProofs.* `CapacityRespected`, `NulloptMeansDrained` and
`CloseStrandsNobody` are inductive relative to the type invariant. The two wakeup
invariants are too, by counting: a sleeping consumer implies that stored elements do not
outnumber the awake consumers plus the notifications due, and every action adds to or
takes from both sides (lemmas on cardinalities of sets that gain or lose one thread).
They need the close invariant for the steps of a closed queue, and together they are
`NoLostWakeup`. `ImplementsFifoTheorem`
maps every action to a step or a stutter of `ClosableFifo`.

*PipelineProofs.* The inductive invariant is a conjunction of four parts:

- `TypeInv`: types, and a thread holds an item exactly where its program counter says;
- `ControlInv`: a captured failure precedes every close by `failPipeline()`, a thread past
  its capture leaves a known cause, the order of the two closes, what the joins
  guarantee about the joined threads, and under which conditions decoders and writer exit;
- `DataInv`: the accepted items are numbered consecutively from 0; every item anywhere is
  the accepted item of its number; effects are the prefix of length `expected`, except for
  the row whose write threw; the counters count the effects; nothing is lost unless failed;
- `OnceInv`: an item is in one place only and its number is not below `expected`, and with
  no failure captured the exiting writer has nothing pending. This is what excludes
  "duplicate" and "gap" as root causes.

`EffectsInReceptionOrder`, `NothingLostUnlessFailed`, `ShutdownOrder`, `CompleteOnReturn`,
`CountersLagByAtMostOne`, `RootCauseReported` and the refinement of `OrderedExport` follow.

*StationHealthProofs.* `Settled` follows from the new window alone: the two rules exclude
each other when the rates differ (`BandIsOpen`, the only nonlinear step). `ReasonIsTrue`
follows from the order of the tests in the two pieces of code. `HysteresisWidth` needs
history: `BandInv` says that as long as a change is less than a window away, the rejected and
critical counts are at most `dwell` records away from the rule that made it. One record adds
one sample and, in a full window, takes one out, so each count moves by at most one; the
rate moves by at most 1/minSamples because the window has at least so many samples.

*TcpServerProofs.* `WalkInv` (types, and where the walk stands) carries `SnapshotAligned`: the
walk goes backwards, so an erase only moves entries already seen. `SocketInv` (the vector and
the kernel agree on the open connections) gives `OneOwnerPerSocket`. `HungUpClientIsDrained`
needs where each byte is: `Account` (sent = delivered + in hand + in the extractor + in the
kernel) and `EventsInv` (a hang-up that `poll()` reported is still true when it is acted on).

*DownlinkProofs*, the extractor alone (`ExtractorSpec`). A position is `Settled` when the bytes
already there rule a frame out. The invariant `Passed(stream, cuts, consumed)` says that every
position left behind is in a cut or settled, that cuts are candidates in order without
overlap; `AtRest` says that between two calls the rest is too short for a magic or a frame
begun. They are kept by every pass, by every chunk appended (a settled position stays settled
when the stream grows) and by `clear`. `BufferBounded` and `NoFrameDiscarded` follow;
`ChunkingIrrelevant` needs that any such list of cuts equals the recursive reference, by
induction along the stream. `FeedEndsTheorem` is the part of "feed() returns" that is not
`ENABLED`: every pass that goes on shortens the buffer.

*DownlinkProofs*, the composition. `DownlinkRefinesExtractor` shows that every step of the
downlink is a step or a stutter of `ExtractorSpec`, so the extractor's theorems hold there
(`DownlinkExtraction`). What the stream holds is the tiling invariant `TileInv`: the places of
`layout` follow one another without a gap and cover what was received, what is under way and
the part of the current frame not yet sent; each place is a frame's bytes, right but at its
bad positions, or one foreign symbol. `HandInv` ties the cuts to the frames handed to the
decoder and to the results. From these:

- in a stream without bad places every cut is exactly a place: induction along the cuts, each
  of which begins where the one before ended. So only sent frames are accepted, whatever the
  payloads hold, payloads that contain a whole frame included (`AcceptedTheorem`);
- a magic that no bad place touches begins a place, if frames hold no other magic
  (`NoStrayMagic`, which looks at the end of a frame followed by the next magic as well). A
  cut that begins there is the whole frame unless damage lies in it (`ForgeryTheorem`);
- a cut is at most one maximal frame long, so none that began in damage reaches a frame one
  maximal frame later; its first position is then neither in an earlier cut nor settled, so
  once the extractor is at rest it has been cut and handed over (`LossTheorem`). This needs
  neither `CrcDetects` nor a bound on the number of damaged or foreign symbols.

`NoStrayMagic` is a condition on the data, not on the code: a payload may contain a frame, and
damage to the length of the outer one can bring it to light. `AcceptedTheorem` over TCP is for
a connection without damage, for then the extractor may assemble bytes no encoder made, and
that their CRC is wrong is very likely but not certain.

*GroundStationProofs.* `MaskInv`: while the export is open both signals are blocked and the
controller lives; it gives `KilledOnlyOutsideExport`. `CountInv` (the counter lags behind the
raw queue by at most the frame in hand, and a datagram is missing there only after a failure)
and `CleanInv` (what main knows at each point of the
way to `return 0`) give `ExitZeroIsClean`; `LinesInv` gives `LinesAdvance`.
`DatagramsWholeInOrder` is inductive by itself with the types; the filter it compares with is
recursive and is shown to distribute over concatenation by induction.

*CaptureReplayProofs.* The invariants follow a frame from the factory to the document:

- `SimInv`: every frame handed to the radio is encodable and either its encoding or that with
  one symbol changed; `parseArgs` and the factory agree (`OnlyOverflowRefuses`);
- `CaptureInv`: while the simulator runs, disk and buffer together are exactly the file of the
  frames stored; afterwards the disk is a prefix of the file of all frames sent;
- `ReadInv`: the reader stands between two entries, and if it stops of its own accord the file
  ends there (`CutIsNoticed`: a file cut inside an entry makes `readNext` throw);
- `TakenInv`: what is exported are the undamaged ones among the first n results, and the queue
  holds the results that follow (`ExportIsPrefix`, `CleanRunIsComplete`);
- `OutInv`: disk and buffer of the export are the document so far, unless the stream is bad
  (`FinishedIsWellFormed`);
- `FactoryInv`: every frame sent was made from the options of the run
  (`PayloadReadExactly`, with the lemmas that decoding a payload and encoding the result give
  the payload back, and that an encoded text is decoded as itself).

- `RotInv`: after one symbol of the stored file changed, the file is still that of the run at
  every other position, and every result waiting and every row exported is honest, a frame
  that was sent. While the lengths of the entries are as written the reader stays between two
  entries; it meets the damaged frame whole and `CrcDetects` refuses it. If a length was hit
  the frames themselves are intact; the reader may stand anywhere, but what it takes is
  accepted only if it begins with the magic and is as long as its header says, hence is a
  stored frame when the magic stands nowhere else (`DamageIsNoticed`). `CleanInv` is there
  because two changes of one symbol could cancel out: only a file without earlier damage is
  damaged, as in the model.

They rest on the codec's round trip (`RoundTrip`), on lemmas about buffered streams and about
the concatenation of entries. `ExportTheorem` and `CompleteTheorem` assume `CrcDetects`,
`DamageTheorem` and `PayloadTheorem` also `IntegerSymbols`. The last two speak of the states in
which the file is as it was written, or its damage is `Tame`: the lengths of the entries are
intact, or no magic stands but where a frame begins. Both occur in the `capture` instance.

The library's induction theorems take an operator as parameter and cannot be used with the
installed provers; `SetInduction` of `SimulatorProofs` states induction for a set, proved from
the least element of a set of naturals, and the proofs about recursive functions apply it to
the set of the lengths for which the claim holds.

*Only model-checked:*

- all liveness: fairness is outside the prover; `FeedReturns` is stated with `ENABLED`;
- `AcceptedAreSent` on a damaged TCP connection, beyond what `ForgeryTheorem` says of it, and
  `LossIsLocal` with a magic inside a frame, for the reasons above;
- `DamageIsNoticed` and `PayloadReadExactly` when a length of the stored file changed and a
  payload holds a magic: the entries that follow are then read from a wrong place;
- `Crc32`, whose algorithm uses bitwise operators the prover does not have.

## 6. Plan

Done: every part of the ground station and of the simulator that keeps state or decides
something: `BlockingQueue`, `Pipeline` and their abstract specifications with proofs,
`StationHealth`, `TcpServer`, and the codec, extractor, files,
simulator, signal controller, UDP server, ports and progress thread with the three
compositions `Downlink`, `CaptureReplay` and `GroundStation`.

Proved: the type and safety invariants of every component and the two refinements of abstract
specifications, see section 5. Every safety property a run checks is stated by a theorem,
`FeedReturns` excepted.

Left: the liveness properties, for a prover with fairness and `ENABLED`.

## 7. Not modelled

- Signal processing: floating-point filters and metrics. Its one effect on control, the
  exception on samples that overflow, is an outcome of the writer in `CaptureReplay`.
- Logger and terminal UI: text. The station's option parsing: strings; its bounds are
  assumptions of the modules. `ByteUtils`: a field is one symbol.
- Remote port probing (`probeTcpPort`, `scanTcpPorts`, the simulator's `discoverPort`, the
  `port_check` tool): it reports on other machines and keeps no state.
- `connect()` and the pacing of frames in the simulator.
- Time: timeouts are steps that may happen. The memory model: the atomics are sequentially
  consistent in the code, so interleaving is exact.
- `docs/doxygen/html`: the JavaScript and HTML there are produced by Doxygen from the C++
  sources (search box, menus, index tables). They are generated third-party code and no
  part of the ground station, although they are the only JavaScript of the repository.
