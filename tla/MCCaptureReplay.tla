--------------------------- MODULE MCCaptureReplay ---------------------------
(* CaptureReplay on a small instance: 4-bit symbols with an 8-bit CRC,      *)
(* payloads of at most ten symbols, and runs of each payload mode, among    *)
(* them command lines that parseArgs refuses.  The random payloads of four  *)
(* symbols and more begin with the application magic and break one rule of  *)
(* the application format each.                                             *)
EXTENDS CaptureReplay, Crc32

MCMagic == <<5, 6, 5>>
MCAppMagic == <<5, 4>>
MCFileHeader == <<5, 7, 1>>
MCXor(a, b) == a ^^ b
MCSignalFormat == [sampleRateHz |-> 6, frequencyHz |-> 2, nominalAmplitude |-> 3]
MCPayloads ==
  { <<>>, <<5, 4>>, <<5, 4, 2, 1>>, <<5, 4, 1, 3>>, <<5, 4, 1, 1>>, <<5, 4, 1, 2>>,
    <<5, 4, 1, 2, 6, 2, 3, 0, 1>>, <<5, 4, 1, 2, 6, 3, 3, 0, 0>>,
    <<5, 4, 1, 2, 6, 2, 3, 0, 0>> }

MCRun(mode, count, size, samples, message) ==
  [transport |-> "none", captures |-> TRUE, mode |-> mode, count |-> count,
   payloadSize |-> size, signalSamples |-> samples, message |-> message]

MCCommandLines ==
  {MCRun("random", 2, 0, 0, <<>>)}
    \cup {MCRun("random", 1, n, 0, <<>>) : n \in {2, 4, 9}}
    \cup {MCRun("text", 3, 0, 0, m) : m \in {<<7>>, <<7, 7, 7, 7, 7, 7>>}}
    \cup {MCRun("signal", c, 0, n, <<>>) : c \in {2, 3}, n \in {1, 2}}

=============================================================================
