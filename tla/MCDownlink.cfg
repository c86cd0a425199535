SPECIFICATION Spec
CONSTANTS
  FrameMagic <- MCMagic
  MaxPayloadSize = 2
  ProtocolVersion = 1
  MaxBatteryPercent = 9
  SafeMode = 0
  NonFinite = {15}
  Crc <- PerfectCrc
  ApplicationPayloadMagic <- MCAppMagic
  NonFiniteFloat = {15}
  FileHeader <- MCFileHeader
  LengthBase = 16
  CommandLines <- MCCommandLines
  RandomPayloads <- MCPayloads
  Temperatures = {2}
  Timestamps = {0}
  SatelliteId = 4
  SampleValues = {0}
  SignalFormat <- MCSignalFormat
  CorruptionXorMask = 3
  SymbolXor <- MCXor
  U32Max = 1
  MaxCorrupted = 1
  MaxDropped = 1
  SocketRoom = 14
  FileRoom = {0}
  NoiseSymbols = {5, 6}
  MaxNoise = 2
  ReadSize = 14
  MaxDuplicates = 1
INVARIANTS
  BufferBounded
  ChunkingIrrelevant
  NoFrameDiscarded
  AcceptedAreSent
  LossIsLocal
  FeedReturns
