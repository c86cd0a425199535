SPECIFICATION Spec
CONSTANTS
  FrameMagic <- MCMagic
  MaxPayloadSize = 10
  ProtocolVersion = 1
  MaxBatteryPercent = 9
  SafeMode = 0
  NonFinite = {15}
  RegisterBits = 8
  SymbolBits = 4
  ReflectedPolynomial = 224
  Crc <- Crc32Of
  ApplicationPayloadMagic <- MCAppMagic
  NonFiniteFloat = {15}
  FileHeader <- MCFileHeader
  LengthBase = 16
  CommandLines <- MCCommandLines
  RandomPayloads <- MCPayloads
  Temperatures = {2}
  Timestamps = {0}
  SatelliteId = 4
  SampleValues = {1, 14, 15}
  SignalFormat <- MCSignalFormat
  CorruptionXorMask = 3
  SymbolXor <- MCXor
  U32Max = 1
  MaxCorrupted = 1
  MaxDropped = 1
  SocketRoom = 0
  FileRoom = {2, 22, 59}
  OutRooms = {0, 5}
  ExtremeSamples = {14}
  RotAllowed = TRUE
INVARIANTS
  OnlyOverflowRefuses
  ExportIsPrefix
  CutIsNoticed
  CleanRunIsComplete
  DamageIsNoticed
  PayloadReadExactly
  FinishedIsWellFormed
