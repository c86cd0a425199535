SPECIFICATION Spec
CONSTANTS
  Signals = {"SIGINT"}
  MaxSignals = 2
  DatagramSizes = {2, 3}
  MaxDatagramSize = 2
  SocketQueue = 2
  MaxDatagrams = 2
  MaxTcpFrames = 1
  PortRange <- MCPortRange
  MaxTaken = 1
INVARIANTS
  KilledOnlyOutsideExport
  ExitZeroIsClean
  DatagramsWholeInOrder
PROPERTIES
  LinesAdvance
  SignalEndsProcess
  FailureEndsProcess
