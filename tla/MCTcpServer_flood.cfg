CONSTANTS
    Clients = {c1}
    FrameSize = 2
    ReadSize = 2
    RcvBuf = 2
    MaxSend = 1
    Endless = TRUE
    Faults = {}
SPECIFICATION FairSpec
PROPERTY StopEndsServer
