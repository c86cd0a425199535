CONSTANTS
    Clients = {c1, c2}
    FrameSize = 2
    ReadSize = 2
    RcvBuf = 3
    MaxSend = 3
    Endless = FALSE
    Faults = {"bind", "poll", "callback", "accept", "reset"}
SPECIFICATION FairSpec
INVARIANTS
    SnapshotAligned
    OneOwnerPerSocket
    HungUpClientIsDrained
PROPERTIES
    StopEndsServer
    TrafficIsServed
