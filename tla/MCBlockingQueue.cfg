CONSTANTS
    Producers = {p1, p2}
    Consumers = {c1, c2}
    Closers = {k1, k2}
    Capacity = 2
    MaxPush = 2
SPECIFICATION FairSpec
INVARIANTS
    NoLostWakeup
PROPERTIES
    BlockedPushReturns
    CloseEndsConsumers
    AcceptedIsDelivered
    ImplementsFifo
