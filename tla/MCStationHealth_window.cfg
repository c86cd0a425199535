CONSTANTS
    RateScale = 4
    MaxWindow = 4
    Configs <- AllConfigs
SPECIFICATION Spec
INVARIANTS
    TypeOK
    Settled
    ReasonIsTrue
PROPERTIES
    HysteresisWidth
