CONSTANTS
    RateScale = 2
    MaxWindow = 4
    Configs <- EqualRates
SPECIFICATION Spec
PROPERTY NoImmediateReversal
