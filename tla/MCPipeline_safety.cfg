CONSTANTS
    Decoders = {d1, d2}
    Main = main
    Writer = writer
    Capacity = 1
    Inputs = {"network"}
    Verdicts = {TRUE, FALSE}
    MaxFrames = 3
    Faults = {"spawn", "input", "decode", "write", "finish"}
SPECIFICATION Spec
CHECK_DEADLOCK FALSE
SYMMETRY AnyDecoder
INVARIANTS
    NothingLostUnlessFailed
    CompleteOnReturn
    RootCauseReported
PROPERTIES
    ImplementsOrderedExport
