CONSTANTS
    Decoders = {d1, d2}
    Main = main
    Writer = writer
    Capacity = 1
    Inputs = {"replay"}
    Verdicts = {TRUE}
    MaxFrames = 2
    Faults = {"input"}
SPECIFICATION Spec
INVARIANT FinishedFileIsComplete
