CONSTANTS
    Decoders = {d1, d2}
    Main = main
    Writer = writer
    Capacity = 1
    Inputs = {"replay"}
    Verdicts = {TRUE}
    MaxFrames = 1
    Faults = {"spawn"}
SPECIFICATION FairSpec
PROPERTY SpawnFailureIsRelayed
CHECK_DEADLOCK FALSE
