CONSTANTS
    Decoders = {d1, d2}
    Main = main
    Writer = writer
    Capacity = 1
    Inputs = {"replay", "network"}
    Verdicts = {TRUE}
    MaxFrames = 4
    Faults = {"decode", "write"}
SPECIFICATION FairSpec
PROPERTIES
    StopEndsRun
    FailureIsRethrown
    ReplayTerminates
