SPECIFICATION FairSpec
CONSTANTS
    NEntries = 4
    DstES = 3
    StatusES = 2
    Bufs = {b1, b2, b3, b4, b5}
    NoBuf = NoBuf
    AllocAny = FALSE
    MaxFails = 1
    DevLens = {"fit"}
    PromptTp = TRUE
    MsiPerEvent = FALSE
    OneCpu = TRUE
PROPERTIES
    FramesReceived
    Replenished
