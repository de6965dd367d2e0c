SPECIFICATION FairSpec
CHECK_DEADLOCK FALSE
CONSTANTS
    NEntries = 4
    DstES = 3
    StatusES = 2
    Bufs = {b1, b2, b3, b4}
    NoBuf = NoBuf
    AllocAny = FALSE
    MaxFails = 0
    DevLens = {"fit"}
    PromptTp = FALSE
    MsiPerEvent = FALSE
    OneCpu = TRUE
PROPERTIES
    Replenished
