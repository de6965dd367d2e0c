SPECIFICATION Spec
CHECK_DEADLOCK FALSE
CONSTANTS
    NEntries = 4
    DstES = 3
    StatusES = 2
    Bufs = {b1, b2, b3, b4}
    NoBuf = NoBuf
    AllocAny = TRUE
    MaxFails = 1
    DevLens = {"fit", "over"}
    PromptTp = TRUE
    MsiPerEvent = FALSE
    OneCpu = FALSE
SYMMETRY BufSymmetry
INVARIANTS
    IInv
    TakenIsFilled
    NoSkbOverwritten
    NeverNoSpace
    BuffersCounted
PROPERTIES
    UnfetchedStable
