SPECIFICATION Spec
CHECK_DEADLOCK FALSE
CONSTANTS
    Blocks = {b1, b2, b3, b4}
    NoBlock = NoBlock
    NEntries = 4
    Lives = 2
SYMMETRY BlockSymmetry
INVARIANTS
    TypeOK
    EnabledIsCoherent
    ReadyIsCoherent
    MemoryAccounted
    HalReleased
