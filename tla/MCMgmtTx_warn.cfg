SPECIFICATION Spec
CHECK_DEADLOCK FALSE
CONSTANTS
    Frames = {f1, f2}
    NoFrame = NoFrame
    Callers = {c1, c2}
    PendingMax = 2
    Threshold = 1
INVARIANT DropIsCounted
SYMMETRY TxSymmetry
