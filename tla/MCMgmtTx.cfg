SPECIFICATION FairSpec
CHECK_DEADLOCK FALSE
CONSTANTS
    Frames = {f1, f2, f3}
    NoFrame = NoFrame
    Callers = {c1, c2}
    PendingMax = 1
    Threshold = 1
INVARIANTS
    IInv
    QueueBounded
    FrameInOnePlace
    IdsAreMapped
    PendingExact
PROPERTY
    QueueDrained
