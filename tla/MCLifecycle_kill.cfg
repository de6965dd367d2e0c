SPECIFICATION FairSpec
CHECK_DEADLOCK FALSE
CONSTANT
    Failing = {}
PROPERTY RemoveReturns
