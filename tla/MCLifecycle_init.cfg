SPECIFICATION Spec
CHECK_DEADLOCK FALSE
CONSTANT
    Failing = {}
INVARIANT ProbeUndisturbed
