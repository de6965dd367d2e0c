SPECIFICATION FairSpec
CHECK_DEADLOCK FALSE
CONSTANT
    Failing = {"assign", "enable", "regions", "mask", "iomap", "vectors", "msi",
               "msi_desc", "request", "hal", "config", "rings", "post", "workqueue",
               "hw", "channels", "register"}
INVARIANTS
    IInv
    RemoveFreesOnce
    EarlyFailureUnwound
    RemoveReleases
PROPERTIES
    HandlerFindsPriv
    HandlerFindsTasklet
    TaskletFindsRings
    WorkerFindsHw
    QuietRemoveReturns
