SPECIFICATION FairSpec
CHECK_DEADLOCK FALSE
CONSTANTS
    NEntries = 4
    ES = 5
    Count = 9
INVARIANTS
    IInv
    FetchedInOrder
    NeverOlderData
PROPERTIES
    Returns
