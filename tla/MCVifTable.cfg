SPECIFICATION Spec
CHECK_DEADLOCK FALSE
CONSTANTS
    Stations = {sta1, sta2}
    APs = {ap}
    Monitors = {mon}
    NoVif = NoVif
    MaxVif = 4
    MaxRefused = 5
INVARIANTS
    TypeOK
    SlotPerRefusal
PROPERTIES
    OpeningEnds
    FilterConfigured
