SPECIFICATION Spec
CONSTANTS
    Attempts = {a1, a2, a3}
    Ips = {i1, i2}
    IpLimit = 2
    NameLimit = 1
    Slots = 1
    Window = 3
    LastTick = 4
    LastHash = 1
    LastPeriod = 1
    Faults = {"db"}
SYMMETRY Symmetry
INVARIANTS
    TwiceTheLimit
    RefusedAfterLimit
    SlotsReturned
    UsableWasVerified
CHECK_DEADLOCK FALSE
