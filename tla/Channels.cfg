SPECIFICATION Spec
CONSTANTS
    p1 = p1
    p2 = p2
    Procs = {p1, p2}
    MaxChannels = 2
    MaxFaults = 2
    NoOne = nobody
SYMMETRY Interchangeable
INVARIANTS
    TypeOK
    WorksOnOwnChannel
    NoLeak
    ClosesOnlyOwn
    TeardownSafe
CHECK_DEADLOCK FALSE
