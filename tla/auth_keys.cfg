SPECIFICATION FairSpec
CONSTANTS
    Callers = {c1, c2}
    Starter = c1
    Kids = {k1, k2}
    MaxTimers = 2
    MaxFaults = 1
    MaxRotations = 1
INVARIANTS
    TypeOK
    ResetComes
    FirstFetchAwaited
PROPERTIES
    ImplementsUpdates
    CheckEnds
    KeysArrive
CHECK_DEADLOCK FALSE
