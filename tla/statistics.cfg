SPECIFICATION Spec
CONSTANTS
    Recorders = {r1, r2, r3}
    NoRow = NoRow
    MaxTime = 3
    MaxFaults = 1
INVARIANTS
    TypeOK
    RecordedKept
