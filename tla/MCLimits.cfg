CONSTANTS
    r1 = r1
    r2 = r2
    r3 = r3
    p1 = p1
    p2 = p2
    None = None
    Request = {r1, r2, r3}
    Replica = {p1, p2}
    Limit = 2
    Window = 2
    MaxAttempts = 2
    LockTime = 2
    Stall = 1
    BatchSize = 1
    MaxBatches = 1
    MaxTime = 7
    MaxFaults = 1
SPECIFICATION FairSpec
SYMMETRY Symmetry
INVARIANTS
    TypeOK
    WindowLimit
    EveryFailureCounted
PROPERTIES
    LockHolds
    ExpiredGoes
CHECK_DEADLOCK FALSE
