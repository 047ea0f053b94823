CONSTANTS
    m1 = m1
    m2 = m2
    s1 = s1
    s2 = s2
    w1 = w1
    w2 = w2
    None = None
    Message = {m1, m2}
    Slot = {s1, s2}
    Dispatcher = {w1, w2}
    MaxAttempts = 2
    MaxFaults = 1
SPECIFICATION FairSpec
INVARIANTS
    TypeOK
    OneDispatcher
    DuplicatesNeedFaults
    AttemptsNeedFaults
    SettledTruly
PROPERTIES
    SettledStays
    EveryMessageSettles
CHECK_DEADLOCK FALSE
