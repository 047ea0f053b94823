CONSTANTS
    r1 = r1
    r2 = r2
    r3 = r3
    r4 = r4
    None = None
    Request = {r1, r2, r3, r4}
    Purpose = {"verify_email", "reset_password"}
SPECIFICATION FairSpec
INVARIANTS
    TypeOK
    OneLink
    UsedOnce
    DeadlockNeedsBoth
PROPERTIES
    ResetClosesLinks
    EveryRequestAnswered
CHECK_DEADLOCK FALSE
