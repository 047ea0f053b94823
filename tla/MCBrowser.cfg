CONSTANTS
    t1 = t1
    t2 = t2
    c1 = c1
    c2 = c2
    s1 = s1
    s2 = s2
    s3 = s3
    None = None
    Tab = {t1, t2}
    Call = {c1, c2}
    Session = {s1, s2, s3}
    Operation = {"load", "refresh", "signin", "logout", "change", "edit", "others", "delete", "verify", "reset"}
    MaxVersion = 2
    MaxFaults = 1
SPECIFICATION Spec
SYMMETRY Symmetry
INVARIANTS
    TypeOK
    ShownWorks
    NothingForgotten
CHECK_DEADLOCK FALSE
