CONSTANTS
    r1 = r1
    r2 = r2
    r3 = r3
    e1 = e1
    e2 = e2
    None = None
    Request = {r1, r2}
    Earlier = {e1, e2}
    Operation = {"start", "register", "login", "passkey", "backup", "regenerate", "remove", "disable"}
SPECIFICATION Spec
SYMMETRY Symmetry
INVARIANT RemovalTurnsOff
CHECK_DEADLOCK FALSE
