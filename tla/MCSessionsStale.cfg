CONSTANTS
    r1 = r1
    r2 = r2
    r3 = r3
    r4 = r4
    p1 = p1
    p2 = p2
    None = None
    Request = {r1, r2, r3, r4}
    Password = {p1, p2}
    Operation = {"register", "login", "passkey", "refresh", "logout", "revoke", "revoke_others", "change", "reset", "delete"}
SPECIFICATION Spec
SYMMETRY Symmetry
INVARIANT RefreshStaysInVersion
CHECK_DEADLOCK FALSE
