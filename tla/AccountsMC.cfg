CONSTANTS
    Emails = {e1, e2}
    Names = {n1, n2}
    Passwords = {p1}
    Codes = {k1, k2}
    Requests = {r1, r2, r3, r4}
    None = None
SPECIFICATION Spec
SYMMETRY RequestSymmetry
INVARIANTS
    TypeOK
    ConfirmedByOwner
    HalfAccountsAreExplained
    CurrentCodesAreMailed
    OnlyRacesAnswer500
PROPERTY ImplementsLifecycle
CHECK_DEADLOCK FALSE
