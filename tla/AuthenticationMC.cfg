CONSTANTS
    e1 = e1
    n1 = n1
    p1 = p1
    k1 = k1
    k2 = k2
    registered = registered
    confirmed = confirmed
    recovered = recovered
    LiveRequests = {r1, r2, r3}
    Owner <- MCOwner
    Emails = {e1, e2}
    Names = {n1, n2}
    Passwords = {p1, p2}
    Codes = {k1, k2, k3}
    Requests = {registered, confirmed, recovered, r1, r2, r3}
    DeviceIds = {d1, d2}
    None = None
SPECIFICATION Spec
SYMMETRY Symmetry
INVARIANTS
    OldPasswordsAreExplained
    SessionsAreConfirmed
PROPERTIES
    OnlyOwnersEndSessions
    PasswordNeedsRecovery
CHECK_DEADLOCK FALSE
