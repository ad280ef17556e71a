CONSTANTS
    Users = {u1}
    Confirmed = {u1}
    Passwords = {p1}
    Requests = {r1, r2, r3, r4}
    DeviceIds = {d1, d2, d3}
    Lifetime = 1
    MaxTime = 1
    None = None
SPECIFICATION Spec
SYMMETRY RequestSymmetry
INVARIANTS
    TypeOK
    ExchangedOnce
    LogoutIsFinal
    TokenMatchesRow
    NewPasswordEndsSessions
PROPERTIES
    NoResurrection
    ImplementsLifecycle
CHECK_DEADLOCK FALSE
