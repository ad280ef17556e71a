CONSTANTS
    Users = {u1}
    Confirmed = {u1}
    Passwords = {p1}
    Requests = {r1, r2, r3}
    DeviceIds = {d1, d2}
    Lifetime = 1
    MaxTime = 1
    None = None
SPECIFICATION Spec
INVARIANT RefusedRefreshIs401
CHECK_DEADLOCK FALSE
