CONSTANTS
    Emails = {e1}
    Names = {n1, n2}
    Passwords = {p1}
    Codes = {k1, k2}
    Requests = {r1, r2}
    None = None
SPECIFICATION Spec
INVARIANT SecondRegistrationIs400
CHECK_DEADLOCK FALSE
