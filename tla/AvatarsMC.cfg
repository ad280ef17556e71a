CONSTANTS
    Files = {f1, f2}
    Foreign = {}
    Malformed = {}
    Calls = {c1, c2, c3, c4}
    Users = {u1, u2}
    Requests = {r1, r2, r3, r4}
    None = None
SPECIFICATION Spec
SYMMETRY Symmetry
INVARIANTS
    TypeOK
    DanglingAvatarsAreExplained
    OwnersRemoveAvatars
    DeletedAvatarsAreGone
CHECK_DEADLOCK FALSE
