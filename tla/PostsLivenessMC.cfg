CONSTANTS
    Files = {f1, f2}
    Foreign = {}
    Malformed = {}
    Uploaded = {f1}
    Calls = {c1, c2}
    Users = {u1}
    PostIds = {p1}
    Requests = {r1, r2, r3}
    None = None
SPECIFICATION FairSpec
PROPERTY EveryRequestEnds
CHECK_DEADLOCK FALSE
