CONSTANTS
    Files = {f1}
    Foreign = {x}
    Malformed = {x}
    Calls = {c1, c2}
SPECIFICATION Spec
INVARIANT FailedDeleteFilesRollsBack
CHECK_DEADLOCK FALSE
