CONSTANTS
    Files = {f1, f2}
    Foreign = {x}
    Malformed = {x}
    Calls = {c1, c2, c3, c4}
SPECIFICATION Spec
SYMMETRY CallSymmetry
INVARIANTS
    TypeOK
    DocumentHasObject
    OrphansAreExplained
    UploadedStays
    DeletedIsGone
CHECK_DEADLOCK FALSE
