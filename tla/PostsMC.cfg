CONSTANTS
    Files = {f1}
    Foreign = {x}
    Malformed = {x}
    Uploaded = {f1}
    Calls = {c1, c2, c3}
    Users = {u1, u2}
    PostIds = {p1, p2}
    Requests = {r1, r2, r3}
    None = None
SPECIFICATION Spec
SYMMETRY RequestSymmetry
INVARIANTS
    TypeOK
    DeletedPostsLeaveNoDocuments
    OnlyAuthorsRemoveFiles
    AnswersAreTrue
PROPERTY DeletionIsFinal
CHECK_DEADLOCK FALSE
