CONSTANTS
    Ids = {i1, i2}
    Emails = {e1, e2}
    Names = {n1}
    Prefixed = {clientele}
    DisplayNames = {n1, e1}
    GoogleIds = {g1, g2}
    MaxClients = 2
    Requests = {r1, r2, r3}
    None = None
SPECIFICATION Spec
SYMMETRY Symmetry
INVARIANTS
    TypeOK
    LoginsAreLinked
    SplitOnlyByName
    ClientNamesAreDense
PROPERTY LinksAreFinal
CHECK_DEADLOCK FALSE
