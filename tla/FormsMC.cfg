CONSTANTS
    Texts <- MCTexts
    Clients <- MCClients
    Births = {1}
    FirstYear = 13
    LastYear = 14
    Absent = Absent
    None = None
SPECIFICATION Spec
INVARIANTS
    FormsAgree
    LookupsFindTheOwner
    ProfilesAreOfAge
CHECK_DEADLOCK FALSE
