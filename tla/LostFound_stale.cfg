SPECIFICATION Spec
CONSTANTS
    u1 = u1
    u2 = u2
    l1 = l1
    l2 = l2
    f1 = f1
    f2 = f2
    r1 = r1
    NoPair = NoPair
    Users = {u1, u2}
    LostItems = {l1}
    FoundItems = {f1}
    Resends = {}
    UserId <- TwoSidedUserId
    NameLength <- FittingLengths
    Score <- MCScore
    MATCH_THRESHOLD = 55
    MayDie = FALSE
    AdminActive = FALSE
PROPERTIES
    CandidatesUnresolved
CHECK_DEADLOCK FALSE
