SPECIFICATION Spec
CONSTANTS
    Sessions = {s1, s2}
    Emails = {e1, e2}
    MaxUsers = 3
    None = None
    s1 = s1
    s2 = s2
    e1 = e1
    e2 = e2
INVARIANTS
    TypeOK
    OneAccountPerEmail
    SessionKeepsPerson
    NoMessageAfterLogout
SYMMETRY Interchangeable
CHECK_DEADLOCK FALSE
