SPECIFICATION Spec
CONSTANTS
    u1 = u1
    u2 = u2
    b1 = b1
    b2 = b2
    Users = {u1, u2}
    Browsers = {b1, b2}
    UserOf <- LoggedIn
    MaxNotifications = 3
    None = None
INVARIANTS
    TypeOK
    ReadWasShown
    BadgeOnlyNew
PROPERTIES
    ReadGetsShown
