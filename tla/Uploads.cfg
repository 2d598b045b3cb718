SPECIFICATION FormSpec
CONSTANTS
    r1 = r1
    r2 = r2
    Requests <- Forms
    Kind <- Kinds
    ClientName <- Chosen
    None = None
    Photos = {"bag", "key"}
    OtherFiles = {"notes"}
INVARIANTS
    TypeOK
    BrowserTypeOK
    PhotoIsOwn
    OrphanExplained
    PhotoWasShown
CHECK_DEADLOCK FALSE
