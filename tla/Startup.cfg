SPECIFICATION Spec
CONSTANTS
    w1 = w1
    w2 = w2
    Windows = {w1, w2}
INVARIANTS
    TypeOK
    IncompleteExplained
PROPERTIES
    ImportCompletes
    StartsFinish
