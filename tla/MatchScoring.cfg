SPECIFICATION FormSpec
CONSTANTS
    Blank = Blank
    Words <- MCWords
    Marks <- MCMarks
    Lower <- MCLower
    Stopwords = {"the"}
    Entity <- MCEntity
    FormPairs <- MCFormPairs
    LostReports <- MCLostReports
    FoundReports <- MCFoundReports
    MATCH_THRESHOLD = 55
INVARIANTS
    TypeOK
    NoPointsCut
    CategoryOrWords
    FoundWordsMonotone
    CaseBlind
    TwinsRecorded
    PieceFound
    EscapesStayMinor
CHECK_DEADLOCK FALSE
