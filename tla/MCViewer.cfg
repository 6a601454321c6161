SPECIFICATION MCSpec
CONSTANTS
    b1 = b1
    None = None
    Book = {b1}
    Index = {0, 1}
    Decodes <- MCDecodes
    MaxBytes = 6
    MinBytes = 2
    Undecodable <- MCUndecodable
    SolidBook = {b1}
    Behind = 1
    Ahead = 1
    Slots = 1
    Orders <- MCOrders
    Inputs = {"turn", "sort", "open", "close", "folder", "resize", "exif", "filter", "unseen"}
    MaxGen = 1
    Generation = {0, 1}
    MaxResults = 2
    Paths <- MCPaths
    Solid = {1, 2}
    MaxSize = 3
    MaxFileBytes = 2
    MaxOpens = 3
    MaxEdits = 1
    Profiles = {q1, q2}
    Sources = {s1}
    NoSource = none
    NoProfile = noprofile
    Ids = {i1, i2}
    MaxMtime = 2
    MaxChanges = 2
    MayFail = TRUE
    Totals = {1, 2, 5}
    MaxKeys = 1
SYMMETRY ThumbsAreAlike
INVARIANTS
    TypesOK
    PendingMeansUnderway
    ExifHonoured
    TwoGenerations
    HeldIsCharged
    WaitingIsUnderway
    PageShown
    JumpsReach
    ProcessingIsOwned
    CurrentIsTrue
    StampNotAhead
    PendingIsAnswered
PROPERTY
    ViewedGoesLast
CHECK_DEADLOCK FALSE
