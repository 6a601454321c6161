SPECIFICATION MCSpec
CONSTANTS
    n1 = n1
    n2 = n2
    n3 = n3
    t1 = t1
    t2 = t2
    a1 = a1
    k1 = k1
    k2 = k2
    None = None
    Book = {k1, k2}
    Index = {0, 1, 3}
    Generation = {0, 1}
    Decodes <- MCDecodes
    MaxBytes = 6
    MinBytes = 2
    Paths = {t1, t2}
    Bodies = {b1, b2}
    NoFp = nofp
    Marks = {m1}
    MaxId = 2
    Known = 1
    MaxEvents = 3
    MaxTries = 2
    Archives = {t1, t2}
    PathKeys = {n1, n2, n3}
    Nowhere = nowhere
    Slots = {"spread", "tags"}
    Values = {a1}
    HistoryMax = 1
    MaxMoves = 2
    MaxWrites = 2
    Keep = 2
    KeepBefore = 1
    MaxEdits = 2
    MaxClock = 1
    MaxMade = 2
    MaxStarts = 3
SYMMETRY NamesAreAlike
INVARIANTS
    TypesOK
    BudgetKept
    BypassesAgree
    IndexesAgree
    SettingFollows
    NothingLost
    NamesInOrder
PROPERTY
    UserDataStays
CHECK_DEADLOCK FALSE
