SPECIFICATION PagesSpec
CONSTANTS
    b1 = b1
    b2 = b2
    None = None
    Book = {b1}
    Index = {0}
    Decodes <- Even
    MaxBytes = 10
    MinBytes = 2
    Undecodable = {}
    SolidBook = {}
    Behind = 1
    Ahead = 1
    Slots = 1
    Orders <- ArchiveOrder
    Inputs = {"open", "close", "unseen"}
    MaxGen = 0
    Generation = {0}
    MaxResults = 3
INVARIANTS
    SettingShown
