SPECIFICATION FairSpec
CONSTANTS
    b1 = b1
    b2 = b2
    None = None
    Book = {b1}
    Index = {0}
    Decodes <- Mixed
    MaxBytes = 10
    MinBytes = 2
    Undecodable = {}
    SolidBook = {}
    Behind = 1
    Ahead = 1
    Slots = 1
    Orders <- ArchiveOrder
    Inputs = {"resize"}
    MaxGen = 1
    Generation = {0, 1}
    MaxResults = 3
PROPERTIES
    RedecodeHonoured
