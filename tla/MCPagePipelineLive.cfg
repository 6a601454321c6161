SPECIFICATION MCFairSpec
CONSTANTS
    b1 = b1
    b2 = b2
    None = None
    Book = {b1}
    Index = {0, 1, 2, 3}
    Decodes <- Varied
    MaxBytes = 9
    MinBytes = 2
    Undecodable <- MCUndecodable
    SolidBook = {b1}
    Behind = 0
    Ahead = 2
    Slots = 1
    Orders <- TwoOrders
    Inputs = {"turn", "sort", "open", "close", "folder", "resize", "exif", "filter", "unseen"}
    MaxGen = 1
    Generation = {0, 1}
    MaxResults = 2
PROPERTIES
    VisiblePageShown
    PrefetchSettles
