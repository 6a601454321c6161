SPECIFICATION MCFairSpec
CONSTANTS
    w1 = w1
    w2 = w2
    p1 = p1
    None = None
    Worker = {w1, w2}
    Page = {p1}
    Distance = {1}
    MaxGen = 1
    MaxJobs = 3
    d1 = d1
    d2 = d2
    d3 = d3
    n1 = n1
    n2 = n2
    Dirs = {d1, d2, d3}
    Home = d1
    Nodes = {n1, n2}
    Parent <- MCParent
    NodeDir <- MCNodeDir
    MaxTokens = 2
    Nothing = Nothing
    Root = Root
    Books = {b1}
INVARIANTS
    TypesOK
    ListFitsView
    RealPlaceKept
PROPERTIES
    VisibleJobStarts
    ShutdownEndsWorkers
    FoldersAppear
