SPECIFICATION Spec
CONSTANTS
    w1 = w1
    w2 = w2
    p1 = p1
    p2 = p2
    None = None
    Worker = {w1, w2}
    Page = {p1, p2}
    Distance = {0, 1}
    MaxGen = 2
    MaxJobs = 3
SYMMETRY Symmetry
INVARIANTS
    OneLiveJobPerKey
    HeapMirrorsQueued
    OneSpeculativeDecoder
    NoLostWakeup
PROPERTIES
    TakesMostUrgent
    ImplementsTickets
