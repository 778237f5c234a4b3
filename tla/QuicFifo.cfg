SPECIFICATION WinSpec
CONSTANTS
    Pubs = {p1}
    Subs = {s1, s2}
    ConnIds = {c1, c2}
    MaxSubs = 2
    MaxRetries = 1
    PubRetries = 1
    Events = 2
    MaxLoss = 1
    Early = 0
    MaxBoots = 1
    Quits = TRUE
    Fifo = TRUE
    NoEvent = NoEvent
CHECK_DEADLOCK FALSE
SYMMETRY Symmetry
INVARIANTS
    OneEntryPerConnection
    InOrder
PROPERTIES
    ImplementsPosix
