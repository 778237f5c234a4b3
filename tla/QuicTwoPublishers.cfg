SPECIFICATION Spec
CONSTANTS
    Pubs = {p1, p2}
    Subs = {s1}
    ConnIds = {c1, c2, c3}
    MaxSubs = 1
    MaxRetries = 1
    PubRetries = 1
    Events = 1
    MaxLoss = 1
    Early = 1
    MaxBoots = 0
    Quits = FALSE
    Fifo = TRUE
    NoEvent = NoEvent
CHECK_DEADLOCK FALSE
PROPERTY ReleasedOnlyIfPrinted
