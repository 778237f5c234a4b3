SPECIFICATION FairSpec
CONSTANTS
    Pubs = {p1}
    Subs = {s1}
    ConnIds = {c1}
    MaxSubs = 1
    MaxRetries = 2
    PubRetries = 3
    Events = 2
    MaxLoss = 2
    Early = 1
    MaxBoots = 0
    Quits = TRUE
    Fifo = TRUE
    NoEvent = NoEvent
CHECK_DEADLOCK FALSE
INVARIANTS
    InOrder
PROPERTIES
    PublisherSucceeds
    LastEventPrinted
    GivesUp
