SPECIFICATION Spec
CONSTANTS
    Pubs = {p1}
    Subs = {s1}
    ConnIds = {c1, c2}
    MaxSubs = 1
    MaxRetries = 1
    PubRetries = 1
    Events = 2
    MaxLoss = 2
    Early = 1
    MaxBoots = 1
    Quits = FALSE
    Fifo = FALSE
    NoEvent = NoEvent
CHECK_DEADLOCK FALSE
INVARIANTS
    TypeOK
    AcknowledgedIsHandled
PROPERTIES
    ReleasedOnlyIfPrinted
    ImplementsRelay
