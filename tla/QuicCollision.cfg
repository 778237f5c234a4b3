SPECIFICATION Spec
CONSTANTS
    Pubs = {p1}
    Subs = {s1, s2}
    ConnIds = {c1, c2}
    MaxSubs = 2
    MaxRetries = 1
    PubRetries = 1
    Events = 1
    MaxLoss = 0
    Early = 0
    MaxBoots = 0
    Quits = FALSE
    Fifo = TRUE
    NoEvent = NoEvent
CHECK_DEADLOCK FALSE
INVARIANT AcknowledgedIsRegistered
