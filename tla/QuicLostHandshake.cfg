SPECIFICATION FairSpec
CONSTANTS
    Pubs = {p1}
    Subs = {s1}
    ConnIds = {c1}
    MaxSubs = 1
    MaxRetries = 1
    PubRetries = 1
    Events = 1
    MaxLoss = 1
    Early = 0
    MaxBoots = 0
    Quits = FALSE
    Fifo = TRUE
    NoEvent = NoEvent
CHECK_DEADLOCK FALSE
PROPERTY HandshakeSurvivesLoss
