SPECIFICATION FairSpec
CONSTANTS
    Pubs = {p1, p2}
    Subs = {s1, s2}
    NumSubs = 2
    Backlog = 1
    Total = 2
    RecvMax = 2
    SockBuf = 2
    None = None
CHECK_DEADLOCK FALSE
INVARIANTS
    TypeOK
    ServedInTurn
PROPERTIES
    ImplementsBroadcast
    Reaches
