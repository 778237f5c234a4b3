SPECIFICATION FairSpec
CONSTANTS
    Pubs = {p1}
    Subs = {s1, s2}
    Fds = {f1, f2, f3}
    MaxClients = 2
    Total = 2
    RecvMax = 2
    SockBuf = 2
    NoMemory = FALSE
    None = None
CHECK_DEADLOCK FALSE
PROPERTIES
    Relayed
    Received
    HandlerEnds
