SPECIFICATION Spec
CONSTANTS
    Pubs = {p1}
    Subs = {s1}
    Fds = {f1, f2}
    MaxClients = 2
    Total = 2
    RecvMax = 1
    SockBuf = 1
    NoMemory = FALSE
    None = None
CHECK_DEADLOCK FALSE
INVARIANT RunsIndefinitely
