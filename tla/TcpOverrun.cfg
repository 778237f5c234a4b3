SPECIFICATION Spec
CONSTANTS
    Pubs = {p1}
    Subs = {s1, s2, s3}
    Fds = {f1, f2, f3}
    MaxClients = 2
    Total = 1
    RecvMax = 1
    SockBuf = 1
    NoMemory = FALSE
    None = None
CHECK_DEADLOCK FALSE
INVARIANT ArrayHoldsEverySubscriber
