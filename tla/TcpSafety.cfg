SPECIFICATION Spec
CONSTANTS
    Pubs = {p1, p2}
    Subs = {s1, s2, s3}
    Fds = {f1, f2, f3}
    MaxClients = 2
    Total = 1
    RecvMax = 1
    SockBuf = 1
    NoMemory = TRUE
    None = None
CHECK_DEADLOCK FALSE
SYMMETRY Symmetry
INVARIANTS
    TypeOK
    RegistryExact
    StreamIntegrity
PROPERTIES
    ImplementsBroadcast
