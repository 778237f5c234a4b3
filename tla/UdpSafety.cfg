SPECIFICATION Spec
CONSTANTS
    Pubs = {p1}
    Published = {t1}
    Subs = {s1, s2, s3}
    Addrs = {a1, a2, a3}
    t1 = t1
    t2 = t2
    t3 = t3
    Topics = {t1, t2, t3}
    Wishes <- MCWishes
    MaxTopics = 2
    MaxSubs = 2
    Events = 1
    MaxBoots = 1
    NoAddr = NoAddr
CHECK_DEADLOCK FALSE
SYMMETRY Symmetry
INVARIANTS
    TypeOK
    TableExact
    PrintedOnce
    NewsWasAsked
    ConfirmedIsEntered
    NewsFits
PROPERTIES
    ImplementsNotifier
