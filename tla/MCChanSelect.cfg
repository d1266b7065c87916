CONSTANTS
    t1 = t1
    t2 = t2
    t3 = t3
    a = a
    b = b
    v1 = v1
    v2 = v2
    Null = Null
    Threads = {t1, t2}
    Chans = {a, b}
    Values = {v1}
    Selects <- TwoCases
    MaxPolls = 2
    MaxSends = 1
SPECIFICATION FairSpec
PROPERTIES NothingAcceptedAfterClose Implements SelectSeesClosed
