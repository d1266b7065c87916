CONSTANTS
    t1 = t1
    t2 = t2
    t3 = t3
    a = a
    b = b
    v1 = v1
    v2 = v2
    Null = Null
    Threads = {t1, t2, t3}
    Chans = {a}
    Values = {v1, v2}
    Selects <- OneCase
    MaxPolls = 1
    MaxSends = 2
SPECIFICATION FairSpec
INVARIANTS TypeOK Fifo NoLostWakeup
PROPERTIES ValueReachesWaiter CloseReleases
