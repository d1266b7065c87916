CONSTANTS
    t1 = t1
    t2 = t2
    t3 = t3
    None = None
    Threads = {t1, t2, t3}
    Deltas <- MCDeltas
    MaxCount = 3
    MaxDebt = 1
SPECIFICATION FairSpec
INVARIANTS TypeOK OnceExactly NoStrandedWaiter
PROPERTIES WaitersReturn
