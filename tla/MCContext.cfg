CONSTANTS
    u = u
    v = v
    r = r
    x = x
    y = y
    Null = Null
    Users = {u, v}
    Ctxs = {r, x}
    Root = r
    Chans = {r, x}
    Threads <- MCThreads
    Selects <- MCSelects
    Values = {}
    MaxPolls = 2
    MaxSends = 0
    CancelKinds = {"background", "cancel", "value", "deadline"}
    MaxTime = 1
SPECIFICATION CtxFairSpec
INVARIANTS ClosedHasCause
PROPERTIES WatchedParentCloses CancelClosesOwn DeadlineCloses WorkersEnd
CHECK_DEADLOCK FALSE
