CONSTANTS
    u = u
    v = v
    r = r
    x = x
    y = y
    Null = Null
    Users = {u}
    Ctxs = {r, x, y}
    Root = r
    Chans = {r, x, y}
    Threads <- MCThreads
    Selects <- MCSelects
    Values = {}
    MaxPolls = 2
    MaxSends = 0
    CancelKinds = {"cancel"}
    MaxTime = 0
SPECIFICATION CtxFairSpec
PROPERTIES AncestorCancelReaches
CHECK_DEADLOCK FALSE
