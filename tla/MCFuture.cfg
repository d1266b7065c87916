CONSTANTS
    k1 = k1
    k2 = k2
    k3 = k3
    v1 = v1
    v2 = v2
    Null = Null
    Main = Main
    Calls = {k1, k2, k3}
    Async = {k1, k2}
    Values = {v1, v2}
    Returns <- Results
    CreateMayFail = TRUE
SPECIFICATION FairSpec
INVARIANTS TypeOK AwaitReturnsResult NoSleeperOnReady NoAwaitCycle
PROPERTIES AwaitReturns
CHECK_DEADLOCK FALSE
