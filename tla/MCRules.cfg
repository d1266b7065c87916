CONSTANTS
    u1 = u1
    u2 = u2
    Users = {u1, u2}
    Statics <- OneStatic
    Calls <- TwoThreads
    Dynamics = {"source"}
    Capacity = 1
    MaxRules = 1
    MaxStarts = 2
SPECIFICATION FairSpec
INVARIANTS ReadsWritten SourcesFollow
PROPERTIES StoppedForGood RunningEvaluates
