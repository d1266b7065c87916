CONSTANTS
    u1 = u1
    u2 = u2
    Users = {u1}
    Statics <- OneStatic
    Calls <- OneThread
    Dynamics = {"source"}
    Capacity = 1
    MaxRules = 2
    MaxStarts = 2
SPECIFICATION FairSpec

PROPERTIES StopEndsLoop
