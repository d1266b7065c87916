CONSTANTS
    p = p
    x = x
    Vars = {p, x}
    Params <- OneParam
    Menus <- DeferMenu
    MaxStmts = 3
    MaxObjs = 3
    MaxCount = 4
    MaxSched = 1
SPECIFICATION Spec
INVARIANTS DeferredRun
CHECK_DEADLOCK FALSE
