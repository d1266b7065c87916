CONSTANTS
    p = p
    x = x
    Vars = {p, x}
    Params <- OneParam
    Menus <- AllMenus
    MaxStmts = 4
    MaxObjs = 3
    MaxCount = 4
    MaxSched = 1
SPECIFICATION Spec
INVARIANTS FlagTruthful WellFormed NoUseAfterFree 
CHECK_DEADLOCK FALSE
