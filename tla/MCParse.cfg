CONSTANTS
    Menus <- AllMenus
SPECIFICATION FairSpec
INVARIANTS AcceptedNests TreeMatches
PROPERTIES Terminates
CHECK_DEADLOCK FALSE
