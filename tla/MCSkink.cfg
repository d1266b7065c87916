CONSTANTS
    Inputs <- Menu
    MaxDepth = 8
    MaxRounds = 4
    TemplateNames <- Alphabet
    MaxTurns = 3
SPECIFICATION FairSpec
INVARIANTS UsesResolve VisibilityKept ImportsResolved TemplateCallsResolve NothingLeft FetchedAsRequired
PROPERTIES Ends
CHECK_DEADLOCK FALSE
