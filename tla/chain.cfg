SPECIFICATION Spec
CONSTANTS
    Last = 2
    Sorted = {1}
    Incremental = {TRUE, FALSE}
    Configurations <- AllConfigurations
    Removals = TRUE
    MaxTime = 6
INVARIANTS
    RestoreIsChain
    RestoreIsRecent
    LevelsAreBounded
CHECK_DEADLOCK FALSE
