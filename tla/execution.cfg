SPECIFICATION LiveSpec
CONSTANTS
    Jobs = {j1, j2}
    Plans <- BoundedPlans
    Refusals <- BriefOrNone
    Brief = {j2}
    MaxRetries = 1
    Tries = 2
    MaxRuns = 2
    MaxFaults = 2
INVARIANTS
    ResultTellsActions
    ConfigsAreGone
PROPERTIES
    ResultsArrive
CHECK_DEADLOCK FALSE
