SPECIFICATION Spec
CONSTANTS
    Jobs = {1, 2}
    Once = {1}
    Ending = {}
    BadArgs = {2}
    Drafts <- StartDrafts
    Workers = 1
    PageSize = 1
    Requests = {"stop", "delete"}
    Faults = {"api", "race", "spawn", "crash"}
    MaxRequests = 2
    MaxAgents = 1
    MaxCrashes = 1
PROPERTIES
    DropIsSafe
CHECK_DEADLOCK FALSE
