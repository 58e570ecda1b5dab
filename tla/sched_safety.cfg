SPECIFICATION Spec
CONSTANTS
    Jobs = {1, 2}
    Once = {1}
    Ending = {2}
    BadArgs = {}
    Drafts <- AllDrafts
    Workers = 1
    PageSize = 10
    Requests = {"create", "start", "stop", "abort", "delete"}
    Faults = {"misfire"}
    MaxRequests = 2
    MaxAgents = 2
    MaxCrashes = 0
INVARIANTS
    RunningIsReal
    OnlyKnownJobsFire
PROPERTIES
    ScheduledWillRun
    EndedJobsStayEnded
CHECK_DEADLOCK FALSE
