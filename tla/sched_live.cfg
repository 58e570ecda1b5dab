SPECIFICATION LiveSpec
CONSTANTS
    Jobs = {1, 2}
    Once = {}
    Ending = {}
    BadArgs = {1}
    Drafts <- StartDrafts
    Workers = 1
    PageSize = 1
    Requests = {"start", "stop", "delete"}
    Faults = {"crash"}
    MaxRequests = 2
    MaxAgents = 1
    MaxCrashes = 1
PROPERTIES
    StartedJobsRun
    RecurringJobsRecur
    DeletedJobsAreForgotten
    PollEnds
CHECK_DEADLOCK FALSE
