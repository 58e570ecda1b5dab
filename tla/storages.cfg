SPECIFICATION LiveSpec
CONSTANTS
    Processes = {p1, p2}
    Kinds = {"swift", "s3", "ssh", "ftp", "local"}
    FullToo = {"ftp"}
    Blocks = 3
    QueueSize = 1
    Tries = 2
    Page = 5
    MaxTime = 3
    Alone = 1
    MaxLevel = 1
    MaxFaults = 2
INVARIANTS
    ChainsAreSound
    SuccessIsRestorable
    RemovalIsComplete
PROPERTIES
    JobsEndWell
CHECK_DEADLOCK FALSE
