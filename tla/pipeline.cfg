SPECIFICATION LiveSpec
CONSTANTS
    Blocks = 4
    QueueSize = 2
    Faults = {"read", "write", "meta", "kill"}
INVARIANTS
    StoredInOrder
    ListedIsComplete
PROPERTIES
    UploadPromise
    BackupEnds
CHECK_DEADLOCK FALSE
