SPECIFICATION LiveSpec
CONSTANTS
    Last = 2
    AtEnd = {2}
    Silent = {2}
    Blocks = 6
    QueueSize = 2
    Faults = {"read", "write", "meta", "kill"}
INVARIANTS
    LossIsBounded
PROPERTIES
    BackupEnds
CHECK_DEADLOCK FALSE
