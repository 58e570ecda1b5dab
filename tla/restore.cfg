SPECIFICATION LiveSpec
CONSTANTS
    MaxLevel = 2
    Blocks = 3
    SocketSize = 1
    OutputSize = 1
    Faults = {"prepare", "io", "error", "lost", "ftp", "meta", "tar", "noise", "kill"}
INVARIANTS
    RestoreIsWhole
PROPERTIES
    LevelsInTurn
    RestoreEnds
CHECK_DEADLOCK FALSE
