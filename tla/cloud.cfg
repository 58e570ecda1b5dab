SPECIFICATION CloudLiveSpec
CONSTANTS
    MaxBackups = 4
    Keep = 1
INVARIANTS
    NothingIsLeft
    UsedIsReady
PROPERTIES
    RotationWorks
    ProceduresEnd
CHECK_DEADLOCK FALSE
