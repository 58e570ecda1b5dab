SPECIFICATION LiveSpec
CONSTANTS
    Procs = {p1, p2, p3}
    NoFile = NoFile
    MaxKills = 1
INVARIANTS
    OneDaemon
    PidFileIsTrue
PROPERTIES
    StopStops
CHECK_DEADLOCK FALSE
