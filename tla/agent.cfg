SPECIFICATION LiveSpec
CONSTANTS
    MaxWrites = 2
    None = None
    Targets = {t1, t2}
    MaxKills = 1
INVARIANTS
    ReadIsConsistent
    LeftAsFound
    ExitIsHonest
PROPERTIES
    JobEnds
