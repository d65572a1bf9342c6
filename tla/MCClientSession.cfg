SPECIFICATION FairSpec
CONSTANTS
    Snapshots = {"small", "large"}
    MaxDelay = 5
    MaxFaults = 4
    MaxEvents = 2
INVARIANTS
    TypeOK
    ResponseFirst
PROPERTIES
    RunEnds
    CatchesUp
CHECK_DEADLOCK FALSE
