SPECIFICATION FairSpec
CONSTANTS
    c1 = c1
    c2 = c2
    c3 = c3
    c4 = c4
    Shas <- Contents
    NoSha = NoSha
    ConflictWindow = 2
    Environments <- SyncEnvironments
    MaxDrops = 1
INVARIANTS
    TypeOK
    LastChangeWins
    LastWriteWins
PROPERTIES
    SourceUntouched
    ComesToRest
CHECK_DEADLOCK FALSE
