SPECIFICATION FairSpec
CONSTANTS
    f1 = f1
    f2 = f2
    r1 = r1
    r2 = r2
    u1 = u1
    hole = hole
    Fetches = {f1, f2}
    Remote = {r1, r2}
    Wanted <- Commands
    Local = {u1}
    Size = 2
    Hole = hole
    Overlap = FALSE
    MaxEdits = 2
    MaxFaults = 1
INVARIANTS
    TypeOK
    FileWhole
    SettledIsReported
PROPERTIES
    AckMeansWritten
    FetchSucceeds
CHECK_DEADLOCK FALSE
