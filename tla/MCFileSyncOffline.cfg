SPECIFICATION Spec
CONSTANTS
    c1 = c1
    c2 = c2
    c3 = c3
    c4 = c4
    Shas <- Contents
    NoSha = NoSha
    ConflictWindow = 2
    Environments <- OfflineEnvironments
    MaxDrops = 1
INVARIANTS
    QuiescentAgree
CHECK_DEADLOCK FALSE
