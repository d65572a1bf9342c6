SPECIFICATION FairSpec
CONSTANTS
    Conns = {c1, c2}
    Requests = {r1}
    None = None
    MaxAnswers = 2
INVARIANTS
    TypeOK
    NewestStaysRegistered
    OneLiveConnection
    NoPendingLeak
    ResolveNeverBlocks
    DrainedMeansDone
CHECK_DEADLOCK FALSE
PROPERTIES
    RequestsEnd
    ReplacedConnectionsEnd
