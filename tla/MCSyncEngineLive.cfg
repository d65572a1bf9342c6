SPECIFICATION FairSpec
CONSTANTS
    Workers = {w1, w2}
    Paths = {x}
    Shas = {s1}
    NoSha = NoSha
    Free = Free
    Directions = {"bidirectional", "a_to_b", "unknown"}
    ConflictWindow = 2
    MaxClock = 2
PROPERTIES
    HandlersEnd
CHECK_DEADLOCK FALSE
