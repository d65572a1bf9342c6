SPECIFICATION Spec
CONSTANTS
    Workers = {w1, w2}
    Paths = {x}
    Shas = {s1, s2}
    NoSha = NoSha
    Free = Free
    Directions = {"bidirectional", "a_to_b", "b_to_a"}
    ConflictWindow = 2
    MaxClock = 3
SYMMETRY Symmetry
INVARIANTS
    TypeOK
    EventIsNewest
    HandledMeansResolved
PROPERTIES
    NoOverwriteWithoutRename
    CommandsInStampOrder
CHECK_DEADLOCK FALSE
