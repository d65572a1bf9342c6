SPECIFICATION Spec
CONSTANTS
    Workers = {w1, w2, w3}
    Shas = {s1}
    NoSha = NoSha
    Junk = Junk
    Free = Free
    Size = 2
SYMMETRY Symmetry
INVARIANTS
    TypeOK
    BlobIntegrity
    FreshPutKept
CHECK_DEADLOCK FALSE
