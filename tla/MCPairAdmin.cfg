SPECIFICATION Spec
CONSTANTS
    Admins = {u1, u2}
    Environments <- PairEnvironments
    MaxSaves = 3
    MaxConnects = 2
SYMMETRY Symmetry
INVARIANTS
    TypeOK
    SubscriptionsAgree
PROPERTIES
    NoLostUpdate
CHECK_DEADLOCK FALSE
