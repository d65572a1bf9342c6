SPECIFICATION FairSpec
CONSTANTS
    j1 = j1
    j2 = j2
    j3 = j3
    j4 = j4
    j5 = j5
    k1 = k1
    k2 = k2
    k3 = k3
    k4 = k4
    a = a
    b = b
    Callers = {j1, j2, j3, j4, j5}
    Keys = {k1, k2, k3, k4}
    Clients = {a, b}
    KeyOf <- CallersKeys
    ClientOf <- KeysClients
    GlobalLimit = 2
    PerClientLimit = 1
INVARIANTS
    TypeOK
    PermitsAccounted
    OneJobPerKey
PROPERTIES
    AcquireReturns
CHECK_DEADLOCK FALSE
