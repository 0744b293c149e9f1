SPECIFICATION SpecDevices
CONSTANTS
    Users = {1, 2, 3, 4, 5}
    n1 = n1
    n2 = n2
    n3 = n3
    n4 = n4
    j1 = j1
    j2 = j2
    Numbers = {n1, n2, n3, n4}
    None = None
    NoJob = NoJob
    Customer = 1
    Owner = 2
    Admin = 3
    StartNumber <- MCStartNumber
    Jobs = {j1, j2}
    t1 = t1
    c1 = c1
    c2 = c2
    Tokens = {t1}
    SignedUp <- MCSignedUp
    Calls = {c1, c2}
    NoCall = NoCall
    NoDevice = NoDevice
    MaxRequests = 3
SYMMETRY MCSymmetry
CHECK_DEADLOCK FALSE
INVARIANTS GoneForGood  PushesArrive
