SPECIFICATION Spec
CONSTANTS
    p1 = p1
    p2 = p2
    c1 = c1
    c2 = c2
    w1 = w1
    w2 = w2
    NoJob = NoJob
    NoPayment = NoPayment
    NoCert = NoCert
    Workers = {w1, w2}
    Payments = {p1, p2}
    Certs = {c1, c2}
    MaxRows = 3
    MaxVersion = 2
    MaxCalls = 4
INVARIANTS
    OfdAgrees
    NumbersGrow
    SoldOnce
    RefundsLinked
    OneContract
CHECK_DEADLOCK FALSE
SYMMETRY Symmetry
