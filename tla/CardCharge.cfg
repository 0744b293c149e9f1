SPECIFICATION Spec
CONSTANTS
    o1 = o1
    h1 = h1
    h2 = h2
    NoJob = NoJob
    NoOrder = NoOrder
    Orders = {o1}
    Handlers = {h1}
    Totals = {1, 2}
    MaxReceipts = 3
    MaxRequests = 5
INVARIANTS
    NeverChargedTwice
CHECK_DEADLOCK FALSE
