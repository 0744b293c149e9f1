SPECIFICATION Spec
CONSTANTS
    o1 = o1
    h1 = h1
    h2 = h2
    NoJob = NoJob
    NoOrder = NoOrder
    Orders = {o1}
    Handlers = {h1, h2}
    Totals = {1, 2}
    MaxReceipts = 3
    MaxRequests = 5
INVARIANTS
    PaidWasCharged
    BooksNotAhead
    HeldOnce
    BooksAgree
CHECK_DEADLOCK FALSE
SYMMETRY Symmetry
