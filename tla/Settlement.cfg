SPECIFICATION Spec
CONSTANTS
    card = card
    cash = cash
    c1 = c1
    c2 = c2
    i1 = i1
    h1 = h1
    h2 = h2
    NoCourier = NoCourier
    NoJob = NoJob
    Orders = {card, cash}
    Couriers = {c1, c2}
    Institutions = {i1}
    Handlers = {h1, h2}
    Terms <- MCTerms
    ActiveLimit = 3
    MoveStatuses = {"shipped", "rejected"}
    OwnStatuses = {"free"}
    Balances = {3}
    TopupAmounts = {1}
    MaxRequests = 4
INVARIANTS
    LedgerKept
    InstitutionKept
    PaidOnce
PROPERTIES
    PaysByTheBooks
CHECK_DEADLOCK FALSE
SYMMETRY Symmetry
