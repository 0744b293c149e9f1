SPECIFICATION Spec
CONSTANTS
    o1 = o1
    o2 = o2
    c1 = c1
    c2 = c2
    h1 = h1
    h2 = h2
    NoCourier = NoCourier
    NoJob = NoJob
    Orders = {o1, o2}
    Couriers = {c1}
    Handlers = {h1, h2}
    Transport <- MCTransport
    TermsOffered <- MCCash
    CrmStatuses <- MCCrmStatuses
    CrmCouriers = {}
    ActiveLimit = 1
    MaxRequests = 4
PROPERTIES
    AssignWithinLimit
CHECK_DEADLOCK FALSE
SYMMETRY Symmetry
