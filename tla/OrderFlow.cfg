SPECIFICATION Spec
CONSTANTS
    o1 = o1
    o2 = o2
    c1 = c1
    c2 = c2
    h1 = h1
    h2 = h2
    NoCourier = NoCourier
    NoJob = NoJob
    Orders = {o1}
    Couriers = {c1, c2}
    Handlers = {h1, h2}
    Transport <- MCTransport
    TermsOffered <- MCTerms
    CrmStatuses <- MCCrmStatuses
    CrmCouriers = {c1, c2, NoCourier}
    ActiveLimit = 3
    MaxRequests = 4
INVARIANTS
    PaidHasPayment
    ClosedIsSettled
    ShippedHadCourier
    RejectedIsReleased
PROPERTIES
    AssignNeverSteals
    CourierKept
    SettledOnce
    NeverStranded
    CompletedKept
CHECK_DEADLOCK FALSE
SYMMETRY Symmetry
