SPECIFICATION Spec
CONSTANTS
    u1 = u1
    p1 = p1
    p2 = p2
    c1 = c1
    s1 = s1
    s2 = s2
    h1 = h1
    h2 = h2
    NoCode = NoCode
    NoCart = NoCart
    NoJob = NoJob
    NoItem = NoItem
    NoReceipt = NoReceipt
    NoTax = NoTax
    Customers = {u1}
    Products = {p1, p2}
    Codes = {c1}
    Shoppers = {s1, s2}
    Staff = {h1, h2}
    Prices = {30, 47}
    StartPrice = 30
    Offers <- MCOffers
    Counts = {3}
    Institutions <- MCInstitutions
    CommonTax = 10
    Delivery <- MCDelivery
    PromoSum <- MCPromoSum
    PromoSums = {35, 60}
    PromoMin <- MCPromoMin
    StartName <- MCStartName
    MaxOrders = 2
    MaxItems = 3
    MaxRequests = 2
INVARIANTS
    SumsAgree
    ReceiptAdds
    OncePerCustomer
    ReportsAgree
    ShownIsOwed
CHECK_DEADLOCK FALSE
SYMMETRY Symmetry
