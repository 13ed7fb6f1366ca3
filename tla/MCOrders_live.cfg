SPECIFICATION FairSpec
CONSTANTS
    Orders = {o1}
    Couriers = {c1}
    Requests = {r1, r2}
    Searches = {s1}
    Payments = {p1}
    NetValues <- Debt
    MaxEntries = 1
    Endpoints <- LiveEndpoints
    MayFail = FALSE
    None = None
CHECK_DEADLOCK FALSE
PROPERTIES
    RequestsFinish
    OrderAnswered
    PaymentLands
