SPECIFICATION Spec
CONSTANTS
    Orders = {o1}
    Couriers = {c1}
    Requests = {r1, r2}
    Searches = {s1}
    Payments = {p1, p2}
    NetValues <- Debt
    MaxEntries = 1
    Endpoints <- PaymentEndpoints
    MayFail = TRUE
    None = None
SYMMETRY Interchangeable
CHECK_DEADLOCK FALSE
INVARIANTS
    PaidIsFunded
    RefundIsBacked
