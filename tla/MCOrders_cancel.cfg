SPECIFICATION Spec
CONSTANTS
    Orders = {o1}
    Couriers = {c1}
    Requests = {r1}
    Searches = {s1}
    Payments = {p1}
    NetValues <- Debt
    MaxEntries = 2
    Endpoints <- SerialEndpoints
    MayFail = FALSE
    None = None
CHECK_DEADLOCK FALSE
PROPERTY
    UsersCancelEarly
