SPECIFICATION Spec
CONSTANTS
    Orders = {o1}
    Couriers = {c1, c2}
    Requests = {r1, r2}
    Searches = {s1}
    Payments = {p1}
    NetValues <- Nets
    MaxEntries = 1
    Endpoints <- ClaimEndpoints
    MayFail = TRUE
    None = None
SYMMETRY Interchangeable
CHECK_DEADLOCK FALSE
INVARIANTS
    TypeOK
    ScheduleRespected
PROPERTIES
    ChangesAreEntitled
    ImplementsLifecycle
