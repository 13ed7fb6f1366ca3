SPECIFICATION Spec
CONSTANTS
    Orders = {o1}
    Couriers = {c1}
    Requests = {r1, r2}
    Searches = {s1}
    Payments = {p1, p2}
    NetValues <- Nets
    MaxEntries = 1
    Endpoints <- SettlementEndpoints
    MayFail = FALSE
    None = None
SYMMETRY Interchangeable
CHECK_DEADLOCK FALSE
INVARIANTS
    FaresRecorded
    SettlementWhole
    WorkPrecedesMoney
PROPERTY
    ImplementsLifecycle
