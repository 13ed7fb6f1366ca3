SPECIFICATION Spec
CONSTANTS
    Users = {u1, u2}
    Couriers = {c1, c2, c3}
    Orders = {o1}
    Secrets = {s1, s2}
    Requests = {r1, r2}
    MaxLost = 1
    Workloads <- Days
    None = None
    Gone = Gone
SYMMETRY Interchangeable
CHECK_DEADLOCK FALSE
INVARIANTS
    TypeOK
    CouriersBounded
    CourierTokensBacked
    SecretsSpent
    NothingLeftBehind
PROPERTIES
    OnlyStaleAnswersDropSecrets
    OnlyUntrackedAreLost
