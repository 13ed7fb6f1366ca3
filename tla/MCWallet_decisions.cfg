SPECIFICATION Spec
CONSTANTS
    Users = {u1}
    Withdrawals = {w1}
    Requests = {r1, r2}
    Amounts = {1}
    MaxBalance = 2
    MaxLost = 0
    None = None
SYMMETRY Interchangeable
CHECK_DEADLOCK FALSE
PROPERTY
    OnlyPendingIsDecided
