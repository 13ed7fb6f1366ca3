SPECIFICATION FairSpec
CONSTANTS
    Users = {u1}
    Withdrawals = {w1}
    Requests = {r1, r2}
    Amounts = {1, 2}
    MaxBalance = 2
    MaxLost = 1
    None = None
CHECK_DEADLOCK FALSE
INVARIANTS
    TypeOK
    ShownAsHappened
    NeverShort
PROPERTIES
    OnlyOvertakenHandlersMispay
    OnlyStaleBalancesOverdraw
    PayoutSettles
    ImplementsPayouts
