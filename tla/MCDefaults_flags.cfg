SPECIFICATION Spec
CONSTANTS
    Rows = {i1, i2, i3}
    Requests = {r1, r2}
    MaxLost = 2
    None = None
SYMMETRY Interchangeable
CHECK_DEADLOCK FALSE
INVARIANTS
    TypeOK
    DefaultsBounded
PROPERTIES
    DefaultsSurvive
