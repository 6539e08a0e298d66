SPECIFICATION Spec
CONSTANTS
    Sessions = {j1}
    Requests = {r1, r2}
    None = None
    MaxAge = 5
    IdleTimeout = 5
    MaxRequestAge = 1
    MaxVersion = 0
SYMMETRY MCSymmetry
INVARIANTS LogoutHolds
CHECK_DEADLOCK FALSE
