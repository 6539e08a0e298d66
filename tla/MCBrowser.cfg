SPECIFICATION BrowserSpec
CONSTANTS
    Sessions = {j1}
    Requests = {r1, r2}
    None = None
    MaxAge = 5
    IdleTimeout = 1
    MaxRequestAge = 1
    MaxVersion = 1
    Slots = {1, 2}
    Dialogs <- AllDialogs
    MaxFaults = 3
    MaxDetours = 1
INVARIANTS RevokeAllHolds LogoutHolds FormFits
PROPERTY GetsThrough
CHECK_DEADLOCK FALSE
