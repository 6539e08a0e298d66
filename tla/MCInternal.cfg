SPECIFICATION Spec
CONSTANTS
    Slots = {s1, s2}
    i1 = i1
    Messages <- Requests
    None = None
    Max <- SmallMax
    Window <- SmallWindow
    AdaptiveEnabled = TRUE
    AdaptiveMax = 2
    AdaptiveWindow = 3
    MaxDelay = 1
    MaxTime = 3
    MaxFaults = 1
    MaxSkew = 2
    MaxDeliveries = 2
SYMMETRY Symmetry
INVARIANTS AdmissionsBounded OneRunPerWindow ReplayExplained
CHECK_DEADLOCK FALSE
