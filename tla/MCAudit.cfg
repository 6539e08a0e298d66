SPECIFICATION Spec
CONSTANTS
    Events = {e1, e2, e3}
    None = None
    BatchSize = 1
    Retention = 2
    MaxTransaction = 1
    MaxTime = 3
    MaxFaults = 1
SYMMETRY Symmetry
INVARIANTS Chained VerifierRight 
PROPERTIES Accounted ArchivedUnlessCrossing
CHECK_DEADLOCK FALSE
