SPECIFICATION Spec
CONSTANTS
    m1 = m1
    m2 = m2
    w1 = w1
    w2 = w2
    Messages = {m1}
    Workers = {w1, w2}
    None = None
    ScopeOf <- MCOneScope
    MaxAttempts = 2
    LockStale = 1
    MaxBackoff = 2
    PartitionSize = 1
    BatchSize = 2
    MaxBatchAge = 3
    MaxAborts = 1
    MaxSends = 5
INVARIANTS TypeOK NoPrematureFailure SentWasDelivered DuplicatesExplained
PROPERTIES TerminalIsFinal
CHECK_DEADLOCK FALSE
