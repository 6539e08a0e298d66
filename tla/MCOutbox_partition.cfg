SPECIFICATION FairSpec
CONSTANTS
    m1 = m1
    m2 = m2
    w1 = w1
    w2 = w2
    Messages = {m1, m2}
    Workers = {w1, w2}
    None = None
    ScopeOf <- MCOneScope
    MaxAttempts = 1
    LockStale = 1
    MaxBackoff = 1
    PartitionSize = 1
    BatchSize = 2
    MaxBatchAge = 1
    MaxAborts = 1
    MaxSends = 9
PROPERTIES EventuallySettled
