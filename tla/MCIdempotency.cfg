SPECIFICATION FairSpec
CONSTANTS
    Calls = {r1, r2, r3}
    NoCall = NoCall
    TTL = 2
    LongTTL = 3
    WaitMax = 1
    PersistAttempts = 2
    HandlerMax = 3
INVARIANTS RunsExplained OneResponse
PROPERTY EveryRequestAnswered
CHECK_DEADLOCK FALSE
