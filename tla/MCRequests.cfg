SPECIFICATION Spec
CONSTANTS
    r1 = r1
    r2 = r2
    i1 = i1
    i2 = i2
    k1 = k1
    Requests = {r1, r2}
    Texts <- MCTexts
    Keys = {k1}
    None = None
    Allowed = 1
    MaxDeaths = 1
    Tabs = {1, 2}
    MaxSessions = 2
    MaxLogouts = 1
INVARIANTS RunsWithinLimits LateRequestsDoNothing WayBackKept
PROPERTIES LogoutEndsBeforeDropping NavigationEnds
CHECK_DEADLOCK FALSE
