SPECIFICATION Spec
CONSTANTS
    Users = {u1, u2}
    Slugs = {s1}
    Requests = {r1, r2}
    None = None
    MaxTries = 2
    GroupSlugs = {g1, g2}
    Regions = {ra, rb}
    BadRegion = rc
    Names = {n1, n2}
    Keys = {k1}
SYMMETRY Symmetry
INVARIANTS ActiveMembersKeepTenant LeftoversExplained TenantIsolation OneJobPerKey
CHECK_DEADLOCK FALSE
