SPECIFICATION Spec
CONSTANTS
    u1 = u1
    u2 = u2
    p1 = p1
    p2 = p2
    Users = {u1, u2}
    Phones = {p1, p2, p3}
    Challenges = {c1, c2}
    Requests = {r1, r2}
    None = None
    FirstPhone <- MCFirstPhone
    MaxAttempts = 1
SYMMETRY MCSymmetry
INVARIANTS PhoneProved DeletedStaysBare WrongCodesBounded
PROPERTY ApprovesAsPromised
CHECK_DEADLOCK FALSE
