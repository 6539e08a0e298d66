SPECIFICATION Spec
CONSTANTS
    Users = {u1}
    Challenges = {c1, c2}
    Requests = {r1, r2}
    None = None
    SmsEnabled = TRUE
    MaxAttempts = 1
    MaxPasswordAttempts = 1
SYMMETRY MCSymmetry
INVARIANTS WrongCodesBounded WrongPasswordsBounded
PROPERTIES GrantsAsPromised DeletedNeverEnters
CHECK_DEADLOCK FALSE
