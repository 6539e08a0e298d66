SPECIFICATION RegistrationSpec
CONSTANTS
    p1 = p1
    Emails = {e1, e2}
    Phones = {p1, p2}
    Wants <- SameNumber
    Requests = {r1, r2}
    Unset = Unset
    RegisterMaxAttempts = 1
    MaxChallenges = 6
    MaxTrouble = 2
PROPERTIES RegistersAsPromised EveryoneRegisters
CHECK_DEADLOCK FALSE
