SPECIFICATION Spec
CONSTANTS
    Ids = {o1, o2}
    Recipients = {r1}
    Phones = {r1}
    Codes = {c1, c2}
    Providers = {}
    MAX_OTP_ATTEMPTS = 2
    OTP_TTL_SECONDS = 2
    NULL = NULL
    Sessions = {s1}
    DeliveryStatuses = {"delivered"}
    RequestSpan = 1
    Horizon = 3
SYMMETRY Symmetry
INVARIANTS
    TypeOK
    MissesAreCounted
    AcceptedOnce
    UsedInTime
PROPERTIES
    LockoutHolds
    ImplementsOneTimeCode
