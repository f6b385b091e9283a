SPECIFICATION Spec
CONSTANTS
    Ids = {o1}
    Recipients = {r1}
    Phones = {r1}
    Codes = {c1, c2}
    Providers = {}
    MAX_OTP_ATTEMPTS = 2
    OTP_TTL_SECONDS = 2
    NULL = NULL
    Sessions = {s1, s2}
    DeliveryStatuses = {}
    RequestSpan = 0
    Horizon = 1
SYMMETRY Symmetry
INVARIANTS
    AcceptedOnce
