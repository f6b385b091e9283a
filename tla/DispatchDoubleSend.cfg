SPECIFICATION Spec
CONSTANTS
    Ids = {o1}
    Recipients = {r1}
    Phones = {r1}
    Codes = {c1}
    Providers = {p1, p2, p3, p4}
    MAX_OTP_ATTEMPTS = 1
    OTP_TTL_SECONDS = 1
    NULL = NULL
    Workers = {w1, w2}
    MaxRetries = 1
    Answers <- ClearAnswers
    DatabaseMayFail = FALSE
    EnqueuesMayFail = FALSE
    ServiceStatuses = {"expired"}
    PollStatuses = {}
    MaxRedeliveries = 1
    Horizon = 0
SYMMETRY Symmetry
CHECK_DEADLOCK FALSE
INVARIANTS
    NoDoubleSend
