SPECIFICATION FairSpec
CONSTANTS
    Ids = {o1}
    Recipients = {r1, r2}
    Phones = {r1}
    Codes = {c1}
    Providers = {p1, p2, p3, p4}
    MAX_OTP_ATTEMPTS = 1
    OTP_TTL_SECONDS = 1
    NULL = NULL
    Workers = {w1, w2}
    MaxRetries = 1
    Answers <- EveryAnswer
    DatabaseMayFail = TRUE
    EnqueuesMayFail = TRUE
    ServiceStatuses = {"verified"}
    PollStatuses = {"failed"}
    MaxRedeliveries = 1
    Horizon = 1
CHECK_DEADLOCK FALSE
INVARIANTS
    TypeOK
    PendingIsAccountedFor
    SentWasAnswered
    ProviderIdIsOwn
    SendsAreBounded
PROPERTIES
    EveryRequestSettles
