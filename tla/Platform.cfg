SPECIFICATION Spec
CONSTANTS
    Ids = {o1}
    Recipients = {r1}
    Phones = {r1}
    Codes = {c1, c2}
    Guesses = {c2}
    Providers = {p1, p2}
    MAX_OTP_ATTEMPTS = 1
    OTP_TTL_SECONDS = 1
    NULL = NULL
    Sessions = {s1}
    Workers = {w1}
    Pollers = {k1}
    MaxRetries = 0
    MaxRedeliveries = 1
    Answers <- SomeAnswers
    Receipts <- SomeReceipts
    DLR_POLL_BATCH_SIZE = 1
    DLR_TIMEOUT_SECONDS = 0
    MaxCrashes = 0
    Horizon = 1
SYMMETRY Symmetry
INVARIANTS
    TypeOK
    VerifiedWasCarried
PROPERTIES
    ServiceInContext
    DeliveryInContext
    OneTimeCodeInContext
    MetricsAreStable
