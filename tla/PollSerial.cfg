SPECIFICATION FairSpec
CONSTANTS
    Ids = {o1, o2}
    Recipients = {r1}
    Codes = {c1}
    Providers = {p1, p2}
    MAX_OTP_ATTEMPTS = 1
    OTP_TTL_SECONDS = 1
    NULL = NULL
    Pollers = {w1}
    DLR_POLL_BATCH_SIZE = 1
    DLR_TIMEOUT_SECONDS = 0
    Receipts <- EveryReceipt
    SmsWithoutId = FALSE
    ServiceStatuses = {"verified"}
    MaxCrashes = 1
    Horizon = 2
INVARIANTS
    TypeOK
    DeliveredIsTrue
    FailedIsDeserved
    MetricsNearlyAddUp
PROPERTIES
    WriteOnceUnlessRedispatched
    PolledRowsSettle
