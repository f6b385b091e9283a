SPECIFICATION FairSpec
CONSTANTS
    Ids = {o1}
    Recipients = {r1}
    Codes = {c1}
    Providers = {p1}
    MAX_OTP_ATTEMPTS = 1
    OTP_TTL_SECONDS = 1
    NULL = NULL
    Pollers = {w1}
    DLR_POLL_BATCH_SIZE = 2
    DLR_TIMEOUT_SECONDS = 1
    Receipts <- EveryReceipt
    SmsWithoutId = TRUE
    ServiceStatuses = {}
    MaxCrashes = 1
    Horizon = 3
PROPERTIES
    EverySmsSettles
