SPECIFICATION Spec
CONSTANTS
    Ids = {o1, o2, o3, o4}
    Recipients = {r1}
    Ips = {a1}
    Gates = {g1, g2}
    Admins = {}
    Entries = {}
    ABUSE_RULE_MAX_PER_HOUR = 1
    ABUSE_RULE_MAX_PER_DAY = 2
    ABUSE_RULE_IP_MAX_PER_HOUR = 1
    ABUSE_ML_SCORE_THRESHOLD = 75
    Hour = 2
    Day = 3
    EngineMayFail = FALSE
    RequestSpan = 1
    Horizon = 4
    NULL = NULL
SYMMETRY Symmetry
CHECK_DEADLOCK FALSE
INVARIANTS
    RateCapsNearlyHold
    RateRefusalsAreDeserved
