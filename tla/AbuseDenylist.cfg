SPECIFICATION Spec
CONSTANTS
    Ids = {o1, o2, o3}
    Recipients = {r1}
    Ips = {a1}
    Gates = {g1, g2}
    Admins = {d1, d2}
    Entries = {e1, e2}
    ABUSE_RULE_MAX_PER_HOUR = 3
    ABUSE_RULE_MAX_PER_DAY = 3
    ABUSE_RULE_IP_MAX_PER_HOUR = 3
    ABUSE_ML_SCORE_THRESHOLD = 75
    Hour = 2
    Day = 4
    EngineMayFail = TRUE
    RequestSpan = 0
    Horizon = 0
    NULL = NULL
SYMMETRY Symmetry
CHECK_DEADLOCK FALSE
INVARIANTS
    TypeOK
    DenylistHolds
PROPERTIES
    ListingsOutliveOldRemovals
