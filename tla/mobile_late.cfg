SPECIFICATION FairSpec
CONSTANTS
    Logins = {l1, l2, l3}
    Faults = {"expiry", "late", "network"}
PROPERTIES
    ClearedIsForgotten
    ExpiredIsLeft
    LoginsEnd
CHECK_DEADLOCK FALSE
