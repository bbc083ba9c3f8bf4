SPECIFICATION Spec
CONSTANTS
    Logins = {l1, l2}
    Faults = {"expiry", "late"}
INVARIANT StoredIsCurrent
CHECK_DEADLOCK FALSE
