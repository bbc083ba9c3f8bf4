SPECIFICATION Spec
CONSTANTS
    Logins = {l1, l2, l3}
    Faults = {"expiry", "network", "storage", "revoked", "death"}
SYMMETRY Symmetry
INVARIANTS
    ClearedIsDead
    StoredIsCurrent
    NoOrphan
PROPERTY
    LiveSessionKept
