SPECIFICATION Spec
CONSTANTS
    Requests = {r1, r2, r3}
    Limits = {2}
    LastMonth = 2
    Faults = {"cancel", "crash", "db", "lost"}
SYMMETRY Symmetry
INVARIANTS
    LedgerBalanced
    ExternalWithinLimit
    CreatedIsCharged
    OneSender
    AlertedOnce
