SPECIFICATION FairSpec
CONSTANTS
    Requests = {r1, r2}
    Limits = {0, 1}
    LastMonth = 2
    Faults = {}
INVARIANTS
    ReservationReturned
PROPERTIES
    ImplementsQuota
    ReservationsSettle
    AlertsSettle
