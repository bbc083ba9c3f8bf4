SPECIFICATION Spec
CONSTANTS
    Requests = {r1}
    Limits = {1}
    LastMonth = 1
    Faults = {"cancel"}
INVARIANT ReservationReturned
