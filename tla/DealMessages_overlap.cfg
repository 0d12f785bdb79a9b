SPECIFICATION Spec
CONSTANTS
    r1 = r1  r2 = r2
    Reqs = {r1, r2}
    MaxRequests = 5
SYMMETRY Slots
INVARIANTS ShownWasDelivered ViewersKeepUp
PROPERTIES ReviewIsFinal
CHECK_DEADLOCK FALSE
