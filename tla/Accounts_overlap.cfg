SPECIFICATION Spec
CONSTANTS
    r1 = r1  r2 = r2
    Reqs = {r1, r2}
    MaxRequests = 7
SYMMETRY Slots
INVARIANTS RowsAgree OnlyVerifiedBuyersEnter SessionsEndWithReset EachTokenOnce NothingOutlivesAPurge
CHECK_DEADLOCK FALSE
