SPECIFICATION Spec
CONSTANTS
    r1 = r1  r2 = r2  c1 = c1  c2 = c2  plain = plain  full = full  x = x   b1 = b1
    Reqs = {r1, r2}
    Categories = {c1, c2}
    Contents = {plain, full}
    Complete = {full}
    Names = {x}
    Buyers = {b1}
    NoCategory = NoCategory
    None = None
    MaxRequests = 4
SYMMETRY Slots
INVARIANTS RowsAgree ShownIsApproved NothingDangles
PROPERTIES OnlyAdminsDecide
CHECK_DEADLOCK FALSE
