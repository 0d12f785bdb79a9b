SPECIFICATION Spec
CONSTANTS
    s1 = s1  s2 = s2  a1 = a1  business = business
    SupplierReqs = {s1}
    AdminReqs = {a1}
    Sections = {business}
    SitePhotosMax = 2
    MaxRequests = 5
SYMMETRY Slots
INVARIANTS RowsAgree ApprovedFileReviewed DraftKeepsUp TakenDown
CHECK_DEADLOCK FALSE
