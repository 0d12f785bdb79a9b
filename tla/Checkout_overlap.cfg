SPECIFICATION Spec
CONSTANTS
    r1 = r1  r2 = r2  ann = ann  ben = ben
    p1 = p1  p2 = p2  s1 = s1  s2 = s2
    Reqs = {r1, r2}
    Persons = {ann, ben}
    Guests = {ann}
    Shopper <- DeviceOf
    Products = {p1}
    Shops = {s1}
    ShopOf <- Catalogue
    UsageLimit = 1
    TotalLimit = 1
    FirstOnly = FALSE
    MaxStock = 1
    MaxLines = 2
    MaxGroups = 2
    MaxReturns = 2
    MaxUpdates = 2
INVARIANTS LineOrderedOnce  ReturnedOnce StockAndCouponAddUp
