SPECIFICATION PricingSpec
CONSTANTS
    p1 = p1  p2 = p2  s1 = s1  s2 = s2  None = None
    Products = {p1, p2}
    Shops = {s1, s2}
    ShopOf <- Catalogue
    Offers <- Forms
    Costs = {10}
    DefaultShipping = 50
    TaxRate = 18
    Coupons <- Terms
    MaxQty = 2
    MaxRequests = 7
    MaxUpdates = 1
INVARIANTS ChargedAsShown CouponKeepsTerms 
CHECK_DEADLOCK FALSE
