SPECIFICATION FairSpec
CONSTANTS
  b1 = b1
  b2 = b2
  p1 = p1
  a1 = a1
  s1 = s1
  s2 = s2
  BuyerReqs = {b1, b2}
  PartnerReqs = {p1}
  AdminReqs = {a1}
  Solo <- StaffAlone
  Suppliers = {s1, s2}
  Prices = {10, 20}
  NoOffer = NoOffer
  MaxQuotes = 2
  MaxOrders = 2
INVARIANTS RfqSound BuyerSeesRelayedPrice
PROPERTIES KeepsContract 
