SPECIFICATION Spec
CONSTANTS
    b1 = b1  g1 = g1  g2 = g2  p1 = p1  a1 = a1  a2 = a2
    BuyerReqs = {}
    GatewayReqs = {g1, g2}
    PartnerReqs = {p1}
    AdminReqs = {a1}
    Solo <- Overlapping
    PesapalEnabled = TRUE
    MaxProofs = 1
INVARIANTS PaymentSound AgreeUnlessResaved
