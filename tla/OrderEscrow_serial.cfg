SPECIFICATION Spec
CONSTANTS
    b1 = b1  g1 = g1  g2 = g2  p1 = p1  a1 = a1  a2 = a2
    BuyerReqs = {b1}
    GatewayReqs = {}
    PartnerReqs = {p1}
    AdminReqs = {a1}
    Solo <- TakingTurns
    PesapalEnabled = FALSE
    MaxProofs = 2
INVARIANTS  RowsAgree
PROPERTIES StageMovesInOrder
