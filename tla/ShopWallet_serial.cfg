SPECIFICATION Spec
CONSTANTS
    c1 = c1  c2 = c2  g1 = g1  g2 = g2  a1 = a1
    CustomerReqs = {c1}
    GatewayReqs = {g1}
    AdminReqs = {a1}
    Solo <- TakingTurns
    Amounts = {1, 2}
    CartShops = {1}
    MaxTopUps = 2
    MaxRows = 5
INVARIANTS WalletConsistent TopUpOnce  RefundsSound
CHECK_DEADLOCK FALSE
