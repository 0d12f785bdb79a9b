SPECIFICATION Spec
CONSTANTS
    c1 = c1  c2 = c2  g1 = g1  g2 = g2  a1 = a1
    CustomerReqs = {c1}
    GatewayReqs = {g1, g2}
    AdminReqs = {}
    Solo <- Overlapping
    Amounts = {1}
    CartShops = {1}
    MaxTopUps = 1
    MaxRows = 2
INVARIANT TopUpOnce
CHECK_DEADLOCK FALSE
