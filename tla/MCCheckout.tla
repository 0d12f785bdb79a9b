----------------------------- MODULE MCCheckout -----------------------------
(* Two shoppers, each with one device, in shops for TLC.                     *)
EXTENDS Checkout

CONSTANTS r1, r2, ann, ben, p1, p2, s1, s2

DeviceOf == [r \in Reqs |-> IF r = r1 THEN ann ELSE ben]

Catalogue == [p \in Products |-> IF p = p1 THEN s1 ELSE s2]
=============================================================================
