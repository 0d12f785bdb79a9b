--------------------------- MODULE MCShopCustomers ---------------------------
(* Two customers and two requests at a time, for TLC.                         *)
EXTENDS ShopCustomers, TLC

CONSTANTS r1, r2, c1, c2, s1, s2, a1, a2, h1

Swaps == Permutations(Slots) \cup Permutations(Customers) \cup Permutations(Sellers) \cup Permutations(Places)
=============================================================================
