------------------------------ MODULE MCListings -----------------------------
(* Two request slots for TLC.                                                *)
EXTENDS Listings, TLC

CONSTANTS r1, r2, c1, c2, plain, full, x, b1

Slots == Permutations(Reqs) \cup Permutations(Categories)
=============================================================================
