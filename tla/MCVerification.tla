---------------------------- MODULE MCVerification ----------------------------
(* Model values for TLC.                                                     *)
EXTENDS Verification, TLC

CONSTANTS s1, s2, a1, business

Slots == Permutations(SupplierReqs)
=============================================================================
