---------------------------- MODULE MCDealMessages ---------------------------
(* Two request slots for TLC.                                                *)
EXTENDS DealMessages, TLC

CONSTANTS r1, r2

Slots == Permutations(Reqs)
=============================================================================
