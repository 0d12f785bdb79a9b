------------------------------ MODULE MCAccounts -----------------------------
(* Two request slots for TLC.                                                *)
EXTENDS Accounts, TLC

CONSTANTS r1, r2

Slots == Permutations(Reqs)
=============================================================================
