----------------------------- MODULE MCQuoteDeal -----------------------------
(* Two members of the buyer, a supplier's clerk and an admin, for TLC.       *)
EXTENDS QuoteDeal

CONSTANTS b1, b2, p1, a1, s1, s2

\* The supplier's and the admin's requests do not overlap each other.
StaffAlone == {p1, a1}

=============================================================================
