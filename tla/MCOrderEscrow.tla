---------------------------- MODULE MCOrderEscrow ----------------------------
(* Request slots of OrderEscrow for TLC.                                     *)
EXTENDS OrderEscrow

CONSTANTS b1, g1, g2, p1, a1, a2

TakingTurns == Reqs

Overlapping == {}

=============================================================================
