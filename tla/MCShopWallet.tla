---------------------------- MODULE MCShopWallet ----------------------------
(* Request slots of ShopWallet for TLC.                                      *)
EXTENDS ShopWallet

CONSTANTS c1, c2, g1, g2, a1

TakingTurns == Reqs

Overlapping == {}
=============================================================================
