---------------------------- MODULE MCShopPricing ----------------------------
(* Two shops, one product each, for TLC.                                      *)
EXTENDS ShopPricing

CONSTANTS p1, p2, s1, s2

Catalogue == [p \in Products |-> IF p = p1 THEN s1 ELSE s2]

Forms == {[price |-> 25, discount |-> 15, discountType |-> "percent"],
          [price |-> 8, discount |-> 3, discountType |-> "flat"],
          [price |-> 7, discount |-> 9, discountType |-> "flat"]}

Terms == {[kind |-> "first_order", discountType |-> "percent", discount |-> 30,
           maxDiscount |-> 5, minPurchase |-> 20, shop |-> None, active |-> TRUE],
          [kind |-> "discount_on_purchase", discountType |-> "flat", discount |-> 40,
           maxDiscount |-> None, minPurchase |-> 0, shop |-> None, active |-> TRUE],
          [kind |-> "discount_on_purchase", discountType |-> "percent", discount |-> 33,
           maxDiscount |-> None, minPurchase |-> 5, shop |-> s1, active |-> TRUE],
          [kind |-> "free_delivery", discountType |-> "flat", discount |-> 1,
           maxDiscount |-> None, minPurchase |-> 0, shop |-> None, active |-> TRUE]}
=============================================================================
