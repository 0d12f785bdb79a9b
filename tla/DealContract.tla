---------------------------- MODULE DealContract ----------------------------
(***************************************************************************)
(* What one RFQ promises the buyer, with no supplier, admin, row or        *)
(* request in it: MIU makes one offer, the buyer accepts it at the price   *)
(* offered or refuses it, and nothing happens to either answer afterwards. *)
(* QuoteDeal implements it while the staff takes turns.                    *)
(***************************************************************************)
EXTENDS Sequences

CONSTANTS Prices, NoOffer

VARIABLES
    offer,      \* the price offered to the buyer, or NoOffer
    bought,     \* the prices of the orders made
    refused     \* whether the buyer declined the offer

vars == <<offer, bought, refused>>

Init ==
    /\ offer = NoOffer
    /\ bought = << >>
    /\ refused = FALSE

Unanswered == offer # NoOffer /\ bought = << >> /\ ~refused

MakeOffer ==
    /\ offer = NoOffer
    /\ offer' \in Prices
    /\ UNCHANGED <<bought, refused>>

Accept ==
    /\ Unanswered
    /\ bought' = <<offer>>
    /\ UNCHANGED <<offer, refused>>

Refuse ==
    /\ Unanswered
    /\ refused' = TRUE
    /\ UNCHANGED <<offer, bought>>

Next == MakeOffer \/ Accept \/ Refuse

Spec == Init /\ [][Next]_vars

=============================================================================
