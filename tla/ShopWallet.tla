----------------------------- MODULE ShopWallet -----------------------------
(***************************************************************************)
(* The wallet of one customer of the shop: the balance on the customer's   *)
(* row, the statement in ecommerce_wallet_transactions, the top-ups paid   *)
(* through Pesapal, and the checkouts paid from the wallet with the        *)
(* refunds of their cancellation.                                          *)
(*                                                                         *)
(* Every movement goes through _apply_transaction, which reads the balance *)
(* without a lock, computes the new one and writes it back as a value: a   *)
(* request BEGINS by loading its rows and COMMITS by writing them, and     *)
(* between the two other requests may commit.  A top-up and a cancellation *)
(* load the balance in a step of their own, after the payment request or   *)
(* the orders (LoadBalance): a top-up has waited for Pesapal's answer      *)
(* between the two.  A checkout carries the balance its authentication     *)
(* loaded, because the session hands out the row it already has.           *)
(*                                                                         *)
(* Left out: checkouts of amount zero, stock, and the payment of an order  *)
(* through Pesapal (create_payment_request raises before it inserts).      *)
(***************************************************************************)
EXTENDS Integers, Sequences, FiniteSets

CONSTANTS
    CustomerReqs,   \* request slots of the customer's devices
    GatewayReqs,    \* request slots of Pesapal: callback redirects and IPNs
    AdminReqs,      \* request slots of the shop's admins
    Solo,           \* the slots whose requests do not overlap each other
    Amounts,        \* amounts of top-ups, credits and checkouts
    CartShops,      \* how many shops a checkout may span
    MaxTopUps,      \* bound: rows of ecommerce_payment_requests
    MaxRows         \* bound: rows of ecommerce_wallet_transactions

Reqs == CustomerReqs \cup GatewayReqs \cup AdminReqs

ASSUME AmountAssumption == Amounts \subseteq Nat \ {0}
ASSUME CartAssumption == CartShops \subseteq Nat \ {0}
ASSUME BoundsAssumption == MaxTopUps \in Nat /\ MaxRows \in Nat

VARIABLES
    balance,    \* customer_accounts.wallet_balance
    ledger,     \* the rows of ecommerce_wallet_transactions
    topups,     \* the payment requests of purpose WALLET_TOPUP
    orders,     \* one row per checkout: the orders of an order_group_id
    tx          \* what the request in each slot has loaded

vars == <<balance, ledger, topups, orders, tx>>

-----------------------------------------------------------------------------
Kinds == {"ADD_FUND", "ADD_FUND_BY_ADMIN", "ORDER_PLACE", "ORDER_REFUND"}

(* CONFIRMED stands for the statuses cancel_order accepts, PROCESSING for  *)
(* those it refuses.                                                       *)
OrderStatus == {"CONFIRMED", "PROCESSING", "CANCELED"}

PaymentStatus == {"PAID", "REFUNDED"}

(* `of' names the top-up or the checkout the row is about; 0 if none.      *)
LedgerRow == [kind : Kinds, amount : Nat, after : Nat, of : Nat]

TopUpRow == [amount : Amounts, paid : BOOLEAN]

(* Every order of a group carries the total of the group as its            *)
(* paid_amount; status is that of each order.                              *)
GroupRow == [total : Nat \ {0}, payment : PaymentStatus,
             status : Seq(OrderStatus)]

Idle == [op |-> "idle"]

Tx == [op : {"idle"}]
      \cup [op : {"ask"}, t : Nat, amount : Amounts]
      \cup [op : {"cancel"}, g : Nat, refund : Nat, status : Seq(OrderStatus)]
      \cup [op : Kinds, balance : Nat, amount : Nat \ {0}, of : Nat,
            status : Seq(OrderStatus)]

(* The type invariant.  That the balance is a Nat is the shop's promise    *)
(* that a wallet is never overdrawn, whatever overlaps.                    *)
TypeOK ==
    /\ balance \in Nat
    /\ ledger \in Seq(LedgerRow)
    /\ topups \in Seq(TopUpRow)
    /\ orders \in Seq(GroupRow)
    /\ tx \in [Reqs -> Tx]

-----------------------------------------------------------------------------
Busy(r) == tx[r].op # "idle"

MayStart(r) ==
    /\ ~Busy(r)
    /\ r \in Solo => \A o \in Solo : ~Busy(o)

RoomForRow ==
    Len(ledger) + Cardinality({r \in Reqs : Busy(r)}) < MaxRows

Hold(r, load) ==
    /\ tx' = [tx EXCEPT ![r] = load]
    /\ UNCHANGED <<balance, ledger, topups, orders>>

Begin(r, load) == MayStart(r) /\ RoomForRow /\ Hold(r, load)

(* The column after a flush: untouched when the handler left it as loaded. *)
Written(loaded, new, current) == IF new = loaded THEN current ELSE new

Init ==
    /\ balance = 0
    /\ ledger = <<>> /\ topups = <<>> /\ orders = <<>>
    /\ tx = [r \in Reqs |-> Idle]

-----------------------------------------------------------------------------
(* _apply_transaction.                                                     *)

Movement(kind, loaded, amount, of, status) ==
    [op |-> kind, balance |-> loaded, amount |-> amount, of |-> of,
     status |-> status]

NewBalance(load) ==
    IF load.op = "ORDER_PLACE" THEN load.balance - load.amount
                               ELSE load.balance + load.amount

\* mutant: the statement shows the balance before the movement
Apply_BalanceBefore(load, of) ==
    /\ NewBalance(load) >= 0
    /\ balance' = Written(load.balance, NewBalance(load), balance)
    /\ ledger' = Append(ledger, [kind |-> load.op, amount |-> load.amount,
                                 after |-> load.balance, of |-> of])

Apply(load, of) ==
    /\ NewBalance(load) >= 0
    /\ balance' = Written(load.balance, NewBalance(load), balance)
    /\ ledger' = Append(ledger, [kind |-> load.op, amount |-> load.amount,
                                 after |-> NewBalance(load), of |-> of])

End(r) == tx' = [tx EXCEPT ![r] = Idle]

-----------------------------------------------------------------------------
(* Admin credit: /wallet/credit.                                           *)
BeginCredit(r) ==
    /\ r \in AdminReqs
    /\ \E amount \in Amounts :
          Begin(r, Movement("ADD_FUND_BY_ADMIN", balance, amount, 0, <<>>))

CommitCredit(r) ==
    /\ tx[r].op = "ADD_FUND_BY_ADMIN"
    /\ Apply(tx[r], 0)
    /\ End(r)
    /\ UNCHANGED <<topups, orders>>

-----------------------------------------------------------------------------
(* Top-ups.  create_add_fund_request inserts a row and commits.            *)
CreateTopUp(r) ==
    /\ r \in CustomerReqs
    /\ MayStart(r)
    /\ Len(topups) < MaxTopUps
    /\ \E amount \in Amounts :
          topups' = Append(topups, [amount |-> amount, paid |-> FALSE])
    /\ UNCHANGED <<balance, ledger, orders, tx>>

\* mutant: the callback relies on Pesapal to report a payment once
BeginTopUp_Trusting(r) ==
    /\ r \in GatewayReqs
    /\ \E t \in DOMAIN topups :
          Begin(r, [op |-> "ask", t |-> t, amount |-> topups[t].amount])

(* pesapal_callback and pesapal_ipn load the payment request; a paid one   *)
(* is answered at once; for another Pesapal is asked.                      *)
BeginTopUp(r) ==
    /\ r \in GatewayReqs
    /\ \E t \in DOMAIN topups :
          /\ ~topups[t].paid
          /\ Begin(r, [op |-> "ask", t |-> t, amount |-> topups[t].amount])

(* Pesapal answered that the payment is complete: credit_add_fund reads    *)
(* the balance.  The payment request is not read again.                    *)
LoadBalanceForTopUp(r) ==
    /\ tx[r].op = "ask"
    /\ Hold(r, Movement("ADD_FUND", balance, tx[r].amount, tx[r].t, <<>>))

\* mutant: fulfill_topup forgets to mark the request paid
CommitTopUp_NotMarked(r) ==
    /\ tx[r].op = "ADD_FUND"
    /\ Apply(tx[r], tx[r].of)
    /\ End(r)
    /\ UNCHANGED <<topups, orders>>

CommitTopUp(r) ==
    /\ tx[r].op = "ADD_FUND"
    /\ Apply(tx[r], tx[r].of)
    /\ topups' = [topups EXCEPT ![tx[r].of].paid = TRUE]
    /\ End(r)
    /\ UNCHANGED orders

-----------------------------------------------------------------------------
(* place_wallet_order: one order per shop of the cart, one debit.          *)
BeginOrder(r) ==
    /\ r \in CustomerReqs
    /\ \E total \in Amounts, shops \in CartShops :
          /\ balance >= total
          /\ Begin(r, Movement("ORDER_PLACE", balance, total, 0,
                               [i \in 1 .. shops |-> "CONFIRMED"]))

CommitOrder(r) ==
    /\ tx[r].op = "ORDER_PLACE"
    /\ Apply(tx[r], Len(orders) + 1)
    /\ orders' = Append(orders, [total   |-> tx[r].amount,
                                 payment |-> "PAID",
                                 status  |-> tx[r].status])
    /\ End(r)
    /\ UNCHANGED topups

(* A seller moves an order of his shop to any status but CANCELED,         *)
(* a canceled order included; an admin to any.                             *)
SetStatus(r) ==
    /\ r \in AdminReqs
    /\ MayStart(r)
    /\ \E g \in DOMAIN orders : \E i \in DOMAIN orders[g].status, s \in OrderStatus :
          orders' = [orders EXCEPT ![g].status[i] = s]
    /\ UNCHANGED <<balance, ledger, topups, tx>>

\* mutant: every cancellation refunds, whatever the payment status
RefundOf_Always(row) == Len(row.status) * row.total

(* cancel_order adds up paid_amount over the orders of the group that are  *)
(* PAID; each carries the total of the whole group.                        *)
RefundOf(row) ==
    IF row.payment = "PAID" THEN Len(row.status) * row.total ELSE 0

(* cancel_order: the order the customer names decides for its group.       *)
BeginCancel(r) ==
    /\ r \in CustomerReqs
    /\ \E g \in DOMAIN orders :
          /\ \E i \in DOMAIN orders[g].status : orders[g].status[i] = "CONFIRMED"
          /\ Begin(r, [op |-> "cancel", g |-> g, refund |-> RefundOf(orders[g]),
                       status |-> orders[g].status])

LoadBalanceForRefund(r) ==
    /\ tx[r].op = "cancel"
    /\ tx[r].refund > 0
    /\ Hold(r, Movement("ORDER_REFUND", balance, tx[r].refund, tx[r].g,
                        tx[r].status))

AllCanceled(loaded, current) ==
    [i \in DOMAIN current |-> Written(loaded[i], "CANCELED", current[i])]

CommitRefund(r) ==
    /\ tx[r].op = "ORDER_REFUND"
    /\ Apply(tx[r], tx[r].of)
    /\ orders' = [orders EXCEPT
                    ![tx[r].of].payment = "REFUNDED",
                    ![tx[r].of].status =
                        AllCanceled(tx[r].status, orders[tx[r].of].status)]
    /\ End(r)
    /\ UNCHANGED topups

(* Nothing to refund: the orders were refunded before and revived.         *)
CommitCancel(r) ==
    /\ tx[r].op = "cancel"
    /\ tx[r].refund = 0
    /\ orders' = [orders EXCEPT ![tx[r].g].status =
                      AllCanceled(tx[r].status, orders[tx[r].g].status)]
    /\ End(r)
    /\ UNCHANGED <<balance, ledger, topups>>

-----------------------------------------------------------------------------
(* A request that ends without writing: an exception rolled it back, or    *)
(* Pesapal answered that the payment is not complete.                      *)
Abandon(r) == Busy(r) /\ Hold(r, Idle)

Next ==
    \E r \in Reqs :
        \/ BeginCredit(r)
        \/ CommitCredit(r)
        \/ CreateTopUp(r)
        \/ BeginTopUp(r)
        \/ LoadBalanceForTopUp(r)
        \/ CommitTopUp(r)
        \/ BeginOrder(r)
        \/ CommitOrder(r)
        \/ SetStatus(r)
        \/ BeginCancel(r)
        \/ LoadBalanceForRefund(r)
        \/ CommitRefund(r)
        \/ CommitCancel(r)
        \/ Abandon(r)

Spec == Init /\ [][Next]_vars

-----------------------------------------------------------------------------
(* Whatever overlaps.                                                      *)

(* The balance the customer is shown is the one the last row of the        *)
(* statement ends with: whoever writes the balance writes the row.         *)
StatementEndsAtBalance ==
    balance = IF ledger = <<>> THEN 0 ELSE ledger[Len(ledger)].after

RowsOf(kind, of) ==
    {i \in DOMAIN ledger : ledger[i].kind = kind /\ ledger[i].of = of}

(* A top-up is marked paid exactly when the statement has its credit, of   *)
(* its amount: no money without the mark, no mark without the money.       *)
CreditedIffPaid ==
    \A t \in DOMAIN topups :
        /\ topups[t].paid <=> RowsOf("ADD_FUND", t) # {}
        /\ \A i \in RowsOf("ADD_FUND", t) : ledger[i].amount = topups[t].amount

(* When the requests on a wallet take turns.                               *)
TakeTurns == Reqs \subseteq Solo

OnceEach(kind) ==
    \A i, j \in DOMAIN ledger :
        ledger[i].kind = kind /\ ledger[j].kind = kind
          /\ ledger[i].of = ledger[j].of => i = j

(* "Pesapal IPN / notification endpoint (idempotent)": however often the   *)
(* callback and the IPN report a payment, it is credited once.             *)
TopUpOnce == OnceEach("ADD_FUND")

(* Every row of the statement continues from the row before it.            *)
Moved(row, before) ==
    IF row.kind = "ORDER_PLACE" THEN before - row.amount ELSE before + row.amount

StatementAddsUp ==
    \A i \in DOMAIN ledger :
        ledger[i].after = Moved(ledger[i], IF i = 1 THEN 0 ELSE ledger[i - 1].after)

(* A checkout is refunded once at most, even when the shop revived it and  *)
(* the customer canceled it again.                                         *)
RefundedOnce == OnceEach("ORDER_REFUND")

(* A refund is what was debited for the checkout, if carts span one shop.  *)
RefundIsWhatWasPaid ==
    \A i \in DOMAIN ledger :
        ledger[i].kind = "ORDER_REFUND" =>
            \E j \in RowsOf("ORDER_PLACE", ledger[i].of) :
                j < i /\ ledger[j].amount = ledger[i].amount

(* The named parts together: what the runs check.                          *)

(* The wallet is not overdrawn, its statement ends at its balance, and the *)
(* top-ups marked paid are those credited.                                 *)
WalletConsistent ==
    /\ TypeOK
    /\ StatementEndsAtBalance
    /\ CreditedIffPaid

(* A checkout is refunded once, and with what was paid for it.             *)
RefundsSound ==
    /\ RefundedOnce
    /\ RefundIsWhatWasPaid
=============================================================================
