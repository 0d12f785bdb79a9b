------------------------------ MODULE Shop_proofs ------------------------------
(***************************************************************************)
(* Proofs about the shop: ShopWallet, ShopPricing and ShopCustomers, which *)
(* share no name and which this module extends together.                   *)
(*                                                                         *)
(* The wallet.  The first part holds however the requests overlap; the     *)
(* second assumes that the requests on a wallet take turns.                *)
(*                                                                         *)
(* Sums.  The totals of a checkout and what a product shows of its reviews *)
(* are sums over sets, so the lemmas on such sums come before both.        *)
(*                                                                         *)
(* The prices.  Every rounding is within half a unit, and a bound that     *)
(* holds of each order holds of their sum.                                 *)
(*                                                                         *)
(* The customers.  The invariant has a part for whatever overlaps and one  *)
(* for as long as nothing has.                                             *)
(***************************************************************************)
EXTENDS ShopWallet, ShopPricing, ShopCustomers,
        FiniteSetTheorems, WellFoundedInduction, TLAPS

-----------------------------------------------------------------------------
(* The wallet.                                                             *)

(***************************************************************************)
(* What a request has in hand.                                             *)
(***************************************************************************)
LEMMA SlotAfter ==
    ASSUME TypeOK, NEW r \in Reqs, NEW load, tx' = [tx EXCEPT ![r] = load]
    PROVE  \A o \in Reqs : tx'[o] = IF o = r THEN load ELSE tx[o]
  BY DEF TypeOK

LEMMA HoldType ==
    ASSUME TypeOK, NEW r \in Reqs, NEW load \in Tx, Hold(r, load)
    PROVE  TypeOK'
  BY DEF TypeOK, Hold

LEMMA EndType ==
    ASSUME TypeOK, NEW r \in Reqs, End(r)
    PROVE  tx' \in [Reqs -> Tx]
  <1>1. Idle \in Tx
    BY DEF Idle, Tx
  <1> QED
    BY <1>1 DEF TypeOK, End

LEMMA AskInHand ==
    ASSUME TypeOK, NEW r \in Reqs, tx[r].op = "ask"
    PROVE  tx[r].t \in Nat /\ tx[r].amount \in Amounts
  BY DEF TypeOK, Tx, Kinds

LEMMA CancelInHand ==
    ASSUME TypeOK, NEW r \in Reqs, tx[r].op = "cancel"
    PROVE  tx[r].g \in Nat /\ tx[r].refund \in Nat /\ tx[r].status \in Seq(OrderStatus)
  BY DEF TypeOK, Tx, Kinds

LEMMA MovementInHand ==
    ASSUME TypeOK, NEW r \in Reqs, tx[r].op \in Kinds
    PROVE  /\ tx[r].balance \in Nat /\ tx[r].amount \in Nat \ {0}
           /\ tx[r].of \in Nat /\ tx[r].status \in Seq(OrderStatus)
  BY DEF TypeOK, Tx, Kinds

LEMMA MovementType ==
    ASSUME NEW kind \in Kinds, NEW loaded \in Nat, NEW amount \in Nat \ {0},
           NEW of \in Nat, NEW status \in Seq(OrderStatus)
    PROVE  Movement(kind, loaded, amount, of, status) \in Tx
  BY DEF Movement, Tx

(* A movement in hand, applied: the balance written is the one on the new  *)
(* last row of the statement, and it is not negative.                      *)
LEMMA Applied ==
    ASSUME TypeOK, NEW r \in Reqs, tx[r].op \in Kinds, NEW of \in Nat,
           Apply(tx[r], of)
    PROVE  /\ NewBalance(tx[r]) \in Nat
           /\ balance' = NewBalance(tx[r])
           /\ LET row == [kind |-> tx[r].op, amount |-> tx[r].amount,
                          after |-> NewBalance(tx[r]), of |-> of]
              IN  row \in LedgerRow /\ ledger' = Append(ledger, row)
           /\ ledger' \in Seq(LedgerRow)
  <1>1. NewBalance(tx[r]) \in Nat /\ NewBalance(tx[r]) # tx[r].balance
    <2>1. tx[r].balance \in Nat /\ tx[r].amount \in Nat \ {0}
      BY MovementInHand
    <2>2. NewBalance(tx[r]) >= 0
      BY DEF Apply
    <2>3. \/ NewBalance(tx[r]) = tx[r].balance - tx[r].amount
          \/ NewBalance(tx[r]) = tx[r].balance + tx[r].amount
      BY DEF NewBalance
    <2> QED
      BY <2>1, <2>2, <2>3
  <1>2. balance' = NewBalance(tx[r])
    BY <1>1 DEF Apply, Written
  <1>3. [kind |-> tx[r].op, amount |-> tx[r].amount,
         after |-> NewBalance(tx[r]), of |-> of] \in LedgerRow
    BY <1>1, MovementInHand DEF LedgerRow
  <1>4. ledger' \in Seq(LedgerRow)
    BY <1>3 DEF TypeOK, Apply
  <1> QED
    BY <1>1, <1>2, <1>3, <1>4 DEF Apply

LEMMA AllCanceledType ==
    ASSUME NEW loaded, NEW current \in Seq(OrderStatus)
    PROVE  AllCanceled(loaded, current) \in Seq(OrderStatus)
  <1> DEFINE after == AllCanceled(loaded, current)
  <1>1. after \in [1 .. Len(current) -> OrderStatus]
    BY DEF AllCanceled, Written, OrderStatus
  <1>2. Len(current) \in Nat
    OBVIOUS
  <1> QED
    BY <1>1, <1>2

LEMMA RefundType ==
    ASSUME NEW row \in GroupRow
    PROVE  RefundOf(row) \in Nat
  <1>1. Len(row.status) \in Nat /\ row.total \in Nat
    BY DEF GroupRow
  <1>2. \A m, n \in Nat : m * n \in Nat
    OBVIOUS
  <1> QED
    BY <1>1, <1>2 DEF RefundOf

(* Replacing one row of a table keeps its type; there may be no such row.  *)
LEMMA ReplaceRow ==
    ASSUME NEW Entry, NEW table \in Seq(Entry), NEW k, NEW row,
           k \in DOMAIN table => row \in Entry
    PROVE  [table EXCEPT ![k] = row] \in Seq(Entry)
  <1>1. CASE k \in DOMAIN table
    BY <1>1
  <1>2. CASE k \notin DOMAIN table
    <2>1. [table EXCEPT ![k] = row] = table
      BY <1>2
    <2> QED
      BY <2>1
  <1> QED
    BY <1>1, <1>2

LEMMA MarkPaidType ==
    ASSUME NEW table \in Seq(TopUpRow), NEW t
    PROVE  [table EXCEPT ![t].paid = TRUE] \in Seq(TopUpRow)
  <1> DEFINE paid == [table[t] EXCEPT !.paid = TRUE]
             after == [table EXCEPT ![t] = paid]
  <1>1. t \in DOMAIN table => paid \in TopUpRow
    <2>1. t \in DOMAIN table => table[t] \in TopUpRow
      OBVIOUS
    <2> QED
      BY <2>1 DEF TopUpRow
  <1> HIDE DEF paid
  <1>3. after \in Seq(TopUpRow)
    BY <1>1, ReplaceRow
  <1> QED
    BY <1>3 DEF paid

LEMMA NewStatusType ==
    ASSUME NEW table \in Seq(GroupRow), NEW g, NEW payment \in PaymentStatus,
           NEW status, g \in DOMAIN table => status \in Seq(OrderStatus)
    PROVE  [table EXCEPT ![g].payment = payment, ![g].status = status]
              \in Seq(GroupRow)
  <1> DEFINE row == [table[g] EXCEPT !.payment = payment, !.status = status]
             after == [table EXCEPT ![g] = row]
  <1>1. g \in DOMAIN table => row \in GroupRow
    <2>1. g \in DOMAIN table => table[g] \in GroupRow
      OBVIOUS
    <2> QED
      BY <2>1 DEF GroupRow
  <1> HIDE DEF row
  <1>3. after \in Seq(GroupRow)
    BY <1>1, ReplaceRow
  <1>4. [table EXCEPT ![g].payment = payment, ![g].status = status] = after
    BY DEF row
  <1> QED
    BY <1>3, <1>4

LEMMA OnlyStatusType ==
    ASSUME NEW table \in Seq(GroupRow), NEW g, NEW status,
           g \in DOMAIN table => status \in Seq(OrderStatus)
    PROVE  [table EXCEPT ![g].status = status] \in Seq(GroupRow)
  <1> DEFINE row == [table[g] EXCEPT !.status = status]
             after == [table EXCEPT ![g] = row]
  <1>1. g \in DOMAIN table => row \in GroupRow
    <2>1. g \in DOMAIN table => table[g] \in GroupRow
      OBVIOUS
    <2> QED
      BY <2>1 DEF GroupRow
  <1> HIDE DEF row
  <1>3. after \in Seq(GroupRow)
    BY <1>1, ReplaceRow
  <1> QED
    BY <1>3 DEF row

LEMMA StatusAfterType ==
    ASSUME NEW table \in Seq(GroupRow), NEW g \in DOMAIN table, NEW loaded
    PROVE  AllCanceled(loaded, table[g].status) \in Seq(OrderStatus)
  <1>1. table[g] \in GroupRow
    OBVIOUS
  <1>2. table[g].status \in Seq(OrderStatus)
    BY <1>1 DEF GroupRow
  <1> QED
    BY <1>2, AllCanceledType

-----------------------------------------------------------------------------
(* Type correctness; in particular a wallet is never overdrawn, however    *)
(* checkouts, top-ups, credits and refunds overlap.                        *)
THEOREM TypeCorrect == Spec => []TypeOK
<1>1. Init => TypeOK
  <2> SUFFICES ASSUME Init PROVE TypeOK
    OBVIOUS
  <2>1. Idle \in Tx
    BY DEF Idle, Tx
  <2> QED
    BY <2>1 DEF Init, TypeOK
<1>2. ASSUME TypeOK, [Next]_vars
      PROVE  TypeOK'
  <2>1. ASSUME NEW r \in Reqs, BeginCredit(r)
        PROVE  TypeOK'
    <3>1. PICK amount \in Amounts :
             Hold(r, Movement("ADD_FUND_BY_ADMIN", balance, amount, 0, <<>>))
      BY <2>1 DEF BeginCredit, Begin
    <3>2. Movement("ADD_FUND_BY_ADMIN", balance, amount, 0, <<>>) \in Tx
      <4>1. <<>> \in Seq(OrderStatus) /\ "ADD_FUND_BY_ADMIN" \in Kinds
        BY DEF Kinds
      <4> QED
        BY <1>2, <4>1, MovementType, AmountAssumption DEF TypeOK
    <3> QED
      BY <1>2, <3>1, <3>2, HoldType
  <2>2. ASSUME NEW r \in Reqs, CommitCredit(r)
        PROVE  TypeOK'
    <3>1. tx[r].op \in Kinds
      BY <2>2 DEF CommitCredit, Kinds
    <3>2. balance' \in Nat /\ ledger' \in Seq(LedgerRow)
      BY <1>2, <2>2, <3>1, Applied DEF CommitCredit
    <3>3. tx' \in [Reqs -> Tx]
      BY <1>2, <2>2, EndType DEF CommitCredit
    <3> QED
      BY <1>2, <2>2, <3>2, <3>3 DEF CommitCredit, TypeOK
  <2>3. ASSUME NEW r \in Reqs, CreateTopUp(r)
        PROVE  TypeOK'
    <3>1. PICK amount \in Amounts :
             topups' = Append(topups, [amount |-> amount, paid |-> FALSE])
      BY <2>3 DEF CreateTopUp
    <3>2. [amount |-> amount, paid |-> FALSE] \in TopUpRow
      BY DEF TopUpRow
    <3>3. topups' \in Seq(TopUpRow)
      BY <1>2, <3>1, <3>2 DEF TypeOK
    <3> QED
      BY <1>2, <2>3, <3>3 DEF CreateTopUp, TypeOK
  <2>4. ASSUME NEW r \in Reqs, BeginTopUp(r)
        PROVE  TypeOK'
    <3>1. PICK t \in DOMAIN topups :
             Hold(r, [op |-> "ask", t |-> t, amount |-> topups[t].amount])
      BY <2>4 DEF BeginTopUp, Begin
    <3>2. t \in Nat /\ topups[t].amount \in Amounts
      <4>1. topups \in Seq(TopUpRow)
        BY <1>2 DEF TypeOK
      <4>2. t \in Nat /\ topups[t] \in TopUpRow
        BY <4>1
      <4> QED
        BY <4>2 DEF TopUpRow
    <3>3. [op |-> "ask", t |-> t, amount |-> topups[t].amount] \in Tx
      BY <3>2 DEF Tx
    <3> QED
      BY <1>2, <3>1, <3>3, HoldType
  <2>5. ASSUME NEW r \in Reqs, LoadBalanceForTopUp(r)
        PROVE  TypeOK'
    <3>1. Movement("ADD_FUND", balance, tx[r].amount, tx[r].t, <<>>) \in Tx
      <4>1. <<>> \in Seq(OrderStatus) /\ "ADD_FUND" \in Kinds
        BY DEF Kinds
      <4>2. tx[r].t \in Nat /\ tx[r].amount \in Nat \ {0}
        BY <1>2, <2>5, AskInHand, AmountAssumption DEF LoadBalanceForTopUp
      <4> QED
        BY <1>2, <4>1, <4>2, MovementType DEF TypeOK
    <3> QED
      BY <1>2, <2>5, <3>1, HoldType DEF LoadBalanceForTopUp
  <2>6. ASSUME NEW r \in Reqs, CommitTopUp(r)
        PROVE  TypeOK'
    <3>1. tx[r].op \in Kinds
      BY <2>6 DEF CommitTopUp, Kinds
    <3>2. balance' \in Nat /\ ledger' \in Seq(LedgerRow)
      BY <1>2, <2>6, <3>1, Applied, MovementInHand DEF CommitTopUp
    <3>3. tx' \in [Reqs -> Tx]
      BY <1>2, <2>6, EndType DEF CommitTopUp
    <3>4. topups' \in Seq(TopUpRow)
      BY <1>2, <2>6, MarkPaidType DEF CommitTopUp, TypeOK
    <3> QED
      BY <1>2, <2>6, <3>2, <3>3, <3>4 DEF CommitTopUp, TypeOK
  <2>7. ASSUME NEW r \in Reqs, BeginOrder(r)
        PROVE  TypeOK'
    <3>1. PICK total \in Amounts, shops \in CartShops :
             Hold(r, Movement("ORDER_PLACE", balance, total, 0,
                              [i \in 1 .. shops |-> "CONFIRMED"]))
      BY <2>7 DEF BeginOrder, Begin
    <3>2. [i \in 1 .. shops |-> "CONFIRMED"] \in Seq(OrderStatus)
      BY CartAssumption DEF OrderStatus
    <3>3. Movement("ORDER_PLACE", balance, total, 0,
                   [i \in 1 .. shops |-> "CONFIRMED"]) \in Tx
      BY <1>2, <3>2, MovementType, AmountAssumption DEF TypeOK, Kinds
    <3> QED
      BY <1>2, <3>1, <3>3, HoldType
  <2>8. ASSUME NEW r \in Reqs, CommitOrder(r)
        PROVE  TypeOK'
    <3>1. tx[r].op \in Kinds
      BY <2>8 DEF CommitOrder, Kinds
    <3>2. Len(orders) + 1 \in Nat
      BY <1>2 DEF TypeOK
    <3>3. balance' \in Nat /\ ledger' \in Seq(LedgerRow)
      BY <1>2, <2>8, <3>1, <3>2, Applied DEF CommitOrder
    <3>4. tx' \in [Reqs -> Tx]
      BY <1>2, <2>8, EndType DEF CommitOrder
    <3>5. [total |-> tx[r].amount, payment |-> "PAID", status |-> tx[r].status]
             \in GroupRow
      BY <1>2, <2>8, <3>1, MovementInHand DEF GroupRow, PaymentStatus
    <3>6. orders' \in Seq(GroupRow)
      BY <1>2, <2>8, <3>5 DEF CommitOrder, TypeOK
    <3> QED
      BY <1>2, <2>8, <3>3, <3>4, <3>6 DEF CommitOrder, TypeOK
  <2>9. ASSUME NEW r \in Reqs, SetStatus(r)
        PROVE  TypeOK'
    <3>a. PICK g \in DOMAIN orders :
             \E i \in DOMAIN orders[g].status, s \in OrderStatus :
                orders' = [orders EXCEPT ![g].status[i] = s]
      BY <2>9 DEF SetStatus
    <3>1. PICK i \in DOMAIN orders[g].status, s \in OrderStatus :
             orders' = [orders EXCEPT ![g].status[i] = s]
      BY <3>a
    <3> DEFINE status == [orders[g].status EXCEPT ![i] = s]
    <3>2. orders[g] \in GroupRow
      BY <1>2 DEF TypeOK
    <3>3. orders[g].status \in Seq(OrderStatus)
      BY <3>2 DEF GroupRow
    <3>4. status \in Seq(OrderStatus)
      BY <3>3
    <3>5. orders' = [orders EXCEPT ![g].status = status]
      BY <3>1
    <3> HIDE DEF status
    <3>6. orders' \in Seq(GroupRow)
      BY <1>2, <3>4, <3>5, OnlyStatusType DEF TypeOK
    <3> QED
      BY <1>2, <2>9, <3>6 DEF SetStatus, TypeOK
  <2>10. ASSUME NEW r \in Reqs, BeginCancel(r)
         PROVE  TypeOK'
    <3>1. PICK g \in DOMAIN orders :
             Hold(r, [op |-> "cancel", g |-> g, refund |-> RefundOf(orders[g]),
                      status |-> orders[g].status])
      BY <2>10 DEF BeginCancel, Begin
    <3>2. g \in Nat /\ orders[g] \in GroupRow
      <4>1. orders \in Seq(GroupRow)
        BY <1>2 DEF TypeOK
      <4> QED
        BY <4>1
    <3>3. RefundOf(orders[g]) \in Nat /\ orders[g].status \in Seq(OrderStatus)
      BY <3>2, RefundType DEF GroupRow
    <3>4. [op |-> "cancel", g |-> g, refund |-> RefundOf(orders[g]),
           status |-> orders[g].status] \in Tx
      BY <3>2, <3>3 DEF Tx
    <3> QED
      BY <1>2, <3>1, <3>4, HoldType
  <2>11. ASSUME NEW r \in Reqs, LoadBalanceForRefund(r)
         PROVE  TypeOK'
    <3>1. Movement("ORDER_REFUND", balance, tx[r].refund, tx[r].g, tx[r].status)
             \in Tx
      <4>1. /\ tx[r].g \in Nat /\ tx[r].refund \in Nat \ {0}
            /\ tx[r].status \in Seq(OrderStatus) /\ "ORDER_REFUND" \in Kinds
        BY <1>2, <2>11, CancelInHand DEF LoadBalanceForRefund, Kinds
      <4> QED
        BY <1>2, <4>1, MovementType DEF TypeOK
    <3> QED
      BY <1>2, <2>11, <3>1, HoldType DEF LoadBalanceForRefund
  <2>12. ASSUME NEW r \in Reqs, CommitRefund(r)
         PROVE  TypeOK'
    <3>1. tx[r].op \in Kinds
      BY <2>12 DEF CommitRefund, Kinds
    <3>2. balance' \in Nat /\ ledger' \in Seq(LedgerRow)
      BY <1>2, <2>12, <3>1, Applied, MovementInHand DEF CommitRefund
    <3>3. tx' \in [Reqs -> Tx]
      BY <1>2, <2>12, EndType DEF CommitRefund
    <3> DEFINE g == tx[r].of
               status == AllCanceled(tx[r].status, orders[g].status)
    <3>4. g \in DOMAIN orders => status \in Seq(OrderStatus)
      BY <1>2, StatusAfterType DEF TypeOK
    <3>5. orders' = [orders EXCEPT ![g].payment = "REFUNDED", ![g].status = status]
      BY <2>12 DEF CommitRefund
    <3>6. "REFUNDED" \in PaymentStatus
      BY DEF PaymentStatus
    <3> HIDE DEF g, status
    <3>7. orders' \in Seq(GroupRow)
      BY <1>2, <3>4, <3>5, <3>6, NewStatusType DEF TypeOK
    <3> QED
      BY <1>2, <2>12, <3>2, <3>3, <3>7 DEF CommitRefund, TypeOK
  <2>13. ASSUME NEW r \in Reqs, CommitCancel(r)
         PROVE  TypeOK'
    <3>1. tx' \in [Reqs -> Tx]
      BY <1>2, <2>13, EndType DEF CommitCancel
    <3> DEFINE g == tx[r].g
               status == AllCanceled(tx[r].status, orders[g].status)
    <3>2. g \in DOMAIN orders => status \in Seq(OrderStatus)
      BY <1>2, StatusAfterType DEF TypeOK
    <3>3. orders' = [orders EXCEPT ![g].status = status]
      BY <2>13 DEF CommitCancel
    <3> HIDE DEF g, status
    <3>4. orders' \in Seq(GroupRow)
      BY <1>2, <3>2, <3>3, OnlyStatusType DEF TypeOK
    <3> QED
      BY <1>2, <2>13, <3>1, <3>4 DEF CommitCancel, TypeOK
  <2>14. ASSUME NEW r \in Reqs, Abandon(r)
         PROVE  TypeOK'
    <3>1. Idle \in Tx
      BY DEF Idle, Tx
    <3> QED
      BY <1>2, <2>14, <3>1, HoldType DEF Abandon
  <2>15. CASE UNCHANGED vars
    BY <1>2, <2>15 DEF TypeOK, vars
  <2> QED
    BY <1>2, <2>1, <2>2, <2>3, <2>4, <2>5, <2>6, <2>7, <2>8, <2>9, <2>10,
       <2>11, <2>12, <2>13, <2>14, <2>15 DEF Next
<1> QED
  BY <1>1, <1>2, PTL DEF Spec

-----------------------------------------------------------------------------
(* A step moves money only by committing the movement a request has in     *)
(* hand.                                                                   *)
LEMMA MoneyStep ==
    ASSUME TypeOK, Next
    PROVE  \/ UNCHANGED <<balance, ledger>>
           \/ \E r \in Reqs, of \in Nat :
                 tx[r].op \in Kinds /\ Apply(tx[r], of) /\ End(r)
  <1>1. PICK r \in Reqs :
           \/ BeginCredit(r) \/ CommitCredit(r) \/ CreateTopUp(r) \/ BeginTopUp(r)
           \/ LoadBalanceForTopUp(r) \/ CommitTopUp(r) \/ BeginOrder(r)
           \/ CommitOrder(r) \/ SetStatus(r) \/ BeginCancel(r)
           \/ LoadBalanceForRefund(r) \/ CommitRefund(r) \/ CommitCancel(r)
           \/ Abandon(r)
    BY DEF Next
  <1>2. CASE CommitCredit(r)
    BY <1>2 DEF CommitCredit, Kinds
  <1>3. CASE CommitTopUp(r)
    <2>1. tx[r].op \in Kinds
      BY <1>3 DEF CommitTopUp, Kinds
    <2> QED
      BY <1>3, <2>1, MovementInHand DEF CommitTopUp
  <1>4. CASE CommitOrder(r)
    <2>1. Len(orders) + 1 \in Nat
      BY DEF TypeOK
    <2> QED
      BY <1>4, <2>1 DEF CommitOrder, Kinds
  <1>5. CASE CommitRefund(r)
    <2>1. tx[r].op \in Kinds
      BY <1>5 DEF CommitRefund, Kinds
    <2> QED
      BY <1>5, <2>1, MovementInHand DEF CommitRefund
  <1>6. CASE CreateTopUp(r) \/ SetStatus(r) \/ CommitCancel(r)
    BY <1>6 DEF CreateTopUp, SetStatus, CommitCancel
  <1>7. CASE \/ BeginCredit(r) \/ BeginTopUp(r) \/ LoadBalanceForTopUp(r)
             \/ BeginOrder(r) \/ BeginCancel(r) \/ LoadBalanceForRefund(r)
             \/ Abandon(r)
    BY <1>7 DEF BeginCredit, BeginTopUp, LoadBalanceForTopUp, BeginOrder,
                BeginCancel, LoadBalanceForRefund, Abandon, Begin, Hold
  <1> QED
    BY <1>1, <1>2, <1>3, <1>4, <1>5, <1>6, <1>7

(* The statement ends with the balance the customer is shown, however the  *)
(* movements overlap: the last writer of the balance is the last writer of *)
(* the statement.                                                          *)
THEOREM StatementEnds == Spec => []StatementEndsAtBalance
<1>1. Init => StatementEndsAtBalance
  BY DEF Init, StatementEndsAtBalance
<1>2. ASSUME TypeOK, StatementEndsAtBalance, [Next]_vars
      PROVE  StatementEndsAtBalance'
  <2>1. CASE UNCHANGED <<balance, ledger>>
    BY <1>2, <2>1 DEF StatementEndsAtBalance
  <2>2. ASSUME NEW r \in Reqs, NEW of \in Nat, tx[r].op \in Kinds, Apply(tx[r], of)
        PROVE  StatementEndsAtBalance'
    <3> DEFINE row == [kind |-> tx[r].op, amount |-> tx[r].amount,
                       after |-> NewBalance(tx[r]), of |-> of]
    <3>1. /\ balance' = NewBalance(tx[r]) /\ row \in LedgerRow
          /\ ledger' = Append(ledger, row) /\ ledger \in Seq(LedgerRow)
      BY <1>2, <2>2, Applied DEF TypeOK
    <3>2. row.after = NewBalance(tx[r])
      OBVIOUS
    <3> HIDE DEF row
    <3>3. ledger' # <<>> /\ ledger'[Len(ledger')] = row
      BY <3>1
    <3> QED
      BY <3>1, <3>2, <3>3 DEF StatementEndsAtBalance
  <2> QED
    BY <1>2, <2>1, <2>2, MoneyStep DEF vars
<1> QED
  BY <1>1, <1>2, TypeCorrect, PTL DEF Spec

-----------------------------------------------------------------------------
(* The statement after a movement: one row more, the others as they were.  *)
LEMMA LedgerAfter ==
    ASSUME TypeOK, NEW r \in Reqs, tx[r].op \in Kinds, NEW of \in Nat,
           Apply(tx[r], of)
    PROVE  LET n == Len(ledger) + 1
           IN  /\ n \in Nat \ {0} /\ n \notin DOMAIN ledger
               /\ DOMAIN ledger = 1 .. n - 1
               /\ DOMAIN ledger' = DOMAIN ledger \cup {n}
               /\ \A i \in DOMAIN ledger : ledger'[i] = ledger[i]
               /\ ledger'[n].kind = tx[r].op /\ ledger'[n].amount = tx[r].amount
               /\ ledger'[n].of = of /\ ledger'[n].after = NewBalance(tx[r])
  <1> DEFINE row == [kind |-> tx[r].op, amount |-> tx[r].amount,
                     after |-> NewBalance(tx[r]), of |-> of]
             n == Len(ledger) + 1
  <1>1. /\ row \in LedgerRow /\ ledger' = Append(ledger, row)
        /\ ledger \in Seq(LedgerRow)
    BY Applied DEF TypeOK
  <1>2. /\ row.kind = tx[r].op /\ row.amount = tx[r].amount
        /\ row.of = of /\ row.after = NewBalance(tx[r])
    OBVIOUS
  <1> HIDE DEF row
  <1>3. /\ n \in Nat \ {0} /\ n \notin DOMAIN ledger /\ DOMAIN ledger = 1 .. n - 1
        /\ DOMAIN ledger' = DOMAIN ledger \cup {n}
        /\ \A i \in DOMAIN ledger : ledger'[i] = ledger[i]
        /\ ledger'[n] = row
    BY <1>1
  <1> QED
    BY <1>2, <1>3

-----------------------------------------------------------------------------
(***************************************************************************)
(* A top-up is marked paid exactly when it is on the statement.  A request *)
(* carries the top-up it loaded, by key and by amount, across the wait for *)
(* Pesapal; nothing deletes a top-up or changes its amount meanwhile.      *)
(***************************************************************************)
Credits(t, amount) == t \in DOMAIN topups /\ amount = topups[t].amount

TopUpInHand ==
    \A r \in Reqs :
        /\ tx[r].op = "ask" => Credits(tx[r].t, tx[r].amount)
        /\ tx[r].op = "ADD_FUND" => Credits(tx[r].of, tx[r].amount)

CreditRows ==
    \A i \in DOMAIN ledger :
        ledger[i].kind = "ADD_FUND" =>
            /\ Credits(ledger[i].of, ledger[i].amount)
            /\ topups[ledger[i].of].paid

PaidHasRow ==
    \A t \in DOMAIN topups :
        topups[t].paid =>
            \E i \in DOMAIN ledger : ledger[i].kind = "ADD_FUND" /\ ledger[i].of = t

CreditInv == TopUpInHand /\ CreditRows /\ PaidHasRow

LEMMA CreditInvSuffices == CreditInv => CreditedIffPaid
  BY DEF CreditInv, CreditRows, PaidHasRow, Credits, CreditedIffPaid, RowsOf

(* Top-ups are only added, and only their mark changes.                    *)
TopUpsKept ==
    \A t \in DOMAIN topups :
        /\ t \in DOMAIN topups'
        /\ topups'[t].amount = topups[t].amount
        /\ topups[t].paid => topups'[t].paid

LEMMA TopUpInHandAfter ==
    ASSUME TypeOK, TopUpInHand, TopUpsKept, NEW r \in Reqs, NEW load,
           tx' = [tx EXCEPT ![r] = load],
           load.op = "ask" => Credits(load.t, load.amount),
           load.op = "ADD_FUND" => Credits(load.of, load.amount)
    PROVE  TopUpInHand'
  BY SlotAfter DEF TopUpInHand, TopUpsKept, Credits

(* A step that leaves top-ups and statement alone.                         *)
LEMMA CreditInvAfterLoad ==
    ASSUME TypeOK, CreditInv, UNCHANGED <<topups, ledger>>, NEW r \in Reqs,
           NEW load, tx' = [tx EXCEPT ![r] = load],
           load.op = "ask" => Credits(load.t, load.amount),
           load.op = "ADD_FUND" => Credits(load.of, load.amount)
    PROVE  CreditInv'
  <1>1. TopUpsKept
    BY DEF TopUpsKept
  <1>2. TopUpInHand'
    BY <1>1, TopUpInHandAfter DEF CreditInv
  <1>3. CreditRows' /\ PaidHasRow'
    BY DEF CreditInv, CreditRows, PaidHasRow, Credits
  <1> QED
    BY <1>2, <1>3 DEF CreditInv

(* A movement that is not the credit of a top-up.                          *)
LEMMA CreditInvAfterMovement ==
    ASSUME TypeOK, CreditInv, UNCHANGED topups, NEW r \in Reqs, NEW of \in Nat,
           tx[r].op \in Kinds, tx[r].op # "ADD_FUND", Apply(tx[r], of), End(r)
    PROVE  CreditInv'
  <1>1. TopUpsKept
    BY DEF TopUpsKept
  <1>2. TopUpInHand'
    BY <1>1, TopUpInHandAfter DEF CreditInv, End, Idle
  <1>3. CreditRows' /\ PaidHasRow'
    BY LedgerAfter DEF CreditInv, CreditRows, PaidHasRow, Credits
  <1> QED
    BY <1>2, <1>3 DEF CreditInv

THEOREM Credited == Spec => []CreditedIffPaid
<1>1. Init => CreditInv
  BY DEF Init, CreditInv, TopUpInHand, CreditRows, PaidHasRow, Idle
<1>2. ASSUME TypeOK, CreditInv, [Next]_vars
      PROVE  CreditInv'
  <2>1. ASSUME NEW r \in Reqs, BeginCredit(r)
        PROVE  CreditInv'
    BY <1>2, <2>1, CreditInvAfterLoad DEF BeginCredit, Begin, Hold, Movement
  <2>2. ASSUME NEW r \in Reqs, CommitCredit(r)
        PROVE  CreditInv'
    BY <1>2, <2>2, CreditInvAfterMovement DEF CommitCredit, Kinds
  <2>3. ASSUME NEW r \in Reqs, CreateTopUp(r)
        PROVE  CreditInv'
    <3>1. PICK amount \in Amounts :
             topups' = Append(topups, [amount |-> amount, paid |-> FALSE])
      BY <2>3 DEF CreateTopUp
    <3> DEFINE n == Len(topups) + 1
    <3>2. /\ DOMAIN topups' = DOMAIN topups \cup {n}
          /\ \A t \in DOMAIN topups : topups'[t] = topups[t]
          /\ topups'[n].paid = FALSE
      BY <1>2, <3>1 DEF TypeOK
    <3>3. UNCHANGED <<ledger, tx>>
      BY <2>3 DEF CreateTopUp
    <3> HIDE DEF n
    <3> QED
      BY <1>2, <3>2, <3>3
         DEF CreditInv, TopUpInHand, CreditRows, PaidHasRow, Credits
  <2>4. ASSUME NEW r \in Reqs, BeginTopUp(r)
        PROVE  CreditInv'
    <3>1. PICK t \in DOMAIN topups :
             Hold(r, [op |-> "ask", t |-> t, amount |-> topups[t].amount])
      BY <2>4 DEF BeginTopUp, Begin
    <3> QED
      BY <1>2, <3>1, CreditInvAfterLoad DEF Hold, Credits
  <2>5. ASSUME NEW r \in Reqs, LoadBalanceForTopUp(r)
        PROVE  CreditInv'
    <3>1. Credits(tx[r].t, tx[r].amount)
      BY <1>2, <2>5 DEF LoadBalanceForTopUp, CreditInv, TopUpInHand
    <3> QED
      BY <1>2, <2>5, <3>1, CreditInvAfterLoad
         DEF LoadBalanceForTopUp, Hold, Movement
  <2>6. ASSUME NEW r \in Reqs, CommitTopUp(r)
        PROVE  CreditInv'
    <3> DEFINE t == tx[r].of
               n == Len(ledger) + 1
    <3>1. tx[r].op \in Kinds /\ tx[r].op = "ADD_FUND"
      BY <2>6 DEF CommitTopUp, Kinds
    <3>2. Credits(t, tx[r].amount) /\ t \in Nat
      BY <1>2, <3>1, MovementInHand DEF CreditInv, TopUpInHand
    <3>3. /\ DOMAIN topups' = DOMAIN topups
          /\ \A u \in DOMAIN topups :
                /\ topups'[u].amount = topups[u].amount
                /\ topups'[u].paid <=> (u = t \/ topups[u].paid)
      <4>1. /\ topups \in Seq(TopUpRow)
            /\ topups' = [topups EXCEPT ![t].paid = TRUE]
        BY <1>2, <2>6 DEF TypeOK, CommitTopUp
      <4>2. \A u \in DOMAIN topups : topups[u] \in TopUpRow
        BY <4>1
      <4>3. \A u \in DOMAIN topups :
               topups'[u] = IF u = t THEN [topups[t] EXCEPT !.paid = TRUE]
                                     ELSE topups[u]
        BY <4>1
      <4> QED
        BY <4>1, <4>2, <4>3 DEF TopUpRow
    <3>4. TopUpsKept
      BY <3>3 DEF TopUpsKept
    <3>5. TopUpInHand'
      BY <1>2, <2>6, <3>4, TopUpInHandAfter DEF CreditInv, CommitTopUp, End, Idle
    <3>6. /\ DOMAIN ledger' = DOMAIN ledger \cup {n}
          /\ \A i \in DOMAIN ledger : ledger'[i] = ledger[i]
          /\ ledger'[n].kind = "ADD_FUND" /\ ledger'[n].of = t
          /\ ledger'[n].amount = tx[r].amount
      BY <1>2, <2>6, <3>1, <3>2, LedgerAfter DEF CommitTopUp
    <3> HIDE DEF t, n
    <3>7. CreditRows'
      BY <1>2, <3>2, <3>3, <3>6 DEF CreditInv, CreditRows, Credits
    <3>8. PaidHasRow'
      BY <1>2, <3>3, <3>6 DEF CreditInv, PaidHasRow
    <3> QED
      BY <3>5, <3>7, <3>8 DEF CreditInv
  <2>7. ASSUME NEW r \in Reqs, BeginOrder(r)
        PROVE  CreditInv'
    BY <1>2, <2>7, CreditInvAfterLoad DEF BeginOrder, Begin, Hold, Movement
  <2>8. ASSUME NEW r \in Reqs, CommitOrder(r)
        PROVE  CreditInv'
    <3>1. Len(orders) + 1 \in Nat
      BY <1>2 DEF TypeOK
    <3> QED
      BY <1>2, <2>8, <3>1, CreditInvAfterMovement DEF CommitOrder, Kinds
  <2>9. ASSUME NEW r \in Reqs, SetStatus(r)
        PROVE  CreditInv'
    BY <1>2, <2>9
       DEF SetStatus, CreditInv, TopUpInHand, CreditRows, PaidHasRow, Credits
  <2>10. ASSUME NEW r \in Reqs, BeginCancel(r)
         PROVE  CreditInv'
    BY <1>2, <2>10, CreditInvAfterLoad DEF BeginCancel, Begin, Hold
  <2>11. ASSUME NEW r \in Reqs, LoadBalanceForRefund(r)
         PROVE  CreditInv'
    BY <1>2, <2>11, CreditInvAfterLoad DEF LoadBalanceForRefund, Hold, Movement
  <2>12. ASSUME NEW r \in Reqs, CommitRefund(r)
         PROVE  CreditInv'
    <3>1. tx[r].op \in Kinds
      BY <2>12 DEF CommitRefund, Kinds
    <3> QED
      BY <1>2, <2>12, <3>1, MovementInHand, CreditInvAfterMovement
         DEF CommitRefund
  <2>13. ASSUME NEW r \in Reqs, CommitCancel(r)
         PROVE  CreditInv'
    BY <1>2, <2>13, CreditInvAfterLoad DEF CommitCancel, End, Idle
  <2>14. ASSUME NEW r \in Reqs, Abandon(r)
         PROVE  CreditInv'
    BY <1>2, <2>14, CreditInvAfterLoad DEF Abandon, Hold, Idle
  <2>15. CASE UNCHANGED vars
    BY <1>2, <2>15
       DEF vars, CreditInv, TopUpInHand, CreditRows, PaidHasRow, Credits
  <2> QED
    BY <1>2, <2>1, <2>2, <2>3, <2>4, <2>5, <2>6, <2>7, <2>8, <2>9, <2>10,
       <2>11, <2>12, <2>13, <2>14, <2>15 DEF Next
<1> QED
  BY <1>1, <1>2, TypeCorrect, CreditInvSuffices, PTL DEF Spec

-----------------------------------------------------------------------------
(***************************************************************************)
(* A refund is what was debited, if carts span one shop: a checkout's      *)
(* total is written once, with its debit, and the refund a request has in  *)
(* hand is that total whatever happened since it was computed.             *)
(***************************************************************************)
GroupPlaced(g) ==
    /\ g \in DOMAIN orders
    /\ Len(orders[g].status) = 1
    /\ \E j \in DOMAIN ledger :
          /\ ledger[j].kind = "ORDER_PLACE" /\ ledger[j].of = g
          /\ ledger[j].amount = orders[g].total

GroupsDebited == \A g \in DOMAIN orders : GroupPlaced(g)

Refunds(g, amount) == g \in DOMAIN orders /\ amount = orders[g].total

RefundInHand ==
    \A r \in Reqs :
        /\ tx[r].op = "cancel" /\ tx[r].refund > 0 => Refunds(tx[r].g, tx[r].refund)
        /\ tx[r].op = "ORDER_REFUND" => Refunds(tx[r].of, tx[r].amount)
        /\ tx[r].op = "ORDER_PLACE" => Len(tx[r].status) = 1

RefundInv == GroupsDebited /\ RefundInHand /\ RefundIsWhatWasPaid

(* Checkouts are only added; their totals and their orders stay.           *)
GroupsKept ==
    \A g \in DOMAIN orders :
        /\ g \in DOMAIN orders'
        /\ orders'[g].total = orders[g].total
        /\ Len(orders'[g].status) = Len(orders[g].status)

LEMMA GroupsAfterUpdate ==
    ASSUME TypeOK, NEW g, NEW payment, NEW status,
           g \in DOMAIN orders => Len(status) = Len(orders[g].status),
           \/ orders' = [orders EXCEPT ![g].status = status]
           \/ orders' = [orders EXCEPT ![g].payment = payment, ![g].status = status]
    PROVE  GroupsKept /\ DOMAIN orders' = DOMAIN orders
  <1>1. orders \in Seq(GroupRow)
    BY DEF TypeOK
  <1>2. \A h \in DOMAIN orders : orders[h] \in GroupRow
    BY <1>1
  <1>3. DOMAIN orders' = DOMAIN orders
    BY <1>1
  <1>4. ASSUME NEW h \in DOMAIN orders
        PROVE  /\ orders'[h].total = orders[h].total
               /\ Len(orders'[h].status) = Len(orders[h].status)
    <2>1. CASE h = g
      <3>1. \/ orders'[h] = [orders[g] EXCEPT !.status = status]
            \/ orders'[h] = [orders[g] EXCEPT !.payment = payment, !.status = status]
        BY <1>1, <2>1
      <3>2. orders'[h].total = orders[g].total /\ orders'[h].status = status
        BY <1>2, <2>1, <3>1 DEF GroupRow
      <3> QED
        BY <2>1, <3>2
    <2>2. CASE h # g
      BY <1>1, <2>2
    <2> QED
      BY <2>1, <2>2
  <1> QED
    BY <1>3, <1>4 DEF GroupsKept

LEMMA AllCanceledLength ==
    ASSUME NEW loaded, NEW current \in Seq(OrderStatus)
    PROVE  Len(AllCanceled(loaded, current)) = Len(current)
  <1>1. AllCanceled(loaded, current) \in Seq(OrderStatus)
    BY AllCanceledType
  <1>2. DOMAIN AllCanceled(loaded, current) = 1 .. Len(current)
    BY DEF AllCanceled
  <1> QED
    BY <1>1, <1>2

LEMMA RefundInHandAfter ==
    ASSUME TypeOK, RefundInHand, GroupsKept, NEW r \in Reqs, NEW load,
           tx' = [tx EXCEPT ![r] = load],
           load.op = "cancel" /\ load.refund > 0 => Refunds(load.g, load.refund),
           load.op = "ORDER_REFUND" => Refunds(load.of, load.amount),
           load.op = "ORDER_PLACE" => Len(load.status) = 1
    PROVE  RefundInHand'
  BY SlotAfter DEF RefundInHand, GroupsKept, Refunds

(* A step that only loads, or only touches the statuses of a checkout.     *)
LEMMA RefundInvAfterLoad ==
    ASSUME TypeOK, RefundInv, UNCHANGED ledger, GroupsKept,
           DOMAIN orders' = DOMAIN orders, NEW r \in Reqs,
           NEW load, tx' = [tx EXCEPT ![r] = load],
           load.op = "cancel" /\ load.refund > 0 => Refunds(load.g, load.refund),
           load.op = "ORDER_REFUND" => Refunds(load.of, load.amount),
           load.op = "ORDER_PLACE" => Len(load.status) = 1
    PROVE  RefundInv'
  <1>1. RefundInHand'
    BY RefundInHandAfter DEF RefundInv
  <1>2. GroupsDebited'
    BY DEF RefundInv, GroupsDebited, GroupsKept, GroupPlaced
  <1>3. RefundIsWhatWasPaid'
    BY DEF RefundInv, RefundIsWhatWasPaid, RowsOf
  <1> QED
    BY <1>1, <1>2, <1>3 DEF RefundInv

LEMMA GroupsUntouched ==
    ASSUME UNCHANGED orders
    PROVE  GroupsKept /\ DOMAIN orders' = DOMAIN orders
  BY DEF GroupsKept

(* A movement other than a debit; a refund is that of a placed checkout.   *)
LEMMA RefundInvAfterMovement ==
    ASSUME TypeOK, RefundInv, GroupsKept, DOMAIN orders' = DOMAIN orders,
           NEW r \in Reqs, NEW of \in Nat, tx[r].op \in Kinds,
           tx[r].op = "ORDER_REFUND" => of = tx[r].of, Apply(tx[r], of), End(r)
    PROVE  RefundInv'
  <1> DEFINE n == Len(ledger) + 1
  <1>1. /\ n \in Nat /\ DOMAIN ledger = 1 .. n - 1
        /\ DOMAIN ledger' = DOMAIN ledger \cup {n}
        /\ \A i \in DOMAIN ledger : ledger'[i] = ledger[i]
        /\ ledger'[n].kind = tx[r].op /\ ledger'[n].amount = tx[r].amount
        /\ ledger'[n].of = of
    BY LedgerAfter
  <1> HIDE DEF n
  <1>2. RefundInHand'
    BY RefundInHandAfter DEF RefundInv, End, Idle
  <1>3. GroupsDebited'
    BY <1>1 DEF RefundInv, GroupsDebited, GroupsKept, GroupPlaced
  <1>4. RefundIsWhatWasPaid'
    <2> SUFFICES ASSUME NEW i \in DOMAIN ledger', ledger'[i].kind = "ORDER_REFUND"
                 PROVE  \E j \in DOMAIN ledger' :
                           /\ ledger'[j].kind = "ORDER_PLACE"
                           /\ ledger'[j].of = ledger'[i].of
                           /\ j < i /\ ledger'[j].amount = ledger'[i].amount
      BY DEF RefundIsWhatWasPaid, RowsOf
    <2>1. CASE i \in DOMAIN ledger
      <3>1. PICK j \in DOMAIN ledger :
               /\ ledger[j].kind = "ORDER_PLACE" /\ ledger[j].of = ledger[i].of
               /\ j < i /\ ledger[j].amount = ledger[i].amount
        BY <1>1, <2>1 DEF RefundInv, RefundIsWhatWasPaid, RowsOf
      <3> QED
        BY <1>1, <2>1, <3>1
    <2>2. CASE i = n
      <3>1. tx[r].op = "ORDER_REFUND" /\ of = tx[r].of
        BY <1>1, <2>2
      <3>2. Refunds(of, tx[r].amount)
        BY <3>1 DEF RefundInv, RefundInHand
      <3>3. PICK j \in DOMAIN ledger :
               /\ ledger[j].kind = "ORDER_PLACE" /\ ledger[j].of = of
               /\ ledger[j].amount = tx[r].amount
        BY <3>2 DEF Refunds, RefundInv, GroupsDebited, GroupPlaced
      <3> QED
        BY <1>1, <2>2, <3>3
    <2> QED
      BY <1>1, <2>1, <2>2
  <1> QED
    BY <1>2, <1>3, <1>4 DEF RefundInv

(* When every cart is of one shop, a refund is what was debited for the    *)
(* checkout, however requests overlap.                                     *)
THEOREM RefundsAreExact ==
    ASSUME CartShops = {1}
    PROVE  Spec => []RefundIsWhatWasPaid
<1>1. Init => RefundInv
  BY DEF Init, RefundInv, GroupsDebited, RefundInHand, RefundIsWhatWasPaid, Idle
<1>2. ASSUME TypeOK, RefundInv, [Next]_vars
      PROVE  RefundInv'
  <2>1. ASSUME NEW r \in Reqs, BeginCredit(r)
        PROVE  RefundInv'
    BY <1>2, <2>1, RefundInvAfterLoad, GroupsUntouched
       DEF BeginCredit, Begin, Hold, Movement
  <2>2. ASSUME NEW r \in Reqs, CommitCredit(r)
        PROVE  RefundInv'
    BY <1>2, <2>2, RefundInvAfterMovement, GroupsUntouched DEF CommitCredit, Kinds
  <2>3. ASSUME NEW r \in Reqs, CreateTopUp(r)
        PROVE  RefundInv'
    BY <1>2, <2>3 DEF CreateTopUp, RefundInv, GroupsDebited, GroupPlaced, RefundInHand,
                      Refunds, RefundIsWhatWasPaid, RowsOf
  <2>4. ASSUME NEW r \in Reqs, BeginTopUp(r)
        PROVE  RefundInv'
    BY <1>2, <2>4, RefundInvAfterLoad, GroupsUntouched DEF BeginTopUp, Begin, Hold
  <2>5. ASSUME NEW r \in Reqs, LoadBalanceForTopUp(r)
        PROVE  RefundInv'
    BY <1>2, <2>5, RefundInvAfterLoad, GroupsUntouched
       DEF LoadBalanceForTopUp, Hold, Movement
  <2>6. ASSUME NEW r \in Reqs, CommitTopUp(r)
        PROVE  RefundInv'
    <3>1. tx[r].op \in Kinds
      BY <2>6 DEF CommitTopUp, Kinds
    <3> QED
      BY <1>2, <2>6, <3>1, MovementInHand, RefundInvAfterMovement, GroupsUntouched
         DEF CommitTopUp
  <2>7. ASSUME NEW r \in Reqs, BeginOrder(r)
        PROVE  RefundInv'
    <3>1. PICK total \in Amounts, shops \in CartShops :
             Hold(r, Movement("ORDER_PLACE", balance, total, 0,
                              [i \in 1 .. shops |-> "CONFIRMED"]))
      BY <2>7 DEF BeginOrder, Begin
    <3>2. Len([i \in 1 .. shops |-> "CONFIRMED"]) = 1
      OBVIOUS
    <3> QED
      BY <1>2, <3>1, <3>2, RefundInvAfterLoad, GroupsUntouched DEF Hold, Movement
  <2>8. ASSUME NEW r \in Reqs, CommitOrder(r)
        PROVE  RefundInv'
    <3> DEFINE g == Len(orders) + 1
               n == Len(ledger) + 1
               row == [total |-> tx[r].amount, payment |-> "PAID",
                       status |-> tx[r].status]
    <3>1. tx[r].op = "ORDER_PLACE" /\ tx[r].op \in Kinds /\ g \in Nat
      BY <1>2, <2>8 DEF CommitOrder, Kinds, TypeOK
    <3>2. row.total = tx[r].amount /\ Len(row.status) = 1
      BY <1>2, <3>1 DEF RefundInv, RefundInHand
    <3> HIDE DEF row
    <3>3. orders' = Append(orders, row)
      BY <2>8 DEF CommitOrder, row
    <3>4. /\ DOMAIN orders' = DOMAIN orders \cup {g}
          /\ \A h \in DOMAIN orders : orders'[h] = orders[h]
          /\ orders'[g] = row
      <4>1. orders \in Seq(GroupRow)
        BY <1>2 DEF TypeOK
      <4> QED
        BY <3>3, <4>1
    <3>5. GroupsKept
      BY <3>4 DEF GroupsKept
    <3>6. /\ DOMAIN ledger' = DOMAIN ledger \cup {n}
          /\ n \notin DOMAIN ledger
          /\ \A i \in DOMAIN ledger : ledger'[i] = ledger[i]
          /\ ledger'[n].kind = "ORDER_PLACE" /\ ledger'[n].of = g
          /\ ledger'[n].amount = tx[r].amount
      BY <1>2, <2>8, <3>1, LedgerAfter DEF CommitOrder
    <3> HIDE DEF g, n
    <3>7. RefundInHand'
      BY <1>2, <2>8, <3>5, RefundInHandAfter DEF RefundInv, CommitOrder, End, Idle
    <3>8. GroupsDebited'
      BY <1>2, <3>2, <3>4, <3>6 DEF RefundInv, GroupsDebited, GroupPlaced
    <3>9. RefundIsWhatWasPaid'
      BY <1>2, <3>6 DEF RefundInv, RefundIsWhatWasPaid, RowsOf
    <3> QED
      BY <3>7, <3>8, <3>9 DEF RefundInv
  <2>9. ASSUME NEW r \in Reqs, SetStatus(r)
        PROVE  RefundInv'
    <3>1. PICK g \in DOMAIN orders :
             \E i \in DOMAIN orders[g].status, s \in OrderStatus :
                orders' = [orders EXCEPT ![g].status[i] = s]
      BY <2>9 DEF SetStatus
    <3>2. PICK i \in DOMAIN orders[g].status, s \in OrderStatus :
             orders' = [orders EXCEPT ![g].status[i] = s]
      BY <3>1
    <3> DEFINE status == [orders[g].status EXCEPT ![i] = s]
    <3>3. orders[g] \in GroupRow
      BY <1>2 DEF TypeOK
    <3>4. orders[g].status \in Seq(OrderStatus)
      BY <3>3 DEF GroupRow
    <3>5. Len(status) = Len(orders[g].status)
      BY <3>4
    <3>6. orders' = [orders EXCEPT ![g].status = status]
      BY <3>2
    <3> HIDE DEF status
    <3>7. GroupsKept /\ DOMAIN orders' = DOMAIN orders
      BY <1>2, <3>5, <3>6, GroupsAfterUpdate
    <3>8. UNCHANGED <<ledger, tx>>
      BY <2>9 DEF SetStatus
    <3> QED
      BY <1>2, <3>7, <3>8 DEF RefundInv, GroupsDebited, GroupPlaced, RefundInHand, Refunds,
                         GroupsKept, RefundIsWhatWasPaid, RowsOf
  <2>10. ASSUME NEW r \in Reqs, BeginCancel(r)
         PROVE  RefundInv'
    <3>1. PICK g \in DOMAIN orders :
             Hold(r, [op |-> "cancel", g |-> g, refund |-> RefundOf(orders[g]),
                      status |-> orders[g].status])
      BY <2>10 DEF BeginCancel, Begin
    <3>2. orders[g].total \in Nat
      <4>1. orders[g] \in GroupRow
        BY <1>2 DEF TypeOK
      <4> QED
        BY <4>1 DEF GroupRow
    <3>3. Len(orders[g].status) = 1
      BY <1>2 DEF RefundInv, GroupsDebited, GroupPlaced
    <3>4. RefundOf(orders[g]) = 0 \/ RefundOf(orders[g]) = orders[g].total
      BY <3>2, <3>3 DEF RefundOf
    <3> DEFINE load == [op |-> "cancel", g |-> g, refund |-> RefundOf(orders[g]),
                        status |-> orders[g].status]
    <3>5. load.op = "cancel" /\ (load.refund > 0 => Refunds(load.g, load.refund))
      BY <3>4 DEF Refunds
    <3>6. tx' = [tx EXCEPT ![r] = load] /\ UNCHANGED <<balance, ledger, topups, orders>>
      BY <3>1 DEF Hold
    <3> HIDE DEF load
    <3> QED
      BY <1>2, <3>5, <3>6, RefundInvAfterLoad, GroupsUntouched
  <2>11. ASSUME NEW r \in Reqs, LoadBalanceForRefund(r)
         PROVE  RefundInv'
    <3>1. Refunds(tx[r].g, tx[r].refund)
      BY <1>2, <2>11 DEF LoadBalanceForRefund, RefundInv, RefundInHand
    <3> QED
      BY <1>2, <2>11, <3>1, RefundInvAfterLoad, GroupsUntouched
         DEF LoadBalanceForRefund, Hold, Movement
  <2>12. ASSUME NEW r \in Reqs, CommitRefund(r)
         PROVE  RefundInv'
    <3> DEFINE g == tx[r].of
               status == AllCanceled(tx[r].status, orders[g].status)
    <3>1. tx[r].op \in Kinds /\ g \in Nat
      <4>1. tx[r].op \in Kinds
        BY <2>12 DEF CommitRefund, Kinds
      <4> QED
        BY <1>2, <4>1, MovementInHand
    <3>2. g \in DOMAIN orders => Len(status) = Len(orders[g].status)
      <4>1. ASSUME g \in DOMAIN orders PROVE orders[g] \in GroupRow
        BY <1>2, <4>1 DEF TypeOK
      <4> QED
        BY <4>1, AllCanceledLength DEF GroupRow
    <3>3. orders' = [orders EXCEPT ![g].payment = "REFUNDED", ![g].status = status]
      BY <2>12 DEF CommitRefund
    <3>4. Apply(tx[r], g) /\ End(r)
      BY <2>12 DEF CommitRefund
    <3> HIDE DEF status
    <3>5. GroupsKept /\ DOMAIN orders' = DOMAIN orders
      BY <1>2, <3>2, <3>3, GroupsAfterUpdate
    <3> QED
      BY <1>2, <3>1, <3>4, <3>5, RefundInvAfterMovement
  <2>13. ASSUME NEW r \in Reqs, CommitCancel(r)
         PROVE  RefundInv'
    <3> DEFINE g == tx[r].g
               status == AllCanceled(tx[r].status, orders[g].status)
    <3>1. g \in DOMAIN orders => Len(status) = Len(orders[g].status)
      <4>1. ASSUME g \in DOMAIN orders PROVE orders[g] \in GroupRow
        BY <1>2, <4>1 DEF TypeOK
      <4> QED
        BY <4>1, AllCanceledLength DEF GroupRow
    <3>2. orders' = [orders EXCEPT ![g].status = status]
      BY <2>13 DEF CommitCancel
    <3> HIDE DEF g, status
    <3>3. GroupsKept /\ DOMAIN orders' = DOMAIN orders
      BY <1>2, <3>1, <3>2, GroupsAfterUpdate
    <3> QED
      BY <1>2, <2>13, <3>3, RefundInvAfterLoad DEF CommitCancel, End, Idle
  <2>14. ASSUME NEW r \in Reqs, Abandon(r)
         PROVE  RefundInv'
    BY <1>2, <2>14, RefundInvAfterLoad, GroupsUntouched DEF Abandon, Hold, Idle
  <2>15. CASE UNCHANGED vars
    <3>1. GroupsDebited'
      BY <1>2, <2>15 DEF vars, RefundInv, GroupsDebited, GroupPlaced
    <3>2. RefundInHand'
      BY <1>2, <2>15 DEF vars, RefundInv, RefundInHand, Refunds
    <3>3. RefundIsWhatWasPaid'
      BY <1>2, <2>15 DEF vars, RefundInv, RefundIsWhatWasPaid, RowsOf
    <3> QED
      BY <3>1, <3>2, <3>3 DEF RefundInv
  <2> QED
    BY <1>2, <2>1, <2>2, <2>3, <2>4, <2>5, <2>6, <2>7, <2>8, <2>9, <2>10,
       <2>11, <2>12, <2>13, <2>14, <2>15 DEF Next
<1>3. RefundInv => RefundIsWhatWasPaid
  BY DEF RefundInv
<1> QED
  BY <1>1, <1>2, <1>3, TypeCorrect, PTL DEF Spec

-----------------------------------------------------------------------------
(***************************************************************************)
(* Requests that take turns.  At most one is busy, so what it loaded is    *)
(* still so when it commits: the balance, the mark of the top-up and the   *)
(* payment status of the checkout.                                         *)
(***************************************************************************)
Alone == \A r, o \in Reqs : Busy(r) /\ Busy(o) => r = o

UnpaidTopUp(t) == t \in DOMAIN topups /\ ~topups[t].paid

PaidGroup(g) == g \in DOMAIN orders /\ orders[g].payment = "PAID"

Fresh ==
    \A r \in Reqs :
        /\ tx[r].op \in Kinds => tx[r].balance = balance
        /\ tx[r].op = "ask" => UnpaidTopUp(tx[r].t)
        /\ tx[r].op = "ADD_FUND" => UnpaidTopUp(tx[r].of)
        /\ tx[r].op = "cancel" /\ tx[r].refund > 0 => PaidGroup(tx[r].g)
        /\ tx[r].op = "ORDER_REFUND" => PaidGroup(tx[r].of)

RowsAreMarked ==
    \A i \in DOMAIN ledger :
        /\ ledger[i].kind = "ADD_FUND" =>
              ledger[i].of \in DOMAIN topups /\ topups[ledger[i].of].paid
        /\ ledger[i].kind = "ORDER_REFUND" =>
              ledger[i].of \in DOMAIN orders /\ orders[ledger[i].of].payment = "REFUNDED"

Books == TopUpOnce /\ RefundedOnce /\ StatementAddsUp

TurnsInv == Alone /\ Fresh /\ RowsAreMarked /\ Books

LEMMA AllIdle ==
    ASSUME TakeTurns, NEW r \in Reqs, MayStart(r)
    PROVE  \A o \in Reqs : ~Busy(o)
  BY DEF TakeTurns, MayStart

(* The request that moves is the one that was busy, or all were idle.      *)
LEMMA TurnKept ==
    ASSUME TypeOK, TakeTurns, Alone, NEW r \in Reqs, Busy(r) \/ MayStart(r),
           NEW load, tx' = [tx EXCEPT ![r] = load]
    PROVE  /\ Alone'
           /\ \A o \in Reqs : o # r => tx'[o].op = "idle"
           /\ tx'[r] = load
  <1>1. \A o \in Reqs : o # r => ~Busy(o)
    BY AllIdle DEF Alone
  <1>2. \A o \in Reqs : tx'[o] = IF o = r THEN load ELSE tx[o]
    BY SlotAfter
  <1> QED
    BY <1>1, <1>2 DEF Alone, Busy

(* A step that leaves the tables alone.                                    *)
LEMMA TurnsInvAfterLoad ==
    ASSUME TypeOK, TakeTurns, TurnsInv, NEW r \in Reqs, Busy(r) \/ MayStart(r),
           UNCHANGED <<balance, ledger, topups, orders>>,
           NEW load, tx' = [tx EXCEPT ![r] = load],
           load.op \in Kinds => load.balance = balance,
           load.op = "ask" => UnpaidTopUp(load.t),
           load.op = "ADD_FUND" => UnpaidTopUp(load.of),
           load.op = "cancel" /\ load.refund > 0 => PaidGroup(load.g),
           load.op = "ORDER_REFUND" => PaidGroup(load.of)
    PROVE  TurnsInv'
  <1>1. /\ Alone' /\ tx'[r] = load
        /\ \A o \in Reqs : o # r => tx'[o].op = "idle"
    BY TurnKept DEF TurnsInv
  <1>2. Fresh'
    BY <1>1 DEF Fresh, UnpaidTopUp, PaidGroup, Kinds
  <1>3. RowsAreMarked'
    BY DEF TurnsInv, RowsAreMarked
  <1>4. Books'
    BY DEF TurnsInv, Books, TopUpOnce, RefundedOnce, OnceEach, StatementAddsUp, Moved
  <1> QED
    BY <1>1, <1>2, <1>3, <1>4 DEF TurnsInv

(* A step after which everybody is idle.                                   *)
LEMMA TurnsAfterEnd ==
    ASSUME TypeOK, TakeTurns, Alone, NEW r \in Reqs, Busy(r), End(r)
    PROVE  Alone' /\ Fresh'
  <1>1. /\ Alone' /\ tx'[r] = Idle
        /\ \A o \in Reqs : o # r => tx'[o].op = "idle"
    BY TurnKept DEF End
  <1> QED
    BY <1>1 DEF Fresh, Idle, Kinds

(* Whoever starts alone and leaves no load behind.                         *)
LEMMA TurnsAfterOneStep ==
    ASSUME TakeTurns, NEW r \in Reqs, MayStart(r), UNCHANGED tx
    PROVE  Alone' /\ Fresh'
  <1>1. \A o \in Reqs : tx'[o].op = "idle"
    BY AllIdle DEF Busy
  <1> QED
    BY <1>1 DEF Alone, Fresh, Busy, Kinds

(* The statement after a movement of the request whose turn it is.         *)
LEMMA StatementAfter ==
    ASSUME TypeOK, StatementEndsAtBalance, TurnsInv, NEW r \in Reqs,
           NEW of \in Nat, tx[r].op \in Kinds, Apply(tx[r], of)
    PROVE  StatementAddsUp'
  <1> DEFINE n == Len(ledger) + 1
  <1>1. /\ n \in Nat \ {0} /\ DOMAIN ledger = 1 .. n - 1
        /\ DOMAIN ledger' = DOMAIN ledger \cup {n}
        /\ \A i \in DOMAIN ledger : ledger'[i] = ledger[i]
        /\ ledger'[n].kind = tx[r].op /\ ledger'[n].amount = tx[r].amount
        /\ ledger'[n].after = NewBalance(tx[r])
    BY LedgerAfter
  <1>2. tx[r].balance = balance
    BY DEF TurnsInv, Fresh
  <1>3. balance = IF n = 1 THEN 0 ELSE ledger[n - 1].after
    <2>1. ledger = <<>> <=> n = 1
      BY DEF TypeOK
    <2>2. Len(ledger) = n - 1
      BY DEF TypeOK
    <2> QED
      BY <2>1, <2>2 DEF StatementEndsAtBalance
  <1> HIDE DEF n
  <1>4. ledger'[n].after = Moved(ledger'[n], IF n = 1 THEN 0 ELSE ledger'[n - 1].after)
    <2>1. n # 1 => n - 1 \in DOMAIN ledger
      BY <1>1
    <2>2. balance = IF n = 1 THEN 0 ELSE ledger'[n - 1].after
      BY <1>1, <1>3, <2>1
    <2> QED
      BY <1>1, <1>2, <2>2 DEF Moved, NewBalance
  <1>5. ASSUME NEW i \in DOMAIN ledger
        PROVE  ledger'[i].after
                 = Moved(ledger'[i], IF i = 1 THEN 0 ELSE ledger'[i - 1].after)
    <2>1. i # 1 => i - 1 \in DOMAIN ledger
      BY <1>1
    <2>2. ledger[i].after
            = Moved(ledger[i], IF i = 1 THEN 0 ELSE ledger[i - 1].after)
      BY DEF TurnsInv, Books, StatementAddsUp
    <2> QED
      BY <1>1, <2>1, <2>2
  <1> QED
    BY <1>1, <1>4, <1>5 DEF StatementAddsUp

(* The new row is of another kind, or about something with no such row.    *)
LEMMA OnceAfter ==
    ASSUME TypeOK, NEW kind \in Kinds, OnceEach(kind), NEW r \in Reqs,
           NEW of \in Nat, tx[r].op \in Kinds, Apply(tx[r], of),
           tx[r].op = kind => \A i \in DOMAIN ledger :
                                 ledger[i].kind = kind => ledger[i].of # of
    PROVE  OnceEach(kind)'
  BY LedgerAfter DEF OnceEach

(* A movement commits: the rows about top-ups and refunds stay unique if   *)
(* the row it adds is about an unpaid top-up or a paid checkout.           *)
LEMMA BooksAfter ==
    ASSUME TypeOK, StatementEndsAtBalance, TurnsInv, NEW r \in Reqs,
           NEW of \in Nat, tx[r].op \in Kinds, Apply(tx[r], of),
           tx[r].op = "ADD_FUND" => UnpaidTopUp(of),
           tx[r].op = "ORDER_REFUND" => PaidGroup(of)
    PROVE  Books'
  <1>1. StatementAddsUp'
    BY StatementAfter
  <1>2. OnceEach("ADD_FUND")'
    BY OnceAfter
       DEF TurnsInv, Books, TopUpOnce, RowsAreMarked, UnpaidTopUp, Kinds
  <1>3. OnceEach("ORDER_REFUND")'
    BY OnceAfter
       DEF TurnsInv, Books, RefundedOnce, RowsAreMarked, PaidGroup, Kinds
  <1> QED
    BY <1>1, <1>2, <1>3 DEF Books, TopUpOnce, RefundedOnce

(* The payment statuses after an update of the orders of a checkout.       *)
PaymentsKept ==
    \A g \in DOMAIN orders :
        g \in DOMAIN orders' /\ orders'[g].payment = orders[g].payment

LEMMA PaymentsAfterUpdate ==
    ASSUME TypeOK, NEW g, NEW status, orders' = [orders EXCEPT ![g].status = status]
    PROVE  PaymentsKept
  <1>1. orders \in Seq(GroupRow)
    BY DEF TypeOK
  <1>2. \A h \in DOMAIN orders : orders[h] \in GroupRow
    BY <1>1
  <1>3. \A h \in DOMAIN orders :
           /\ h \in DOMAIN orders'
           /\ orders'[h] = IF h = g THEN [orders[g] EXCEPT !.status = status]
                                    ELSE orders[h]
    BY <1>1
  <1> QED
    BY <1>2, <1>3 DEF PaymentsKept, GroupRow

LEMMA PaymentsAfterRefund ==
    ASSUME TypeOK, NEW g, NEW status,
           orders' = [orders EXCEPT ![g].payment = "REFUNDED", ![g].status = status]
    PROVE  /\ DOMAIN orders' = DOMAIN orders
           /\ \A h \in DOMAIN orders :
                 orders'[h].payment = IF h = g THEN "REFUNDED" ELSE orders[h].payment
  <1>1. orders \in Seq(GroupRow)
    BY DEF TypeOK
  <1>2. \A h \in DOMAIN orders : orders[h] \in GroupRow
    BY <1>1
  <1>3. /\ DOMAIN orders' = DOMAIN orders
        /\ \A h \in DOMAIN orders :
              orders'[h] = IF h = g
                             THEN [orders[g] EXCEPT !.payment = "REFUNDED",
                                                    !.status = status]
                             ELSE orders[h]
    BY <1>1
  <1> QED
    BY <1>2, <1>3 DEF GroupRow

LEMMA TurnsInvStep ==
    ASSUME TypeOK, StatementEndsAtBalance, TakeTurns, TurnsInv, [Next]_vars
    PROVE  TurnsInv'
<1>1. ASSUME NEW r \in Reqs, BeginCredit(r)
      PROVE  TurnsInv'
  BY <1>1, TurnsInvAfterLoad DEF BeginCredit, Begin, Hold, Movement
<1>2. ASSUME NEW r \in Reqs, CommitCredit(r)
      PROVE  TurnsInv'
  <2>1. tx[r].op = "ADD_FUND_BY_ADMIN" /\ tx[r].op \in Kinds /\ Busy(r)
    BY <1>2 DEF CommitCredit, Kinds, Busy
  <2>2. Alone' /\ Fresh'
    BY <1>2, <2>1, TurnsAfterEnd DEF CommitCredit, TurnsInv
  <2>3. Books'
    BY <1>2, <2>1, BooksAfter DEF CommitCredit
  <2>4. RowsAreMarked'
    BY <1>2, <2>1, LedgerAfter DEF CommitCredit, TurnsInv, RowsAreMarked
  <2> QED
    BY <2>2, <2>3, <2>4 DEF TurnsInv
<1>3. ASSUME NEW r \in Reqs, CreateTopUp(r)
      PROVE  TurnsInv'
  <2>1. PICK amount \in Amounts :
           topups' = Append(topups, [amount |-> amount, paid |-> FALSE])
    BY <1>3 DEF CreateTopUp
  <2>2. /\ DOMAIN topups \subseteq DOMAIN topups'
        /\ \A t \in DOMAIN topups : topups'[t] = topups[t]
    BY <2>1 DEF TypeOK
  <2>3. Alone' /\ Fresh'
    BY <1>3, TurnsAfterOneStep DEF CreateTopUp
  <2>4. UNCHANGED <<ledger, orders>>
    BY <1>3 DEF CreateTopUp
  <2>5. RowsAreMarked'
    BY <2>2, <2>4 DEF TurnsInv, RowsAreMarked
  <2>6. Books'
    BY <2>4 DEF TurnsInv, Books, TopUpOnce, RefundedOnce, OnceEach,
                StatementAddsUp, Moved
  <2> QED
    BY <2>3, <2>5, <2>6 DEF TurnsInv
<1>4. ASSUME NEW r \in Reqs, BeginTopUp(r)
      PROVE  TurnsInv'
  <2>1. PICK t \in DOMAIN topups :
           /\ ~topups[t].paid
           /\ MayStart(r)
           /\ Hold(r, [op |-> "ask", t |-> t, amount |-> topups[t].amount])
    BY <1>4 DEF BeginTopUp, Begin
  <2> QED
    BY <2>1, TurnsInvAfterLoad DEF Hold, UnpaidTopUp, Kinds
<1>5. ASSUME NEW r \in Reqs, LoadBalanceForTopUp(r)
      PROVE  TurnsInv'
  <2>1. UnpaidTopUp(tx[r].t) /\ Busy(r)
    BY <1>5 DEF LoadBalanceForTopUp, TurnsInv, Fresh, Busy
  <2> QED
    BY <1>5, <2>1, TurnsInvAfterLoad DEF LoadBalanceForTopUp, Hold, Movement
<1>6. ASSUME NEW r \in Reqs, CommitTopUp(r)
      PROVE  TurnsInv'
  <2> DEFINE t == tx[r].of
  <2>1. tx[r].op = "ADD_FUND" /\ tx[r].op \in Kinds /\ Busy(r)
    BY <1>6 DEF CommitTopUp, Kinds, Busy
  <2>2. UnpaidTopUp(t) /\ t \in Nat
    BY <2>1, MovementInHand DEF TurnsInv, Fresh
  <2>3. Alone' /\ Fresh'
    BY <1>6, <2>1, TurnsAfterEnd DEF CommitTopUp, TurnsInv
  <2>4. Books'
    BY <1>6, <2>1, <2>2, BooksAfter DEF CommitTopUp
  <2>5. /\ DOMAIN topups' = DOMAIN topups
        /\ \A u \in DOMAIN topups : topups'[u].paid <=> (u = t \/ topups[u].paid)
    <3>1. topups \in Seq(TopUpRow) /\ topups' = [topups EXCEPT ![t].paid = TRUE]
      BY <1>6 DEF TypeOK, CommitTopUp
    <3>2. \A u \in DOMAIN topups : topups[u] \in TopUpRow
      BY <3>1
    <3>3. \A u \in DOMAIN topups :
             topups'[u] = IF u = t THEN [topups[t] EXCEPT !.paid = TRUE]
                                   ELSE topups[u]
      BY <3>1
    <3> QED
      BY <3>1, <3>2, <3>3 DEF TopUpRow
  <2>6. RowsAreMarked'
    <3>1. UNCHANGED orders
      BY <1>6 DEF CommitTopUp
    <3>2. Apply(tx[r], t)
      BY <1>6 DEF CommitTopUp
    <3> HIDE DEF t
    <3> QED
      BY <2>1, <2>2, <2>5, <3>1, <3>2, LedgerAfter
         DEF TurnsInv, RowsAreMarked, UnpaidTopUp
  <2> QED
    BY <2>3, <2>4, <2>6 DEF TurnsInv
<1>7. ASSUME NEW r \in Reqs, BeginOrder(r)
      PROVE  TurnsInv'
  BY <1>7, TurnsInvAfterLoad DEF BeginOrder, Begin, Hold, Movement
<1>8. ASSUME NEW r \in Reqs, CommitOrder(r)
      PROVE  TurnsInv'
  <2> DEFINE g == Len(orders) + 1
  <2>1. /\ tx[r].op = "ORDER_PLACE" /\ tx[r].op \in Kinds /\ Busy(r)
        /\ g \in Nat
    BY <1>8 DEF CommitOrder, Kinds, Busy, TypeOK
  <2>2. Alone' /\ Fresh'
    BY <1>8, <2>1, TurnsAfterEnd DEF CommitOrder, TurnsInv
  <2>3. Books'
    BY <1>8, <2>1, BooksAfter DEF CommitOrder
  <2>4. /\ DOMAIN orders \subseteq DOMAIN orders'
        /\ \A h \in DOMAIN orders : orders'[h] = orders[h]
    BY <1>8 DEF CommitOrder, TypeOK
  <2>5. RowsAreMarked'
    <3>1. UNCHANGED topups /\ Apply(tx[r], g)
      BY <1>8 DEF CommitOrder
    <3> HIDE DEF g
    <3> QED
      BY <2>1, <2>4, <3>1, LedgerAfter DEF TurnsInv, RowsAreMarked
  <2> QED
    BY <2>2, <2>3, <2>5 DEF TurnsInv
<1>9. ASSUME NEW r \in Reqs, SetStatus(r)
      PROVE  TurnsInv'
  <2>1. PICK g \in DOMAIN orders :
           \E i \in DOMAIN orders[g].status, s \in OrderStatus :
              orders' = [orders EXCEPT ![g].status[i] = s]
    BY <1>9 DEF SetStatus
  <2>2. PICK i \in DOMAIN orders[g].status, s \in OrderStatus :
           orders' = [orders EXCEPT ![g].status[i] = s]
    BY <2>1
  <2> DEFINE status == [orders[g].status EXCEPT ![i] = s]
  <2>3. orders' = [orders EXCEPT ![g].status = status]
    BY <2>2
  <2> HIDE DEF status
  <2>4. PaymentsKept
    BY <2>3, PaymentsAfterUpdate
  <2>5. Alone' /\ Fresh'
    BY <1>9, TurnsAfterOneStep DEF SetStatus
  <2>6. UNCHANGED <<ledger, topups>>
    BY <1>9 DEF SetStatus
  <2>7. RowsAreMarked'
    BY <2>4, <2>6 DEF TurnsInv, RowsAreMarked, PaymentsKept
  <2>8. Books'
    BY <2>6 DEF TurnsInv, Books, TopUpOnce, RefundedOnce, OnceEach,
                StatementAddsUp, Moved
  <2> QED
    BY <2>5, <2>7, <2>8 DEF TurnsInv
<1>10. ASSUME NEW r \in Reqs, BeginCancel(r)
       PROVE  TurnsInv'
  <2>1. PICK g \in DOMAIN orders :
           Begin(r, [op |-> "cancel", g |-> g, refund |-> RefundOf(orders[g]),
                     status |-> orders[g].status])
    BY <1>10 DEF BeginCancel
  <2> DEFINE load == [op |-> "cancel", g |-> g, refund |-> RefundOf(orders[g]),
                      status |-> orders[g].status]
  <2>2. load.op = "cancel" /\ (load.refund > 0 => PaidGroup(load.g))
    BY DEF RefundOf, PaidGroup
  <2>3. /\ MayStart(r) /\ tx' = [tx EXCEPT ![r] = load]
        /\ UNCHANGED <<balance, ledger, topups, orders>>
    BY <2>1 DEF Begin, Hold
  <2> HIDE DEF load
  <2> QED
    BY <2>2, <2>3, TurnsInvAfterLoad DEF Kinds
<1>11. ASSUME NEW r \in Reqs, LoadBalanceForRefund(r)
       PROVE  TurnsInv'
  <2>1. PaidGroup(tx[r].g) /\ Busy(r)
    BY <1>11 DEF LoadBalanceForRefund, TurnsInv, Fresh, Busy
  <2> QED
    BY <1>11, <2>1, TurnsInvAfterLoad DEF LoadBalanceForRefund, Hold, Movement
<1>12. ASSUME NEW r \in Reqs, CommitRefund(r)
       PROVE  TurnsInv'
  <2> DEFINE g == tx[r].of
             status == AllCanceled(tx[r].status, orders[g].status)
  <2>1. tx[r].op = "ORDER_REFUND" /\ tx[r].op \in Kinds /\ Busy(r)
    BY <1>12 DEF CommitRefund, Kinds, Busy
  <2>2. PaidGroup(g) /\ g \in Nat
    BY <2>1, MovementInHand DEF TurnsInv, Fresh
  <2>3. Alone' /\ Fresh'
    BY <1>12, <2>1, TurnsAfterEnd DEF CommitRefund, TurnsInv
  <2>4. Books'
    BY <1>12, <2>1, <2>2, BooksAfter DEF CommitRefund
  <2>5. /\ UNCHANGED topups /\ Apply(tx[r], g)
        /\ orders' = [orders EXCEPT ![g].payment = "REFUNDED", ![g].status = status]
    BY <1>12 DEF CommitRefund
  <2> HIDE DEF g, status
  <2>6. /\ DOMAIN orders' = DOMAIN orders
        /\ \A h \in DOMAIN orders :
              orders'[h].payment = IF h = g THEN "REFUNDED" ELSE orders[h].payment
    BY <2>5, PaymentsAfterRefund
  <2>7. RowsAreMarked'
    BY <2>1, <2>2, <2>5, <2>6, LedgerAfter DEF TurnsInv, RowsAreMarked, PaidGroup
  <2> QED
    BY <2>3, <2>4, <2>7 DEF TurnsInv
<1>13. ASSUME NEW r \in Reqs, CommitCancel(r)
       PROVE  TurnsInv'
  <2> DEFINE g == tx[r].g
             status == AllCanceled(tx[r].status, orders[g].status)
  <2>1. orders' = [orders EXCEPT ![g].status = status]
    BY <1>13 DEF CommitCancel
  <2> HIDE DEF g, status
  <2>2. PaymentsKept
    BY <2>1, PaymentsAfterUpdate
  <2>3. Busy(r) /\ End(r) /\ UNCHANGED <<ledger, topups>>
    BY <1>13 DEF CommitCancel, Busy
  <2>4. Alone' /\ Fresh'
    BY <2>3, TurnsAfterEnd DEF TurnsInv
  <2>5. RowsAreMarked'
    BY <2>2, <2>3 DEF TurnsInv, RowsAreMarked, PaymentsKept
  <2>6. Books'
    BY <2>3 DEF TurnsInv, Books, TopUpOnce, RefundedOnce, OnceEach,
                StatementAddsUp, Moved
  <2> QED
    BY <2>4, <2>5, <2>6 DEF TurnsInv
<1>14. ASSUME NEW r \in Reqs, Abandon(r)
       PROVE  TurnsInv'
  BY <1>14, TurnsInvAfterLoad DEF Abandon, Hold, Idle, Kinds
<1>15. CASE UNCHANGED vars
  <2>1. Alone' /\ Fresh'
    BY <1>15 DEF vars, TurnsInv, Alone, Busy, Fresh, UnpaidTopUp, PaidGroup
  <2>2. RowsAreMarked' /\ Books'
    BY <1>15 DEF vars, TurnsInv, RowsAreMarked, Books, TopUpOnce, RefundedOnce,
                 OnceEach, StatementAddsUp, Moved
  <2> QED
    BY <2>1, <2>2 DEF TurnsInv
<1> QED
  BY <1>1, <1>2, <1>3, <1>4, <1>5, <1>6, <1>7, <1>8, <1>9, <1>10, <1>11,
     <1>12, <1>13, <1>14, <1>15 DEF Next

LEMMA TurnsInvAlways ==
    ASSUME TakeTurns
    PROVE  Spec => []TurnsInv
<1>1. Init => TurnsInv
  <2> SUFFICES ASSUME Init PROVE TurnsInv
    OBVIOUS
  <2>1. \A r \in Reqs : tx[r].op = "idle"
    BY DEF Init, Idle
  <2>2. Alone /\ Fresh
    BY <2>1 DEF Alone, Fresh, Busy, Kinds
  <2>3. RowsAreMarked /\ Books
    BY DEF Init, RowsAreMarked, Books, TopUpOnce, RefundedOnce, OnceEach,
           StatementAddsUp
  <2> QED
    BY <2>2, <2>3 DEF TurnsInv
<1>2. TypeOK /\ StatementEndsAtBalance /\ TurnsInv /\ [Next]_vars => TurnsInv'
  BY TurnsInvStep
<1> QED
  BY <1>1, <1>2, TypeCorrect, StatementEnds, PTL DEF Spec

(* Requests that take turns credit a top-up once, however often the        *)
(* callback and the IPN report it.                                         *)
THEOREM TopUpsAreCreditedOnce ==
    ASSUME TakeTurns
    PROVE  Spec => []TopUpOnce
<1>1. TurnsInv => TopUpOnce
  BY DEF TurnsInv, Books
<1> QED
  BY <1>1, TurnsInvAlways, PTL

(* Requests that take turns leave a statement in which every row continues *)
(* from the one before it.                                                 *)
THEOREM TheStatementAddsUp ==
    ASSUME TakeTurns
    PROVE  Spec => []StatementAddsUp
<1>1. TurnsInv => StatementAddsUp
  BY DEF TurnsInv, Books
<1> QED
  BY <1>1, TurnsInvAlways, PTL

(* Requests that take turns refund a checkout once, revived or not.        *)
THEOREM CheckoutsAreRefundedOnce ==
    ASSUME TakeTurns
    PROVE  Spec => []RefundedOnce
<1>1. TurnsInv => RefundedOnce
  BY DEF TurnsInv, Books
<1> QED
  BY <1>1, TurnsInvAlways, PTL

(* Whatever overlaps, the wallet agrees with its statement and top-ups.    *)
THEOREM WalletIsConsistent == Spec => []WalletConsistent
<1>1. TypeOK /\ StatementEndsAtBalance /\ CreditedIffPaid => WalletConsistent
  BY DEF WalletConsistent
<1> QED
  BY <1>1, TypeCorrect, StatementEnds, Credited, PTL

(* Requests that take turns refund a checkout of one shop exactly.         *)
THEOREM RefundsAreSound ==
    ASSUME TakeTurns, CartShops = {1}
    PROVE  Spec => []RefundsSound
<1>1. RefundedOnce /\ RefundIsWhatWasPaid => RefundsSound
  BY DEF RefundsSound
<1> QED
  BY <1>1, CheckoutsAreRefundedOnce, RefundsAreExact, PTL

-----------------------------------------------------------------------------
(* Numbers, finite sets and sums over them.                                *)

(* Induction over numbers: there is a least one.                           *)
LEMMA LeastNumber ==
    ASSUME NEW T \in SUBSET Nat, T # {}
    PROVE  \E n \in T : \A m \in T : n <= m
<1> DEFINE less == {ss \in Nat \X Nat : ss[1] < ss[2]}
<1>1. IsWellFoundedOn(less, Nat)
  BY NatLessThanWellFounded DEF OpToRel
<1> HIDE DEF less
<1>2. PICK n \in T : \A m \in T : <<m, n>> \notin less
  BY <1>1, WFMin
<1>3. ASSUME NEW m \in T PROVE n <= m
  <2>1. n \in Nat /\ m \in Nat /\ ~(m < n)
    BY <1>2 DEF less
  <2> QED
    BY <2>1
<1> QED
  BY <1>3

(* Induction over sets: of the subsets of a finite set that are bad there  *)
(* is one that becomes good whatever is taken from it.                     *)
LEMMA LeastSubset ==
    ASSUME NEW S, IsFiniteSet(S), NEW Bad \in SUBSET SUBSET S, Bad # {}
    PROVE  \E s \in Bad : IsFiniteSet(s) /\ \A x \in s : s \ {x} \notin Bad
<1> DEFINE sizes == {Cardinality(s) : s \in Bad}
<1>1. \A s \in SUBSET S : IsFiniteSet(s) /\ Cardinality(s) \in Nat
  BY FS_Subset, FS_CardinalityType
<1>2. sizes \in SUBSET Nat /\ sizes # {}
  BY <1>1
<1>3. PICK n \in sizes : \A m \in sizes : n <= m
  BY <1>2, LeastNumber
<1>4. PICK s \in Bad : Cardinality(s) = n
  BY <1>3
<1>5. ASSUME NEW x \in s, s \ {x} \in Bad PROVE FALSE
  <2>1. Cardinality(s \ {x}) = n - 1
    BY <1>1, <1>4, FS_RemoveElement
  <2>2. n \in Nat /\ n <= Cardinality(s \ {x})
    BY <1>2, <1>3, <1>5
  <2> QED
    BY <2>1, <2>2
<1> QED
  BY <1>1, <1>4, <1>5

(* What a fold adds up, subset by subset.                                  *)
Pick(s) == CHOOSE x \in s : TRUE

AddsUp(it, S, f) ==
    it = [s \in SUBSET S |-> IF s = {} THEN 0 ELSE f[Pick(s)] + it[s \ {Pick(s)}]]

LEMMA Picked == ASSUME NEW s, s # {} PROVE Pick(s) \in s
  BY DEF Pick

(* Such a function there is.                                               *)
LEMMA SumExists ==
    ASSUME NEW S, IsFiniteSet(S), NEW f
    PROVE  \E it : AddsUp(it, S, f)
<1> DEFINE Upto(n) == {s \in SUBSET S : Cardinality(s) <= n}
           Sums(it, n) == it = [s \in Upto(n) |-> IF s = {} THEN 0
                                                  ELSE f[Pick(s)] + it[s \ {Pick(s)}]]
           Bad == {n \in Nat : ~\E it : Sums(it, n)}
<1>1. \A s \in SUBSET S : IsFiniteSet(s) /\ Cardinality(s) \in Nat
  BY FS_Subset, FS_CardinalityType
<1>2. \A s \in SUBSET S : s # {} => Cardinality(s \ {Pick(s)}) = Cardinality(s) - 1
  BY <1>1, FS_RemoveElement, Picked
<1>3. 0 \notin Bad
  <2>1. \A s \in Upto(0) : s = {}
    BY <1>1, FS_EmptySet
  <2>2. Sums([s \in Upto(0) |-> 0], 0)
    BY <2>1
  <2> QED
    BY <2>2
<1>4. ASSUME NEW n \in Nat, n \notin Bad PROVE n + 1 \notin Bad
  <2>1. PICK it : Sums(it, n)
    BY <1>4
  <2> DEFINE more == [s \in Upto(n + 1) |-> IF s = {} THEN 0
                                            ELSE f[Pick(s)] + it[s \ {Pick(s)}]]
  <2>2. \A s \in Upto(n) : s \in Upto(n + 1) /\ more[s] = it[s]
    <3>1. it = [s \in Upto(n) |-> IF s = {} THEN 0 ELSE f[Pick(s)] + it[s \ {Pick(s)}]]
      BY <2>1
    <3>2. \A s \in Upto(n) : s \in Upto(n + 1)
      <4>1. \A s \in SUBSET S : Cardinality(s) <= n => Cardinality(s) <= n + 1
        BY <1>1
      <4> QED
        BY <4>1
    <3> HIDE DEF Upto
    <3>3. \A s \in Upto(n) : it[s] = IF s = {} THEN 0 ELSE f[Pick(s)] + it[s \ {Pick(s)}]
      BY <3>1
    <3> QED
      BY <3>2, <3>3
  <2>3. \A s \in Upto(n + 1) : s # {} => s \ {Pick(s)} \in Upto(n)
    BY <1>1, <1>2
  <2>4. Sums(more, n + 1)
    BY <2>2, <2>3
  <2> QED
    BY <2>4
<1>5. Bad = {}
  <2> SUFFICES ASSUME Bad # {} PROVE FALSE
    OBVIOUS
  <2>1. PICK n \in Bad : \A m \in Bad : n <= m
    <3>1. Bad \in SUBSET Nat
      OBVIOUS
    <3> HIDE DEF Bad
    <3> QED
      BY <3>1, LeastNumber
  <2>2. n \in Nat /\ n # 0
    BY <2>1, <1>3
  <2>3. n - 1 \in Nat /\ n - 1 \notin Bad
    <3> HIDE DEF Bad
    <3> QED
      BY <2>1, <2>2
  <2> HIDE DEF Bad
  <2>4. n - 1 + 1 \notin Bad
    BY <1>4, <2>3
  <2> QED
    BY <2>1, <2>2, <2>4
<1>6. Cardinality(S) \in Nat /\ Upto(Cardinality(S)) = SUBSET S
  BY <1>1, FS_Subset
<1>7. \E it : Sums(it, Cardinality(S))
  BY <1>5, <1>6
<1>8. PICK it : Sums(it, Cardinality(S))
  BY <1>7
<1>9. AddsUp(it, S, f)
  BY <1>6, <1>8 DEF AddsUp
<1> QED
  BY <1>9

(* It does not depend on what is not added.                                *)
LEMMA SumUnique ==
    ASSUME NEW S, IsFiniteSet(S), NEW R, NEW f, NEW g, NEW it, NEW jt,
           AddsUp(it, S, f), AddsUp(jt, R, g), S \subseteq R, \A x \in S : f[x] = g[x]
    PROVE  it[S] = jt[S]
<1> DEFINE Bad == {s \in SUBSET S : it[s] # jt[s]}
<1>1. ASSUME NEW s \in Bad, \A x \in s : s \ {x} \notin Bad PROVE FALSE
  <2>1. /\ it[s] = IF s = {} THEN 0 ELSE f[Pick(s)] + it[s \ {Pick(s)}]
        /\ jt[s] = IF s = {} THEN 0 ELSE g[Pick(s)] + jt[s \ {Pick(s)}]
    BY DEF AddsUp
  <2>2. CASE s = {}
    BY <2>1, <2>2
  <2>3. CASE s # {}
    <3>1. Pick(s) \in s
      BY <2>3, Picked
    <3>2. f[Pick(s)] = g[Pick(s)] /\ it[s \ {Pick(s)}] = jt[s \ {Pick(s)}]
      BY <1>1, <3>1
    <3> QED
      BY <2>1, <3>2
  <2> QED
    BY <2>2, <2>3
<1>2. Bad \in SUBSET SUBSET S
  OBVIOUS
<1>3. Bad = {}
  <2> HIDE DEF Bad
  <2> QED
    BY <1>1, <1>2, LeastSubset
<1> QED
  BY <1>3

(* A sum of natural numbers is one.                                        *)
LEMMA SumIsNat ==
    ASSUME NEW S, IsFiniteSet(S), NEW f, NEW it, AddsUp(it, S, f), \A x \in S : f[x] \in Nat
    PROVE  it[S] \in Nat
<1> DEFINE Bad == {s \in SUBSET S : it[s] \notin Nat}
<1>1. ASSUME NEW s \in Bad, \A x \in s : s \ {x} \notin Bad PROVE FALSE
  <2>1. it[s] = IF s = {} THEN 0 ELSE f[Pick(s)] + it[s \ {Pick(s)}]
    BY DEF AddsUp
  <2>2. CASE s = {}
    BY <2>1, <2>2
  <2>3. CASE s # {}
    <3>1. Pick(s) \in s
      BY <2>3, Picked
    <3>2. f[Pick(s)] \in Nat /\ it[s \ {Pick(s)}] \in Nat
      BY <1>1, <3>1
    <3> QED
      BY <2>1, <2>3, <3>2
  <2> QED
    BY <2>2, <2>3
<1>2. Bad \in SUBSET SUBSET S
  OBVIOUS
<1>3. Bad = {}
  <2> HIDE DEF Bad
  <2> QED
    BY <1>1, <1>2, LeastSubset
<1> QED
  BY <1>3

(***************************************************************************)
(* The sum of a function on a finite set, as ShopPricing reckons it.       *)
(***************************************************************************)
LEMMA TotalIs ==
    ASSUME NEW f, IsFiniteSet(DOMAIN f)
    PROVE  \E it : AddsUp(it, DOMAIN f, f) /\ Total(f) = it[DOMAIN f]
<1> DEFINE S == DOMAIN f
           Sums(it) == it = [s \in SUBSET S |-> IF s = {} THEN 0
                                                ELSE f[Pick(s)] + it[s \ {Pick(s)}]]
<1>1. Total(f) = (CHOOSE it : Sums(it))[S]
  BY DEF Total, MapThenSumSet, MapThenFoldSet, Pick
<1>2. \A it : Sums(it) <=> AddsUp(it, S, f)
  BY DEF AddsUp
<1>3. PICK some : AddsUp(some, S, f)
  BY SumExists
<1> HIDE DEF Sums
<1>4. Sums(CHOOSE it : Sums(it))
  BY <1>2, <1>3
<1> QED
  BY <1>1, <1>2, <1>4

LEMMA SumIsInt ==
    ASSUME NEW S, IsFiniteSet(S), NEW f, NEW it, AddsUp(it, S, f), \A x \in S : f[x] \in Int
    PROVE  \A s \in SUBSET S : it[s] \in Int
<1> DEFINE Bad == {s \in SUBSET S : it[s] \notin Int}
<1>1. ASSUME NEW s \in Bad, \A x \in s : s \ {x} \notin Bad PROVE FALSE
  <2>1. it[s] = IF s = {} THEN 0 ELSE f[Pick(s)] + it[s \ {Pick(s)}]
    BY DEF AddsUp
  <2>2. CASE s = {}
    BY <2>1, <2>2
  <2>3. CASE s # {}
    <3>1. Pick(s) \in s
      BY <2>3, Picked
    <3>2. f[Pick(s)] \in Int /\ it[s \ {Pick(s)}] \in Int
      BY <1>1, <3>1
    <3> QED
      BY <2>1, <2>3, <3>2
  <2> QED
    BY <2>2, <2>3
<1>2. Bad \in SUBSET SUBSET S
  OBVIOUS
<1>3. Bad = {}
  <2> HIDE DEF Bad
  <2> QED
    BY <1>1, <1>2, LeastSubset
<1> QED
  BY <1>3

(* Any element may be added last.                                          *)
LEMMA SumTake ==
    ASSUME NEW S, IsFiniteSet(S), NEW f, NEW it, AddsUp(it, S, f), \A x \in S : f[x] \in Int,
           NEW z \in S
    PROVE  it[S] = f[z] + it[S \ {z}]
<1> DEFINE Bad == {s \in SUBSET S : \E x \in s : it[s] # f[x] + it[s \ {x}]}
<1>1. \A s \in SUBSET S : it[s] \in Int
  BY SumIsInt
<1>2. \A s \in SUBSET S : s # {} => it[s] = f[Pick(s)] + it[s \ {Pick(s)}]
  BY DEF AddsUp
<1>3. ASSUME NEW s \in Bad, \A x \in s : s \ {x} \notin Bad PROVE FALSE
  <2>1. PICK x \in s : it[s] # f[x] + it[s \ {x}]
    OBVIOUS
  <2>2. PICK p \in s : it[s] = f[p] + it[s \ {p}] /\ p # x
    BY <1>2, <2>1, Picked
  <2>3. PICK rest : rest = (s \ {p}) \ {x} /\ rest = (s \ {x}) \ {p}
    OBVIOUS
  <2>4. it[s \ {p}] = f[x] + it[rest]
    BY <1>3, <2>2, <2>3
  <2>5. it[s \ {x}] = f[p] + it[rest]
    BY <1>3, <2>2, <2>3
  <2>6. f[p] \in Int /\ f[x] \in Int /\ it[rest] \in Int
    BY <1>1, <2>3
  <2>7. it[s] = f[x] + it[s \ {x}]
    BY <2>2, <2>4, <2>5, <2>6
  <2> QED
    BY <2>1, <2>7
<1>4. Bad \in SUBSET SUBSET S
  OBVIOUS
<1>5. Bad = {}
  <2> HIDE DEF Bad
  <2> QED
    BY <1>3, <1>4, LeastSubset
<1>6. S \notin Bad
  BY <1>5
<1> QED
  BY <1>6

LEMMA TotalType ==
    ASSUME NEW f, IsFiniteSet(DOMAIN f)
    PROVE  /\ (\A x \in DOMAIN f : f[x] \in Int) => Total(f) \in Int
           /\ (\A x \in DOMAIN f : f[x] \in Nat) => Total(f) \in Nat
<1>1. PICK it : AddsUp(it, DOMAIN f, f) /\ Total(f) = it[DOMAIN f]
  BY TotalIs
<1>2. ASSUME \A x \in DOMAIN f : f[x] \in Int PROVE Total(f) \in Int
  BY <1>1, <1>2, SumIsInt
<1>3. ASSUME \A x \in DOMAIN f : f[x] \in Nat PROVE Total(f) \in Nat
  BY <1>1, <1>3, SumIsNat
<1> QED
  BY <1>2, <1>3

LEMMA TotalOfNone ==
    ASSUME NEW f, DOMAIN f = {}
    PROVE  Total(f) = 0
<1>1. IsFiniteSet(DOMAIN f)
  BY FS_EmptySet
<1>2. PICK it : AddsUp(it, DOMAIN f, f) /\ Total(f) = it[DOMAIN f]
  BY <1>1, TotalIs
<1> QED
  BY <1>2 DEF AddsUp

(* One element taken out, whichever.                                       *)
LEMMA TotalTake ==
    ASSUME NEW f, IsFiniteSet(DOMAIN f), \A x \in DOMAIN f : f[x] \in Int, NEW z \in DOMAIN f,
           NEW g, DOMAIN g = DOMAIN f \ {z}, \A x \in DOMAIN g : g[x] = f[x]
    PROVE  /\ Total(f) = f[z] + Total(g)
           /\ Total(g) \in Int /\ f[z] \in Int /\ IsFiniteSet(DOMAIN g)
<1>1. IsFiniteSet(DOMAIN g) /\ \A x \in DOMAIN g : g[x] \in Int
  BY FS_Subset
<1>2. PICK it : AddsUp(it, DOMAIN f, f) /\ Total(f) = it[DOMAIN f]
  BY TotalIs
<1>3. PICK jt : AddsUp(jt, DOMAIN g, g) /\ Total(g) = jt[DOMAIN g]
  BY <1>1, TotalIs
<1>4. it[DOMAIN f] = f[z] + it[DOMAIN f \ {z}]
  BY <1>2, SumTake
<1>5. jt[DOMAIN g] = it[DOMAIN g]
  BY <1>1, <1>2, <1>3, SumUnique
<1> QED
  BY <1>1, <1>2, <1>3, <1>4, <1>5, TotalType

(* A linear bound that holds of each element holds of the sums, with its   *)
(* constant once for each of them.                                         *)
LEMMA TotalBound ==
    ASSUME NEW S, IsFiniteSet(S),
           NEW f \in [S -> Int], NEW u \in [S -> Int], NEW v \in [S -> Int], NEW w \in [S -> Int],
           NEW k \in Int, NEW a \in Int, NEW b \in Int, NEW c \in Int, NEW e \in Int,
           \A x \in S : k * f[x] <= a * u[x] + b * v[x] + c * w[x] + e
    PROVE  k * Total(f) <= a * Total(u) + b * Total(v) + c * Total(w) + e * Cardinality(S)
<1> DEFINE Part(h, s) == [x \in s |-> h[x]]
           Bad == {s \in SUBSET S :
                     ~(k * Total(Part(f, s)) <= a * Total(Part(u, s)) + b * Total(Part(v, s))
                                                + c * Total(Part(w, s)) + e * Cardinality(s))}
<1>1. ASSUME NEW s \in Bad, IsFiniteSet(s), \A x \in s : s \ {x} \notin Bad PROVE FALSE
  <2>1. CASE s = {}
    <3>1. \A h : Total(Part(h, {})) = 0
      BY TotalOfNone
    <3>2. Cardinality({}) = 0
      BY FS_EmptySet
    <3> QED
      BY <2>1, <3>1, <3>2
  <2>2. CASE s # {}
    <3>1. PICK x \in s : TRUE
      BY <2>2
    <3>2. ASSUME NEW h \in [S -> Int]
          PROVE  /\ Total(Part(h, s)) = h[x] + Total(Part(h, s \ {x}))
                 /\ Total(Part(h, s \ {x})) \in Int /\ h[x] \in Int
      <4>1. PICK all, rest : all = Part(h, s) /\ rest = Part(h, s \ {x})
        OBVIOUS
      <4>2. /\ DOMAIN all = s /\ DOMAIN rest = s \ {x}
            /\ \A y \in s : all[y] = h[y] /\ h[y] \in Int
            /\ \A y \in s \ {x} : rest[y] = h[y]
        BY <4>1
      <4>3. /\ IsFiniteSet(DOMAIN all) /\ \A y \in DOMAIN all : all[y] \in Int
            /\ x \in DOMAIN all /\ DOMAIN rest = DOMAIN all \ {x}
            /\ \A y \in DOMAIN rest : rest[y] = all[y]
        BY <1>1, <4>2
      <4> HIDE DEF Part, Bad
      <4>4. Total(all) = all[x] + Total(rest) /\ Total(rest) \in Int
        BY <4>3, TotalTake
      <4> QED
        BY <4>1, <4>2, <4>4
    <3>3. Cardinality(s) = Cardinality(s \ {x}) + 1 /\ Cardinality(s \ {x}) \in Nat
      <4>1. IsFiniteSet(s \ {x}) /\ Cardinality(s) \in Nat
        BY <1>1, FS_Subset, FS_CardinalityType
      <4>2. Cardinality(s \ {x}) = Cardinality(s) - 1 /\ Cardinality(s \ {x}) \in Nat
        BY <1>1, <4>1, FS_RemoveElement, FS_CardinalityType
      <4> QED
        BY <4>1, <4>2
    <3> DEFINE F == Total(Part(f, s \ {x}))  U == Total(Part(u, s \ {x}))
               V == Total(Part(v, s \ {x}))  W == Total(Part(w, s \ {x}))
               n == Cardinality(s \ {x})
    <3>4. k * F <= a * U + b * V + c * W + e * n
      BY <1>1
    <3>5. k * f[x] <= a * u[x] + b * v[x] + c * w[x] + e
      OBVIOUS
    <3>6. /\ F \in Int /\ U \in Int /\ V \in Int /\ W \in Int /\ n \in Int
          /\ f[x] \in Int /\ u[x] \in Int /\ v[x] \in Int /\ w[x] \in Int
      <4> HIDE DEF Part, Bad
      <4>1. /\ F \in Int /\ U \in Int /\ V \in Int /\ W \in Int
            /\ f[x] \in Int /\ u[x] \in Int /\ v[x] \in Int /\ w[x] \in Int
        BY ONLY <3>2, f \in [S -> Int], u \in [S -> Int], v \in [S -> Int], w \in [S -> Int], Zenon
           DEF F, U, V, W
      <4>2. n \in Int
        BY <3>3
      <4> QED
        BY <4>1, <4>2
    <3>7. ~(k * (f[x] + F) <= a * (u[x] + U) + b * (v[x] + V) + c * (w[x] + W) + e * (n + 1))
      BY <3>2, <3>3
    <3> HIDE DEF F, U, V, W, n, Bad
    <3>8. /\ k * (f[x] + F) = k * f[x] + k * F /\ a * (u[x] + U) = a * u[x] + a * U
          /\ b * (v[x] + V) = b * v[x] + b * V /\ c * (w[x] + W) = c * w[x] + c * W
          /\ e * (n + 1) = e * n + e
      BY <3>6
    <3>9. /\ k * F \in Int /\ k * f[x] \in Int /\ a * U \in Int /\ a * u[x] \in Int
          /\ b * V \in Int /\ b * v[x] \in Int /\ c * W \in Int /\ c * w[x] \in Int /\ e * n \in Int
      BY <3>6
    <3> QED
      BY <3>4, <3>5, <3>7, <3>8, <3>9
  <2> QED
    BY <2>1, <2>2
<1>2. Bad \in SUBSET SUBSET S
  OBVIOUS
<1>3. Bad = {}
  <2> HIDE DEF Bad
  <2> QED
    BY <1>1, <1>2, LeastSubset
<1>4. S \notin Bad
  BY <1>3
<1>5. Part(f, S) = f /\ Part(u, S) = u /\ Part(v, S) = v /\ Part(w, S) = w
  OBVIOUS
<1> HIDE DEF Part
<1> QED
  BY <1>4, <1>5

(* A sum is that over a subset and that over the rest.                     *)
LEMMA TotalSplit ==
    ASSUME NEW S, IsFiniteSet(S), NEW f \in [S -> Int], NEW X \in SUBSET S
    PROVE  Total(f) = Total([x \in X |-> f[x]]) + Total([x \in S \ X |-> f[x]])
<1> DEFINE Part(s) == [x \in s |-> f[x]]
           Bad == {s \in SUBSET X : Total(f) # Total(Part(s)) + Total(Part(S \ s))}
<1>1. ASSUME NEW s \in SUBSET S
      PROVE  /\ Total(Part(s)) \in Int
             /\ \A x \in s : Total(Part(s)) = f[x] + Total(Part(s \ {x}))
  <2>1. DOMAIN Part(s) = s /\ IsFiniteSet(s) /\ \A y \in s : Part(s)[y] = f[y] /\ Part(s)[y] \in Int
    BY FS_Subset
  <2>2. ASSUME NEW x \in s PROVE Total(Part(s)) = f[x] + Total(Part(s \ {x}))
    <3>1. /\ DOMAIN Part(s \ {x}) = s \ {x}
          /\ \A y \in s \ {x} : Part(s \ {x})[y] = f[y]
      OBVIOUS
    <3> HIDE DEF Part
    <3> QED
      BY <2>1, <3>1, TotalTake
  <2> HIDE DEF Part
  <2> QED
    BY <2>1, <2>2, TotalType
<1>2. Part(S) = f
  OBVIOUS
<1>3. ASSUME NEW s \in Bad, \A x \in s : s \ {x} \notin Bad PROVE FALSE
  <2>1. CASE s = {}
    <3>1. Total(Part({})) = 0
      BY TotalOfNone
    <3>2. S \ {} = S
      OBVIOUS
    <3> QED
      BY <1>1, <1>2, <2>1, <3>1, <3>2
  <2>2. CASE s # {}
    <3>1. PICK x \in s : TRUE
      BY <2>2
    <3>2. Total(f) = Total(Part(s \ {x})) + Total(Part(S \ (s \ {x})))
      BY <1>3
    <3>3. s \in SUBSET S /\ S \ (s \ {x}) \in SUBSET S /\ x \in S \ (s \ {x})
          /\ (S \ (s \ {x})) \ {x} = S \ s /\ s \ {x} \in SUBSET S /\ S \ s \in SUBSET S
      OBVIOUS
    <3>4. /\ Total(Part(s)) = f[x] + Total(Part(s \ {x}))
          /\ Total(Part(S \ (s \ {x}))) = f[x] + Total(Part((S \ (s \ {x})) \ {x}))
      <4> HIDE DEF Part
      <4> QED
        BY <1>1, <3>1, <3>3
    <3>5. Total(Part(S \ (s \ {x}))) = f[x] + Total(Part(S \ s))
      BY <3>3, <3>4
    <3>6. Total(Part(s \ {x})) \in Int /\ Total(Part(S \ s)) \in Int /\ f[x] \in Int
      BY <1>1, <3>3
    <3>7. Total(f) # Total(Part(s)) + Total(Part(S \ s))
      OBVIOUS
    <3> HIDE DEF Part, Bad
    <3> QED
      BY <3>2, <3>4, <3>5, <3>6, <3>7
  <2> QED
    BY <2>1, <2>2
<1>4. Bad \in SUBSET SUBSET X /\ IsFiniteSet(X)
  BY FS_Subset
<1>5. Bad = {}
  <2> HIDE DEF Bad
  <2> QED
    BY <1>3, <1>4, LeastSubset
<1>6. X \notin Bad
  BY <1>5
<1> QED
  BY <1>6

-----------------------------------------------------------------------------
(* Rounding.                                                               *)

LEMMA MaxIs ==
    ASSUME NEW a \in Int, NEW b \in Int
    PROVE  Max({a, b}) = IF a >= b THEN a ELSE b
  BY DEF Max

LEMMA MinIs ==
    ASSUME NEW a \in Int, NEW b \in Int
    PROVE  Min({a, b}) = IF a <= b THEN a ELSE b
  BY DEF Min

LEMMA ProductGrows ==
    ASSUME NEW k \in Nat, NEW a \in Int, NEW b \in Int
    PROVE  /\ a <= b => k * a <= k * b
           /\ k > 0 /\ k * a <= k * b => a <= b
           /\ k * a \in Int /\ (a >= 0 => k * a \in Nat)
<1>1. ASSUME a <= b PROVE k * a <= k * b
  <2>1. k * (b - a) >= 0 /\ k * (b - a) = k * b - k * a
    BY <1>1
  <2> QED
    BY <2>1
<1>2. ASSUME k > 0, k * a <= k * b, a > b PROVE FALSE
  <2>1. k * (a - b) > 0 /\ k * (a - b) = k * a - k * b
    BY <1>2
  <2> QED
    BY <1>2, <2>1
<1>3. k * a \in Int /\ (a >= 0 => k * a \in Nat)
  OBVIOUS
<1> QED
  BY <1>1, <1>2, <1>3

(* To the even neighbour: within one half.                                 *)
LEMMA HalfEvenIs ==
    ASSUME NEW n \in Nat, NEW d \in Nat \ {0}
    PROVE  /\ HalfEven(n, d) \in Nat
           /\ 2 * (d * HalfEven(n, d)) <= 2 * n + d
           /\ 2 * n <= 2 * (d * HalfEven(n, d)) + d
<1> DEFINE q == n \div d
           m == n % d
<1>1. q \in Nat /\ m \in Nat /\ m < d /\ n = d * q + m
  OBVIOUS
<1> HIDE DEF q, m
<1>2. d * (q + 1) = d * q + d
  BY <1>1
<1>3. HalfEven(n, d) = IF 2 * m < d \/ (2 * m = d /\ q % 2 = 0) THEN q ELSE q + 1
  BY DEF HalfEven, q, m
<1>4. d * q \in Nat
  BY <1>1
<1> DEFINE p == d * q
<1>5. \/ HalfEven(n, d) = q /\ 2 * m <= d
      \/ HalfEven(n, d) = q + 1 /\ 2 * m >= d
  <2> HIDE DEF p
  <2>1. CASE 2 * m < d \/ (2 * m = d /\ q % 2 = 0)
    BY <1>1, <1>3, <2>1
  <2>2. CASE ~(2 * m < d \/ (2 * m = d /\ q % 2 = 0))
    BY <1>1, <1>3, <2>2
  <2> QED
    BY <2>1, <2>2
<1>6. CASE HalfEven(n, d) = q /\ 2 * m <= d
  <2> HIDE DEF p
  <2>1. d * HalfEven(n, d) = p /\ n = p + m /\ p \in Nat
    BY <1>1, <1>4, <1>6 DEF p
  <2> QED
    BY <1>1, <1>6, <2>1
<1>7. CASE HalfEven(n, d) = q + 1 /\ 2 * m >= d
  <2> HIDE DEF p
  <2>1. d * HalfEven(n, d) = p + d /\ n = p + m /\ p \in Nat
    BY <1>1, <1>2, <1>4, <1>7 DEF p
  <2> QED
    BY <1>1, <1>7, <2>1
<1> QED
  BY <1>5, <1>6, <1>7

(* A column rounds to whole cents, by half a cent at most.                 *)
LEMMA ColumnIs ==
    ASSUME NEW x \in Int
    PROVE  /\ \E m \in Int : Column(x) = Cents(m)
           /\ Column(x) \in Int /\ x - 49 <= Column(x) /\ Column(x) <= x + 50
           /\ x >= 0 => Column(x) \in Nat
  BY DEF Column, Cents

LEMMA CentsAre ==
    ASSUME NEW n \in Nat
    PROVE  Cents(n) \in Nat
  BY DEF Cents

(* A tax is of whole cents, within half a cent of its rate.                *)
LEMMA TaxIs ==
    ASSUME NEW g \in Nat
    PROVE  /\ Tax(g) \in Nat /\ \E m \in Nat : Tax(g) = Cents(m)
           /\ g * TaxRate \in Nat
           /\ 100 * Tax(g) <= g * TaxRate + 5000 /\ g * TaxRate <= 100 * Tax(g) + 5000
<1>1. g * TaxRate \in Nat
  BY CatalogueAssumption
<1> DEFINE n == g * TaxRate
           h == HalfEven(n, 10000)
<1>2. n \in Nat
  BY <1>1
<1> HIDE DEF n
<1>3. h \in Nat /\ 2 * (10000 * h) <= 2 * n + 10000 /\ 2 * n <= 2 * (10000 * h) + 10000
  BY <1>2, HalfEvenIs
<1>4. Tax(g) = Cents(h)
  BY DEF Tax, n
<1> HIDE DEF h
<1> QED
  BY <1>2, <1>3, <1>4 DEF Cents, n

LEMMA SalePriceIs ==
    ASSUME NEW o \in Offers
    PROVE  SalePrice(o) \in Nat
<1>1. o.price \in Nat /\ o.discount \in Int /\ o.price * (100 - o.discount) \in Int
  BY CatalogueAssumption
<1>2. Cents(o.price - o.discount) \in Int
  BY <1>1 DEF Cents
<1>3. \A n \in Int : Max({n, 0}) \in Nat
  BY MaxIs
<1> QED
  BY <1>1, <1>2, <1>3, CentsAre DEF SalePrice

-----------------------------------------------------------------------------
(* The lines of a cart.                                                    *)
LEMMA SubtotalIs ==
    ASSUME NEW lines \in SUBSET Line, IsFiniteSet(lines)
    PROVE  /\ Subtotal(lines) \in Nat
           /\ \A some \in SUBSET lines :
                 /\ Subtotal(some) \in Nat /\ Subtotal(some) <= Subtotal(lines)
                 /\ Subtotal(lines) = Subtotal(some) + Subtotal(lines \ some)
<1>1. ASSUME NEW l \in Line PROVE LinePrice(l) \in Nat
  <2>1. SalePrice(l.offer) \in Nat /\ l.qty \in Nat
    BY SalePriceIs, CatalogueAssumption DEF Line
  <2> QED
    BY <2>1, ProductGrows DEF LinePrice
<1>2. ASSUME NEW some \in SUBSET lines
      PROVE  Subtotal(some) \in Nat
  <2> DEFINE f == [l \in some |-> LinePrice(l)]
  <2>1. IsFiniteSet(DOMAIN f) /\ \A l \in DOMAIN f : f[l] \in Nat
    BY <1>1, FS_Subset
  <2>2. Subtotal(some) = Total(f)
    BY DEF Subtotal
  <2> HIDE DEF f
  <2> QED
    BY <2>1, <2>2, TotalType
<1>3. ASSUME NEW some \in SUBSET lines
      PROVE  Subtotal(lines) = Subtotal(some) + Subtotal(lines \ some)
  <2> DEFINE f == [l \in lines |-> LinePrice(l)]
  <2>1. f \in [lines -> Int]
    BY <1>1
  <2>2. /\ Subtotal(lines) = Total(f)
        /\ Subtotal(some) = Total([l \in some |-> f[l]])
        /\ Subtotal(lines \ some) = Total([l \in lines \ some |-> f[l]])
    <3>1. /\ [l \in some |-> f[l]] = [l \in some |-> LinePrice(l)]
          /\ [l \in lines \ some |-> f[l]] = [l \in lines \ some |-> LinePrice(l)]
      OBVIOUS
    <3> QED
      BY <3>1 DEF Subtotal
  <2> HIDE DEF f
  <2>3. Total(f) = Total([l \in some |-> f[l]]) + Total([l \in lines \ some |-> f[l]])
    BY <2>1, TotalSplit
  <2> QED
    BY <2>2, <2>3
<1>4. lines \in SUBSET lines /\ \A some \in SUBSET lines : lines \ some \in SUBSET lines
  OBVIOUS
<1>5. Subtotal(lines) \in Nat
  BY <1>2, <1>4
<1>6. ASSUME NEW some \in SUBSET lines
      PROVE  Subtotal(some) <= Subtotal(lines)
  <2>1. Subtotal(some) \in Nat /\ Subtotal(lines \ some) \in Nat
    BY <1>2, <1>4
  <2>2. Subtotal(lines) = Subtotal(some) + Subtotal(lines \ some)
    BY <1>3
  <2> QED
    BY <2>1, <2>2
<1> QED
  BY <1>2, <1>3, <1>5, <1>6

LEMMA ShopsAreFinite ==
    ASSUME NEW lines \in SUBSET Line
    PROVE  /\ ShopsOf(lines) \in SUBSET Shops /\ IsFiniteSet(ShopsOf(lines))
           /\ lines # {} => ShopsOf(lines) # {}
<1>1. ShopsOf(lines) \in SUBSET Shops
  BY CatalogueAssumption DEF ShopsOf, Line
<1> QED
  BY <1>1, FS_Subset, CatalogueAssumption DEF ShopsOf

(* Reckoned shop by shop, lines come to the same.                          *)
LEMMA SubtotalByShop ==
    ASSUME NEW lines \in SUBSET Line, IsFiniteSet(lines),
           NEW X, IsFiniteSet(X), ShopsOf(lines) \subseteq X
    PROVE  Subtotal(lines) = Total([s \in X |-> Subtotal(LinesOf(lines, s))])
<1> DEFINE g(Y) == [s \in Y |-> Subtotal(LinesOf(lines, s))]
           At(Y) == {l \in lines : ShopOf[l.product] \in Y}
           Bad == {Y \in SUBSET X : Subtotal(At(Y)) # Total(g(Y))}
<1>1. \A some \in SUBSET lines : IsFiniteSet(some)
  BY FS_Subset
<1>2. ASSUME NEW Y \in Bad, IsFiniteSet(Y), \A s \in Y : Y \ {s} \notin Bad PROVE FALSE
  <2>1. CASE Y = {}
    <3>1. Total(g({})) = 0 /\ At({}) = {}
      BY TotalOfNone
    <3>2. Subtotal({}) = 0
      BY TotalOfNone DEF Subtotal
    <3> QED
      BY <2>1, <3>1, <3>2
  <2>2. CASE Y # {}
    <3>1. PICK s \in Y : Subtotal(At(Y \ {s})) = Total(g(Y \ {s}))
      BY <1>2, <2>2
    <3>2. /\ LinesOf(lines, s) \in SUBSET At(Y) /\ At(Y) \in SUBSET Line
          /\ At(Y) \ LinesOf(lines, s) = At(Y \ {s}) /\ IsFiniteSet(At(Y))
      BY <1>1 DEF LinesOf
    <3> HIDE DEF At
    <3>3. Subtotal(At(Y)) = Subtotal(LinesOf(lines, s)) + Subtotal(At(Y \ {s}))
      BY <3>2, SubtotalIs
    <3>4. \A o \in Y : Subtotal(LinesOf(lines, o)) \in Int
      <4>1. \A o \in Y : LinesOf(lines, o) \in SUBSET lines
        BY DEF LinesOf
      <4>2. \A some \in SUBSET lines : Subtotal(some) \in Nat
        BY SubtotalIs
      <4>3. \A o \in Y : Subtotal(LinesOf(lines, o)) \in Nat
        BY <4>1, <4>2
      <4> QED
        BY <4>3
    <3>5. PICK all, rest : all = g(Y) /\ rest = g(Y \ {s})
      OBVIOUS
    <3>6. /\ IsFiniteSet(DOMAIN all) /\ \A o \in DOMAIN all : all[o] \in Int
          /\ s \in DOMAIN all /\ DOMAIN rest = DOMAIN all \ {s}
          /\ \A o \in DOMAIN rest : rest[o] = all[o]
          /\ all[s] = Subtotal(LinesOf(lines, s))
      BY <1>2, <3>4, <3>5
    <3> HIDE DEF g, Bad
    <3>7. Total(all) = all[s] + Total(rest)
      BY <3>6, TotalTake
    <3>8. Subtotal(At(Y)) = Total(g(Y))
      BY <3>1, <3>3, <3>5, <3>6, <3>7
    <3> QED
      BY <3>8 DEF Bad
  <2> QED
    BY <2>1, <2>2
<1>3. Bad \in SUBSET SUBSET X
  OBVIOUS
<1>4. Bad = {}
  <2> HIDE DEF Bad
  <2> QED
    BY <1>2, <1>3, LeastSubset
<1>5. X \notin Bad /\ At(X) = lines
  BY <1>4 DEF ShopsOf
<1> QED
  BY <1>5

-----------------------------------------------------------------------------
(* A coupon on the goods.                                                  *)

LEMMA CouponIs ==
    ASSUME coupon \in Coupons
    PROVE  /\ coupon.kind \in CouponKinds /\ coupon.discountType \in Discounts
           /\ coupon.discount \in Nat \ {0} /\ coupon.minPurchase \in Nat
           /\ coupon.maxDiscount \in Nat \cup {None} /\ coupon.shop \in Shops \cup {None}
           /\ coupon.discountType = "percent" => coupon.discount <= 100
  BY CouponAssumption

LEMMA LinesAre ==
    ASSUME NEW lines \in SUBSET Line, IsFiniteSet(lines), NEW s
    PROVE  /\ LinesOf(lines, s) \in SUBSET lines
           /\ Eligible(lines) \in SUBSET lines
           /\ LinesOf(Eligible(lines), s) \in SUBSET Eligible(lines)
           /\ LinesOf(Eligible(lines), s) \in SUBSET LinesOf(lines, s)
           /\ coupon.shop \notin {s, None} => LinesOf(Eligible(lines), s) = {}
           /\ Subtotal(lines) \in Nat /\ Subtotal(Eligible(lines)) \in Nat
           /\ Subtotal(LinesOf(lines, s)) \in Nat
           /\ Subtotal(LinesOf(Eligible(lines), s)) \in Nat
           /\ Subtotal(LinesOf(Eligible(lines), s)) <= Subtotal(LinesOf(lines, s))
           /\ Subtotal(LinesOf(Eligible(lines), s)) <= Subtotal(Eligible(lines))
<1> DEFINE E == Eligible(lines)
           M == LinesOf(lines, s)
           m == LinesOf(Eligible(lines), s)
<1>1. M \in SUBSET lines /\ E \in SUBSET lines /\ m \in SUBSET E /\ m \in SUBSET M
  BY DEF Eligible, LinesOf
<1>2. coupon.shop \notin {s, None} => m = {}
  BY DEF Eligible, LinesOf
<1>3. /\ E \in SUBSET Line /\ IsFiniteSet(E) /\ M \in SUBSET Line /\ IsFiniteSet(M)
      /\ lines \in SUBSET lines
  BY <1>1, FS_Subset
<1> HIDE DEF E, M, m
<1>4. Subtotal(lines) \in Nat /\ Subtotal(E) \in Nat /\ Subtotal(M) \in Nat
  BY <1>1, <1>3, SubtotalIs
<1>5. Subtotal(m) \in Nat /\ Subtotal(m) <= Subtotal(M)
  BY <1>1, <1>3, SubtotalIs
<1>6. Subtotal(m) <= Subtotal(E)
  BY <1>1, <1>3, SubtotalIs
<1> QED
  BY <1>1, <1>2, <1>4, <1>5, <1>6 DEF E, M, m

(* No more than the goods it is on, half a cent aside, nor than its terms. *)
LEMMA DiscountIs ==
    ASSUME NEW lines \in SUBSET Line, IsFiniteSet(lines), coupon \in Coupons,
           coupon.kind # "free_delivery"
    PROVE  /\ Discount(lines) \in Nat
           /\ Discount(lines) <= Subtotal(Eligible(lines)) + 50
           /\ coupon.discountType = "flat" => Discount(lines) <= Cents(coupon.discount)
           /\ coupon.discountType = "percent" /\ coupon.maxDiscount # None =>
                 Discount(lines) <= Cents(coupon.maxDiscount)
<1> DEFINE W == Subtotal(Eligible(lines))
           d == coupon.discount
           h == HalfEven(W * d, 10000)
<1>1. W \in Nat
  BY LinesAre
<1>2. d \in Nat
  BY CouponIs
<1> HIDE DEF W, d, h
<1>3. CASE coupon.discountType = "flat"
  <2>1. Discount(lines) = Min({Cents(d), W})
    BY <1>3 DEF Discount, W, d
  <2>2. Cents(d) \in Nat
    BY <1>2, CentsAre
  <2>3. Discount(lines) \in Nat /\ Discount(lines) <= W /\ Discount(lines) <= Cents(d)
    BY <1>1, <2>1, <2>2, MinIs
  <2> QED
    BY <1>1, <1>3, <2>3 DEF W, d
<1>4. CASE coupon.discountType = "percent"
  <2>1. d <= 100
    BY <1>4, CouponIs DEF d
  <2>2. W * d \in Nat /\ W * d <= W * 100
    BY <1>1, <1>2, <2>1, ProductGrows
  <2> DEFINE n == W * d
  <2>3. n \in Nat /\ n <= 100 * W
    BY <1>1, <2>2
  <2> HIDE DEF n
  <2>4. h = HalfEven(n, 10000)
    BY DEF h, n
  <2>5. h \in Nat /\ 2 * (10000 * h) <= 2 * n + 10000
    BY <2>3, <2>4, HalfEvenIs
  <2>6. Cents(h) \in Nat /\ Cents(h) <= W + 50
    BY <1>1, <2>3, <2>5 DEF Cents
  <2>7. Discount(lines) = IF coupon.maxDiscount = None THEN Cents(h)
                          ELSE Min({Cents(h), Cents(coupon.maxDiscount)})
    BY <1>4 DEF Discount, W, d, h
  <2>8. CASE coupon.maxDiscount = None
    BY <1>4, <2>6, <2>7, <2>8 DEF W
  <2>9. CASE coupon.maxDiscount # None
    <3>1. Cents(coupon.maxDiscount) \in Nat
      BY <2>9, CouponIs, CentsAre
    <3>2. /\ Discount(lines) \in Nat /\ Discount(lines) <= Cents(h)
          /\ Discount(lines) <= Cents(coupon.maxDiscount)
      BY <2>6, <2>7, <2>9, <3>1, MinIs
    <3> QED
      BY <1>1, <1>4, <2>6, <3>2 DEF W
  <2> QED
    BY <2>8, <2>9
<1> QED
  BY <1>3, <1>4, CouponIs DEF Discounts

(* The part of a shop is its share of the goods, half a cent aside.        *)
LEMMA SplitIs ==
    ASSUME NEW lines \in SUBSET Line, IsFiniteSet(lines), coupon \in Coupons,
           coupon.kind # "free_delivery", CouponValid(lines), NEW s
    PROVE  LET W == Subtotal(Eligible(lines))
               D == Discount(lines)
               w == Subtotal(LinesOf(Eligible(lines), s)) IN
           /\ Split(lines, s) \in Nat
           /\ W * Split(lines, s) <= D * w + 50 * W
           /\ D * w <= W * Split(lines, s) + 50 * W
           /\ Split(lines, s) > 0 => coupon.shop \in {s, None}
<1> DEFINE W == Subtotal(Eligible(lines))
           D == Discount(lines)
           mine == LinesOf(Eligible(lines), s)
           w == Subtotal(mine)
<1>1. W \in Nat \ {0}
  BY LinesAre DEF CouponValid
<1>2. w \in Nat /\ (coupon.shop \notin {s, None} => mine = {})
  BY LinesAre
<1>3. D \in Nat
  BY DiscountIs
<1>4. Subtotal({}) = 0
  BY TotalOfNone DEF Subtotal
<1>5. Split(lines, s) = IF mine = {} THEN 0 ELSE Cents(HalfEven(D * w, 100 * W))
  BY DEF Split
<1> HIDE DEF W, D, mine
<1>6. CASE mine = {}
  <2>1. w = 0 /\ Split(lines, s) = 0
    BY <1>4, <1>5, <1>6
  <2>2. W * 0 = 0 /\ D * 0 = 0 /\ 50 * W \in Nat
    BY <1>1, <1>3
  <2> QED
    BY <2>1, <2>2 DEF W, D, mine
<1>7. CASE mine # {}
  <2> HIDE DEF w
  <2> DEFINE n == D * w
             h == HalfEven(n, 100 * W)
             p == W * h
  <2>1. n \in Nat /\ 100 * W \in Nat \ {0}
    BY <1>1, <1>2, <1>3, ProductGrows
  <2>2. Split(lines, s) = 100 * h
    BY <1>5, <1>7 DEF Cents
  <2> HIDE DEF n, h
  <2>3. /\ h \in Nat
        /\ 2 * ((100 * W) * h) <= 2 * n + 100 * W /\ 2 * n <= 2 * ((100 * W) * h) + 100 * W
    BY <2>1, HalfEvenIs DEF h
  <2>4. p \in Nat /\ (100 * W) * h = 100 * p /\ W * (100 * h) = 100 * p
    BY <1>1, <2>3, ProductGrows
  <2> HIDE DEF p
  <2>5. W * Split(lines, s) = 100 * p /\ Split(lines, s) \in Nat
    BY <2>2, <2>3, <2>4
  <2>6. 100 * p <= n + 50 * W /\ n <= 100 * p + 50 * W
    BY <1>1, <2>1, <2>3, <2>4
  <2>7. coupon.shop \in {s, None}
    BY <1>2, <1>7
  <2> QED
    BY <2>5, <2>6, <2>7 DEF n, W, D, w, mine
<1> QED
  BY <1>6, <1>7 DEF W, D, w, mine

-----------------------------------------------------------------------------
(* The row of an order.  Less a share sp of a discount D on goods of W: by *)
(* the rounding of the tax, of the share and of the column, within a cent  *)
(* and a half of what it is of the cart as a whole.                        *)
RowFigures(W, D, w, g, C, T, r, sp) ==
    /\ W \in Nat \ {0} /\ D \in Nat /\ w \in Nat /\ g \in Nat /\ C \in Nat /\ T \in Nat /\ r \in Nat
    /\ sp \in Nat /\ W * sp <= D * w + 50 * W /\ D * w <= W * sp + 50 * W
    /\ D <= W + 50 /\ w <= W /\ w <= g
    /\ 100 * T <= r + 5000 /\ r <= 100 * T + 5000

LEMMA RowNumbers ==
    ASSUME NEW W, NEW D, NEW w, NEW g, NEW C, NEW T, NEW r, NEW sp,
           RowFigures(W, D, w, g, C, T, r, sp),
           NEW F, F = Column(Max({0, g + C + T - sp}))
    PROVE  /\ F \in Int
           /\ 100 * (W * F) <= 100 * (W * g) + 100 * (W * C) + W * r - 100 * (D * w) + 15000 * W
           /\ 100 * (W * g) + 100 * (W * C) + W * r - 100 * (D * w) <= 100 * (W * F) + 15000 * W
<1> DEFINE R == g + C + T - sp
<1> USE DEF RowFigures
<1>1. R \in Int
  OBVIOUS
<1>2. /\ F \in Int /\ F >= R - 49
      /\ F = 0 \/ F <= R + 50
  <2>1. Max({0, R}) = IF 0 >= R THEN 0 ELSE R
    BY <1>1, MaxIs
  <2>2. Column(0) = 0
    BY DEF Column, Cents
  <2>3. R - 49 <= Column(R) /\ Column(R) <= R + 50 /\ Column(R) \in Int
    BY <1>1, ColumnIs
  <2> QED
    BY <1>1, <2>1, <2>2, <2>3
<1> DEFINE WF == W * F  Wg == W * g  WC == W * C  WT == W * T  Wr == W * r  Wsp == W * sp  Dw == D * w
           WR == W * R
<1>3. /\ WF \in Int /\ WR \in Int /\ Wg \in Nat /\ WC \in Nat /\ WT \in Nat /\ Wr \in Nat
      /\ Wsp \in Nat /\ Dw \in Nat
  <2> HIDE DEF R
  <2> QED
    BY <1>1, <1>2, ProductGrows
<1>4. WR = Wg + WC + WT - Wsp
  OBVIOUS
<1>5. 100 * WT <= Wr + 5000 * W /\ Wr <= 100 * WT + 5000 * W
  <2>1. W * (100 * T) <= W * (r + 5000) /\ W * r <= W * (100 * T + 5000)
    BY ProductGrows
  <2>2. /\ W * (100 * T) = 100 * WT /\ W * (r + 5000) = Wr + 5000 * W
        /\ W * (100 * T + 5000) = 100 * WT + 5000 * W
    OBVIOUS
  <2> HIDE DEF WT, Wr
  <2> QED
    BY <2>1, <2>2 DEF Wr
<1>6. Dw <= Wg + 50 * W
  <2>1. w * D <= w * (W + 50)
    BY ProductGrows
  <2>2. W * w <= Wg
    BY ProductGrows
  <2>3. w * (W + 50) = W * w + 50 * w /\ w * D = Dw
    OBVIOUS
  <2>4. W * w \in Nat
    BY ProductGrows
  <2> DEFINE Ww == W * w
  <2> HIDE DEF Ww, Wg, Dw
  <2>5. Dw <= Ww + 50 * w /\ Ww <= Wg /\ Ww \in Nat
    BY <2>1, <2>2, <2>3, <2>4 DEF Ww
  <2> QED
    BY <1>3, <2>5
<1>7. WF >= WR - 49 * W
  <2> HIDE DEF R
  <2>1. W * (R - 49) <= W * F
    BY <1>1, <1>2, ProductGrows
  <2>2. W * (R - 49) = WR - 49 * W
    BY <1>1
  <2> QED
    BY <2>1, <2>2
<1>8. WF = 0 \/ WF <= WR + 50 * W
  <2> HIDE DEF R
  <2>1. CASE F = 0
    BY <2>1
  <2>2. CASE F <= R + 50
    <3>1. W * F <= W * (R + 50)
      BY <1>1, <1>2, <2>2, ProductGrows
    <3>2. W * (R + 50) = WR + 50 * W
      BY <1>1
    <3> QED
      BY <3>1, <3>2
  <2> QED
    BY <1>2, <2>1, <2>2
<1>9. Wsp <= Dw + 50 * W /\ Dw <= Wsp + 50 * W
  OBVIOUS
<1> HIDE DEF WF, Wg, WC, WT, Wr, Wsp, Dw, WR, R
<1>10. 100 * WF <= 100 * Wg + 100 * WC + Wr - 100 * Dw + 15000 * W
  <2>1. CASE WF = 0
    BY <1>3, <1>6, <2>1
  <2>2. CASE WF <= WR + 50 * W
    BY <1>3, <1>4, <1>5, <1>9, <2>2
  <2> QED
    BY <1>8, <2>1, <2>2
<1>11. 100 * Wg + 100 * WC + Wr - 100 * Dw <= 100 * WF + 15000 * W
  BY <1>3, <1>4, <1>5, <1>7, <1>9
<1> QED
  BY <1>2, <1>10, <1>11 DEF WF, Wg, WC, Wr, Dw

(* The same of a cart: F is what the rows come to, sw the goods the coupon  *)
(* is on.                                                                  *)
CartFigures(W, D, G, V, n, rate, T, F, sw) ==
    /\ W \in Nat \ {0} /\ D \in Nat /\ G \in Nat /\ V \in Nat /\ n \in Nat \ {0}
    /\ rate \in Nat /\ T \in Nat /\ F \in Int /\ sw \in Int /\ D * sw = D * W
    /\ (100 * W) * F <= (100 * W + W * rate) * G + (100 * W) * V + (-(100 * D)) * sw
                       + (15000 * W) * n
    /\ (-(100 * W)) * F <= (-(100 * W + W * rate)) * G + (-(100 * W)) * V + (100 * D) * sw
                       + (15000 * W) * n
    /\ 100 * T <= G * rate + 5000 /\ G * rate <= 100 * T + 5000

LEMMA ChargeNumbers ==
    ASSUME NEW W, NEW D, NEW G, NEW V, NEW n, NEW rate, NEW T, NEW F, NEW sw,
           CartFigures(W, D, G, V, n, rate, T, F, sw)
    PROVE  F - (G + V + T - D) <= 200 * n /\ (G + V + T - D) - F <= 200 * n
<1> DEFINE r == G * rate
           x == 100 * F
           y == 100 * G + r + 100 * V - 100 * D
<1> USE DEF CartFigures
<1>1. r \in Nat
  BY ProductGrows
<1>2. /\ (100 * W) * F = W * x /\ (-(100 * W)) * F = -(W * x)
      /\ (100 * W + W * rate) * G = W * (100 * G) + W * r
      /\ (-(100 * W + W * rate)) * G = -(W * (100 * G) + W * r)
      /\ (100 * W) * V = W * (100 * V) /\ (-(100 * W)) * V = -(W * (100 * V))
  OBVIOUS
<1>3. /\ (100 * D) * sw = 100 * (D * sw) /\ (-(100 * D)) * sw = -(100 * (D * sw))
      /\ 100 * (D * sw) = W * (100 * D)
  OBVIOUS
<1>4. (15000 * W) * n = W * (15000 * n)
  OBVIOUS
<1>5. W * y = W * (100 * G) + W * r + W * (100 * V) - W * (100 * D)
  <2> HIDE DEF r
  <2> QED
    BY <1>1
<1>6. /\ W * (y + 15000 * n) = W * y + W * (15000 * n)
      /\ W * (x + 15000 * n) = W * x + W * (15000 * n)
      /\ y \in Int /\ x \in Int
  <2>1. y \in Int /\ x \in Int
    BY <1>1
  <2> HIDE DEF x, y
  <2> QED
    BY <2>1
<1> DEFINE Wx == W * x  Wy == W * y  W1 == W * (100 * G)  W2 == W * r  W3 == W * (100 * V)
           W4 == W * (100 * D)  W5 == W * (15000 * n)
<1>7. /\ Wx \in Int /\ Wy \in Int /\ W1 \in Int /\ W2 \in Int /\ W3 \in Int /\ W4 \in Int
      /\ W5 \in Int
  <2> HIDE DEF x, y
  <2> QED
    BY <1>1, <1>6
<1>8. Wx <= W1 + W2 + W3 - W4 + W5 /\ -Wx <= -(W1 + W2) - W3 + W4 + W5
  <2>1. /\ Wx <= (W1 + W2) + W3 + (-W4) + W5
        /\ -Wx <= (-(W1 + W2)) + (-W3) + W4 + W5
    BY <1>2, <1>3, <1>4
  <2> HIDE DEF Wx, W1, W2, W3, W4, W5
  <2> QED
    BY <1>7, <2>1
<1>9. Wy = W1 + W2 + W3 - W4
  BY <1>5
<1>10. W * x <= W * (y + 15000 * n) /\ W * y <= W * (x + 15000 * n)
  <2>1. Wx <= Wy + W5 /\ Wy <= Wx + W5
    <3> HIDE DEF Wx, Wy, W1, W2, W3, W4, W5
    <3> QED
      BY <1>7, <1>8, <1>9
  <2> QED
    BY <1>6, <2>1
<1>11. x <= y + 15000 * n /\ y <= x + 15000 * n
  <2>1. y + 15000 * n \in Int /\ x + 15000 * n \in Int
    BY <1>6
  <2> HIDE DEF x, y
  <2> QED
    BY <1>6, <1>10, <2>1, ProductGrows
<1> HIDE DEF r
<1> QED
  BY <1>1, <1>11

(* The rows of a checkout come to the cart as a whole, less the discount,  *)
(* within two cents for each.                                              *)
LEMMA ChargeIs ==
    ASSUME NEW lines \in SUBSET Line, IsFiniteSet(lines), lines # {}, NEW use \in BOOLEAN,
           coupon \in Coupons, use => CouponValid(lines) /\ coupon.kind # "free_delivery",
           \A s \in ShopsOf(lines) : chosen[s] \in Nat /\ chosen[s] # None
    PROVE  LET charged == Total([s \in ShopsOf(lines) |-> Row(lines, s, use).amount])
               whole == Subtotal(lines) + DeliveryOf(ShopsOf(lines)) + Tax(Subtotal(lines))
                        - (IF use THEN Discount(lines) ELSE 0) IN
           Near(charged, whole, 2 * Cardinality(ShopsOf(lines)))
<1> DEFINE X == ShopsOf(lines)
           n == Cardinality(X)
           G == Subtotal(lines)
           W == IF use THEN Subtotal(Eligible(lines)) ELSE 1
           D == IF use THEN Discount(lines) ELSE 0
           f == [s \in X |-> Row(lines, s, use).amount]
           g == [s \in X |-> Subtotal(LinesOf(lines, s))]
           v == [s \in X |-> Delivery(s)]
           w == [s \in X |-> IF use THEN Subtotal(LinesOf(Eligible(lines), s)) ELSE 0]
<1>1. IsFiniteSet(X) /\ X # {} /\ n \in Nat \ {0}
  <2>1. IsFiniteSet(X) /\ X # {}
    BY ShopsAreFinite
  <2> QED
    BY <2>1, FS_CardinalityType, FS_EmptySet
<1>2. W \in Nat \ {0} /\ D \in Nat /\ D <= W + 50 /\ G \in Nat
  BY LinesAre, DiscountIs DEF CouponValid
<1>3. ASSUME NEW s \in X
      PROVE  /\ f[s] \in Int /\ g[s] \in Nat /\ v[s] \in Nat /\ w[s] \in Nat
             /\ (100 * W) * f[s] <= (100 * W + W * TaxRate) * g[s] + (100 * W) * v[s]
                                    + (-(100 * D)) * w[s] + 15000 * W
             /\ (-(100 * W)) * f[s] <= (-(100 * W + W * TaxRate)) * g[s] + (-(100 * W)) * v[s]
                                    + (100 * D) * w[s] + 15000 * W
  <2> DEFINE wi == IF use THEN Subtotal(LinesOf(Eligible(lines), s)) ELSE 0
             gi == Subtotal(LinesOf(lines, s))
             sp == IF use THEN Split(lines, s) ELSE 0
             C  == Delivery(s)
             T  == Tax(gi)
             r  == gi * TaxRate
             F  == Column(Max({0, gi + C + T - sp}))
  <2>1. gi \in Nat /\ wi \in Nat /\ wi <= gi /\ wi <= W
    BY LinesAre
  <2>2. T \in Nat /\ r \in Nat /\ 100 * T <= r + 5000 /\ r <= 100 * T + 5000
    <3> HIDE DEF gi
    <3> QED
      BY <2>1, TaxIs
  <2>3. C \in Nat /\ C = Cents(chosen[s])
    BY CentsAre DEF Delivery
  <2>4. sp \in Nat /\ W * sp <= D * wi + 50 * W /\ D * wi <= W * sp + 50 * W
    <3>1. CASE use
      BY <3>1, SplitIs
    <3>2. CASE ~use
      BY <3>2
    <3> QED
      BY <3>1, <3>2
  <2>5. f[s] = F /\ g[s] = gi /\ v[s] = C /\ w[s] = wi
    <3>1. ShippingOf(s, use) = C
      BY <2>3 DEF ShippingOf
    <3> QED
      BY <3>1 DEF Row, Reckoned
  <2> HIDE DEF wi, gi, sp, C, T, r, W, D, f, g, v, w
  <2>6. PICK y : y = F
    OBVIOUS
  <2> HIDE DEF F
  <2>7. /\ F \in Int
        /\ 100 * (W * F) <= 100 * (W * gi) + 100 * (W * C) + W * r - 100 * (D * wi) + 15000 * W
        /\ 100 * (W * gi) + 100 * (W * C) + W * r - 100 * (D * wi) <= 100 * (W * F) + 15000 * W
    <3>1. y = Column(Max({0, gi + C + T - sp}))
      BY <2>6 DEF F
    <3>2. /\ y \in Int
          /\ 100 * (W * y) <= 100 * (W * gi) + 100 * (W * C) + W * r - 100 * (D * wi) + 15000 * W
          /\ 100 * (W * gi) + 100 * (W * C) + W * r - 100 * (D * wi) <= 100 * (W * y) + 15000 * W
      <4>1. RowFigures(W, D, wi, gi, C, T, r, sp)
        BY <1>2, <2>1, <2>2, <2>3, <2>4 DEF RowFigures
      <4> QED
        BY <3>1, <4>1, RowNumbers
    <3> QED
      BY <2>6, <3>2
  <2>8. /\ (100 * W) * F = 100 * (W * F) /\ (-(100 * W)) * F = -(100 * (W * F))
        /\ (100 * W) * C = 100 * (W * C) /\ (-(100 * W)) * C = -(100 * (W * C))
        /\ (100 * D) * wi = 100 * (D * wi) /\ (-(100 * D)) * wi = -(100 * (D * wi))
    BY <1>2, <2>1, <2>3, <2>7
  <2>9. /\ (100 * W + W * TaxRate) * gi = 100 * (W * gi) + W * r
        /\ (-(100 * W + W * TaxRate)) * gi = -(100 * (W * gi) + W * r)
    BY <1>2, <2>1, CatalogueAssumption DEF r
  <2>10. W * F \in Int /\ W * gi \in Int /\ W * C \in Int /\ W * r \in Int /\ D * wi \in Int
    BY <1>2, <2>1, <2>2, <2>3, <2>7
  <2> DEFINE a == W * F  b == W * gi  c == W * C  d == W * r  e == D * wi
  <2>11. /\ 100 * a <= 100 * b + d + 100 * c + (-(100 * e)) + 15000 * W
         /\ -(100 * a) <= (-(100 * b + d)) + (-(100 * c)) + 100 * e + 15000 * W
    <3>1. /\ 100 * a <= 100 * b + 100 * c + d - 100 * e + 15000 * W
          /\ 100 * b + 100 * c + d - 100 * e <= 100 * a + 15000 * W
          /\ a \in Int /\ b \in Int /\ c \in Int /\ d \in Int /\ e \in Int
      BY <2>7, <2>10
    <3> HIDE DEF a, b, c, d, e
    <3> QED
      BY <1>2, <3>1
  <2> QED
    BY <2>1, <2>3, <2>5, <2>7, <2>8, <2>9, <2>11
<1>4. Total(g) = G /\ Total(v) = DeliveryOf(X)
  BY <1>1, SubtotalByShop DEF DeliveryOf
<1>5. Total(w) \in Nat /\ D * Total(w) = D * W
  <2>1. CASE use
    <3>1. /\ Eligible(lines) \in SUBSET Line /\ IsFiniteSet(Eligible(lines))
          /\ ShopsOf(Eligible(lines)) \subseteq X
      BY LinesAre, FS_Subset DEF ShopsOf
    <3>2. Subtotal(Eligible(lines)) = Total([s \in X |-> Subtotal(LinesOf(Eligible(lines), s))])
      BY <1>1, <3>1, SubtotalByShop
    <3>3. Total(w) = W
      BY <2>1, <3>2
    <3> QED
      BY <1>2, <3>3
  <2>2. CASE ~use
    <3>1. DOMAIN w = X /\ \A s \in X : w[s] \in Nat
      BY <1>3
    <3>2. Total(w) \in Nat
      <4> HIDE DEF w
      <4> QED
        BY <1>1, <3>1, TotalType
    <3> QED
      BY <2>2, <3>2
  <2> QED
    BY <2>1, <2>2
<1>6. /\ f \in [X -> Int] /\ g \in [X -> Int] /\ v \in [X -> Int] /\ w \in [X -> Int]
      /\ \A s \in X : v[s] \in Nat
  <2>1. \A s \in X : f[s] \in Int /\ g[s] \in Int /\ v[s] \in Int /\ w[s] \in Int
    BY <1>3
  <2> QED
    BY <1>3, <2>1
<1>7. Total(f) \in Int /\ Total(v) \in Nat
  <2>1. /\ DOMAIN f = X /\ \A s \in X : f[s] \in Int
        /\ DOMAIN v = X /\ \A s \in X : v[s] \in Nat
    BY <1>6
  <2> HIDE DEF f, v
  <2> QED
    BY <1>1, <2>1, TotalType
<1> DEFINE k == 100 * W  a == 100 * W + W * TaxRate  c == 100 * D  e == 15000 * W
           F == Total(f)  V == Total(v)  sw == Total(w)
<1> HIDE DEF X, n, G, W, D, f, g, v, w
<1>8. /\ k \in Int /\ a \in Int /\ -c \in Int /\ e \in Int /\ -k \in Int /\ -a \in Int /\ c \in Int
  BY <1>2, CatalogueAssumption
<1>9. \A s \in X : /\ k * f[s] <= a * g[s] + k * v[s] + (-c) * w[s] + e
                   /\ (-k) * f[s] <= (-a) * g[s] + (-k) * v[s] + c * w[s] + e
  BY <1>3
<1> HIDE DEF k, a, c, e
<1>10. /\ k * F <= a * G + k * V + (-c) * sw + e * n
       /\ (-k) * F <= (-a) * G + (-k) * V + c * sw + e * n
  <2>1. \A s \in X : k * f[s] <= a * g[s] + k * v[s] + (-c) * w[s] + e
    BY <1>9
  <2>2. \A s \in X : (-k) * f[s] <= (-a) * g[s] + (-k) * v[s] + c * w[s] + e
    BY <1>9
  <2>3. k * Total(f) <= a * Total(g) + k * Total(v) + (-c) * Total(w) + e * Cardinality(X)
    BY ONLY <1>1, <1>6, <1>8, <2>1, TotalBound, Zenon
  <2>4. (-k) * Total(f) <= (-a) * Total(g) + (-k) * Total(v) + c * Total(w) + e * Cardinality(X)
    BY ONLY <1>1, <1>6, <1>8, <2>2, TotalBound, Zenon
  <2> QED
    BY <1>4, <2>3, <2>4 DEF n
<1>11. /\ Tax(G) \in Nat /\ 100 * Tax(G) <= G * TaxRate + 5000 /\ G * TaxRate <= 100 * Tax(G) + 5000
  BY <1>2, TaxIs
<1>12. F - (G + V + Tax(G) - D) <= 200 * n /\ (G + V + Tax(G) - D) - F <= 200 * n
  <2>1. F \in Int /\ V \in Nat /\ sw \in Int /\ D * sw = D * W
    BY <1>5, <1>7
  <2> HIDE DEF F, V, sw
  <2>2. /\ (100 * W) * F <= (100 * W + W * TaxRate) * G + (100 * W) * V + (-(100 * D)) * sw
                            + (15000 * W) * n
        /\ (-(100 * W)) * F <= (-(100 * W + W * TaxRate)) * G + (-(100 * W)) * V + (100 * D) * sw
                            + (15000 * W) * n
    BY <1>10 DEF k, a, c, e
  <2>3. TaxRate \in Nat
    BY CatalogueAssumption
  <2>4. CartFigures(W, D, G, V, n, TaxRate, Tax(G), F, sw)
    BY <1>1, <1>2, <1>11, <2>1, <2>2, <2>3 DEF CartFigures
  <2> QED
    BY <2>4, ChargeNumbers
<1>13. Cents(2 * n) = 200 * n
  BY <1>1 DEF Cents
<1> QED
  BY <1>4, <1>12, <1>13 DEF Near, X, n, G, D, f, F, V

(* A coupon on the goods leaves the shipping and the tax, but for a cent.  *)
LEMMA RowIs ==
    ASSUME NEW lines \in SUBSET Line, IsFiniteSet(lines), NEW use \in BOOLEAN,
           coupon \in Coupons, use => CouponValid(lines),
           NEW s, chosen[s] \in Nat, chosen[s] # None
    PROVE  LET row == Row(lines, s, use) IN
           /\ row \in OrderRow
           /\ Reckoned(lines, s, use) \in Nat /\ row.amount = Column(Reckoned(lines, s, use))
           /\ use /\ coupon.kind # "free_delivery" =>
                 /\ row.discount = Split(lines, s)
                 /\ row.discount > 0 => coupon.shop \in {s, None}
                 /\ row.amount + Cents(1) >= row.shipping + row.tax
<1> DEFINE g == Subtotal(LinesOf(lines, s))
           w == Subtotal(LinesOf(Eligible(lines), s))
           W == Subtotal(Eligible(lines))
           D == Discount(lines)
           C == ShippingOf(s, use)
           T == Tax(g)
           sp == IF use THEN Split(lines, s) ELSE 0
           R == Reckoned(lines, s, use)
<1>1. g \in Nat /\ w \in Nat /\ W \in Nat /\ w <= g /\ w <= W
  BY LinesAre
<1>2. C \in Nat /\ \E m \in Nat : C = Cents(m)
  <2>1. 0 = Cents(0) /\ Cents(chosen[s]) \in Nat
    BY CentsAre DEF Cents
  <2> QED
    BY <2>1 DEF ShippingOf
<1>3. T \in Nat /\ \E m \in Nat : T = Cents(m)
  <2> HIDE DEF g
  <2> QED
    BY <1>1, TaxIs
<1>4. Delivery(s) \in Nat
  BY CentsAre DEF Delivery
<1>5. sp \in Nat
  <2>1. CASE use /\ coupon.kind = "free_delivery"
    BY <1>4, <2>1 DEF Split
  <2>2. CASE use /\ coupon.kind # "free_delivery"
    BY <2>2, SplitIs
  <2>3. CASE ~use
    BY <2>3
  <2> QED
    BY <2>1, <2>2, <2>3
<1>6. R = Max({0, g + C + T - sp})
  BY DEF Reckoned
<1> HIDE DEF g, w, W, D, C, T, sp, R
<1>7. R \in Nat /\ R >= g + C + T - sp
  <2>1. g + C + T - sp \in Int
    BY <1>1, <1>2, <1>3, <1>5
  <2> QED
    BY <1>6, <2>1, MaxIs
<1>8. Column(R) \in Nat
  BY <1>7, ColumnIs
<1>9. Row(lines, s, use) = [amount |-> Column(R), shipping |-> C, tax |-> T, goods |-> g,
                            discount |-> sp]
  BY DEF Row, R, C, T, g, sp
<1>10. ASSUME use, coupon.kind # "free_delivery"
       PROVE  /\ sp = Split(lines, s)
              /\ sp > 0 => coupon.shop \in {s, None}
              /\ Column(R) + Cents(1) >= C + T
  <2>1. /\ sp = Split(lines, s)
        /\ sp > 0 => coupon.shop \in {s, None}
        /\ W * sp <= D * w + 50 * W
    BY <1>10, SplitIs DEF sp, W, D, w
  <2>2. D \in Nat /\ D <= W + 50 /\ W > 0
    BY <1>1, <1>10, DiscountIs DEF D, W, CouponValid
  <2>3. sp <= w + 100
    <3>1. w * D <= w * (W + 50) /\ w * D = D * w /\ w * (W + 50) = W * w + 50 * w
      BY <1>1, <2>2, ProductGrows
    <3>2. W * (w + 100) = W * w + 100 * W /\ W * w \in Nat /\ D * w \in Nat
      BY <1>1, <2>2, ProductGrows
    <3> DEFINE Ww == W * w  Dw == D * w  Ws == W * sp
    <3>3. Ws <= Dw + 50 * W /\ Dw <= Ww + 50 * w /\ Ww \in Nat /\ Dw \in Nat /\ Ws \in Int
      BY <1>1, <1>5, <2>1, <3>1, <3>2, ProductGrows
    <3> HIDE DEF Ww, Dw, Ws
    <3>4. Ws <= Ww + 100 * W
      BY <1>1, <3>3
    <3>5. W * sp <= W * (w + 100)
      BY <3>2, <3>4 DEF Ws, Ww
    <3> QED
      BY <1>1, <1>5, <2>2, <3>5, ProductGrows
  <2>4. R + 100 >= C + T
    BY <1>1, <1>2, <1>3, <1>5, <1>7, <2>3
  <2>5. PICK a \in Int : Column(R) = 100 * a
    BY <1>7, ColumnIs DEF Cents
  <2>6. PICK b \in Nat, c \in Nat : C = 100 * b /\ T = 100 * c
    BY <1>2, <1>3 DEF Cents
  <2>7. Column(R) + 100 >= C + T
    <3>1. 100 * a >= R - 49
      BY <1>7, <2>5, ColumnIs
    <3>2. 100 * a + 149 >= 100 * b + 100 * c
      BY <1>7, <2>4, <2>6, <3>1
    <3> QED
      BY <2>5, <2>6, <3>2
  <2> QED
    BY <2>1, <2>7 DEF Cents
<1> QED
  BY <1>1, <1>2, <1>3, <1>5, <1>7, <1>8, <1>9, <1>10 DEF OrderRow, R

(* The shares come to the discount, half a cent for each aside.            *)
LEMMA SplitsAre ==
    ASSUME NEW lines \in SUBSET Line, IsFiniteSet(lines), coupon \in Coupons,
           coupon.kind # "free_delivery", CouponValid(lines)
    PROVE  Total([s \in ShopsOf(lines) |-> Split(lines, s)])
              <= Discount(lines) + 50 * Cardinality(ShopsOf(lines))
<1> DEFINE X == ShopsOf(lines)
           n == Cardinality(X)
           E == Eligible(lines)
           W == Subtotal(E)
           D == Discount(lines)
           f == [s \in X |-> Split(lines, s)]
           w == [s \in X |-> Subtotal(LinesOf(E, s))]
<1>1. IsFiniteSet(X) /\ n \in Nat
  BY ShopsAreFinite, FS_CardinalityType
<1>2. W \in Nat \ {0} /\ D \in Nat
  BY LinesAre, DiscountIs DEF CouponValid
<1>3. Total(w) = W
  <2>1. E \in SUBSET Line /\ IsFiniteSet(E) /\ ShopsOf(E) \subseteq X
    BY LinesAre, FS_Subset DEF ShopsOf
  <2> QED
    BY <1>1, <2>1, SubtotalByShop
<1>4. ASSUME NEW s \in X
      PROVE  f[s] \in Nat /\ w[s] \in Nat /\ W * f[s] <= D * w[s] + 50 * W
  BY SplitIs, LinesAre
<1>5. f \in [X -> Int] /\ w \in [X -> Int]
  <2>1. \A s \in X : f[s] \in Int /\ w[s] \in Int
    BY <1>4
  <2> QED
    BY <2>1
<1>6. Total(f) \in Int
  <2>1. DOMAIN f = X /\ \A s \in X : f[s] \in Int
    BY <1>4
  <2> HIDE DEF f
  <2> QED
    BY <1>1, <2>1, TotalType
<1> DEFINE e == 50 * W
           F == Total(f)
<1> HIDE DEF X, n, E, W, D, f, w
<1>7. e \in Int /\ \A s \in X : W * f[s] <= D * w[s] + 0 * w[s] + 0 * w[s] + e
  <2>1. ASSUME NEW s \in X PROVE W * f[s] <= D * w[s] + 0 * w[s] + 0 * w[s] + e
    <3>1. D * w[s] \in Int /\ 0 * w[s] = 0
      BY <1>2, <1>4
    <3> QED
      BY <1>2, <1>4, <3>1
  <2> QED
    BY <1>2, <2>1
<1> HIDE DEF e
<1>8. W * Total(f) <= D * Total(w) + 0 * Total(w) + 0 * Total(w) + e * Cardinality(X)
  <2>1. W \in Int /\ D \in Int /\ 0 \in Int
    BY <1>2
  <2> QED
    BY ONLY <1>1, <1>5, <1>7, <2>1, TotalBound, Zenon
<1>9. W * F <= W * (D + 50 * n)
  <2>1. W * (D + 50 * n) = D * W + (50 * W) * n /\ 0 * W = 0 /\ D * W \in Int /\ (50 * W) * n \in Int
    BY <1>1, <1>2
  <2> QED
    BY <1>3, <1>8, <2>1 DEF e, n
<1>10. F <= D + 50 * n
  <2>1. D + 50 * n \in Int /\ W \in Nat /\ W > 0
    BY <1>1, <1>2
  <2> QED
    BY <1>6, <1>9, <2>1, ProductGrows
<1> QED
  BY <1>10 DEF X, n, D, f, F

(* The column of a sum and the sum of the columns.                         *)
LEMMA WalletIs ==
    ASSUME NEW lines \in SUBSET Line, IsFiniteSet(lines), lines # {}, NEW use \in BOOLEAN,
           coupon \in Coupons, use => CouponValid(lines),
           \A s \in ShopsOf(lines) : chosen[s] \in Nat /\ chosen[s] # None
    PROVE  LET debit == Column(CheckoutTotal(lines, use)) IN
           /\ debit \in Nat
           /\ Near(Total([s \in ShopsOf(lines) |-> Row(lines, s, use).amount]), debit,
                   Cardinality(ShopsOf(lines)))
<1> DEFINE X == ShopsOf(lines)
           n == Cardinality(X)
           f == [s \in X |-> Row(lines, s, use).amount]
           u == [s \in X |-> Reckoned(lines, s, use)]
<1>1. IsFiniteSet(X) /\ X # {} /\ n \in Nat \ {0}
  <2>1. IsFiniteSet(X) /\ X # {}
    BY ShopsAreFinite
  <2> QED
    BY <2>1, FS_CardinalityType, FS_EmptySet
<1>2. ASSUME NEW s \in X
      PROVE  f[s] \in Int /\ u[s] \in Nat /\ f[s] <= u[s] + 50 /\ u[s] <= f[s] + 49
  <2> DEFINE R == Reckoned(lines, s, use)
             a == Row(lines, s, use).amount
  <2>1. R \in Nat /\ a = Column(R)
    BY RowIs
  <2> HIDE DEF R, a
  <2>2. a \in Int /\ a <= R + 50 /\ R <= a + 49
    BY <2>1, ColumnIs
  <2>3. f[s] = a /\ u[s] = R
    BY DEF a, R
  <2> QED
    BY <2>1, <2>2, <2>3
<1>3. f \in [X -> Int] /\ u \in [X -> Int]
  <2>1. \A s \in X : f[s] \in Int /\ u[s] \in Int
    BY <1>2
  <2> QED
    BY <2>1
<1>4. Total(f) \in Int /\ Total(u) \in Nat
  <2>1. /\ DOMAIN f = X /\ \A s \in X : f[s] \in Int
        /\ DOMAIN u = X /\ \A s \in X : u[s] \in Nat
    BY <1>2
  <2> HIDE DEF f, u
  <2> QED
    BY <1>1, <2>1, TotalType
<1>5. CheckoutTotal(lines, use) = Total(u)
  BY DEF CheckoutTotal
<1> HIDE DEF X, n, f, u
<1>6. /\ \A s \in X : 1 * f[s] <= 1 * u[s] + 0 * u[s] + 0 * u[s] + 50
      /\ \A s \in X : 1 * u[s] <= 1 * f[s] + 0 * f[s] + 0 * f[s] + 50
  BY <1>2
<1>7. /\ 1 * Total(f) <= 1 * Total(u) + 0 * Total(u) + 0 * Total(u) + 50 * Cardinality(X)
      /\ 1 * Total(u) <= 1 * Total(f) + 0 * Total(f) + 0 * Total(f) + 50 * Cardinality(X)
  <2>1. 0 \in Int /\ 1 \in Int /\ 50 \in Int
    OBVIOUS
  <2> QED
    BY ONLY <1>1, <1>3, <1>6, <2>1, TotalBound, Zenon
<1> DEFINE F == Total(f)
           U == Total(u)
           debit == Column(U)
<1>8. F \in Int /\ U \in Nat /\ F <= U + 50 * n /\ U <= F + 50 * n
  BY <1>1, <1>4, <1>7 DEF n
<1> HIDE DEF F, U
<1>9. debit \in Nat /\ debit <= U + 50 /\ U <= debit + 49
  BY <1>8, ColumnIs
<1> HIDE DEF debit
<1>10. F - debit <= 100 * n /\ debit - F <= 100 * n
  BY <1>1, <1>8, <1>9
<1> QED
  BY <1>5, <1>9, <1>10 DEF Near, Cents, debit, F, U, f, n, X

-----------------------------------------------------------------------------
(* A checkout.                                                             *)

CheckoutOf(lines, use, wallet) ==
    [row |-> [s \in ShopsOf(lines) |-> Row(lines, s, use)],
     used |-> IF use THEN coupon ELSE None,
     debit |-> IF wallet THEN Column(CheckoutTotal(lines, use)) ELSE None,
     shown |-> Expected(lines, use)]

(* What the properties say of one checkout.                                *)
CheckoutSound(o) ==
    /\ o.shown # None => Near(Charged(o), o.shown, 2 * Cardinality(DOMAIN o.row))
    /\ LET c    == o.used
           part == Total([s \in DOMAIN o.row |-> o.row[s].discount]) IN
       c # None /\ c.kind # "free_delivery" =>
          /\ \A s \in DOMAIN o.row : o.row[s].discount > 0 => c.shop \in {s, None}
          /\ c.discountType = "flat" => part <= Cents(c.discount) + 50 * Cardinality(DOMAIN o.row)
          /\ c.discountType = "percent" /\ c.maxDiscount # None =>
                part <= Cents(c.maxDiscount) + 50 * Cardinality(DOMAIN o.row)
    /\ o.used # None /\ o.used.kind # "free_delivery" =>
          \A s \in DOMAIN o.row : o.row[s].amount + Cents(1) >= o.row[s].shipping + o.row[s].tax
    /\ o.debit # None => Near(Charged(o), o.debit, Cardinality(DOMAIN o.row))

(* The totals the customer was shown are still those of his cart.          *)
SeenIsReckoned ==
    LET lines == CheckedLines(cart) IN
    /\ seen.total # None =>
          seen.total = Subtotal(lines) + DeliveryOf(Shops) + Tax(Subtotal(lines))
    /\ seen.discount # None => seen.discount = Discount(lines)

Rows == UNION {CheckoutRow(shops) : shops \in SUBSET Shops}

PricingInv ==
    /\ PricingTypeOK
    /\ IsFiniteSet(cart)
    /\ checkouts \in Seq(Rows)
    /\ \A k \in DOMAIN checkouts : CheckoutSound(checkouts[k])
    /\ SeenIsReckoned

LEMMA DeliveryIs ==
    ASSUME PricingTypeOK
    PROVE  /\ \A s \in Shops : /\ Delivery(s) \in Nat
                               /\ chosen[s] # None => chosen[s] \in Nat
           /\ \A some \in SUBSET Shops :
                 /\ DeliveryOf(some) \in Nat
                 /\ DeliveryOf(Shops) = DeliveryOf(some) + DeliveryOf(Shops \ some)
<1>1. ASSUME NEW s \in Shops
      PROVE  /\ Delivery(s) \in Nat
             /\ chosen[s] # None => chosen[s] \in Nat
  <2>1. chosen[s] \in Nat \cup {None}
    BY CatalogueAssumption DEF PricingTypeOK
  <2> QED
    BY <2>1, CentsAre DEF Delivery
<1>2. ASSUME NEW some \in SUBSET Shops PROVE DeliveryOf(some) \in Nat
  <2> DEFINE f == [s \in some |-> Delivery(s)]
  <2>1. IsFiniteSet(DOMAIN f) /\ \A s \in DOMAIN f : f[s] \in Nat
    BY <1>1, FS_Subset, CatalogueAssumption
  <2>2. DeliveryOf(some) = Total(f)
    BY DEF DeliveryOf
  <2> HIDE DEF f
  <2> QED
    BY <2>1, <2>2, TotalType
<1>3. ASSUME NEW some \in SUBSET Shops
      PROVE  DeliveryOf(Shops) = DeliveryOf(some) + DeliveryOf(Shops \ some)
  <2> DEFINE f == [s \in Shops |-> Delivery(s)]
  <2>1. f \in [Shops -> Int]
    <3>1. \A s \in Shops : Delivery(s) \in Int
      BY <1>1
    <3> QED
      BY <3>1
  <2>2. /\ DeliveryOf(Shops) = Total(f)
        /\ DeliveryOf(some) = Total([s \in some |-> f[s]])
        /\ DeliveryOf(Shops \ some) = Total([s \in Shops \ some |-> f[s]])
    <3>1. /\ [s \in some |-> f[s]] = [s \in some |-> Delivery(s)]
          /\ [s \in Shops \ some |-> f[s]] = [s \in Shops \ some |-> Delivery(s)]
      OBVIOUS
    <3> QED
      BY <3>1 DEF DeliveryOf
  <2> HIDE DEF f
  <2>3. Total(f) = Total([s \in some |-> f[s]]) + Total([s \in Shops \ some |-> f[s]])
    BY <2>1, TotalSplit, CatalogueAssumption
  <2> QED
    BY <2>2, <2>3
<1> QED
  BY <1>1, <1>2, <1>3

LEMMA SeenType ==
    ASSUME PricingTypeOK, NEW lines \in SUBSET Line, IsFiniteSet(lines)
    PROVE  /\ Subtotal(lines) + DeliveryOf(Shops) + Tax(Subtotal(lines)) \in Nat
           /\ Discount(lines) \in Nat
<1>1. Subtotal(lines) \in Nat /\ Tax(Subtotal(lines)) \in Nat /\ DeliveryOf(Shops) \in Nat
  <2>1. Subtotal(lines) \in Nat
    BY LinesAre
  <2>2. Tax(Subtotal(lines)) \in Nat
    BY <2>1, TaxIs
  <2>3. Shops \in SUBSET Shops
    OBVIOUS
  <2>4. DeliveryOf(Shops) \in Nat
    BY <2>3, DeliveryIs
  <2> QED
    BY <2>1, <2>2, <2>4
<1>2. CASE coupon.kind = "free_delivery"
  <2>1. ShopsOf(Eligible(lines)) \in SUBSET Shops
    BY LinesAre, ShopsAreFinite
  <2>2. DeliveryOf(ShopsOf(Eligible(lines))) \in Nat
    BY <2>1, DeliveryIs
  <2> QED
    BY <1>1, <1>2, <2>2 DEF Discount
<1>3. CASE coupon.kind # "free_delivery"
  BY <1>1, <1>3, DiscountIs DEF PricingTypeOK
<1> QED
  BY <1>2, <1>3

LEMMA CheckoutIs ==
    ASSUME PricingInv, NEW use \in BOOLEAN, NEW wallet \in BOOLEAN, PlaceOrder(use, wallet)
    PROVE  LET o == CheckoutOf(CheckedLines(cart), use, wallet) IN
           /\ DOMAIN o.row \in SUBSET Shops /\ o \in CheckoutRow(DOMAIN o.row)
           /\ CheckoutSound(o)
<1> DEFINE lines == CheckedLines(cart)
<1>0. /\ lines = CheckedLines(cart) /\ lines # {}
      /\ use => CouponValid(lines)
      /\ \A s \in ShopsOf(lines) : chosen[s] # None
  BY DEF PlaceOrder
<1> HIDE DEF lines
<1> DEFINE X == ShopsOf(lines)
           n == Cardinality(X)
           o == CheckoutOf(lines, use, wallet)
           f == [s \in X |-> Row(lines, s, use).amount]
<1>1. lines \in SUBSET Line /\ IsFiniteSet(lines) /\ coupon \in Coupons
  BY <1>0, FS_Subset DEF PricingInv, PricingTypeOK, CheckedLines
<1>2. X \in SUBSET Shops /\ IsFiniteSet(X) /\ n \in Nat
  BY <1>1, ShopsAreFinite, FS_CardinalityType
<1>3. \A s \in X : chosen[s] \in Nat /\ chosen[s] # None
  BY <1>0, <1>2, DeliveryIs DEF PricingInv
<1>4. /\ DOMAIN o.row = X /\ \A s \in X : o.row[s] = Row(lines, s, use)
      /\ o.used = IF use THEN coupon ELSE None
      /\ o.debit = IF wallet THEN Column(CheckoutTotal(lines, use)) ELSE None
      /\ o.shown = Expected(lines, use)
  BY DEF CheckoutOf
<1>5. Charged(o) = Total(f)
  <2>1. [s \in DOMAIN o.row |-> o.row[s].amount] = f
    BY <1>4
  <2> QED
    BY <2>1 DEF Charged
<1>6. ASSUME NEW s \in X PROVE Row(lines, s, use) \in OrderRow
  BY <1>0, <1>1, <1>3, RowIs
<1>7. /\ Column(CheckoutTotal(lines, use)) \in Nat
      /\ Near(Total(f), Column(CheckoutTotal(lines, use)), n)
  BY <1>0, <1>1, <1>3, WalletIs
<1>8. ASSUME Expected(lines, use) # None
      PROVE  Expected(lines, use) \in Int /\ Near(Total(f), Expected(lines, use), 2 * n)
  <2> DEFINE G == Subtotal(lines)
             D == IF use THEN Discount(lines) ELSE 0
             here == DeliveryOf(X)
             there == DeliveryOf(Shops \ X)
  <2>1. /\ seen.total # None
        /\ use => seen.discount # None /\ coupon.kind # "free_delivery"
        /\ Expected(lines, use) = seen.total - there - (IF use THEN seen.discount ELSE 0)
    BY <1>8 DEF Expected
  <2>2. /\ seen.total = G + DeliveryOf(Shops) + Tax(G)
        /\ use => seen.discount = Discount(lines)
    BY <1>0, <2>1 DEF PricingInv, SeenIsReckoned
  <2>3. DeliveryOf(Shops) = here + there /\ here \in Nat /\ there \in Nat
    BY <1>2, DeliveryIs DEF PricingInv
  <2>4. G \in Nat /\ Tax(G) \in Nat /\ D \in Nat
    <3>1. G \in Nat
      BY <1>1, LinesAre
    <3>2. D \in Nat
      BY <1>1, SeenType DEF PricingInv
    <3> QED
      BY <3>1, <3>2, TaxIs
  <2>5. Expected(lines, use) = seen.total - there - D
    BY <2>1, <2>2
  <2>6. Near(Total(f), G + here + Tax(G) - D, 2 * n)
    BY <1>0, <1>1, <1>3, <2>1, ChargeIs
  <2> HIDE DEF G, D, here, there
  <2>7. Expected(lines, use) = G + here + Tax(G) - D
    BY <2>2, <2>3, <2>4, <2>5
  <2> QED
    BY <2>3, <2>4, <2>6, <2>7
<1>9. ASSUME use, coupon.kind # "free_delivery"
      PROVE  /\ \A s \in X : /\ o.row[s].discount > 0 => coupon.shop \in {s, None}
                             /\ o.row[s].amount + Cents(1) >= o.row[s].shipping + o.row[s].tax
             /\ coupon.discountType = "flat" =>
                   Total([s \in X |-> o.row[s].discount]) <= Cents(coupon.discount) + 50 * n
             /\ coupon.discountType = "percent" /\ coupon.maxDiscount # None =>
                   Total([s \in X |-> o.row[s].discount]) <= Cents(coupon.maxDiscount) + 50 * n
  <2>1. \A s \in X : /\ Row(lines, s, use).discount = Split(lines, s)
                     /\ Row(lines, s, use).discount > 0 => coupon.shop \in {s, None}
                     /\ Row(lines, s, use).amount + Cents(1)
                           >= Row(lines, s, use).shipping + Row(lines, s, use).tax
    BY <1>0, <1>1, <1>3, <1>9, RowIs
  <2> DEFINE g == [s \in X |-> Split(lines, s)]
             D == Discount(lines)
             P == Total(g)
  <2>2. [s \in X |-> o.row[s].discount] = g
    BY <1>4, <2>1
  <2>3. P <= D + 50 * n /\ D \in Nat
    BY <1>0, <1>1, <1>9, SplitsAre, DiscountIs
  <2>4. P \in Int
    <3>1. \A s \in X : Split(lines, s) \in Nat
      BY <1>0, <1>1, <1>9, SplitIs
    <3>2. DOMAIN g = X /\ \A s \in X : g[s] \in Int
      BY <3>1
    <3> HIDE DEF g
    <3> QED
      BY <1>2, <3>2, TotalType
  <2>5. /\ coupon.discountType = "flat" => D <= Cents(coupon.discount) /\ Cents(coupon.discount) \in Nat
        /\ coupon.discountType = "percent" /\ coupon.maxDiscount # None =>
              D <= Cents(coupon.maxDiscount) /\ Cents(coupon.maxDiscount) \in Nat
    BY <1>1, <1>9, DiscountIs, CouponIs, CentsAre
  <2>6. \A s \in X : /\ o.row[s].discount > 0 => coupon.shop \in {s, None}
                     /\ o.row[s].amount + Cents(1) >= o.row[s].shipping + o.row[s].tax
    BY <1>4, <2>1
  <2>7. /\ coupon.discountType = "flat" => P <= Cents(coupon.discount) + 50 * n
        /\ coupon.discountType = "percent" /\ coupon.maxDiscount # None =>
              P <= Cents(coupon.maxDiscount) + 50 * n
    <3> HIDE DEF P, D, n, X
    <3> QED
      BY <1>2, <2>3, <2>4, <2>5
  <2> QED
    BY <2>2, <2>6, <2>7
<1>10. o \in CheckoutRow(X)
  BY <1>1, <1>6, <1>7, <1>8 DEF CheckoutRow, CheckoutOf
<1> HIDE DEF o, f, X
<1>11. o.shown # None => Near(Charged(o), o.shown, 2 * Cardinality(DOMAIN o.row))
  BY <1>4, <1>5, <1>8 DEF n
<1>12. o.debit # None => Near(Charged(o), o.debit, Cardinality(DOMAIN o.row))
  BY <1>4, <1>5, <1>7 DEF n
<1>13. o.used # None => use /\ o.used = coupon
  BY <1>4
<1>14. CheckoutSound(o)
  BY <1>4, <1>9, <1>11, <1>12, <1>13 DEF CheckoutSound, n
<1> QED
  BY <1>0, <1>2, <1>4, <1>10, <1>14 DEF o

-----------------------------------------------------------------------------
(* The steps.                                                              *)

LEMMA NothingSeen ==
    ASSUME seen' = Nothing
    PROVE  SeenIsReckoned' /\ seen' \in [total : Nat \cup {None}, discount : Nat \cup {None}]
  BY DEF SeenIsReckoned, Nothing

LEMMA PricingInit_Inv == PricingInit => PricingInv
<1> SUFFICES ASSUME PricingInit PROVE PricingInv
  OBVIOUS
<1>1. PricingTypeOK
  BY CatalogueAssumption DEF PricingInit, PricingTypeOK, Nothing
<1>2. IsFiniteSet(cart) /\ checkouts \in Seq(Rows) /\ DOMAIN checkouts = {}
  BY FS_EmptySet DEF PricingInit
<1>3. SeenIsReckoned
  BY DEF PricingInit, SeenIsReckoned, Nothing
<1> QED
  BY <1>1, <1>2, <1>3 DEF PricingInv

(* What is not placed leaves the checkouts alone.                          *)
LEMMA CheckoutsStay ==
    ASSUME PricingInv, UNCHANGED checkouts
    PROVE  /\ checkouts' \in Seq(Rows)
           /\ \A k \in DOMAIN checkouts' : CheckoutSound(checkouts'[k])
           /\ \A k \in DOMAIN checkouts' :
                 /\ DOMAIN checkouts'[k].row \in SUBSET Shops
                 /\ checkouts'[k] \in CheckoutRow(DOMAIN checkouts'[k].row)
  BY DEF PricingInv, PricingTypeOK

(* Nor does it matter to what was shown that staff change anything but the *)
(* coupon.                                                                 *)
LEMMA SeenStays ==
    ASSUME SeenIsReckoned, UNCHANGED <<cart, chosen>>,
           seen'.total = seen.total,
           seen'.discount = None \/ (seen'.discount = seen.discount /\ UNCHANGED coupon)
    PROVE  SeenIsReckoned'
<1>1. CheckedLines(cart)' = CheckedLines(cart)
  BY DEF CheckedLines
<1>2. DeliveryOf(Shops)' = DeliveryOf(Shops)
  BY DEF DeliveryOf, Delivery
<1>3. ASSUME UNCHANGED coupon PROVE Discount(CheckedLines(cart))' = Discount(CheckedLines(cart))
  BY <1>1, <1>3 DEF Discount, Eligible, DeliveryOf, Delivery
<1> QED
  BY <1>1, <1>2, <1>3 DEF SeenIsReckoned

LEMMA EditKeeps ==
    ASSUME PricingInv, Edits, cart' \in SUBSET Line, IsFiniteSet(cart'),
           chosen' \in [Shops -> Costs \cup {DefaultShipping, None}]
    PROVE  PricingInv'
<1>1. /\ seen' = Nothing /\ requests' \in 0..MaxRequests
      /\ UNCHANGED <<product, published, method, coupon, updates, checkouts>>
  BY CatalogueAssumption DEF Edits, Shopper, PricingInv, PricingTypeOK
<1>2. /\ checkouts' \in Seq(Rows)
      /\ \A k \in DOMAIN checkouts' : CheckoutSound(checkouts'[k])
      /\ \A k \in DOMAIN checkouts' :
            /\ DOMAIN checkouts'[k].row \in SUBSET Shops
            /\ checkouts'[k] \in CheckoutRow(DOMAIN checkouts'[k].row)
  BY <1>1, CheckoutsStay
<1>3. SeenIsReckoned' /\ seen' \in [total : Nat \cup {None}, discount : Nat \cup {None}]
  BY <1>1, NothingSeen
<1>4. PricingTypeOK'
  BY <1>1, <1>2, <1>3 DEF PricingInv, PricingTypeOK
<1> QED
  BY <1>2, <1>3, <1>4 DEF PricingInv

LEMMA StaffKeeps ==
    ASSUME PricingInv, Staff, product' \in [Products -> [offer : Offers, listed : BOOLEAN]],
           published' \in SUBSET Shops, method' \in [Shops -> Costs \cup {None}],
           coupon' \in Coupons,
           \/ UNCHANGED <<seen, coupon>>
           \/ seen' = [seen EXCEPT !.discount = None]
    PROVE  PricingInv'
<1>1. /\ updates' \in 0..MaxUpdates
      /\ UNCHANGED <<cart, chosen, checkouts, requests>>
  BY CatalogueAssumption DEF Staff, PricingInv, PricingTypeOK
<1>2. /\ checkouts' \in Seq(Rows)
      /\ \A k \in DOMAIN checkouts' : CheckoutSound(checkouts'[k])
      /\ \A k \in DOMAIN checkouts' :
            /\ DOMAIN checkouts'[k].row \in SUBSET Shops
            /\ checkouts'[k] \in CheckoutRow(DOMAIN checkouts'[k].row)
  BY <1>1, CheckoutsStay
<1>3. seen \in [total : Nat \cup {None}, discount : Nat \cup {None}] /\ SeenIsReckoned
  BY DEF PricingInv, PricingTypeOK
<1>4. /\ seen' \in [total : Nat \cup {None}, discount : Nat \cup {None}]
      /\ seen'.total = seen.total
      /\ seen'.discount = None \/ (seen'.discount = seen.discount /\ UNCHANGED coupon)
  BY <1>3
<1>5. SeenIsReckoned'
  <2>1. UNCHANGED <<cart, chosen>>
    BY <1>1
  <2> QED
    BY <1>3, <1>4, <2>1, SeenStays
<1>6. PricingTypeOK'
  BY <1>1, <1>2, <1>4 DEF PricingInv, PricingTypeOK
<1> QED
  BY <1>1, <1>2, <1>5, <1>6 DEF PricingInv

LEMMA CartTypes ==
    ASSUME PricingInv, NEW l \in cart
    PROVE  /\ l.product \in Products /\ l.qty \in 1..MaxQty /\ l.offer \in Offers
           /\ l.checked \in BOOLEAN /\ l \in Line
           /\ \A m \in Line : /\ (cart \ {l}) \cup {m} \in SUBSET Line
                              /\ IsFiniteSet((cart \ {l}) \cup {m})
           /\ cart \ {l} \in SUBSET Line /\ IsFiniteSet(cart \ {l})
<1>1. cart \in SUBSET Line /\ IsFiniteSet(cart)
  BY DEF PricingInv, PricingTypeOK
<1>2. IsFiniteSet(cart \ {l})
  BY <1>1, FS_Subset
<1>3. \A m \in Line : IsFiniteSet((cart \ {l}) \cup {m})
  BY <1>2, FS_AddElement
<1> QED
  BY <1>1, <1>2, <1>3 DEF Line

LEMMA CustomerKeeps ==
    ASSUME PricingInv, CustomerStep
    PROVE  PricingInv'
<1>1. /\ cart \in SUBSET Line /\ IsFiniteSet(cart) /\ MaxQty \in Nat \ {0}
      /\ product \in [Products -> [offer : Offers, listed : BOOLEAN]]
      /\ chosen \in [Shops -> Costs \cup {DefaultShipping, None}]
      /\ method \in [Shops -> Costs \cup {None}]
  BY CatalogueAssumption DEF PricingInv, PricingTypeOK
<1>2. ASSUME NEW p \in Products, AddToCart(p) PROVE PricingInv'
  <2>1. Edits /\ UNCHANGED chosen
    BY <1>2 DEF AddToCart
  <2>2. product[p].offer \in Offers
    BY <1>1
  <2>3. CASE cart' = cart \cup {[product |-> p, qty |-> 1, offer |-> product[p].offer,
                                 checked |-> TRUE]}
    <3>1. [product |-> p, qty |-> 1, offer |-> product[p].offer, checked |-> TRUE] \in Line
      BY <1>1, <2>2 DEF Line
    <3>2. cart' \in SUBSET Line /\ IsFiniteSet(cart')
      BY <1>1, <2>3, <3>1, FS_AddElement
    <3> QED
      BY <1>1, <2>1, <3>2, EditKeeps
  <2>4. ASSUME NEW l \in cart, l.product = p, l.qty < MaxQty,
               cart' = (cart \ {l}) \cup {[l EXCEPT !.qty = @ + 1, !.offer = product[p].offer]}
        PROVE  PricingInv'
    <3>1. [l EXCEPT !.qty = @ + 1, !.offer = product[p].offer] \in Line
      <4>1. l \in Line /\ l.qty \in 1..MaxQty
        BY CartTypes
      <4>2. l.qty + 1 \in 1..MaxQty
        BY <1>1, <2>4, <4>1
      <4> QED
        BY <2>2, <4>1, <4>2 DEF Line
    <3>2. cart' \in SUBSET Line /\ IsFiniteSet(cart')
      BY <2>4, <3>1, CartTypes
    <3> QED
      BY <1>1, <2>1, <3>2, EditKeeps
  <2> QED
    BY <1>2, <2>3, <2>4 DEF AddToCart
<1>3. ASSUME NEW l \in cart, RemoveItem(l) PROVE PricingInv'
  <2>1. Edits /\ UNCHANGED chosen /\ cart' \in SUBSET Line /\ IsFiniteSet(cart')
    BY <1>3, CartTypes DEF RemoveItem
  <2> QED
    BY <1>1, <2>1, EditKeeps
<1>4. ASSUME NEW l \in cart, SelectItem(l) PROVE PricingInv'
  <2>1. Edits /\ UNCHANGED chosen /\ cart' = (cart \ {l}) \cup {[l EXCEPT !.checked = ~@]}
    BY <1>4 DEF SelectItem
  <2>2. [l EXCEPT !.checked = ~@] \in Line
    BY CartTypes DEF Line
  <2>3. cart' \in SUBSET Line /\ IsFiniteSet(cart')
    BY <2>1, <2>2, CartTypes
  <2> QED
    BY <1>1, <2>1, <2>3, EditKeeps
<1>5. ASSUME NEW l \in cart, NEW n \in 1..MaxQty, UpdateQuantity(l, n) PROVE PricingInv'
  <2>1. Edits /\ UNCHANGED chosen /\ cart' = (cart \ {l}) \cup {[l EXCEPT !.qty = n]}
    BY <1>5 DEF UpdateQuantity
  <2>2. [l EXCEPT !.qty = n] \in Line
    BY CartTypes DEF Line
  <2>3. cart' \in SUBSET Line /\ IsFiniteSet(cart')
    BY <2>1, <2>2, CartTypes
  <2> QED
    BY <1>1, <2>1, <2>3, EditKeeps
<1>6. ASSUME NEW s \in Shops, ChooseForOrder(s) PROVE PricingInv'
  <2>1. /\ Edits /\ cart' \in SUBSET Line /\ IsFiniteSet(cart')
        /\ chosen' \in [Shops -> Costs \cup {DefaultShipping, None}]
    BY <1>1, <1>6 DEF ChooseForOrder
  <2> QED
    BY <2>1, EditKeeps
<1>7. ASSUME CheckoutPreview PROVE PricingInv'
  <2> DEFINE left == {l \in cart : product[l.product].listed}
             lines == CheckedLines(left)
             total == Subtotal(lines) + DeliveryOf(Shops) + Tax(Subtotal(lines))
  <2>1. /\ Shopper /\ cart' = left /\ UNCHANGED <<chosen, checkouts>>
        /\ seen' = [total |-> total, discount |-> IF left = cart THEN seen.discount ELSE None]
    BY <1>7 DEF CheckoutPreview
  <2>2. /\ left \in SUBSET Line /\ IsFiniteSet(left) /\ lines \in SUBSET Line /\ IsFiniteSet(lines)
    BY <1>1, FS_Subset DEF CheckedLines
  <2>3. /\ checkouts' \in Seq(Rows)
        /\ \A k \in DOMAIN checkouts' : CheckoutSound(checkouts'[k])
        /\ \A k \in DOMAIN checkouts' :
              /\ DOMAIN checkouts'[k].row \in SUBSET Shops
              /\ checkouts'[k] \in CheckoutRow(DOMAIN checkouts'[k].row)
    BY <2>1, CheckoutsStay
  <2>4. total \in Nat
    BY <2>2, SeenType DEF PricingInv
  <2>5. seen.discount \in Nat \cup {None}
    BY DEF PricingInv, PricingTypeOK
  <2>6. /\ UNCHANGED <<product, published, method, coupon, updates>>
        /\ requests' \in 0..MaxRequests
    BY <2>1, CatalogueAssumption DEF Shopper, PricingInv, PricingTypeOK
  <2>7. /\ CheckedLines(cart)' = lines /\ DeliveryOf(Shops)' = DeliveryOf(Shops)
        /\ left = cart => Discount(CheckedLines(cart))' = Discount(CheckedLines(cart))
    <3>1. CheckedLines(cart)' = lines
      BY <2>1 DEF CheckedLines
    <3>2. DeliveryOf(Shops)' = DeliveryOf(Shops)
      BY <2>1 DEF DeliveryOf, Delivery
    <3>3. ASSUME left = cart PROVE Discount(CheckedLines(cart))' = Discount(CheckedLines(cart))
      <4> HIDE DEF left
      <4> QED
        BY <2>1, <2>6, <3>1, <3>3 DEF Discount, Eligible, DeliveryOf, Delivery
    <3> QED
      BY <3>1, <3>2, <3>3
  <2> HIDE DEF left, lines
  <2>8. SeenIsReckoned'
    <3>1. seen'.total # None => seen'.total = Subtotal(lines) + DeliveryOf(Shops)' + Tax(Subtotal(lines))
      BY <2>1, <2>7
    <3>2. seen'.discount # None => seen'.discount = Discount(CheckedLines(cart))'
      BY <2>1, <2>7 DEF PricingInv, SeenIsReckoned
    <3> QED
      BY <2>7, <3>1, <3>2 DEF SeenIsReckoned
  <2>9. seen' \in [total : Nat \cup {None}, discount : Nat \cup {None}]
    BY <2>1, <2>4, <2>5
  <2>10. PricingTypeOK'
    BY <1>1, <2>1, <2>2, <2>3, <2>6, <2>9 DEF PricingInv, PricingTypeOK
  <2> QED
    BY <2>1, <2>2, <2>3, <2>8, <2>10 DEF PricingInv
<1>8. ASSUME ApplyCoupon PROVE PricingInv'
  <2> DEFINE lines == CheckedLines(cart)
  <2>1. /\ Shopper /\ UNCHANGED <<cart, chosen, checkouts>>
        /\ seen' = [seen EXCEPT !.discount = Discount(lines)]
    BY <1>8 DEF ApplyCoupon
  <2>2. lines \in SUBSET Line /\ IsFiniteSet(lines)
    BY <1>1, FS_Subset DEF CheckedLines
  <2>3. /\ checkouts' \in Seq(Rows)
        /\ \A k \in DOMAIN checkouts' : CheckoutSound(checkouts'[k])
        /\ \A k \in DOMAIN checkouts' :
              /\ DOMAIN checkouts'[k].row \in SUBSET Shops
              /\ checkouts'[k] \in CheckoutRow(DOMAIN checkouts'[k].row)
    BY <2>1, CheckoutsStay
  <2>4. Discount(lines) \in Nat
    BY <2>2, SeenType DEF PricingInv
  <2>5. /\ UNCHANGED <<product, published, method, coupon, updates>>
        /\ requests' \in 0..MaxRequests
    BY <2>1, CatalogueAssumption DEF Shopper, PricingInv, PricingTypeOK
  <2>6. /\ seen \in [total : Nat \cup {None}, discount : Nat \cup {None}]
    BY DEF PricingInv, PricingTypeOK
  <2>7. /\ CheckedLines(cart)' = lines /\ DeliveryOf(Shops)' = DeliveryOf(Shops)
        /\ Discount(CheckedLines(cart))' = Discount(lines)
    <3>1. CheckedLines(cart)' = lines
      BY <2>1 DEF CheckedLines
    <3>2. DeliveryOf(Shops)' = DeliveryOf(Shops)
      BY <2>1 DEF DeliveryOf, Delivery
    <3>3. Discount(CheckedLines(cart))' = Discount(lines)
      <4> HIDE DEF lines
      <4> QED
        BY <2>1, <2>5, <3>1 DEF Discount, Eligible, DeliveryOf, Delivery
    <3> QED
      BY <3>1, <3>2, <3>3
  <2>8. seen'.total = seen.total /\ seen'.discount = Discount(lines)
    BY <2>1, <2>6
  <2>9. SeenIsReckoned'
    BY <2>7, <2>8 DEF PricingInv, SeenIsReckoned
  <2> HIDE DEF lines
  <2>10. seen' \in [total : Nat \cup {None}, discount : Nat \cup {None}]
    BY <2>1, <2>4, <2>6
  <2>11. PricingTypeOK'
    BY <1>1, <2>1, <2>3, <2>5, <2>10 DEF PricingInv, PricingTypeOK
  <2> QED
    BY <1>1, <2>1, <2>3, <2>9, <2>11 DEF PricingInv
<1>9. ASSUME NEW use \in BOOLEAN, NEW wallet \in BOOLEAN, PlaceOrder(use, wallet)
      PROVE  PricingInv'
  <2> DEFINE lines == CheckedLines(cart)
             o == CheckoutOf(lines, use, wallet)
  <2>1. /\ checkouts' = Append(checkouts, o) /\ cart' = cart \ lines
        /\ chosen' = [s \in Shops |-> None] /\ seen' = Nothing
    BY <1>9 DEF PlaceOrder, CheckoutOf
  <2>2. DOMAIN o.row \in SUBSET Shops /\ o \in CheckoutRow(DOMAIN o.row) /\ CheckoutSound(o)
    BY <1>9, CheckoutIs
  <2> HIDE DEF lines, o
  <2>3. /\ checkouts \in Seq(Rows) /\ \A k \in DOMAIN checkouts : CheckoutSound(checkouts[k])
        /\ \A k \in DOMAIN checkouts :
              /\ DOMAIN checkouts[k].row \in SUBSET Shops
              /\ checkouts[k] \in CheckoutRow(DOMAIN checkouts[k].row)
    BY DEF PricingInv, PricingTypeOK
  <2>4. /\ UNCHANGED <<product, published, method, coupon, updates>>
        /\ requests' \in 0..MaxRequests
    <3>1. Shopper
      BY <1>9 DEF PlaceOrder
    <3> QED
      BY <3>1, CatalogueAssumption DEF Shopper, PricingInv, PricingTypeOK
  <2>5. cart' \in SUBSET Line /\ IsFiniteSet(cart')
    BY <1>1, <2>1, FS_Subset
  <2>6. SeenIsReckoned' /\ seen' \in [total : Nat \cup {None}, discount : Nat \cup {None}]
    BY <2>1, NothingSeen
  <2>7. o \in Rows
    BY <2>2 DEF Rows
  <2>8. /\ checkouts' \in Seq(Rows)
        /\ \A k \in DOMAIN checkouts' :
              checkouts'[k] = o \/ (k \in DOMAIN checkouts /\ checkouts'[k] = checkouts[k])
    <3>1. checkouts' = Append(checkouts, o) /\ checkouts \in Seq(Rows)
      BY <2>1, <2>3
    <3> QED
      BY ONLY <2>7, <3>1, SMT
  <2>9. /\ \A k \in DOMAIN checkouts' : CheckoutSound(checkouts'[k])
        /\ \A k \in DOMAIN checkouts' :
              /\ DOMAIN checkouts'[k].row \in SUBSET Shops
              /\ checkouts'[k] \in CheckoutRow(DOMAIN checkouts'[k].row)
    BY <2>2, <2>3, <2>8
  <2>10. PricingTypeOK'
    BY <2>1, <2>4, <2>5, <2>6, <2>9 DEF PricingInv, PricingTypeOK
  <2> QED
    BY <2>5, <2>6, <2>8, <2>9, <2>10 DEF PricingInv
<1> QED
  BY <1>2, <1>3, <1>4, <1>5, <1>6, <1>7, <1>8, <1>9 DEF CustomerStep

LEMMA PricingNext_Inv == PricingInv /\ [PricingNext]_pricingVars => PricingInv'
<1> SUFFICES ASSUME PricingInv, [PricingNext]_pricingVars PROVE PricingInv'
  OBVIOUS
<1>1. /\ product \in [Products -> [offer : Offers, listed : BOOLEAN]]
      /\ published \in SUBSET Shops /\ method \in [Shops -> Costs \cup {None}]
      /\ coupon \in Coupons
  BY DEF PricingInv, PricingTypeOK
<1>2. CASE CustomerStep
  BY <1>2, CustomerKeeps
<1>3. ASSUME NEW p \in Products, NEW offer \in Offers, NEW listed \in BOOLEAN,
             WriteProduct(p, offer, listed)
      PROVE  PricingInv'
  <2>1. /\ Staff /\ UNCHANGED <<seen, coupon, published, method>>
        /\ product' \in [Products -> [offer : Offers, listed : BOOLEAN]]
    BY <1>1, <1>3 DEF WriteProduct
  <2> QED
    BY <1>1, <2>1, StaffKeeps
<1>4. ASSUME NEW s \in Shops, NEW open \in BOOLEAN, WriteVendor(s, open)
      PROVE  PricingInv'
  <2>1. Staff /\ UNCHANGED <<seen, coupon, product, method>> /\ published' \in SUBSET Shops
    BY <1>1, <1>4 DEF WriteVendor
  <2> QED
    BY <1>1, <2>1, StaffKeeps
<1>5. ASSUME NEW s \in Shops, NEW cost \in Costs, NEW active \in BOOLEAN,
             UpsertShipping(s, cost, active)
      PROVE  PricingInv'
  <2>1. /\ Staff /\ UNCHANGED <<seen, coupon, product, published>>
        /\ method' \in [Shops -> Costs \cup {None}]
    BY <1>1, <1>5 DEF UpsertShipping
  <2> QED
    BY <1>1, <2>1, StaffKeeps
<1>6. ASSUME NEW c \in Coupons, WriteCoupon(c) PROVE PricingInv'
  <2>1. /\ Staff /\ UNCHANGED <<product, published, method>> /\ coupon' \in Coupons
        /\ seen' = [seen EXCEPT !.discount = None]
    BY <1>6 DEF WriteCoupon
  <2> QED
    BY <1>1, <2>1, StaffKeeps
<1>7. CASE UNCHANGED pricingVars
  <2>1. UNCHANGED <<product, published, method, coupon, cart, chosen, checkouts, seen,
                    requests, updates>>
    BY <1>7 DEF pricingVars
  <2>2. SeenIsReckoned'
    BY <2>1, SeenStays DEF PricingInv
  <2>3. PricingTypeOK'
    BY <2>1 DEF PricingInv, PricingTypeOK
  <2> QED
    BY <2>1, <2>2, <2>3 DEF PricingInv
<1> QED
  BY <1>2, <1>3, <1>4, <1>5, <1>6, <1>7 DEF PricingNext, StaffStep

LEMMA PricingInv_Always == PricingSpec => []PricingInv
  BY PricingInit_Inv, PricingNext_Inv, PTL DEF PricingSpec

LEMMA SoundAre ==
    ASSUME PricingInv
    PROVE  ChargedAsShown /\ CouponKeepsTerms /\ WalletPaysTheOrders
<1>1. \A k \in DOMAIN checkouts : CheckoutSound(checkouts[k])
  BY DEF PricingInv
<1>2. ChargedAsShown
  BY <1>1 DEF ChargedAsShown, CheckoutSound
<1>3. CouponWithinTerms
  BY <1>1 DEF CouponWithinTerms, CheckoutSound
<1>4. CouponLeavesShipping
  BY <1>1 DEF CouponLeavesShipping, CheckoutSound
<1>5. WalletPaysTheOrders
  BY <1>1 DEF WalletPaysTheOrders, CheckoutSound
<1> QED
  BY <1>2, <1>3, <1>4, <1>5 DEF CouponKeepsTerms, PricingInv

(* Whatever prices, methods and products are changed to between what the   *)
(* customer was shown of his cart and coupon and the checkout, its orders  *)
(* come to what was shown, within two cents for each.                      *)
THEOREM ShownIsCharged == PricingSpec => []ChargedAsShown
  BY PricingInv_Always, SoundAre, PTL

(* A coupon takes off what its terms say, from the goods of its shop alone *)
(* (and every row is of its type: no amount is negative).                  *)
THEOREM CouponTermsKept == PricingSpec => []CouponKeepsTerms
  BY PricingInv_Always, SoundAre, PTL

(* What the wallet pays for a checkout is what its orders come to, within  *)
(* a cent for each.                                                        *)
THEOREM WalletPaysItsOrders == PricingSpec => []WalletPaysTheOrders
  BY PricingInv_Always, SoundAre, PTL

-----------------------------------------------------------------------------
(* What the shop keeps about its customers.                                *)

(* What its assumptions say of the constants.                              *)
LEMMA CareBounds ==
    /\ Ratings \subseteq Nat \ {0}
    /\ MaxBegun \in Nat
    /\ Absent \notin Sellers \cup Status
  BY CustomersAssumption, AbsentAssumption

StatusAt(g, s) == groups[g].status[s]

NotesAbout(g, s) == {n \in notes : n.group = g /\ n.shop = s}

ReviewsOf(p) == {v \in reviews : v.product = p}

(* Whatever overlaps: what a request has in hand is there, and an order    *)
(* delivered was delivered to its customer.                                *)
Held(t) ==
    /\ t.op \in {"status", "cancel"} => t.g \in 1..Len(groups) /\ t.at <= begun
    /\ t.op = "status" => StatusAt(t.g, t.s) # Absent
    /\ t.op \in {"review", "counted"} => <<t.review.customer, t.review.product>> \in delivered

AllHeld == \A r \in Slots : Held(hand[r])

NotesInTime == \A n \in notes : n.group \in 1..Len(groups) /\ n.at <= begun

DeliveredIsKnown ==
    \A g \in 1..Len(groups), s \in Sellers :
        StatusAt(g, s) = "DELIVERED" => <<groups[g].customer, s>> \in delivered

EveryTold ==
    \A g \in 1..Len(groups), s \in Sellers :
        \/ StatusAt(g, s) \in {Absent, Placed[groups[g].method], "CANCELED"}
        \/ \E n \in NotesAbout(g, s) : n.says = StatusAt(g, s)

CareOverlapInv ==
    /\ CustomersTypeOK
    /\ IsFiniteSet(reviews)
    /\ AllHeld
    /\ NotesInTime
    /\ DeliveredIsKnown
    /\ EveryTold
    /\ ReviewersReceived
    /\ OneReviewEach

(* Until two requests overlap: one is in flight at most, and it has in     *)
(* hand the rows as they are.                                              *)
CareAlone == \A r, o \in Slots : InFlight(r) /\ InFlight(o) => r = o

CareFresh(t) ==
    /\ t.op = "status" => t.loaded = StatusAt(t.g, t.s) /\ t.at = begun
    /\ t.op = "cancel" => t.loaded = groups[t.g].status
    /\ t.op \in {"review", "counted"} => t.loaded = stats[t.review.product]
    /\ t.op = "counted" => t.new = StatsOf(ReviewsOf(t.review.product) \cup {t.review})

AllCareFresh == \A r \in Slots : CareFresh(hand[r])

LastTold ==
    \A g \in 1..Len(groups), s \in Sellers :
        \/ StatusAt(g, s) \in {Absent, "CANCELED"}
        \/ NotesAbout(g, s) = {} /\ StatusAt(g, s) = Placed[groups[g].method]
        \/ \E n \in NotesAbout(g, s) : /\ n.says = StatusAt(g, s)
                                    /\ \A k \in NotesAbout(g, s) : k.at <= n.at

StatsKept == \A p \in Sellers : stats[p] = StatsOf(ReviewsOf(p))

CareSerialInv == CareAlone /\ AllCareFresh /\ LastTold /\ StatsKept

CareInv == CareOverlapInv /\ (~overlapped => CareSerialInv)

-----------------------------------------------------------------------------
(* What a product shows of its reviews is made of natural numbers, and the *)
(* average is the ratings' to within half a hundredth.                     *)
RatingsOf(S) == MapThenSumSet(LAMBDA v : v.rating, S)

LEMMA RatingsAddUp ==
    ASSUME NEW S, IsFiniteSet(S), \A v \in S : v.rating \in Nat
    PROVE  RatingsOf(S) \in Nat
<1> DEFINE f == [v \in S |-> v.rating]
           Sums(it) == it = [s \in SUBSET S |-> IF s = {} THEN 0
                                                ELSE Pick(s).rating + it[s \ {Pick(s)}]]
<1>1. RatingsOf(S) = (CHOOSE it : Sums(it))[S]
  BY DEF RatingsOf, MapThenSumSet, MapThenFoldSet, Pick
<1>2. \A s \in SUBSET S : s # {} => f[Pick(s)] = Pick(s).rating
  BY Picked
<1>3. ASSUME NEW it PROVE Sums(it) <=> AddsUp(it, S, f)
  <2> DEFINE a == [s \in SUBSET S |-> IF s = {} THEN 0 ELSE Pick(s).rating + it[s \ {Pick(s)}]]
             b == [s \in SUBSET S |-> IF s = {} THEN 0 ELSE f[Pick(s)] + it[s \ {Pick(s)}]]
  <2>1. \A s \in SUBSET S : a[s] = b[s]
    <3> HIDE DEF f
    <3> QED
      BY <1>2
  <2>2. a = b
    <3>1. DOMAIN a = SUBSET S /\ DOMAIN b = SUBSET S
      OBVIOUS
    <3>2. a = [s \in SUBSET S |-> a[s]] /\ b = [s \in SUBSET S |-> b[s]]
      OBVIOUS
    <3> HIDE DEF a, b
    <3> QED
      BY <2>1, <3>2
  <2>3. (Sums(it) <=> it = a) /\ (AddsUp(it, S, f) <=> it = b)
    BY DEF AddsUp
  <2> HIDE DEF a, b, Sums
  <2> QED
    BY <2>2, <2>3
<1>4. PICK some : AddsUp(some, S, f)
  BY SumExists
<1> HIDE DEF Sums
<1>5. Sums(CHOOSE it : Sums(it))
  BY <1>3, <1>4
<1> DEFINE it == CHOOSE it : Sums(it)
<1>6. AddsUp(it, S, f)
  BY <1>3, <1>5
<1> HIDE DEF it
<1>7. it[S] \in Nat
  BY <1>6, SumIsNat
<1> QED
  BY <1>1, <1>7 DEF it

LEMMA Average ==
    ASSUME NEW n \in Nat \ {0}, NEW sum \in Nat
    PROVE  LET a == (200 * sum + n) \div (2 * n)
           IN  a \in Nat /\ Abs(a * n - 100 * sum) <= n
<1> DEFINE d == 2 * n
           x == 200 * sum + n
           a == x \div d
<1>1. d \in Nat \ {0} /\ x \in Nat
  OBVIOUS
<1>2. a \in Nat /\ d * a <= x /\ x < d * a + d
  <2> HIDE DEF d, x
  <2> QED
    BY <1>1
<1>3. d * a = 2 * (a * n)
  <2>1. a \in Nat
    BY <1>2
  <2> HIDE DEF a
  <2> QED
    BY <2>1
<1> DEFINE m == a * n
<1>4. m \in Nat
  BY <1>2
<1>5. 2 * m <= 200 * sum + n /\ 200 * sum + n < 2 * m + 2 * n
  BY <1>2, <1>3
<1> HIDE DEF m
<1>6. Abs(m - 100 * sum) <= n
  BY <1>4, <1>5 DEF Abs
<1> QED
  BY <1>2, <1>6 DEF m

LEMMA StatsAreGood ==
    ASSUME NEW S, IsFiniteSet(S), \A v \in S : v.rating \in Nat
    PROVE  LET st == StatsOf(S)
           IN  /\ st \in Stats
               /\ st.count = Cardinality(S)
               /\ S # {} => Abs(st.average * Cardinality(S) - 100 * RatingsOf(S))
                               <= Cardinality(S)
<1> DEFINE n == Cardinality(S)
           sum == RatingsOf(S)
<1>1. n \in Nat /\ sum \in Nat /\ (S # {} => n # 0) /\ Cardinality(S) = n
  BY FS_CardinalityType, FS_EmptySet, RatingsAddUp
<1>2. StatsOf(S) = [count |-> n,
                         average |-> IF n = 0 THEN 0 ELSE (200 * sum + n) \div (2 * n)]
  BY <1>1 DEF StatsOf, RatingsOf
<1> HIDE DEF n, sum
<1>3. n # 0 => LET a == (200 * sum + n) \div (2 * n)
               IN  a \in Nat /\ Abs(a * n - 100 * sum) <= n
  BY <1>1, Average
<1>4. StatsOf(S) \in Stats
  BY <1>1, <1>2, <1>3 DEF Stats
<1>5. S # {} => Abs(StatsOf(S).average * n - 100 * sum) <= n
  BY <1>1, <1>2, <1>3
<1>6. StatsOf(S).count = n
  BY <1>2
<1> QED
  BY <1>1, <1>4, <1>5, <1>6 DEF sum

-----------------------------------------------------------------------------
(* The steps.                                                              *)
LEMMA CareTypes ==
    ASSUME CustomersTypeOK
    PROVE  /\ groups \in Seq(OrderGroup) /\ Len(groups) \in Nat
           /\ DOMAIN groups = 1..Len(groups)
           /\ \A g \in 1..Len(groups) :
                 /\ groups[g] \in OrderGroup
                 /\ groups[g].customer \in Customers /\ groups[g].method \in Methods
                 /\ groups[g].status \in [Sellers -> Status \cup {Absent}]
           /\ begun \in Nat /\ overlapped \in BOOLEAN
           /\ \A r \in Slots : hand[r] \in Hand
<1>1. groups \in Seq(OrderGroup)
  BY DEF CustomersTypeOK
<1>2. Len(groups) \in Nat /\ DOMAIN groups = 1..Len(groups)
      /\ \A g \in 1..Len(groups) : groups[g] \in OrderGroup
  BY <1>1
<1>3. \A row \in OrderGroup :
          /\ row.customer \in Customers /\ row.method \in Methods
          /\ row.status \in [Sellers -> Status \cup {Absent}]
  BY DEF OrderGroup
<1>4. begun \in Nat /\ overlapped \in BOOLEAN /\ \A r \in Slots : hand[r] \in Hand
  BY DEF CustomersTypeOK
<1> QED
  BY <1>1, <1>2, <1>3, <1>4

LEMMA HandTypes ==
    ASSUME NEW t \in Hand
    PROVE  /\ t.op \in {"idle", "status", "cancel", "review", "counted"}
           /\ t.op = "status" => /\ t.at \in Nat /\ t.g \in Nat /\ t.s \in Sellers
                                 /\ t.loaded \in Status /\ t.new \in Status
           /\ t.op = "cancel" => /\ t.at \in Nat /\ t.g \in Nat
                                 /\ t.loaded \in [Sellers -> Status \cup {Absent}]
           /\ t.op \in {"review", "counted"} => t.review \in Review /\ t.loaded \in Stats
           /\ t.op = "counted" => t.new \in Stats
  BY DEF Hand

(* A request that begins finds the others idle, if nothing has overlapped. *)
LEMMA Quiet ==
    ASSUME NEW r \in Slots, Arrives(r), ~overlapped'
    PROVE  ~overlapped /\ \A o \in Slots : hand[o].op = "idle"
  BY DEF Arrives, InFlight

LEMMA ArrivalTypes ==
    ASSUME CustomersTypeOK, NEW r \in Slots, Arrives(r)
    PROVE  /\ begun' = begun + 1 /\ begun' \in 0..MaxBegun
           /\ overlapped' \in BOOLEAN /\ begun \in Nat
  BY CareBounds DEF CustomersTypeOK, Arrives

(* The invariant does not speak of the addresses but for their types.      *)
RowsKept == groups' = groups /\ notes' = notes /\ reviews' = reviews /\ stats' = stats
            /\ delivered' = delivered

LEMMA WhatRowsSay ==
    ASSUME CareOverlapInv, RowsKept, begun' \in Nat, begun <= begun'
    PROVE  /\ NotesInTime' /\ DeliveredIsKnown' /\ EveryTold'
           /\ ReviewersReceived' /\ OneReviewEach' /\ IsFiniteSet(reviews)'
           /\ \A t \in Hand : Held(t) => Held(t)'
<1>1. NotesInTime'
  <2>1. \A n \in notes : n.at \in Nat
    BY DEF CareOverlapInv, CustomersTypeOK, Note
  <2>2. begun \in Nat
    BY CareTypes DEF CareOverlapInv
  <2> QED
    BY <2>1, <2>2 DEF CareOverlapInv, NotesInTime, RowsKept
<1>2. ASSUME NEW t \in Hand, Held(t) PROVE Held(t)'
  <2>1. t.op \in {"status", "cancel"} => t.at \in Nat
    BY HandTypes
  <2>2. begun \in Nat
    BY CareTypes DEF CareOverlapInv
  <2> QED
    BY <1>2, <2>1, <2>2 DEF Held, StatusAt, RowsKept
<1>3. DeliveredIsKnown' /\ EveryTold' /\ ReviewersReceived' /\ OneReviewEach'
      /\ IsFiniteSet(reviews)'
  BY DEF CareOverlapInv, DeliveredIsKnown, EveryTold, NotesAbout, StatusAt, RowsKept,
         ReviewersReceived, OneReviewEach
<1> QED
  BY <1>1, <1>2, <1>3

(* A request that begins and writes no row.                                *)
LEMMA AfterBegin ==
    ASSUME CareInv, NEW r \in Slots, NEW load \in Hand, Begins(r, load),
           Held(load)', ~overlapped' => CareFresh(load)'
    PROVE  CareInv'
<1>1. /\ Arrives(r) /\ hand' = [hand EXCEPT ![r] = load]
      /\ RowsKept /\ addresses' = addresses
  BY DEF Begins, rows, RowsKept
<1>2. /\ begun' = begun + 1 /\ begun' \in 0..MaxBegun
      /\ overlapped' \in BOOLEAN /\ begun \in Nat
  BY <1>1, ArrivalTypes DEF CareInv, CareOverlapInv
<1>3. CustomersTypeOK'
  BY <1>1, <1>2 DEF CareInv, CareOverlapInv, CustomersTypeOK, RowsKept
<1>4. AllHeld'
  BY <1>1, <1>2, WhatRowsSay, CareTypes DEF CareInv, CareOverlapInv, AllHeld
<1>5. CareOverlapInv'
  BY <1>1, <1>2, <1>3, <1>4, WhatRowsSay DEF CareInv, CareOverlapInv
<1>6. ASSUME ~overlapped' PROVE CareSerialInv'
  <2>1. ~overlapped /\ \A o \in Slots : hand[o].op = "idle"
    BY <1>1, <1>6, Quiet
  <2>2. \A o \in Slots : hand'[o] = IF o = r THEN load ELSE hand[o]
    BY <1>1 DEF CareInv, CareOverlapInv, CustomersTypeOK
  <2>3. CareAlone'
    BY <2>1, <2>2 DEF CareAlone, InFlight
  <2>4. AllCareFresh'
    <3> SUFFICES ASSUME NEW o \in Slots PROVE CareFresh(hand[o])'
      BY DEF AllCareFresh
    <3>1. CASE o = r
      BY <1>6, <2>2, <3>1 DEF CareFresh, StatusAt, ReviewsOf
    <3>2. CASE o # r
      BY <2>1, <2>2, <3>2 DEF CareFresh
    <3> QED
      BY <3>1, <3>2
  <2>5. LastTold' /\ StatsKept'
    BY <1>1, <2>1 DEF CareInv, CareSerialInv, LastTold, StatsKept, StatusAt, NotesAbout, ReviewsOf,
       RowsKept
  <2> QED
    BY <2>3, <2>4, <2>5 DEF CareSerialInv
<1> QED
  BY <1>5, <1>6 DEF CareInv

LEMMA BeginStatusStep ==
    ASSUME CareInv, NEW r \in Slots, NEW o \in Orders, NEW new \in Status,
           BeginStatus(r, o[1], o[2], new)
    PROVE  CareInv'
<1>1. /\ o[1] \in 1..Len(groups) /\ o[2] \in Sellers /\ groups[o[1]].status[o[2]] # Absent
  BY DEF Orders
<1>2. PICK load : load = [op |-> "status", at |-> begun + 1, g |-> o[1], s |-> o[2],
                          loaded |-> groups[o[1]].status[o[2]], new |-> new]
  OBVIOUS
<1>3. Begins(r, load)
  BY <1>2 DEF BeginStatus
<1>4. /\ begun' = begun + 1 /\ begun \in Nat /\ groups' = groups
  BY <1>3, ArrivalTypes DEF CareInv, CareOverlapInv, Begins, rows
<1>5. load \in Hand
  <2>1. groups[o[1]].status \in [Sellers -> Status \cup {Absent}]
    BY <1>1, CareTypes DEF CareInv, CareOverlapInv
  <2> QED
    BY <1>1, <1>2, <1>4, <2>1 DEF Hand
<1>6. Held(load)' /\ CareFresh(load)'
  BY <1>1, <1>2, <1>4 DEF Held, CareFresh, StatusAt
<1> QED
  BY <1>3, <1>5, <1>6, AfterBegin

LEMMA BeginCancelStep ==
    ASSUME CareInv, NEW r \in Slots, NEW o \in Orders,
           BeginCancelOrder(r, o[1], o[2])
    PROVE  CareInv'
<1>1. o[1] \in 1..Len(groups) /\ o[2] \in Sellers
  BY DEF Orders
<1>2. PICK load : load = [op |-> "cancel", at |-> begun + 1, g |-> o[1],
                          loaded |-> groups[o[1]].status]
  OBVIOUS
<1>3. Begins(r, load)
  BY <1>2 DEF BeginCancelOrder
<1>4. begun' = begun + 1 /\ begun \in Nat /\ groups' = groups
  BY <1>3, ArrivalTypes DEF CareInv, CareOverlapInv, Begins, rows
<1>5. load \in Hand
  <2>1. groups[o[1]].status \in [Sellers -> Status \cup {Absent}]
    BY <1>1, CareTypes DEF CareInv, CareOverlapInv
  <2> QED
    BY <1>1, <1>2, <1>4, <2>1 DEF Hand
<1>6. Held(load)' /\ CareFresh(load)'
  BY <1>1, <1>2, <1>4 DEF Held, CareFresh
<1> QED
  BY <1>3, <1>5, <1>6, AfterBegin

(* Who may review a product was delivered it.                              *)
LEMMA BeginReviewStep ==
    ASSUME CareInv, NEW r \in Slots, NEW c \in Customers, NEW p \in Sellers,
           NEW rating \in Ratings, BeginReview(r, c, p, rating)
    PROVE  CareInv'
<1>1. PICK load :
        load = [op |-> "review", loaded |-> stats[p],
                review |-> [at |-> begun + 1, customer |-> c, product |-> p, rating |-> rating]]
  OBVIOUS
<1>2. Begins(r, load)
  BY <1>1 DEF BeginReview
<1>3. begun \in Nat /\ stats' = stats /\ delivered' = delivered
  BY <1>2, CareTypes DEF CareInv, CareOverlapInv, Begins, rows
<1>4. stats[p] \in Stats
  BY DEF CareInv, CareOverlapInv, CustomersTypeOK
<1>5. load \in Hand
  BY <1>1, <1>3, <1>4 DEF Hand, Review
<1>6. <<c, p>> \in delivered
  <2>1. PICK o \in Orders : /\ o[2] = p /\ groups[o[1]].customer = c
                                 /\ groups[o[1]].status[p] = "DELIVERED"
    BY DEF BeginReview, Purchased
  <2>2. o[1] \in 1..Len(groups)
    BY DEF Orders
  <2> QED
    BY <2>1, <2>2 DEF CareInv, CareOverlapInv, DeliveredIsKnown, StatusAt
<1>7. Held(load)' /\ CareFresh(load)'
  BY <1>1, <1>3, <1>6 DEF Held, CareFresh
<1> QED
  BY <1>2, <1>5, <1>7, AfterBegin

(* A request that goes on, or ends, without writing a row.                 *)
LEMMA AfterNothing ==
    ASSUME CareInv, NEW r \in Slots, NEW t \in Hand, InFlight(r),
           hand' = [hand EXCEPT ![r] = t], RowsKept, addresses' = addresses,
           begun' = begun, overlapped' = overlapped, Held(t), ~overlapped => CareFresh(t)
    PROVE  CareInv'
<1>1. \A o \in Slots : hand'[o] = IF o = r THEN t ELSE hand[o]
  BY DEF CareInv, CareOverlapInv, CustomersTypeOK
<1>2. begun \in Nat
  BY CareTypes DEF CareInv, CareOverlapInv
<1>3. CustomersTypeOK'
  BY DEF CareInv, CareOverlapInv, CustomersTypeOK, RowsKept
<1>4. AllHeld'
  <2> SUFFICES ASSUME NEW o \in Slots PROVE Held(hand[o])'
    BY DEF AllHeld
  <2>1. Held(IF o = r THEN t ELSE hand[o])
    BY DEF CareInv, CareOverlapInv, AllHeld
  <2> QED
    BY <1>1, <2>1 DEF Held, StatusAt, RowsKept
<1>5. CareOverlapInv'
  BY <1>2, <1>3, <1>4, WhatRowsSay DEF CareInv, CareOverlapInv
<1>6. ASSUME ~overlapped PROVE CareSerialInv'
  <2>1. CareAlone'
    BY <1>1, <1>6 DEF CareInv, CareSerialInv, CareAlone, InFlight
  <2>2. AllCareFresh'
    <3> SUFFICES ASSUME NEW o \in Slots PROVE CareFresh(hand[o])'
      BY DEF AllCareFresh
    <3>1. CareFresh(IF o = r THEN t ELSE hand[o])
      BY <1>6 DEF CareInv, CareSerialInv, AllCareFresh
    <3> QED
      BY <1>1, <3>1 DEF CareFresh, StatusAt, ReviewsOf, RowsKept
  <2>3. LastTold' /\ StatsKept'
    BY <1>6 DEF CareInv, CareSerialInv, LastTold, StatsKept, StatusAt, NotesAbout, ReviewsOf,
       RowsKept
  <2> QED
    BY <2>1, <2>2, <2>3 DEF CareSerialInv
<1> QED
  BY <1>5, <1>6 DEF CareInv

LEMMA IdleHand ==
    /\ EmptyHand \in Hand /\ EmptyHand.op = "idle" /\ Held(EmptyHand) /\ CareFresh(EmptyHand)
  BY DEF EmptyHand, Hand, Held, CareFresh

LEMMA RollbackStep ==
    ASSUME CareInv, NEW r \in Slots, Rollback(r)
    PROVE  CareInv'
<1>1. /\ hand' = [hand EXCEPT ![r] = EmptyHand] /\ InFlight(r)
      /\ RowsKept /\ addresses' = addresses /\ begun' = begun /\ overlapped' = overlapped
  BY DEF Rollback, Ends, rows, RowsKept
<1> QED
  BY <1>1, IdleHand, AfterNothing

(* The reviews there, with the one being written, are finitely many.       *)
LEMMA CountedReviews ==
    ASSUME CareOverlapInv, NEW v \in Review
    PROVE  /\ IsFiniteSet(ReviewsOf(v.product)) /\ IsFiniteSet(ReviewsOf(v.product) \cup {v})
           /\ \A w \in ReviewsOf(v.product) \cup {v} : w.rating \in Nat
           /\ StatsOf(ReviewsOf(v.product) \cup {v}) \in Stats
<1> DEFINE R == ReviewsOf(v.product) \cup {v}
<1>1. IsFiniteSet(ReviewsOf(v.product)) /\ IsFiniteSet(R)
  BY FS_Subset, FS_AddElement DEF CareOverlapInv, ReviewsOf
<1>2. \A w \in R : w.rating \in Nat
  BY CareBounds DEF CareOverlapInv, CustomersTypeOK, Review, ReviewsOf
<1>3. StatsOf(R) \in Stats
  <2> HIDE DEF R
  <2> QED
    BY <1>1, <1>2, StatsAreGood
<1> QED
  BY <1>1, <1>2, <1>3

LEMMA CountReviewsStep ==
    ASSUME CareInv, NEW r \in Slots, CountReviews(r)
    PROVE  CareInv'
<1> DEFINE v == hand[r].review
<1>1. PICK t : t = [op |-> "counted", review |-> v, loaded |-> hand[r].loaded,
                    new |-> StatsOf(ReviewsOf(v.product) \cup {v})]
  OBVIOUS
<1>2. /\ hand[r].op = "review" /\ hand' = [hand EXCEPT ![r] = t]
      /\ RowsKept /\ addresses' = addresses /\ begun' = begun /\ overlapped' = overlapped
  BY <1>1 DEF CountReviews, rows, RowsKept, ReviewsOf
<1>3. v \in Review /\ hand[r].loaded \in Stats
  BY <1>2, CareTypes, HandTypes DEF CareInv, CareOverlapInv
<1>4. StatsOf(ReviewsOf(v.product) \cup {v}) \in Stats
  BY <1>3, CountedReviews DEF CareInv
<1>5. t \in Hand
  BY <1>1, <1>3, <1>4 DEF Hand
<1>6. Held(t)
  BY <1>1, <1>2 DEF CareInv, CareOverlapInv, AllHeld, Held
<1>7. ~overlapped => CareFresh(t)
  BY <1>1, <1>2 DEF CareInv, CareSerialInv, AllCareFresh, CareFresh
<1>8. InFlight(r)
  BY <1>2 DEF InFlight
<1> QED
  BY <1>2, <1>5, <1>6, <1>7, <1>8, AfterNothing

(* What requests have in hand stays there while orders are only added to.  *)
Grown ==
    /\ Len(groups) <= Len(groups')
    /\ \A g \in 1..Len(groups), s \in Sellers :
          groups[g].status[s] # Absent => groups'[g].status[s] # Absent
    /\ delivered \subseteq delivered'
    /\ begun' \in Nat /\ begun <= begun'

LEMMA HeldStays ==
    ASSUME CareOverlapInv, Len(groups') \in Nat, Grown, NEW t \in Hand, Held(t)
    PROVE  Held(t)'
<1>1. Len(groups) \in Nat /\ begun \in Nat
  BY CareTypes DEF CareOverlapInv
<1>2. /\ t.op \in {"status", "cancel"} => t.at \in Nat /\ t.g \in Nat
      /\ t.op = "status" => t.s \in Sellers
  BY HandTypes
<1>3. t.op \in {"status", "cancel"} => t.g \in 1..Len(groups') /\ t.at <= begun'
  BY <1>1, <1>2 DEF Grown, Held
<1>4. t.op = "status" => groups'[t.g].status[t.s] # Absent
  BY <1>1, <1>2 DEF Grown, Held, StatusAt
<1>5. t.op \in {"review", "counted"} => <<t.review.customer, t.review.product>> \in delivered'
  BY DEF Grown, Held
<1> QED
  BY <1>3, <1>4, <1>5 DEF Held, StatusAt

LEMMA AfterEnd ==
    ASSUME CareInv, NEW r \in Slots, InFlight(r), Ends(r), Len(groups') \in Nat, Grown
    PROVE  /\ AllHeld' /\ (hand \in [Slots -> Hand])'
           /\ ~overlapped => CareAlone' /\ AllCareFresh'
<1>1. hand' = [hand EXCEPT ![r] = EmptyHand]
  BY DEF Ends
<1>2. \A o \in Slots : hand'[o] = IF o = r THEN EmptyHand ELSE hand[o]
  BY <1>1 DEF CareInv, CareOverlapInv, CustomersTypeOK
<1>3. (hand \in [Slots -> Hand])'
  BY <1>1, IdleHand DEF CareInv, CareOverlapInv, CustomersTypeOK
<1>4. AllHeld'
  <2> SUFFICES ASSUME NEW o \in Slots PROVE Held(hand[o])'
    BY DEF AllHeld
  <2>1. CASE o = r
    BY <1>2, <2>1, IdleHand DEF Held
  <2>2. CASE o # r
    <3>1. PICK t \in Hand : t = hand[o] /\ Held(t)
      BY CareTypes DEF CareInv, CareOverlapInv, AllHeld
    <3>2. Held(t)'
      BY <3>1, HeldStays DEF CareInv
    <3> QED
      BY <1>2, <2>2, <3>1, <3>2 DEF Held
  <2> QED
    BY <2>1, <2>2
<1>5. ASSUME ~overlapped PROVE \A o \in Slots : hand'[o].op = "idle"
  BY <1>2, <1>5, IdleHand DEF CareInv, CareSerialInv, CareAlone, InFlight
<1>6. ASSUME ~overlapped PROVE CareAlone' /\ AllCareFresh'
  BY <1>5, <1>6 DEF CareAlone, InFlight, AllCareFresh, CareFresh
<1> QED
  BY <1>3, <1>4, <1>6

LEMMA AfterOnce ==
    ASSUME CareInv, NEW r \in Slots, AtOnce(r), Len(groups') \in Nat, Grown
    PROVE  /\ AllHeld' /\ (hand \in [Slots -> Hand])'
           /\ begun' \in 0..MaxBegun /\ overlapped' \in BOOLEAN
           /\ ~overlapped' => ~overlapped /\ CareAlone' /\ AllCareFresh'
<1>1. hand' = hand /\ Arrives(r)
  BY DEF AtOnce
<1>2. begun' \in 0..MaxBegun /\ overlapped' \in BOOLEAN
  BY <1>1, ArrivalTypes DEF CareInv, CareOverlapInv
<1>3. AllHeld'
  <2> SUFFICES ASSUME NEW o \in Slots PROVE Held(hand[o])'
    BY DEF AllHeld
  <2>1. PICK t \in Hand : t = hand[o] /\ Held(t)
    BY CareTypes DEF CareInv, CareOverlapInv, AllHeld
  <2>2. Held(t)'
    BY <2>1, HeldStays DEF CareInv
  <2> QED
    BY <1>1, <2>1, <2>2 DEF Held
<1>4. ASSUME ~overlapped' PROVE ~overlapped /\ CareAlone' /\ AllCareFresh'
  <2>1. ~overlapped /\ \A o \in Slots : hand[o].op = "idle"
    BY <1>1, <1>4, Quiet
  <2> QED
    BY <1>1, <2>1 DEF CareAlone, InFlight, AllCareFresh, CareFresh
<1> QED
  BY <1>1, <1>2, <1>3, <1>4 DEF CareInv, CareOverlapInv, CustomersTypeOK

LEMMA ArrivalGrows ==
    ASSUME CareInv, NEW r \in Slots, AtOnce(r)
    PROVE  begun \in Nat /\ begun' = begun + 1 /\ begun' \in Nat /\ begun <= begun'
  BY ArrivalTypes DEF CareInv, CareOverlapInv, AtOnce

(* A status and its notification are committed together.                   *)
LEMMA CommitStatusStep ==
    ASSUME CareInv, NEW r \in Slots, CommitStatus(r)
    PROVE  CareInv'
<1> PICK t \in Hand : t = hand[r]
  BY CareTypes DEF CareInv, CareOverlapInv
<1> PICK g, s : g = t.g /\ s = t.s
  OBVIOUS
<1> DEFINE written == IF t.new = t.loaded THEN groups[g].status[s] ELSE t.new
           note == [customer |-> groups[g].customer, group |-> g, shop |-> s, says |-> t.new,
                    at |-> t.at, read |-> FALSE]
<1>1. /\ t.op = "status" /\ g \in 1..Len(groups) /\ s \in Sellers
      /\ t.new \in Status /\ t.loaded \in Status /\ t.at \in Nat /\ t.at <= begun
      /\ groups[g].status[s] # Absent
  BY HandTypes DEF CommitStatus, CareInv, CareOverlapInv, AllHeld, Held, StatusAt
<1>2. /\ groups' = [groups EXCEPT ![g] = [groups[g] EXCEPT
                        !.status = [groups[g].status EXCEPT ![s] = written]]]
      /\ notes' = notes \cup {note}
      /\ delivered' = IF t.new = "DELIVERED" THEN delivered \cup {<<groups[g].customer, s>>}
                      ELSE delivered
      /\ Ends(r) /\ InFlight(r) /\ begun' = begun /\ overlapped' = overlapped
      /\ reviews' = reviews /\ stats' = stats /\ addresses' = addresses
  BY <1>1 DEF CommitStatus, Flushed, Told, Ends, InFlight
<1>3. written \in Status /\ written # Absent
  BY <1>1, CareTypes, CareBounds DEF CareInv, CareOverlapInv
<1>4. /\ groups' \in Seq(OrderGroup) /\ Len(groups') = Len(groups) /\ Len(groups) \in Nat
      /\ \A k \in 1..Len(groups) :
            /\ groups'[k].customer = groups[k].customer /\ groups'[k].method = groups[k].method
            /\ \A q \in Sellers : groups'[k].status[q] =
                  IF k = g /\ q = s THEN written ELSE groups[k].status[q]
  <2> HIDE DEF written
  <2>1. groups \in Seq(OrderGroup) /\ groups[g] \in OrderGroup
    BY <1>1, CareTypes DEF CareInv, CareOverlapInv
  <2> DEFINE row == [groups[g] EXCEPT !.status = [groups[g].status EXCEPT ![s] = written]]
  <2>2. /\ row \in OrderGroup
        /\ row.customer = groups[g].customer /\ row.method = groups[g].method
        /\ \A q \in Sellers : row.status[q] = IF q = s THEN written ELSE groups[g].status[q]
    BY <1>1, <1>3, <2>1 DEF OrderGroup
  <2>3. groups' = [groups EXCEPT ![g] = row]
    BY <1>2
  <2> HIDE DEF row
  <2>4. /\ groups' \in Seq(OrderGroup) /\ Len(groups') = Len(groups) /\ Len(groups) \in Nat
        /\ \A k \in 1..Len(groups) : groups'[k] = IF k = g THEN row ELSE groups[k]
    BY <1>1, <2>1, <2>2, <2>3
  <2> QED
    BY <2>2, <2>4
<1>5. Grown
  <2>1. begun \in Nat
    BY CareTypes DEF CareInv, CareOverlapInv
  <2> HIDE DEF written
  <2> QED
    BY <1>2, <1>3, <1>4, <2>1 DEF Grown
<1>6. AllHeld' /\ (hand \in [Slots -> Hand])' /\ (~overlapped => CareAlone' /\ AllCareFresh')
  BY <1>2, <1>4, <1>5, AfterEnd
<1>7. /\ note \in Note
      /\ <<groups[g].customer, s>> \in Customers \X Sellers
  BY <1>1, CareTypes DEF CareInv, CareOverlapInv, Note
<1>8. note.group = g /\ note.shop = s /\ note.says = t.new /\ note.at = t.at
  OBVIOUS
<1> HIDE DEF note
<1>9. /\ t.new # t.loaded => written = t.new
      /\ t.new = t.loaded => written = groups[g].status[s]
  OBVIOUS
<1> HIDE DEF written
<1>10. CustomersTypeOK'
  BY <1>2, <1>4, <1>6, <1>7 DEF CareInv, CareOverlapInv, CustomersTypeOK
<1>11. NotesInTime'
  BY <1>1, <1>2, <1>4, <1>8 DEF CareInv, CareOverlapInv, NotesInTime
<1>12. ASSUME NEW k \in 1..Len(groups), NEW q \in Sellers,
              StatusAt(k, q)' = "DELIVERED"
       PROVE  <<groups'[k].customer, q>> \in delivered'
  <2>1. CASE k = g /\ q = s /\ t.new # t.loaded
    <3>1. t.new = "DELIVERED"
      BY <1>4, <1>9, <1>12, <2>1 DEF StatusAt
    <3> QED
      BY <1>2, <1>4, <2>1, <3>1
  <2>2. CASE ~(k = g /\ q = s /\ t.new # t.loaded)
    <3>1. StatusAt(k, q) = "DELIVERED"
      BY <1>4, <1>9, <1>12, <2>2 DEF StatusAt
    <3> QED
      BY <1>2, <1>4, <3>1 DEF CareInv, CareOverlapInv, DeliveredIsKnown
  <2> QED
    BY <2>1, <2>2
<1>13. ASSUME NEW k \in 1..Len(groups), NEW q \in Sellers
       PROVE  \/ StatusAt(k, q)' \in {Absent, Placed[groups[k].method], "CANCELED"}
              \/ \E n \in NotesAbout(k, q)' : n.says = StatusAt(k, q)'
  <2>1. CASE k = g /\ q = s /\ t.new # t.loaded
    <3>1. StatusAt(k, q)' = note.says
      BY <1>4, <1>8, <1>9, <2>1 DEF StatusAt
    <3>2. note \in NotesAbout(k, q)'
      BY <1>2, <1>8, <2>1 DEF NotesAbout
    <3> QED
      BY <3>1, <3>2
  <2>2. CASE ~(k = g /\ q = s /\ t.new # t.loaded)
    <3>1. StatusAt(k, q)' = StatusAt(k, q)
      BY <1>4, <1>9, <2>2 DEF StatusAt
    <3>2. NotesAbout(k, q) \subseteq NotesAbout(k, q)'
      BY <1>2 DEF NotesAbout
    <3>3. \/ StatusAt(k, q) \in {Absent, Placed[groups[k].method], "CANCELED"}
          \/ \E n \in NotesAbout(k, q) : n.says = StatusAt(k, q)
      BY DEF CareInv, CareOverlapInv, EveryTold
    <3> QED
      BY <3>1, <3>2, <3>3
  <2> QED
    BY <2>1, <2>2
<1>14. DeliveredIsKnown' /\ EveryTold'
  BY <1>4, <1>12, <1>13 DEF DeliveredIsKnown, EveryTold
<1>15. /\ ReviewersReceived' /\ OneReviewEach' /\ IsFiniteSet(reviews)'
  BY <1>2 DEF CareInv, CareOverlapInv, ReviewersReceived, OneReviewEach
<1>16. ASSUME ~overlapped, NEW k \in 1..Len(groups), NEW q \in Sellers
       PROVE  \/ StatusAt(k, q)' \in {Absent, "CANCELED"}
              \/ NotesAbout(k, q)' = {} /\ StatusAt(k, q)' = Placed[groups[k].method]
              \/ \E n \in NotesAbout(k, q)' : /\ n.says = StatusAt(k, q)'
                                           /\ \A m \in NotesAbout(k, q)' : m.at <= n.at
  <2>1. t.loaded = groups[g].status[s] /\ t.at = begun
    BY <1>1, <1>16 DEF CareInv, CareSerialInv, AllCareFresh, CareFresh, StatusAt
  <2>2. CASE k = g /\ q = s
    <3>1. StatusAt(k, q)' = note.says
      BY <1>4, <1>8, <1>9, <2>1, <2>2 DEF StatusAt
    <3>2. note \in NotesAbout(k, q)'
      BY <1>2, <1>8, <2>2 DEF NotesAbout
    <3>3. \A m \in NotesAbout(k, q)' : m.at <= note.at
      BY <1>1, <1>2, <1>8, <2>1 DEF NotesAbout, CareInv, CareOverlapInv, NotesInTime
    <3> QED
      BY <3>1, <3>2, <3>3
  <2>3. CASE ~(k = g /\ q = s)
    <3>1. StatusAt(k, q)' = StatusAt(k, q)
      BY <1>4, <1>9, <2>3 DEF StatusAt
    <3>2. NotesAbout(k, q)' = NotesAbout(k, q)
      BY <1>2, <1>8, <2>3 DEF NotesAbout
    <3> QED
      BY <1>16, <3>1, <3>2 DEF CareInv, CareSerialInv, LastTold
  <2> QED
    BY <2>2, <2>3
<1>17. ~overlapped => LastTold' /\ StatsKept'
  BY <1>2, <1>4, <1>16 DEF LastTold, CareInv, CareSerialInv, StatsKept, ReviewsOf
<1> QED
  BY <1>2, <1>6, <1>14, <1>15, <1>17, <1>10, <1>11 DEF CareInv, CareOverlapInv, CareSerialInv

LEMMA CommitCancelStep ==
    ASSUME CareInv, NEW r \in Slots, CommitCancelOrder(r)
    PROVE  CareInv'
<1> PICK t \in Hand : t = hand[r]
  BY CareTypes DEF CareInv, CareOverlapInv
<1> PICK g : g = t.g
  OBVIOUS
<1>1. /\ t.op = "cancel" /\ g \in 1..Len(groups)
      /\ t.loaded \in [Sellers -> Status \cup {Absent}]
  BY HandTypes DEF CommitCancelOrder, CareInv, CareOverlapInv, AllHeld, Held
<1> DEFINE canceled == [s \in Sellers |->
               IF groups[g].status[s] = Absent THEN Absent
               ELSE IF t.loaded[s] = "CANCELED" THEN groups[g].status[s] ELSE "CANCELED"]
           row == [groups[g] EXCEPT !.status = canceled]
<1>2. /\ groups' = [groups EXCEPT ![g] = row]
      /\ Ends(r) /\ InFlight(r) /\ begun' = begun /\ overlapped' = overlapped
      /\ notes' = notes /\ delivered' = delivered
      /\ reviews' = reviews /\ stats' = stats /\ addresses' = addresses
  <2>1. canceled = [s \in Sellers |->
            IF s \in OrdersOf(g) THEN Flushed(t.loaded[s], "CANCELED", groups[g].status[s])
            ELSE Absent]
    BY DEF OrdersOf, Flushed
  <2> HIDE DEF canceled
  <2> QED
    BY <1>1, <2>1 DEF CommitCancelOrder, Ends, InFlight
<1>3. /\ groups' \in Seq(OrderGroup) /\ Len(groups') = Len(groups) /\ Len(groups) \in Nat
      /\ \A k \in 1..Len(groups) :
            /\ groups'[k].customer = groups[k].customer /\ groups'[k].method = groups[k].method
            /\ \A q \in Sellers : groups'[k].status[q] =
                  IF k = g THEN canceled[q] ELSE groups[k].status[q]
  <2>1. groups \in Seq(OrderGroup) /\ groups[g] \in OrderGroup
        /\ groups[g].status \in [Sellers -> Status \cup {Absent}]
    BY <1>1, CareTypes DEF CareInv, CareOverlapInv
  <2>2. canceled \in [Sellers -> Status \cup {Absent}]
    BY <2>1 DEF Status
  <2> HIDE DEF canceled
  <2>3. /\ row \in OrderGroup /\ row.status = canceled
        /\ row.customer = groups[g].customer /\ row.method = groups[g].method
    BY <2>1, <2>2 DEF OrderGroup
  <2> HIDE DEF row
  <2>4. /\ groups' \in Seq(OrderGroup) /\ Len(groups') = Len(groups) /\ Len(groups) \in Nat
        /\ \A k \in 1..Len(groups) : groups'[k] = IF k = g THEN row ELSE groups[k]
    BY <1>1, <1>2, <2>1, <2>3
  <2> QED
    BY <2>3, <2>4
<1>4. \A q \in Sellers :
          /\ canceled[q] \in {groups[g].status[q], "CANCELED"}
          /\ groups[g].status[q] # Absent => canceled[q] # Absent
          /\ groups[g].status[q] = Absent => canceled[q] = Absent
  BY CareBounds DEF Status
<1> HIDE DEF canceled
<1>5. Grown
  <2>1. begun \in Nat
    BY CareTypes DEF CareInv, CareOverlapInv
  <2> QED
    BY <1>2, <1>3, <1>4, <2>1 DEF Grown
<1>6. AllHeld' /\ (hand \in [Slots -> Hand])' /\ (~overlapped => CareAlone' /\ AllCareFresh')
  BY <1>2, <1>3, <1>5, AfterEnd
<1>7. CustomersTypeOK'
  BY <1>2, <1>3, <1>6 DEF CareInv, CareOverlapInv, CustomersTypeOK
<1>8. /\ NotesInTime' /\ ReviewersReceived' /\ OneReviewEach' /\ IsFiniteSet(reviews)'
  BY <1>2, <1>3 DEF CareInv, CareOverlapInv, NotesInTime, ReviewersReceived,
     OneReviewEach
<1>9. ASSUME NEW k \in 1..Len(groups), NEW q \in Sellers
      PROVE  StatusAt(k, q)' \in {StatusAt(k, q), "CANCELED"} /\ NotesAbout(k, q)' = NotesAbout(k, q)
  BY <1>2, <1>3, <1>4 DEF StatusAt, NotesAbout
<1>10. DeliveredIsKnown' /\ EveryTold'
  BY <1>2, <1>3, <1>9 DEF CareInv, CareOverlapInv, DeliveredIsKnown, EveryTold
<1>11. ASSUME ~overlapped, NEW k \in 1..Len(groups), NEW q \in Sellers
       PROVE  \/ StatusAt(k, q)' \in {Absent, "CANCELED"}
              \/ NotesAbout(k, q)' = {} /\ StatusAt(k, q)' = Placed[groups[k].method]
              \/ \E n \in NotesAbout(k, q)' : /\ n.says = StatusAt(k, q)'
                                           /\ \A m \in NotesAbout(k, q)' : m.at <= n.at
  <2>1. \/ StatusAt(k, q) \in {Absent, "CANCELED"}
        \/ NotesAbout(k, q) = {} /\ StatusAt(k, q) = Placed[groups[k].method]
        \/ \E n \in NotesAbout(k, q) : /\ n.says = StatusAt(k, q)
                                    /\ \A m \in NotesAbout(k, q) : m.at <= n.at
    BY <1>11 DEF CareInv, CareSerialInv, LastTold
  <2> QED
    BY <1>9, <2>1
<1>12. ~overlapped => LastTold' /\ StatsKept'
  BY <1>2, <1>3, <1>11 DEF LastTold, CareInv, CareSerialInv, StatsKept, ReviewsOf
<1> QED
  BY <1>2, <1>6, <1>7, <1>8, <1>10, <1>12 DEF CareInv, CareOverlapInv, CareSerialInv

LEMMA PlaceOrdersStep ==
    ASSUME CareInv, NEW r \in Slots, NEW c \in Customers, NEW m \in Methods,
           NEW shops \in SUBSET Sellers, PlaceOrders(r, c, m, shops)
    PROVE  CareInv'
<1> DEFINE row == [customer |-> c, method |-> m,
                   status |-> [s \in Sellers |-> IF s \in shops THEN Placed[m] ELSE Absent]]
           note == [customer |-> c, group |-> Len(groups) + 1, shop |-> Absent, says |-> "placed",
                    at |-> begun', read |-> FALSE]
<1>1. /\ AtOnce(r) /\ groups' = Append(groups, row) /\ notes' = notes \cup {note}
      /\ reviews' = reviews /\ stats' = stats /\ addresses' = addresses /\ delivered' = delivered
  BY DEF PlaceOrders
<1>2. begun \in Nat /\ begun' = begun + 1 /\ begun' \in Nat /\ begun <= begun'
  BY <1>1, ArrivalGrows
<1>3. Placed[m] \in {"PENDING", "CONFIRMED"}
  BY DEF Placed, Methods
<1>4. row \in OrderGroup
  BY <1>3 DEF OrderGroup, Status
<1>5. \A q \in Sellers : row.status[q] \in {Placed[row.method], Absent}
  OBVIOUS
<1> HIDE DEF row
<1>6. /\ groups' \in Seq(OrderGroup) /\ Len(groups') = Len(groups) + 1 /\ Len(groups) \in Nat
      /\ groups'[Len(groups) + 1] = row
      /\ \A k \in 1..Len(groups) : groups'[k] = groups[k]
  <2>1. groups \in Seq(OrderGroup)
    BY CareTypes DEF CareInv, CareOverlapInv
  <2> QED
    BY <1>1, <1>4, <2>1
<1>7. Grown
  BY <1>1, <1>2, <1>6 DEF Grown
<1>8. /\ AllHeld' /\ (hand \in [Slots -> Hand])' /\ begun' \in 0..MaxBegun
      /\ overlapped' \in BOOLEAN /\ (~overlapped' => ~overlapped /\ CareAlone' /\ AllCareFresh')
  BY <1>1, <1>6, <1>7, AfterOnce
<1>9. note \in Note
  BY <1>2, <1>6 DEF Note
<1>10. /\ note.group = Len(groups) + 1 /\ note.at = begun' /\ note.shop = Absent
  OBVIOUS
<1> HIDE DEF note
<1>11. CustomersTypeOK'
  BY <1>1, <1>6, <1>8, <1>9 DEF CareInv, CareOverlapInv, CustomersTypeOK
<1>12. NotesInTime'
  <2>1. \A n \in notes : n.at \in Nat
    BY DEF CareInv, CareOverlapInv, CustomersTypeOK, Note
  <2> QED
    BY <1>1, <1>2, <1>6, <1>10, <2>1 DEF CareInv, CareOverlapInv, NotesInTime
<1>13. /\ ReviewersReceived' /\ OneReviewEach' /\ IsFiniteSet(reviews)'
  BY <1>1 DEF CareInv, CareOverlapInv, ReviewersReceived, OneReviewEach
<1>14. ASSUME NEW k \in 1..Len(groups), NEW q \in Sellers
       PROVE  /\ StatusAt(k, q)' = StatusAt(k, q) /\ NotesAbout(k, q)' = NotesAbout(k, q)
              /\ groups'[k] = groups[k]
  BY <1>1, <1>6, <1>10, CareBounds DEF StatusAt, NotesAbout
<1> PICK new : new = Len(groups) + 1
  OBVIOUS
<1>15. ASSUME NEW q \in Sellers
       PROVE  /\ StatusAt(new, q)' \in {Absent, Placed[groups'[new].method]}
              /\ StatusAt(new, q)' # "DELIVERED"
              /\ NotesAbout(new, q)' = {}
  <2>1. StatusAt(new, q)' \in {Absent, Placed[row.method]}
    BY <1>5, <1>6 DEF StatusAt
  <2>2. Placed[row.method] # "DELIVERED" /\ Absent # "DELIVERED"
    BY <1>4, CareBounds DEF OrderGroup, Placed, Methods, Status
  <2>3. \A n \in notes : n.group # new
    BY <1>6 DEF CareInv, CareOverlapInv, NotesInTime
  <2>4. NotesAbout(new, q)' = {}
    BY <1>1, <1>10, <2>3, CareBounds DEF NotesAbout
  <2> QED
    BY <1>6, <2>1, <2>2, <2>4
<1>16. \A k \in 1..Len(groups') : k \in 1..Len(groups) \/ k = new
  BY <1>6
<1>17. DeliveredIsKnown' /\ EveryTold'
  <2>1. ASSUME NEW k \in 1..Len(groups'), NEW q \in Sellers
        PROVE  /\ StatusAt(k, q)' = "DELIVERED" => <<groups'[k].customer, q>> \in delivered'
               /\ \/ StatusAt(k, q)' \in {Absent, Placed[groups'[k].method], "CANCELED"}
                  \/ \E n \in NotesAbout(k, q)' : n.says = StatusAt(k, q)'
    <3>1. CASE k \in 1..Len(groups)
      BY <1>1, <1>14, <3>1 DEF CareInv, CareOverlapInv, DeliveredIsKnown, EveryTold
    <3>2. CASE k = new
      BY <1>15, <3>2
    <3> QED
      BY <1>16, <3>1, <3>2
  <2> QED
    BY <2>1 DEF DeliveredIsKnown, EveryTold
<1>18. ASSUME ~overlapped' PROVE LastTold' /\ StatsKept'
  <2>1. ASSUME NEW k \in 1..Len(groups'), NEW q \in Sellers
        PROVE  \/ StatusAt(k, q)' \in {Absent, "CANCELED"}
               \/ NotesAbout(k, q)' = {} /\ StatusAt(k, q)' = Placed[groups'[k].method]
               \/ \E n \in NotesAbout(k, q)' : /\ n.says = StatusAt(k, q)'
                                            /\ \A j \in NotesAbout(k, q)' : j.at <= n.at
    <3>1. CASE k \in 1..Len(groups)
      BY <1>8, <1>14, <1>18, <3>1 DEF CareInv, CareSerialInv, LastTold
    <3>2. CASE k = new
      BY <1>15, <3>2
    <3> QED
      BY <1>16, <3>1, <3>2
  <2>2. StatsKept'
    BY <1>1, <1>8, <1>18 DEF CareInv, CareSerialInv, StatsKept, ReviewsOf
  <2> QED
    BY <2>1, <2>2 DEF LastTold
<1> QED
  BY <1>8, <1>11, <1>12, <1>13, <1>17, <1>18 DEF CareInv, CareOverlapInv, CareSerialInv

(* A notification that was read says what it said.                         *)
Says(n, k) == n.group = k.group /\ n.shop = k.shop /\ n.says = k.says /\ n.at = k.at

LEMMA MarkReadStep ==
    ASSUME CareInv, NEW r \in Slots, NEW c, NEW read, MarkRead(r, c, read)
    PROVE  CareInv'
<1>1. /\ AtOnce(r) /\ read \subseteq notes
      /\ notes' = (notes \ read) \cup {[n EXCEPT !.read = TRUE] : n \in read}
      /\ groups' = groups /\ reviews' = reviews /\ stats' = stats /\ addresses' = addresses
      /\ delivered' = delivered
  BY DEF MarkRead
<1>2. begun \in Nat /\ begun' = begun + 1 /\ begun' \in Nat /\ begun <= begun'
  BY <1>1, ArrivalGrows
<1>3. Len(groups') \in Nat /\ Grown
  BY <1>1, <1>2, CareTypes DEF CareInv, CareOverlapInv, Grown
<1>4. /\ AllHeld' /\ (hand \in [Slots -> Hand])' /\ begun' \in 0..MaxBegun
      /\ overlapped' \in BOOLEAN /\ (~overlapped' => ~overlapped /\ CareAlone' /\ AllCareFresh')
  BY <1>1, <1>3, AfterOnce
<1>5. \A n \in notes : LET k == [n EXCEPT !.read = TRUE] IN
          n \in Note /\ n.at \in Nat /\ k \in Note /\ Says(n, k)
  BY DEF CareInv, CareOverlapInv, CustomersTypeOK, Note, Says
<1>6. /\ notes' \subseteq Note
      /\ \A n \in notes' : \E k \in notes : Says(n, k)
      /\ \A n \in notes : \E k \in notes' : Says(n, k)
  <2> DEFINE known(n) == [n EXCEPT !.read = TRUE]
  <2>1. /\ notes' = (notes \ read) \cup {known(n) : n \in read} /\ read \subseteq notes
        /\ \A n \in notes : n \in Note /\ known(n) \in Note /\ Says(n, known(n))
    BY <1>1, <1>5
  <2> HIDE DEF known
  <2>2. notes' \subseteq Note
    BY <2>1
  <2>3. ASSUME NEW n \in notes' PROVE \E k \in notes : Says(n, k)
    <3>1. CASE n \in notes
      BY <3>1 DEF Says
    <3>2. CASE \E k \in read : n = known(k)
      BY <2>1, <3>2 DEF Says
    <3> QED
      BY <2>1, <3>1, <3>2
  <2>4. ASSUME NEW n \in notes PROVE \E k \in notes' : Says(n, k)
    <3>1. CASE n \in read
      BY <2>1, <3>1
    <3>2. CASE n \notin read
      BY <2>1, <3>2 DEF Says
    <3> QED
      BY <3>1, <3>2
  <2> QED
    BY <2>2, <2>3, <2>4
<1>7. CustomersTypeOK'
  BY <1>1, <1>4, <1>6 DEF CareInv, CareOverlapInv, CustomersTypeOK
<1>8. NotesInTime'
  <2> SUFFICES ASSUME NEW n \in notes' PROVE n.group \in 1..Len(groups) /\ n.at <= begun'
    BY <1>1 DEF NotesInTime
  <2>1. PICK k \in notes : Says(n, k)
    BY <1>6
  <2>2. k.group \in 1..Len(groups) /\ k.at <= begun /\ k.at \in Nat
    BY <1>5 DEF CareInv, CareOverlapInv, NotesInTime
  <2> QED
    BY <1>2, <2>1, <2>2 DEF Says
<1>9. EveryTold'
  <2> SUFFICES ASSUME NEW g \in 1..Len(groups), NEW s \in Sellers,
                      StatusAt(g, s) \notin {Absent, Placed[groups[g].method], "CANCELED"}
               PROVE  \E n \in NotesAbout(g, s)' : n.says = StatusAt(g, s)
    BY <1>1 DEF EveryTold, StatusAt
  <2>1. PICK k \in NotesAbout(g, s) : k.says = StatusAt(g, s)
    BY DEF CareInv, CareOverlapInv, EveryTold
  <2>2. PICK n \in notes' : Says(k, n)
    BY <1>6, <2>1 DEF NotesAbout
  <2>3. n \in NotesAbout(g, s)' /\ n.says = StatusAt(g, s)
    BY <2>1, <2>2 DEF Says, NotesAbout
  <2> QED
    BY <2>3
<1>10. /\ DeliveredIsKnown' /\ ReviewersReceived' /\ OneReviewEach'
       /\ IsFiniteSet(reviews)'
  BY <1>1 DEF CareInv, CareOverlapInv, DeliveredIsKnown, StatusAt, ReviewersReceived,
     OneReviewEach
<1>11. ASSUME ~overlapped, NEW g \in 1..Len(groups), NEW s \in Sellers
       PROVE  \/ StatusAt(g, s) \in {Absent, "CANCELED"}
              \/ NotesAbout(g, s)' = {} /\ StatusAt(g, s) = Placed[groups[g].method]
              \/ \E n \in NotesAbout(g, s)' : /\ n.says = StatusAt(g, s)
                                           /\ \A m \in NotesAbout(g, s)' : m.at <= n.at
  <2>1. \A m \in NotesAbout(g, s)' : \E j \in NotesAbout(g, s) : Says(m, j)
    BY <1>6 DEF Says, NotesAbout
  <2>2. CASE StatusAt(g, s) \in {Absent, "CANCELED"}
    BY <2>2
  <2>3. CASE NotesAbout(g, s) = {} /\ StatusAt(g, s) = Placed[groups[g].method]
    BY <2>1, <2>3
  <2>4. ASSUME NEW k \in NotesAbout(g, s), k.says = StatusAt(g, s),
               \A m \in NotesAbout(g, s) : m.at <= k.at
        PROVE  \E n \in NotesAbout(g, s)' : /\ n.says = StatusAt(g, s)
                                         /\ \A m \in NotesAbout(g, s)' : m.at <= n.at
    <3>1. PICK n \in notes' : Says(k, n)
      BY <1>6, <2>4 DEF NotesAbout
    <3>2. n \in NotesAbout(g, s)' /\ n.says = StatusAt(g, s)
      BY <2>4, <3>1 DEF Says, NotesAbout
    <3>3. \A m \in NotesAbout(g, s)' : m.at <= n.at
      BY <2>1, <2>4, <3>1 DEF Says
    <3> QED
      BY <3>2, <3>3
  <2> QED
    BY <1>11, <2>2, <2>3, <2>4 DEF CareInv, CareSerialInv, LastTold
<1>12. ~overlapped' => LastTold' /\ StatsKept'
  BY <1>1, <1>4, <1>11 DEF LastTold, StatusAt, CareInv, CareSerialInv, StatsKept, ReviewsOf
<1> QED
  BY <1>4, <1>7, <1>8, <1>9, <1>10, <1>12 DEF CareInv, CareOverlapInv, CareSerialInv

(* A review is inserted together with the numbers its product shows.       *)
LEMMA CommitReviewStep ==
    ASSUME CareInv, NEW r \in Slots, CommitReview(r)
    PROVE  CareInv'
<1> PICK t \in Hand : t = hand[r]
  BY CareTypes DEF CareInv, CareOverlapInv
<1> PICK p, v : v = t.review /\ p = v.product
  OBVIOUS
<1> DEFINE row == [count   |-> IF t.new.count = t.loaded.count THEN stats[p].count ELSE t.new.count,
                   average |-> IF t.new.average = t.loaded.average THEN stats[p].average
                               ELSE t.new.average]
<1>1. /\ t.op = "counted" /\ v \in Review /\ p \in Sellers
      /\ t.loaded \in Stats /\ t.new \in Stats /\ stats[p] \in Stats
      /\ <<v.customer, p>> \in delivered
  BY HandTypes DEF CommitReview, CareInv, CareOverlapInv, AllHeld, Held, Review,
     CustomersTypeOK
<1>2. /\ ~Reviewed(v.customer, p)
      /\ reviews' = reviews \cup {v} /\ stats' = [stats EXCEPT ![p] = row]
      /\ Ends(r) /\ InFlight(r) /\ begun' = begun /\ overlapped' = overlapped
      /\ groups' = groups /\ notes' = notes /\ delivered' = delivered /\ addresses' = addresses
  BY <1>1 DEF CommitReview, Flushed, Ends, InFlight
<1>3. row \in Stats
  BY <1>1 DEF Stats
<1>4. Len(groups') \in Nat /\ Grown
  BY <1>2, CareTypes DEF CareInv, CareOverlapInv, Grown
<1>5. AllHeld' /\ (hand \in [Slots -> Hand])' /\ (~overlapped => CareAlone' /\ AllCareFresh')
  BY <1>2, <1>4, AfterEnd
<1>6. CustomersTypeOK'
  <2> HIDE DEF row
  <2> QED
    BY <1>1, <1>2, <1>3, <1>5 DEF CareInv, CareOverlapInv, CustomersTypeOK
<1>7. IsFiniteSet(reviews)'
  BY <1>2, FS_AddElement DEF CareInv, CareOverlapInv
<1>8. ReviewersReceived' /\ OneReviewEach'
  BY <1>1, <1>2 DEF CareInv, CareOverlapInv, ReviewersReceived, OneReviewEach,
     Reviewed
<1>9. NotesInTime' /\ DeliveredIsKnown' /\ EveryTold'
  BY <1>2 DEF CareInv, CareOverlapInv, NotesInTime, DeliveredIsKnown, EveryTold, StatusAt, NotesAbout
<1>10. ASSUME ~overlapped PROVE StatsKept'
  <2>1. t.loaded = stats[p] /\ t.new = StatsOf(ReviewsOf(p) \cup {v})
    BY <1>1, <1>10 DEF CareInv, CareSerialInv, AllCareFresh, CareFresh
  <2>2. row = t.new
    <3>1. row.count = t.new.count /\ row.average = t.new.average
      BY <2>1
    <3> HIDE DEF row
    <3> QED
      BY <1>1, <1>3, <3>1 DEF Stats
  <2> HIDE DEF row
  <2>3. ASSUME NEW q \in Sellers
        PROVE  /\ stats'[q] = IF q = p THEN t.new ELSE stats[q]
               /\ ReviewsOf(q)' = IF q = p THEN ReviewsOf(p) \cup {v} ELSE ReviewsOf(q)
    BY <1>1, <1>2, <2>2 DEF ReviewsOf, CareInv, CareOverlapInv, CustomersTypeOK
  <2>4. \A q \in Sellers : stats[q] = StatsOf(ReviewsOf(q))
    BY <1>10 DEF CareInv, CareSerialInv, StatsKept
  <2> SUFFICES ASSUME NEW q \in Sellers PROVE stats'[q] = StatsOf(ReviewsOf(q)')
    BY DEF StatsKept
  <2> QED
    BY <2>1, <2>3, <2>4
<1>11. ~overlapped => LastTold'
  BY <1>2 DEF CareInv, CareSerialInv, LastTold, StatusAt, NotesAbout
<1> QED
  BY <1>2, <1>5, <1>6, <1>7, <1>8, <1>9, <1>10, <1>11 DEF CareInv, CareOverlapInv, CareSerialInv

(* Nothing but the addresses changes.                                      *)
LEMMA WritesAddressStep ==
    ASSUME CareInv, NEW r \in Slots, WritesAddress(r),
           addresses' \subseteq Address
    PROVE  CareInv'
<1>1. AtOnce(r) /\ RowsKept
  BY DEF WritesAddress, RowsKept
<1>2. begun \in Nat /\ begun' = begun + 1 /\ begun' \in Nat /\ begun <= begun'
  BY <1>1, ArrivalGrows
<1>3. Len(groups') \in Nat /\ Grown
  BY <1>1, <1>2, CareTypes DEF CareInv, CareOverlapInv, Grown, RowsKept
<1>4. /\ AllHeld' /\ (hand \in [Slots -> Hand])' /\ begun' \in 0..MaxBegun
      /\ overlapped' \in BOOLEAN /\ (~overlapped' => ~overlapped /\ CareAlone' /\ AllCareFresh')
  BY <1>1, <1>3, AfterOnce
<1>5. CustomersTypeOK'
  BY <1>1, <1>4 DEF CareInv, CareOverlapInv, CustomersTypeOK, RowsKept
<1>6. CareOverlapInv'
  BY <1>1, <1>2, <1>4, <1>5, WhatRowsSay DEF CareInv, CareOverlapInv
<1>7. ~overlapped' => LastTold' /\ StatsKept'
  BY <1>1, <1>4 DEF CareInv, CareSerialInv, LastTold, StatsKept, StatusAt, NotesAbout, ReviewsOf,
     RowsKept
<1> QED
  BY <1>4, <1>6, <1>7 DEF CareInv, CareSerialInv

LEMMA AddressStepKeeps ==
    ASSUME CareInv, NEW r \in Slots, AddressStep(r)
    PROVE  CareInv'
<1>1. addresses \subseteq Address /\ begun \in Nat
  BY CareTypes DEF CareInv, CareOverlapInv, CustomersTypeOK
<1>2. ASSUME NEW c \in Customers, NEW guest \in BOOLEAN, NEW place \in Places, NEW phone \in Phones,
             AddAddress(r, c, guest, place, phone)
      PROVE  CareInv'
  <2>1. WritesAddress(r) /\ begun' \in Nat
    BY <1>2, ArrivalGrows DEF AddAddress, WritesAddress
  <2>2. addresses' \subseteq Address
    BY <1>1, <1>2, <2>1 DEF AddAddress, Address
  <2> QED
    BY <2>1, <2>2, WritesAddressStep
<1>3. ASSUME NEW a \in addresses, NEW place \in Places, NEW phone \in Phones,
             UpdateAddress(r, a, place, phone)
      PROVE  CareInv'
  <2>1. addresses' \subseteq Address
    BY <1>1, <1>3 DEF UpdateAddress, Address
  <2> QED
    BY <1>3, <2>1, WritesAddressStep DEF UpdateAddress
<1>4. ASSUME NEW a \in addresses, DeleteAddress(r, a) PROVE CareInv'
  <2>1. addresses' \subseteq Address
    BY <1>1, <1>4 DEF DeleteAddress
  <2> QED
    BY <1>4, <2>1, WritesAddressStep DEF DeleteAddress
<1>5. ASSUME NEW c \in Customers, MergeGuestAddresses(r, c) PROVE CareInv'
  <2>1. PICK last \in SUBSET addresses :
          addresses' \subseteq addresses \cup {[a EXCEPT !.guest = FALSE] : a \in last}
    BY <1>5 DEF MergeGuestAddresses
  <2>2. \A a \in addresses : [a EXCEPT !.guest = FALSE] \in Address
    BY <1>1 DEF Address
  <2>3. addresses' \subseteq Address
    BY <1>1, <2>1, <2>2
  <2> QED
    BY <1>5, <2>3, WritesAddressStep DEF MergeGuestAddresses
<1> QED
  BY <1>2, <1>3, <1>4, <1>5 DEF AddressStep

LEMMA CareInitInv ==
    ASSUME CustomersInit
    PROVE  CareInv
<1>1. PICK cs \in UNION {[1..n -> Customers] : n \in 0..Cardinality(Customers)} :
          /\ groups = Past(cs) /\ notes = PastNotes(cs)
          /\ delivered = {cs[i] : i \in 1..Len(cs)} \X Sellers
  BY DEF CustomersInit
<1>2. PICK n \in Nat : cs \in [1..n -> Customers]
  BY <1>1
<1>3. cs \in Seq(Customers) /\ Len(cs) = n
  BY <1>2
<1>4. /\ reviews = {} /\ stats = [s \in Sellers |-> [count |-> 0, average |-> 0]]
      /\ addresses = {} /\ begun = 0 /\ overlapped = FALSE
      /\ hand = [r \in Slots |-> EmptyHand]
  BY DEF CustomersInit
<1>5. /\ groups \in Seq(OrderGroup) /\ Len(groups) = n
      /\ \A g \in 1..n : /\ groups[g].customer = cs[g] /\ groups[g].method = "WALLET"
                         /\ \A s \in Sellers : groups[g].status[s] = "DELIVERED"
  <2>1. groups = [g \in 1..n |-> [customer |-> cs[g], method |-> "WALLET",
                                  status |-> [s \in Sellers |-> "DELIVERED"]]]
    BY <1>1, <1>3 DEF Past
  <2>2. groups \in [1..n -> OrderGroup]
    BY <1>2, <2>1 DEF OrderGroup, Methods, Status
  <2>3. groups \in Seq(OrderGroup) /\ Len(groups) = n
    BY <2>2
  <2> QED
    BY <2>1, <2>3
<1> DEFINE note(g, s) == [customer |-> cs[g], group |-> g, shop |-> s, says |-> "DELIVERED",
                          at |-> 0, read |-> TRUE]
<1>6. notes = UNION {{note(g, s) : s \in Sellers} : g \in 1..n}
  BY <1>1, <1>3 DEF PastNotes
<1>7. /\ notes \subseteq Note
      /\ \A k \in notes : k.group \in 1..n /\ k.at = 0
      /\ \A g \in 1..n, s \in Sellers : note(g, s) \in NotesAbout(g, s)
  <2>1. \A g \in 1..n, s \in Sellers : note(g, s) \in Note
    BY <1>2 DEF Note, Status
  <2>2. notes \subseteq Note
    <3> HIDE DEF note
    <3> QED
      BY <1>6, <2>1
  <2>3. \A k \in notes : k.group \in 1..n /\ k.at = 0
    BY <1>6
  <2>4. ASSUME NEW g \in 1..n, NEW s \in Sellers PROVE note(g, s) \in NotesAbout(g, s)
    <3>1. note(g, s) \in notes
      <4> HIDE DEF note
      <4> QED
        BY <1>6
    <3>2. note(g, s).group = g /\ note(g, s).shop = s
      OBVIOUS
    <3> HIDE DEF note
    <3> QED
      BY <3>1, <3>2 DEF NotesAbout
  <2> QED
    BY <2>2, <2>3, <2>4
<1>8. CustomersTypeOK
  <2>1. delivered \subseteq Customers \X Sellers
    BY <1>1, <1>2, <1>3
  <2>2. stats \in [Sellers -> Stats]
    BY <1>4 DEF Stats
  <2>3. begun \in 0..MaxBegun
    BY <1>4, CareBounds
  <2> QED
    BY <1>4, <1>5, <1>7, <2>1, <2>2, <2>3, IdleHand DEF CustomersTypeOK
<1>9. IsFiniteSet(reviews) /\ AllHeld /\ ReviewersReceived /\ OneReviewEach
  BY <1>4, IdleHand, FS_EmptySet DEF AllHeld, ReviewersReceived, OneReviewEach
<1>10. NotesInTime /\ DeliveredIsKnown
  BY <1>1, <1>3, <1>4, <1>5, <1>7 DEF NotesInTime, DeliveredIsKnown
<1>11. \A g \in 1..n, s \in Sellers :
          \E k \in NotesAbout(g, s) : /\ k.says = StatusAt(g, s)
                                   /\ \A m \in NotesAbout(g, s) : m.at <= k.at
  <2> SUFFICES ASSUME NEW g \in 1..n, NEW s \in Sellers
               PROVE  \E k \in NotesAbout(g, s) : /\ k.says = StatusAt(g, s)
                                               /\ \A m \in NotesAbout(g, s) : m.at <= k.at
    OBVIOUS
  <2>1. note(g, s) \in NotesAbout(g, s) /\ note(g, s).says = StatusAt(g, s) /\ note(g, s).at = 0
    BY <1>5, <1>7 DEF StatusAt
  <2>2. \A m \in NotesAbout(g, s) : m.at = 0
    BY <1>7 DEF NotesAbout
  <2> HIDE DEF note
  <2> QED
    BY <2>1, <2>2
<1>12. EveryTold /\ LastTold
  BY <1>5, <1>11 DEF EveryTold, LastTold
<1>13. StatsKept
  <2>1. Cardinality({}) = 0
    BY FS_EmptySet
  <2>2. StatsOf({}) = [count |-> 0, average |-> 0]
    BY <2>1 DEF StatsOf
  <2>3. \A p \in Sellers : ReviewsOf(p) = {}
    BY <1>4 DEF ReviewsOf
  <2> QED
    BY <1>4, <2>2, <2>3 DEF StatsKept
<1>14. CareAlone /\ AllCareFresh
  BY <1>4, IdleHand DEF CareAlone, AllCareFresh, InFlight
<1> QED
  BY <1>8, <1>9, <1>10, <1>12, <1>13, <1>14 DEF CareInv, CareOverlapInv, CareSerialInv

LEMMA CareStutter ==
    ASSUME CareInv, UNCHANGED customersVars
    PROVE  CareInv'
<1>1. /\ groups' = groups /\ notes' = notes /\ reviews' = reviews /\ stats' = stats
      /\ addresses' = addresses /\ delivered' = delivered /\ begun' = begun
      /\ overlapped' = overlapped /\ hand' = hand
  BY DEF customersVars, rows
<1>2. CareOverlapInv'
  BY <1>1 DEF CareInv, CareOverlapInv, CustomersTypeOK, AllHeld, Held, NotesInTime, DeliveredIsKnown,
     EveryTold, NotesAbout, StatusAt, ReviewersReceived, OneReviewEach
<1>3. ~overlapped => CareSerialInv'
  BY <1>1 DEF CareInv, CareSerialInv, CareAlone, InFlight, AllCareFresh, CareFresh, LastTold,
     StatsKept, NotesAbout, StatusAt, ReviewsOf
<1> QED
  BY <1>1, <1>2, <1>3 DEF CareInv

LEMMA CareStepInv ==
    ASSUME CareInv, [CustomersNext]_customersVars
    PROVE  CareInv'
<1>1. ASSUME NEW r \in Slots, OrderStep(r) PROVE CareInv'
  <2>1. ASSUME NEW c \in Customers, NEW m \in Methods, NEW shops \in SUBSET Sellers \ {{}},
               PlaceOrders(r, c, m, shops)
        PROVE  CareInv'
    BY <2>1, PlaceOrdersStep
  <2>2. ASSUME NEW o \in Orders, BeginCancelOrder(r, o[1], o[2]) PROVE CareInv'
    BY <2>2, BeginCancelStep
  <2>3. ASSUME NEW o \in Orders, NEW new \in Status, BeginStatus(r, o[1], o[2], new)
        PROVE  CareInv'
    BY <2>3, BeginStatusStep
  <2>4. ASSUME NEW c, NEW read, MarkRead(r, c, read) PROVE CareInv'
    BY <2>4, MarkReadStep
  <2> QED
    BY <1>1, <2>1, <2>2, <2>3, <2>4, CommitStatusStep, CommitCancelStep DEF OrderStep
<1>2. ASSUME NEW r \in Slots, ReviewStep(r) PROVE CareInv'
  BY <1>2, BeginReviewStep, CountReviewsStep, CommitReviewStep DEF ReviewStep
<1>3. CASE UNCHANGED customersVars
  BY <1>3, CareStutter
<1> QED
  BY <1>1, <1>2, <1>3, AddressStepKeeps, RollbackStep DEF CustomersNext

LEMMA CareInvAlways == CustomersSpec => []CareInv
<1>1. CustomersInit => CareInv
  BY CareInitInv
<1>2. CareInv /\ [CustomersNext]_customersVars => CareInv'
  BY CareStepInv
<1> QED
  BY <1>1, <1>2, PTL DEF CustomersSpec

(* Whatever overlaps, an order has no status its customer was never told   *)
(* of (a change of status and its notification are one commit); and until  *)
(* two requests overlap the latest notification about an order is of the   *)
(* status it has, but for an order the customer canceled.                  *)
THEOREM CustomersKnowTheirOrders ==
    CustomersSpec => []CustomersAreTold
<1>1. ASSUME CareInv PROVE CustomersAreTold
  <2>1. \A o \in Orders : /\ o[1] \in 1..Len(groups) /\ o[2] \in Sellers
                               /\ StatusOf(o) = StatusAt(o[1], o[2])
                               /\ NotesOf(o) = NotesAbout(o[1], o[2])
                               /\ StatusAt(o[1], o[2]) # Absent
    BY DEF Orders, StatusOf, NotesOf, StatusAt, NotesAbout
  <2>2. EveryStatusWasTold
    BY <1>1, <2>1 DEF CareInv, CareOverlapInv, EveryTold, EveryStatusWasTold
  <2>3. ToldOfStatus
    BY <1>1, <2>1 DEF CareInv, CareSerialInv, LastTold, ToldOfStatus
  <2> QED
    BY <2>2, <2>3 DEF CustomersAreTold
<1> QED
  BY <1>1, CareInvAlways, PTL

(* Whatever overlaps, the rows are of their types, who has reviewed a      *)
(* product was once delivered it, and has one review of it: submit_review  *)
(* tests both on rows read before, and the unique index has the last word. *)
THEOREM ReviewersAreReceivers ==
    CustomersSpec => []ReviewsSound
<1>1. CareInv => ReviewsSound
  BY DEF CareInv, CareOverlapInv, ReviewsSound
<1> QED
  BY <1>1, CareInvAlways, PTL

(* Until two requests overlap, a product shows the number of its reviews   *)
(* and their average, to within the rounding of the column.                *)
THEOREM ReviewsAreCounted ==
    CustomersSpec => []ReviewsShown
<1>1. ASSUME CareInv, ~overlapped, NEW p \in Sellers
      PROVE  /\ stats[p].count = Cardinality(ReviewsOf(p))
             /\ ReviewsOf(p) # {} =>
                   Abs(stats[p].average * Cardinality(ReviewsOf(p))
                              - 100 * RatingsOf(ReviewsOf(p))) <= Cardinality(ReviewsOf(p))
  <2>1. IsFiniteSet(ReviewsOf(p))
    BY <1>1, FS_Subset DEF CareInv, CareOverlapInv, ReviewsOf
  <2>2. \A v \in ReviewsOf(p) : v.rating \in Nat
    BY <1>1, CareBounds DEF CareInv, CareOverlapInv, CustomersTypeOK, Review, ReviewsOf
  <2>3. stats[p] = StatsOf(ReviewsOf(p))
    BY <1>1 DEF CareInv, CareSerialInv, StatsKept
  <2> QED
    BY <2>1, <2>2, <2>3, StatsAreGood
<1>2. CareInv => ReviewsShown
  BY <1>1 DEF ReviewsShown, ReviewsOf, RatingsOf
<1> QED
  BY <1>2, CareInvAlways, PTL

(* A login loses no place of the customer: each address noted as a guest   *)
(* or before has one alike in the account after merge_guest_addresses.     *)
THEOREM LoginsKeepAddresses ==
    CustomersSpec => AddressesSurviveLogin
<1>1. ASSUME CareInv, NEW r \in Slots, NEW c \in Customers, MergeGuestAddresses(r, c),
             NEW a \in addresses, a.owner = c
      PROVE  \E b \in addresses' : /\ b.owner = c /\ ~b.guest
                                   /\ b.place = a.place /\ b.phone = a.phone
  <2> DEFINE mine  == {x \in addresses : x.owner = c /\ ~x.guest}
             moved == {x \in addresses : x.owner = c /\ x.guest}
  <2>1. PICK last \in SUBSET moved :
          /\ \A x \in moved : Cardinality({y \in last : Alike(x, y)}) = 1
          /\ addresses' = (addresses \ (moved \cup {x \in mine : \E y \in moved : Alike(x, y)}))
                             \cup {[x EXCEPT !.guest = FALSE] : x \in last}
    BY <1>1 DEF MergeGuestAddresses
  <2>2. a \in Address /\ \A x \in last : x \in Address
    BY <1>1, <2>1 DEF CareInv, CareOverlapInv, CustomersTypeOK
  <2>3. ASSUME NEW x \in moved, Alike(a, x)
        PROVE  \E b \in addresses' : /\ b.owner = c /\ ~b.guest
                                     /\ b.place = a.place /\ b.phone = a.phone
    <3>1. {y \in last : Alike(x, y)} # {}
      BY <2>1, FS_EmptySet
    <3>2. PICK y \in last : Alike(x, y)
      BY <3>1
    <3> DEFINE b == [y EXCEPT !.guest = FALSE]
    <3>3. b \in addresses'
      BY <2>1
    <3>4. /\ b.owner = y.owner /\ ~b.guest /\ b.place = y.place /\ b.phone = y.phone
      BY <2>2 DEF Address
    <3>5. y.owner = c /\ y.place = a.place /\ y.phone = a.phone
      BY <2>1, <2>3, <3>2 DEF Alike
    <3> HIDE DEF b
    <3> QED
      BY <3>3, <3>4, <3>5
  <2>4. CASE a.guest
    BY <1>1, <2>3, <2>4 DEF Alike
  <2>5. CASE ~a.guest /\ ~\E x \in moved : Alike(a, x)
    <3>1. a \in addresses'
      BY <1>1, <2>1, <2>5
    <3> QED
      BY <1>1, <2>5, <3>1
  <2> QED
    BY <2>2, <2>3, <2>4, <2>5
<1>2. CareInv /\ [CustomersNext]_customersVars =>
        [\A r \in Slots, c \in Customers :
            MergeGuestAddresses(r, c) =>
                \A a \in addresses : a.owner = c =>
                    \E b \in addresses' : /\ b.owner = c /\ ~b.guest
                                          /\ b.place = a.place /\ b.phone = a.phone]_customersVars
  BY <1>1
<1> QED
  BY <1>2, CareInvAlways, PTL DEF CustomersSpec, AddressesSurviveLogin
================================================================================
