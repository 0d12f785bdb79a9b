--------------------------- MODULE Checkout_proofs ---------------------------
(***************************************************************************)
(* Proofs about Checkout: first its types, then what holds until requests  *)
(* overlap, then what holds when no shopper has two requests in flight.    *)
(***************************************************************************)
EXTENDS Checkout, TLAPS, FiniteSetTheorems, SequenceTheorems

(***************************************************************************)
(* What a request has in hand.                                             *)
(***************************************************************************)
Carries(r) == tx[r].op \in {"priced", "placing", "taking"}
Cancels(r) == tx[r].op \in {"canceling", "giving"}

LEMMA SlotAfter ==
    ASSUME TypeOK, NEW r \in Reqs, NEW load, Hold(r, load)
    PROVE  \A o \in Reqs : tx'[o] = IF o = r THEN load ELSE tx[o]
  BY DEF TypeOK, Hold

LEMMA IdleInHand == Idle \in Tx /\ Idle.op = "idle"
  BY DEF Idle, Tx

LEMMA HoldType ==
    ASSUME TypeOK, NEW r \in Reqs, NEW load \in Tx, Hold(r, load)
    PROVE  tx' \in [Reqs -> Tx]
  BY DEF TypeOK, Hold

LEMMA BasketInHand ==
    ASSUME TypeOK, NEW r \in Reqs, Carries(r)
    PROVE  tx[r].basket \in Basket
  BY DEF TypeOK, Tx, Carries

LEMMA TakingInHand ==
    ASSUME TypeOK, NEW r \in Reqs, tx[r].op = "taking"
    PROVE  tx[r].number \in Nat /\ tx[r].stock \in [Products -> Stock]
  BY DEF TypeOK, Tx

LEMMA CancelInHand ==
    ASSUME TypeOK, NEW r \in Reqs, Cancels(r)
    PROVE  tx[r].g \in Nat /\ tx[r].status \in [Shops -> OrderStatus]
  BY DEF TypeOK, Tx, Cancels

LEMMA GivingInHand ==
    ASSUME TypeOK, NEW r \in Reqs, tx[r].op = "giving"
    PROVE  tx[r].stock \in [Products -> Stock]
  BY DEF TypeOK, Tx

LEMMA ArrivesType ==
    ASSUME TypeOK, Arrives
    PROVE  overlapped' \in BOOLEAN
  BY DEF TypeOK, Arrives

(***************************************************************************)
(* Rows.                                                                   *)
(***************************************************************************)
LEMMA LineEdits ==
    ASSUME NEW l \in CartRow, NEW n \in Nat \ {0}, NEW owner \in Owners,
           NEW checked \in BOOLEAN
    PROVE  /\ [l EXCEPT !.qty = n] \in CartRow
           /\ [l EXCEPT !.checked = checked] \in CartRow
           /\ [l EXCEPT !.owner = owner] \in CartRow
  BY DEF CartRow

LEMMA CheckedItemsType ==
    ASSUME TypeOK, NEW owner
    PROVE  CheckedItems(owner) \in SUBSET Item
  BY DEF TypeOK, CheckedItems, LinesOf, CartRow, Item

LEMMA StockNowType ==
    ASSUME TypeOK
    PROVE  StockNow \in [Products -> Stock]
  BY DEF TypeOK, StockNow, ShelfRow, Stock

LEMMA GroupAt ==
    ASSUME TypeOK, NEW g \in DOMAIN groups
    PROVE  /\ g \in Nat /\ g \in 1 .. Len(groups)
           /\ groups[g] \in GroupRow
           /\ groups[g].owner \in Owners
           /\ groups[g].items \in SUBSET Item
           /\ groups[g].status \in [Shops -> OrderStatus]
           /\ groups[g].returned \in Nat
           /\ groups[g].revived \in BOOLEAN
  <1>1. groups \in Seq(GroupRow)
    BY DEF TypeOK
  <1>2. g \in 1 .. Len(groups) /\ Len(groups) \in Nat /\ groups[g] \in GroupRow
    BY <1>1
  <1> QED
    BY <1>2 DEF GroupRow

LEMMA UnitsType ==
    ASSUME NEW items \in SUBSET Item, NEW p
    PROVE  Units(items, p) \in Nat
  BY DEF Units, Item

LEMMA WriteStockType ==
    ASSUME TypeOK, NEW p \in Products, NEW loaded \in Stock, NEW new \in Stock
    PROVE  WriteStock(p, loaded, new) \in ShelfRow
  <1>1. shelf[p] \in ShelfRow
    BY DEF TypeOK
  <1>2. /\ Written(loaded.stock, new.stock, shelf[p].stock) \in Nat
        /\ Written(loaded.soldOut, new.soldOut, shelf[p].soldOut) \in BOOLEAN
    BY <1>1 DEF Written, Stock, ShelfRow
  <1> QED
    BY <1>1, <1>2 DEF WriteStock, ShelfRow

LEMMA TakenType ==
    ASSUME NEW row \in Stock, NEW n \in Nat
    PROVE  TakenFrom(row, n) \in Stock
  <1> DEFINE left == IF row.stock >= n THEN row.stock - n ELSE 0
             out == row.soldOut \/ left = 0
  <1>1. left \in Nat
    BY DEF Stock
  <1>2. out \in BOOLEAN
    OBVIOUS
  <1>3. TakenFrom(row, n) = [stock |-> left, soldOut |-> out]
    BY Zenon DEF TakenFrom
  <1> HIDE DEF left, out
  <1> QED
    BY <1>1, <1>2, <1>3 DEF Stock

LEMMA GivenType ==
    ASSUME NEW row \in Stock, NEW n \in Nat
    PROVE  GivenBack(row, n) \in Stock
  <1> DEFINE more == row.stock + n
             out == row.soldOut /\ row.stock + n = 0
  <1>1. more \in Nat
    BY DEF Stock
  <1>2. out \in BOOLEAN
    OBVIOUS
  <1>3. GivenBack(row, n) = [stock |-> more, soldOut |-> out]
    BY Zenon DEF GivenBack
  <1> HIDE DEF more, out
  <1> QED
    BY <1>1, <1>2, <1>3 DEF Stock

LEMMA ShelfAfterTakingType ==
    ASSUME TypeOK, NEW r \in Reqs, tx[r].op = "taking"
    PROVE  ShelfAfterTaking(tx[r]) \in [Products -> ShelfRow]
  <1>1. tx[r].basket.items \in SUBSET Item
    BY BasketInHand DEF Carries, Basket
  <1>2. ASSUME NEW p \in Products
        PROVE  (LET n == Units(tx[r].basket.items, p) IN
                IF n = 0 THEN shelf[p]
                ELSE WriteStock(p, tx[r].stock[p], TakenFrom(tx[r].stock[p], n)))
                  \in ShelfRow
    <2> DEFINE n == Units(tx[r].basket.items, p)
    <2>1. n \in Nat
      BY <1>1, UnitsType
    <2>2. tx[r].stock[p] \in Stock
      BY TakingInHand
    <2>3. TakenFrom(tx[r].stock[p], n) \in Stock
      BY <2>1, <2>2, TakenType
    <2>4. WriteStock(p, tx[r].stock[p], TakenFrom(tx[r].stock[p], n)) \in ShelfRow
      BY <2>2, <2>3, WriteStockType
    <2>5. shelf[p] \in ShelfRow
      BY DEF TypeOK
    <2> QED
      BY <2>4, <2>5
  <1> QED
    BY <1>2 DEF ShelfAfterTaking

LEMMA ShelfAfterGivingType ==
    ASSUME TypeOK, NEW r \in Reqs, tx[r].op = "giving", tx[r].g \in DOMAIN groups
    PROVE  ShelfAfterGiving(tx[r]) \in [Products -> ShelfRow]
  <1>1. groups[tx[r].g].items \in SUBSET Item
    BY GroupAt
  <1>2. ASSUME NEW p \in Products
        PROVE  (LET n == Units(groups[tx[r].g].items, p) IN
                IF n = 0 THEN shelf[p]
                ELSE WriteStock(p, tx[r].stock[p], GivenBack(tx[r].stock[p], n)))
                  \in ShelfRow
    <2> DEFINE n == Units(groups[tx[r].g].items, p)
    <2>1. n \in Nat
      BY <1>1, UnitsType
    <2>2. tx[r].stock[p] \in Stock
      BY GivingInHand
    <2>3. GivenBack(tx[r].stock[p], n) \in Stock
      BY <2>1, <2>2, GivenType
    <2>4. WriteStock(p, tx[r].stock[p], GivenBack(tx[r].stock[p], n)) \in ShelfRow
      BY <2>2, <2>3, WriteStockType
    <2>5. shelf[p] \in ShelfRow
      BY DEF TypeOK
    <2> QED
      BY <2>4, <2>5
  <1> QED
    BY <1>2 DEF ShelfAfterGiving

(***************************************************************************)
(* The steps that touch no tx but write the cart.                          *)
(***************************************************************************)
CartEdit(r) ==
    \/ \E owner \in Owners : CartStep(r, owner)
    \/ MergeGuestCart(r)

LEMMA CartEditFrame ==
    ASSUME NEW r \in Reqs, CartEdit(r)
    PROVE  /\ Starts(r)
           /\ UNCHANGED <<shelf, groups, updates, phantom, tx>>
  BY DEF CartEdit, CartStep, AddLine, AddMore, UpdateQuantity, RemoveItem,
         RemoveAll, SelectItems, ListCart, ChooseShipping, MergeGuestCart, EditsCart

LEMMA CustomerOf ==
    ASSUME NEW r \in Reqs
    PROVE  [person |-> Shopper[r], guest |-> FALSE] \in Owners
  BY SlotsAssumption DEF Owners

(* Rows in, rows out; and an id that was not there before is a fresh one.  *)
LEMMA CartEditType ==
    ASSUME TypeOK, NEW r \in Reqs, CartEdit(r)
    PROVE  /\ cart' \in SUBSET CartRow
           /\ lines' \in Nat
           /\ shipping' \in SUBSET (Owners \X Shops)
  <1> USE DEF EditsCart
  <1>1. cart \in SUBSET CartRow /\ lines \in Nat /\ shipping \in SUBSET (Owners \X Shops)
    BY DEF TypeOK
  <1>2. ASSUME NEW owner \in Owners, NEW p \in Products, NEW n \in 1 .. MaxStock,
               AddLine(r, owner, p, n)
        PROVE  cart' \in SUBSET CartRow /\ lines' \in Nat /\ UNCHANGED shipping
    <2> DEFINE line == [id |-> lines + 1, owner |-> owner, product |-> p,
                        qty |-> n, checked |-> TRUE]
    <2>1. line \in CartRow
      BY <1>1, LimitsAssumption DEF CartRow
    <2>2. cart' = cart \cup {line} /\ lines' = lines + 1 /\ UNCHANGED shipping
      BY <1>2 DEF AddLine
    <2> HIDE DEF line
    <2> QED
      BY <1>1, <2>1, <2>2
  <1>3. ASSUME NEW owner \in Owners, NEW n \in 1 .. MaxStock, AddMore(r, owner, n)
        PROVE  cart' \in SUBSET CartRow /\ UNCHANGED <<lines, shipping>>
    <2>1. PICK l \in LinesOf(owner) : cart' = (cart \ {l}) \cup {[l EXCEPT !.qty = @ + n]}
      BY <1>3 DEF AddMore
    <2>2. l \in CartRow
      BY <1>1 DEF LinesOf
    <2>3. l.qty + n \in Nat \ {0}
      BY <2>2, LimitsAssumption DEF CartRow
    <2>4. [l EXCEPT !.qty = @ + n] \in CartRow
      BY <2>2, <2>3 DEF CartRow
    <2> QED
      BY <1>1, <1>3, <2>1, <2>4 DEF AddMore
  <1>4. ASSUME NEW owner \in Owners, NEW n \in 1 .. MaxStock, UpdateQuantity(r, owner, n)
        PROVE  cart' \in SUBSET CartRow /\ UNCHANGED <<lines, shipping>>
    <2>1. PICK l \in LinesOf(owner) : cart' = (cart \ {l}) \cup {[l EXCEPT !.qty = n]}
      BY <1>4 DEF UpdateQuantity
    <2>2. l \in CartRow /\ n \in Nat \ {0}
      BY <1>1, LimitsAssumption DEF LinesOf
    <2>3. [l EXCEPT !.qty = n] \in CartRow
      BY <2>2 DEF CartRow
    <2> QED
      BY <1>1, <1>4, <2>1, <2>3 DEF UpdateQuantity
  <1>5. ASSUME NEW owner \in Owners, NEW checked \in BOOLEAN, SelectItems(r, owner, checked)
        PROVE  cart' \in SUBSET CartRow /\ UNCHANGED <<lines, shipping>>
    <2>1. PICK chosen \in SUBSET LinesOf(owner) :
             cart' = (cart \ chosen) \cup {[l EXCEPT !.checked = checked] : l \in chosen}
      BY <1>5 DEF SelectItems
    <2>2. \A l \in chosen : l \in CartRow
      BY <1>1 DEF LinesOf
    <2>3. \A l \in chosen : [l EXCEPT !.checked = checked] \in CartRow
      BY <2>2 DEF CartRow
    <2> QED
      BY <1>1, <1>5, <2>1, <2>3 DEF SelectItems
  <1>6. ASSUME MergeGuestCart(r)
        PROVE  cart' \in SUBSET CartRow /\ UNCHANGED <<lines, shipping>>
    <2> DEFINE guest    == [person |-> Shopper[r], guest |-> TRUE]
               customer == [person |-> Shopper[r], guest |-> FALSE]
               replaced == {l \in LinesOf(customer) :
                               \E m \in LinesOf(guest) : m.product = l.product}
    <2>1. customer \in Owners
      BY CustomerOf
    <2>2. cart' = (cart \ (LinesOf(guest) \cup replaced))
                     \cup {[l EXCEPT !.owner = customer] : l \in LinesOf(guest)}
      BY <1>6 DEF MergeGuestCart
    <2>3. \A l \in LinesOf(guest) : l \in CartRow
      BY <1>1 DEF LinesOf
    <2> HIDE DEF customer, guest, replaced
    <2>4. \A l \in LinesOf(guest) : [l EXCEPT !.owner = customer] \in CartRow
      BY <2>1, <2>3 DEF CartRow
    <2> QED
      BY <1>1, <1>6, <2>2, <2>4 DEF MergeGuestCart
  <1>7. ASSUME NEW owner \in Owners,
               RemoveItem(r, owner) \/ RemoveAll(r, owner) \/ ListCart(r, owner)
        PROVE  cart' \in SUBSET CartRow /\ UNCHANGED <<lines, shipping>>
    <2>1. cart' \in SUBSET cart
      BY <1>7 DEF RemoveItem, RemoveAll, ListCart
    <2> QED
      BY <1>1, <1>7, <2>1 DEF RemoveItem, RemoveAll, ListCart
  <1>8. ASSUME NEW owner \in Owners, NEW shop \in Shops, ChooseShipping(r, owner, shop)
        PROVE  UNCHANGED <<cart, lines>> /\ shipping' \in SUBSET (Owners \X Shops)
    BY <1>1, <1>8 DEF ChooseShipping
  <1>9. CASE MergeGuestCart(r)
    BY <1>1, <1>6, <1>9
  <1>10. CASE \E owner \in Owners : CartStep(r, owner)
    <2>1. PICK owner \in Owners : CartStep(r, owner)
      BY <1>10
    <2> QED
      BY <1>1, <1>2, <1>3, <1>4, <1>5, <1>7, <1>8, <2>1 DEF CartStep
  <1> QED
    BY <1>9, <1>10 DEF CartEdit

(***************************************************************************)
(* Type correctness, however the requests overlap.                         *)
(***************************************************************************)
GroupsExist == \A r \in Reqs : Cancels(r) => tx[r].g \in DOMAIN groups

TypeInv == TypeOK /\ GroupsExist

LEMMA NewGroupType ==
    ASSUME NEW b \in Basket
    PROVE  NewGroup(b) \in GroupRow
  <1> DEFINE status == [s \in Shops |->
                          IF b.method = "WALLET" THEN "CONFIRMED" ELSE "PENDING"]
  <1>1. status \in [Shops -> OrderStatus]
    BY DEF OrderStatus
  <1>2. NewGroup(b) = [owner |-> b.owner, method |-> b.method, coupon |-> b.coupon,
                       items |-> b.items, paidFor |-> b.paidFor, status |-> status,
                       returned |-> 0, revived |-> FALSE]
    BY DEF NewGroup
  <1> HIDE DEF status
  <1> QED
    BY <1>1, <1>2 DEF GroupRow, Basket

(* Replacing one row of a table keeps its type.                            *)
LEMMA ReplaceRow ==
    ASSUME NEW Row, NEW rows \in Seq(Row), NEW k \in DOMAIN rows, NEW row \in Row
    PROVE  /\ [rows EXCEPT ![k] = row] \in Seq(Row)
           /\ DOMAIN [rows EXCEPT ![k] = row] = DOMAIN rows
           /\ \A h \in DOMAIN rows :
                 [rows EXCEPT ![k] = row][h] = IF h = k THEN row ELSE rows[h]
  OBVIOUS

(* The row of a group after a cancellation and after a change of status.   *)
CanceledRow(r) ==
    LET g == tx[r].g IN
    [groups[g] EXCEPT
        !.status = [s \in Shops |-> IF s \in ShopsOf(groups[g])
                                    THEN Written(tx[r].status[s], "CANCELED",
                                                 groups[g].status[s])
                                    ELSE groups[g].status[s]],
        !.returned = groups[g].returned + 1]

LEMMA CancelWrites ==
    ASSUME TypeInv, NEW r \in Reqs, CancelOrders(r)
    PROVE  /\ tx[r].g \in DOMAIN groups
           /\ CanceledRow(r) \in GroupRow
           /\ groups' = [groups EXCEPT ![tx[r].g] = CanceledRow(r)]
  <1> DEFINE g == tx[r].g
             status == [s \in Shops |-> IF s \in ShopsOf(groups[g])
                                        THEN Written(tx[r].status[s], "CANCELED",
                                                     groups[g].status[s])
                                        ELSE groups[g].status[s]]
  <1>1. Cancels(r) /\ g \in DOMAIN groups /\ TypeOK
    BY DEF CancelOrders, Cancels, TypeInv, GroupsExist
  <1>2. status \in [Shops -> OrderStatus]
    BY <1>1, GroupAt, CancelInHand DEF Written, OrderStatus
  <1>3. groups' = [groups EXCEPT ![g].status = status, ![g].returned = @ + 1]
    BY DEF CancelOrders
  <1>4. CanceledRow(r) = [groups[g] EXCEPT !.status = status,
                                          !.returned = groups[g].returned + 1]
    BY DEF CanceledRow
  <1> HIDE DEF status, g
  <1>5. [groups[g] EXCEPT !.status = status, !.returned = groups[g].returned + 1]
           \in GroupRow
    <2>1. groups[g] \in GroupRow /\ groups[g].returned + 1 \in Nat
      BY <1>1, GroupAt
    <2> QED
      BY <1>2, <2>1 DEF GroupRow
  <1>6. groups' = [groups EXCEPT ![g] = [groups[g] EXCEPT
                      !.status = status, !.returned = groups[g].returned + 1]]
    BY <1>1, <1>3, GroupAt DEF GroupRow
  <1> QED
    BY <1>1, <1>4, <1>5, <1>6 DEF g

StatusRow(g, s, status) ==
    [groups[g] EXCEPT
        !.status = [groups[g].status EXCEPT ![s] = status],
        !.revived = groups[g].revived
                      \/ (groups[g].status[s] = "CANCELED" /\ status # "CANCELED")]

LEMMA StatusWrites ==
    ASSUME TypeOK, NEW g \in DOMAIN groups, NEW s \in Shops, NEW status \in OrderStatus,
           SetStatus(g, s, status)
    PROVE  /\ StatusRow(g, s, status) \in GroupRow
           /\ groups' = [groups EXCEPT ![g] = StatusRow(g, s, status)]
  <1> DEFINE after == [groups[g].status EXCEPT ![s] = status]
             again == groups[g].revived
                        \/ (groups[g].status[s] = "CANCELED" /\ status # "CANCELED")
  <1>1. after \in [Shops -> OrderStatus]
    BY GroupAt
  <1>2. again \in BOOLEAN
    OBVIOUS
  <1>3. StatusRow(g, s, status) = [groups[g] EXCEPT !.status = after, !.revived = again]
    BY DEF StatusRow
  <1>4. groups' = [groups EXCEPT ![g] = [groups[g] EXCEPT !.status = after,
                                                          !.revived = again]]
    BY Zenon, GroupAt DEF SetStatus
  <1> HIDE DEF after, again
  <1>5. [groups[g] EXCEPT !.status = after, !.revived = again] \in GroupRow
    BY <1>1, <1>2, GroupAt DEF GroupRow
  <1> QED
    BY <1>3, <1>4, <1>5

LEMMA MovedType ==
    ASSUME TypeOK, shelf' \in [Products -> ShelfRow], NEW units \in [Products -> Int]
    PROVE  Moved(units) \in [Products -> Int]
  <1>1. \A p \in Products : /\ phantom[p] \in Int /\ units[p] \in Int
                            /\ shelf[p].stock \in Nat /\ shelf'[p].stock \in Nat
    BY DEF TypeOK, ShelfRow
  <1>2. phantom \in [Products -> Int]
    BY DEF TypeOK
  <1>3. [p \in Products |-> phantom[p] + (shelf'[p].stock - shelf[p].stock) - units[p]]
           \in [Products -> Int]
    BY <1>1
  <1> QED
    BY <1>2, <1>3 DEF Moved

LEMMA PlaceWrites ==
    ASSUME TypeInv, NEW r \in Reqs, PlaceOrders(r)
    PROVE  /\ NewGroup(tx[r].basket) \in GroupRow
           /\ groups' = Append(groups, NewGroup(tx[r].basket))
           /\ groups' \in Seq(GroupRow)
           /\ DOMAIN groups' = 1 .. (Len(groups) + 1)
           /\ DOMAIN groups = 1 .. Len(groups)
           /\ groups'[Len(groups) + 1] = NewGroup(tx[r].basket)
           /\ \A g \in DOMAIN groups : groups'[g] = groups[g]
  <1>1. tx[r].basket \in Basket
    BY BasketInHand DEF PlaceOrders, Carries, TypeInv
  <1>2. NewGroup(tx[r].basket) \in GroupRow
    BY <1>1, NewGroupType
  <1>3. groups' = Append(groups, NewGroup(tx[r].basket))
    BY DEF PlaceOrders
  <1>4. groups \in Seq(GroupRow)
    BY DEF TypeInv, TypeOK
  <1> QED
    BY <1>2, <1>3, <1>4

LEMMA TypeInvInit == Init => TypeInv
  <1> SUFFICES ASSUME Init PROVE TypeInv
    OBVIOUS
  <1>1. shelf \in [Products -> ShelfRow] /\ phantom \in [Products -> Int]
    BY DEF Init, ShelfRow
  <1>2. tx \in [Reqs -> Tx] /\ \A r \in Reqs : tx[r].op = "idle"
    BY IdleInHand DEF Init
  <1>3. groups \in Seq(GroupRow)
    BY DEF Init
  <1>4. /\ cart \in SUBSET CartRow /\ lines \in Nat /\ updates \in Nat
        /\ shipping \in SUBSET (Owners \X Shops) /\ overlapped \in BOOLEAN
    BY DEF Init
  <1>5. GroupsExist
    BY <1>2 DEF GroupsExist, Cancels
  <1> QED
    BY <1>1, <1>2, <1>3, <1>4, <1>5 DEF TypeInv, TypeOK

(* A step that changes what one slot has in hand and no group.             *)
LEMMA GroupsExistAfterHold ==
    ASSUME TypeInv, NEW r \in Reqs, NEW load, Hold(r, load), UNCHANGED groups,
           load.op \in {"canceling", "giving"} => load.g \in DOMAIN groups
    PROVE  GroupsExist'
  BY SlotAfter DEF TypeInv, GroupsExist, Cancels

LEMMA GroupsExistAfterEnd ==
    ASSUME TypeInv, NEW r \in Reqs, End(r), DOMAIN groups \subseteq DOMAIN groups'
    PROVE  GroupsExist'
  BY SlotAfter, IdleInHand DEF TypeInv, GroupsExist, Cancels, End

LEMMA TypeInvStep ==
    ASSUME TypeInv, [Next]_vars
    PROVE  TypeInv'
  <1> USE DEF TypeInv
  <1>1. ASSUME NEW r \in Reqs, CartEdit(r)
        PROVE  TypeInv'
    <2>1. UNCHANGED <<shelf, groups, updates, phantom, tx>> /\ overlapped' \in BOOLEAN
      BY <1>1, CartEditFrame, ArrivesType DEF Starts
    <2>2. TypeOK'
      BY <1>1, <2>1, CartEditType DEF TypeOK
    <2>3. GroupsExist'
      BY <2>1 DEF GroupsExist, Cancels
    <2> QED
      BY <2>2, <2>3
  <1>2. ASSUME NEW r \in Reqs, NEW load \in Tx, Hold(r, load), UNCHANGED store,
               overlapped' \in BOOLEAN,
               load.op \in {"canceling", "giving"} => load.g \in DOMAIN groups
        PROVE  TypeInv'
    <2>1. TypeOK'
      BY <1>2, HoldType DEF TypeOK, store
    <2>2. GroupsExist'
      BY <1>2, GroupsExistAfterHold DEF store
    <2> QED
      BY <2>1, <2>2
  <1>3. ASSUME NEW r \in Reqs, NEW owner \in Owners, NEW coupon \in BOOLEAN,
               BeginWallet(r, owner, coupon) \/ BeginCod(r, owner, coupon)
        PROVE  TypeInv'
    <2> DEFINE basket(method, paidFor) ==
                  [owner |-> owner, method |-> method, coupon |-> coupon,
                   items |-> CheckedItems(owner), paidFor |-> paidFor]
    <2>1. /\ basket("WALLET", CheckedItems(owner)) \in Basket
          /\ basket("CASH_ON_DELIVERY", {}) \in Basket
      BY CheckedItemsType DEF Basket, Methods
    <2>2. CASE BeginWallet(r, owner, coupon)
      <3> DEFINE load == [op |-> "priced", basket |-> basket("WALLET", CheckedItems(owner))]
      <3>1. Hold(r, load) /\ UNCHANGED store /\ Arrives
        BY <2>2 DEF BeginWallet, Starts
      <3> HIDE DEF basket
      <3>2. load \in Tx /\ load.op = "priced"
        BY <2>1 DEF Tx
      <3> QED
        BY <1>2, <3>1, <3>2, ArrivesType
    <2>3. CASE BeginCod(r, owner, coupon)
      <3> DEFINE load == [op |-> "placing", basket |-> basket("CASH_ON_DELIVERY", {})]
      <3>1. Hold(r, load) /\ UNCHANGED store /\ Arrives
        BY <2>3 DEF BeginCod, Starts
      <3> HIDE DEF basket
      <3>2. load \in Tx /\ load.op = "placing"
        BY <2>1 DEF Tx
      <3> QED
        BY <1>2, <3>1, <3>2, ArrivesType
    <2> QED
      BY <1>3, <2>2, <2>3
  <1>4. ASSUME NEW r \in Reqs, LoadCart(r)
        PROVE  TypeInv'
    <2> DEFINE b == tx[r].basket
               loaded == [b EXCEPT !.items = CheckedItems(b.owner)]
               load == [op |-> "placing", basket |-> loaded]
    <2>1. b \in Basket
      BY <1>4, BasketInHand DEF LoadCart, Carries
    <2>2. Hold(r, load) /\ UNCHANGED <<store, overlapped>>
      BY <1>4 DEF LoadCart
    <2> HIDE DEF b
    <2>3. loaded \in Basket
      BY <2>1, CheckedItemsType DEF Basket
    <2> HIDE DEF loaded
    <2>4. load \in Tx /\ load.op = "placing"
      BY <2>3 DEF Tx
    <2> QED
      BY <1>2, <2>2, <2>4 DEF TypeOK
  <1>5. ASSUME NEW r \in Reqs, TakeStock(r)
        PROVE  TypeInv'
    <2> DEFINE load == [op |-> "taking", basket |-> tx[r].basket,
                        number |-> Len(groups), stock |-> StockNow]
    <2>1. tx[r].basket \in Basket
      BY <1>5, BasketInHand DEF TakeStock, Carries
    <2>2. Len(groups) \in Nat
      BY DEF TypeOK
    <2>3. load \in Tx /\ load.op = "taking"
      BY <2>1, <2>2, StockNowType DEF Tx
    <2>4. Hold(r, load) /\ UNCHANGED <<store, overlapped>>
      BY <1>5 DEF TakeStock
    <2> HIDE DEF load
    <2> QED
      BY <1>2, <2>3, <2>4 DEF TypeOK
  <1>6. ASSUME NEW r \in Reqs, NEW g \in DOMAIN groups, BeginCancel(r, g)
        PROVE  TypeInv'
    <2> DEFINE load == [op |-> "canceling", g |-> g, status |-> groups[g].status]
    <2>1. load \in Tx /\ load.op = "canceling" /\ load.g = g
      BY GroupAt DEF Tx
    <2>2. Hold(r, load) /\ UNCHANGED store /\ Arrives
      BY <1>6 DEF BeginCancel, Starts
    <2> HIDE DEF load
    <2> QED
      BY <1>2, <2>1, <2>2, ArrivesType
  <1>7. ASSUME NEW r \in Reqs, ReadStock(r)
        PROVE  TypeInv'
    <2> DEFINE load == [op |-> "giving", g |-> tx[r].g, status |-> tx[r].status,
                        stock |-> StockNow]
    <2>1. Cancels(r)
      BY <1>7 DEF ReadStock, Cancels
    <2>2. load \in Tx /\ load.op = "giving" /\ load.g \in DOMAIN groups
      BY <2>1, CancelInHand, StockNowType DEF Tx, GroupsExist
    <2>3. Hold(r, load) /\ UNCHANGED <<store, overlapped>>
      BY <1>7 DEF ReadStock
    <2> HIDE DEF load
    <2> QED
      BY <1>2, <2>2, <2>3 DEF TypeOK
  <1>8. ASSUME NEW r \in Reqs, PlaceOrders(r)
        PROVE  TypeInv'
    <2>1. tx[r].op = "taking" /\ End(r) /\ UNCHANGED <<lines, updates>>
      BY <1>8 DEF PlaceOrders
    <2>2. groups' \in Seq(GroupRow) /\ DOMAIN groups \subseteq DOMAIN groups'
      BY <1>8, PlaceWrites
    <2>3. shelf' \in [Products -> ShelfRow]
      BY <1>8, <2>1, ShelfAfterTakingType DEF PlaceOrders
    <2>4. phantom' \in [Products -> Int]
      <3>1. tx[r].basket.items \in SUBSET Item
        BY <2>1, BasketInHand DEF Carries, Basket
      <3>2. [p \in Products |-> -Units(tx[r].basket.items, p)] \in [Products -> Int]
        BY <3>1, UnitsType
      <3> QED
        BY <1>8, <2>3, <3>2, MovedType DEF PlaceOrders
    <2>5. /\ cart' \in SUBSET CartRow /\ shipping' \in SUBSET (Owners \X Shops)
          /\ lines' \in Nat /\ updates' \in Nat /\ overlapped' \in BOOLEAN
      BY <1>8 DEF PlaceOrders, TypeOK, End
    <2>6. tx' \in [Reqs -> Tx]
      BY <2>1, HoldType, IdleInHand DEF End
    <2>7. GroupsExist'
      BY <2>1, <2>2, GroupsExistAfterEnd
    <2> QED
      BY <2>2, <2>3, <2>4, <2>5, <2>6, <2>7 DEF TypeOK
  <1>9. ASSUME NEW r \in Reqs, CancelOrders(r)
        PROVE  TypeInv'
    <2>1. tx[r].op = "giving" /\ End(r) /\ UNCHANGED <<cart, lines, shipping, updates>>
      BY <1>9 DEF CancelOrders
    <2>2. /\ tx[r].g \in DOMAIN groups
          /\ groups' \in Seq(GroupRow) /\ DOMAIN groups \subseteq DOMAIN groups'
      BY SMTT(30), <1>9, CancelWrites, ReplaceRow DEF TypeOK
    <2>3. shelf' \in [Products -> ShelfRow]
      BY <1>9, <2>1, <2>2, ShelfAfterGivingType DEF CancelOrders
    <2>4. phantom' \in [Products -> Int]
      <3>1. groups[tx[r].g].items \in SUBSET Item
        BY <2>2, GroupAt
      <3>2. [p \in Products |-> Units(groups[tx[r].g].items, p)] \in [Products -> Int]
        BY <3>1, UnitsType
      <3> QED
        BY <1>9, <2>3, <3>2, MovedType DEF CancelOrders
    <2>5. tx' \in [Reqs -> Tx] /\ overlapped' \in BOOLEAN
      BY <2>1, HoldType, IdleInHand DEF End, TypeOK
    <2>6. GroupsExist'
      BY <2>1, <2>2, GroupsExistAfterEnd
    <2> QED
      BY <2>1, <2>2, <2>3, <2>4, <2>5, <2>6 DEF TypeOK
  <1>10. ASSUME NEW g \in DOMAIN groups, NEW s \in Shops, NEW status \in OrderStatus,
                SetStatus(g, s, status)
         PROVE  TypeInv'
    <2>1. groups' \in Seq(GroupRow) /\ DOMAIN groups' = DOMAIN groups
      BY SMTT(30), <1>10, StatusWrites, ReplaceRow DEF TypeOK
    <2>2. /\ UNCHANGED <<shelf, cart, lines, shipping, phantom, tx>>
          /\ updates' \in Nat /\ overlapped' \in BOOLEAN
      BY <1>10, ArrivesType DEF SetStatus, Updates, TypeOK
    <2>3. TypeOK'
      BY <2>1, <2>2 DEF TypeOK
    <2> QED
      BY <2>1, <2>2, <2>3 DEF GroupsExist, Cancels
  <1>11. ASSUME NEW p \in Products, Restock(p)
         PROVE  TypeInv'
    <2>1. PICK stock \in 0 .. MaxStock \cup {shelf[p].stock} :
             \E soldOut, listed \in BOOLEAN :
                shelf' = [shelf EXCEPT ![p] =
                            [stock |-> stock, soldOut |-> soldOut, listed |-> listed]]
      BY <1>11 DEF Restock
    <2>2. PICK soldOut \in BOOLEAN, listed \in BOOLEAN :
             shelf' = [shelf EXCEPT ![p] =
                         [stock |-> stock, soldOut |-> soldOut, listed |-> listed]]
      BY <2>1
    <2>3. stock \in Nat
      BY LimitsAssumption DEF TypeOK, ShelfRow
    <2>4. [stock |-> stock, soldOut |-> soldOut, listed |-> listed] \in ShelfRow
      BY <2>3 DEF ShelfRow
    <2>5. shelf' \in [Products -> ShelfRow]
      BY <2>2, <2>4 DEF TypeOK
    <2>6. /\ UNCHANGED <<cart, lines, shipping, groups, phantom, tx>>
          /\ updates' \in Nat /\ overlapped' \in BOOLEAN
      BY <1>11, ArrivesType DEF Restock, Updates, TypeOK
    <2>7. TypeOK'
      BY <2>5, <2>6 DEF TypeOK
    <2> QED
      BY <2>6, <2>7 DEF GroupsExist, Cancels
  <1>12. ASSUME NEW r \in Reqs, Abandon(r)
         PROVE  TypeInv'
    <2>1. Hold(r, Idle) /\ UNCHANGED <<store, overlapped>>
      BY <1>12 DEF Abandon, End
    <2> QED
      BY <1>2, <2>1, IdleInHand DEF TypeOK
  <1>13. CASE UNCHANGED vars
    <2>1. TypeOK'
      BY <1>13 DEF TypeOK, vars, store
    <2>2. GroupsExist'
      BY <1>13 DEF GroupsExist, Cancels, vars, store
    <2> QED
      BY <2>1, <2>2
  <1> QED
    BY <1>1, <1>3, <1>4, <1>5, <1>6, <1>7, <1>8, <1>9, <1>10, <1>11, <1>12, <1>13
       DEF Next, CartEdit, CheckoutStep, CancelStep, SellerStep

(* Rows, and what requests have in hand, keep their types, whatever        *)
(* overlaps; in particular no overlap makes the stock negative.            *)
THEOREM TypeCorrect == Spec => []TypeOK
<1>1. TypeInv => TypeOK
  BY DEF TypeInv
<1> QED
  BY <1>1, TypeInvInit, TypeInvStep, PTL DEF Spec

(***************************************************************************)
(* Until requests overlap.  At most one request is in flight, and what it  *)
(* has checked and loaded is still so.                                     *)
(***************************************************************************)
ItemsInStock(r) ==
    tx[r].op \in {"placing", "taking"} =>
        \A i \in tx[r].basket.items : shelf[i.product].stock >= i.qty

StockIsFresh(r) == tx[r].op \in {"taking", "giving"} => tx[r].stock = StockNow

CouponIsLeft(r) ==
    Carries(r) /\ tx[r].basket.coupon => Cardinality(Uses) < TotalLimit

Fresh(r) == ItemsInStock(r) /\ StockIsFresh(r) /\ CouponIsLeft(r)

Alone == \A r, o \in Reqs : Busy(r) /\ Busy(o) => r = o

AddsUp == \A p \in Products : phantom[p] = 0

WithinTotal == Cardinality(Uses) <= TotalLimit

AloneInv == ~overlapped => /\ Alone
                           /\ \A r \in Reqs : Fresh(r)
                           /\ AddsUp
                           /\ WithinTotal

LEMMA IdleIsFresh ==
    ASSUME NEW r \in Reqs, ~Busy(r)
    PROVE  Fresh(r)
  BY DEF Busy, Fresh, ItemsInStock, StockIsFresh, CouponIsLeft, Carries

(* A request that comes in: until requests overlap there is no other.      *)
LEMMA ArrivesAlone ==
    ASSUME TypeOK, Arrives, ~overlapped'
    PROVE  ~overlapped /\ \A r \in Reqs : ~Busy(r)
  BY DEF TypeOK, Arrives

LEMMA UsesFinite ==
    ASSUME TypeOK
    PROVE  IsFiniteSet(Uses) /\ Cardinality(Uses) \in Nat /\ Uses \subseteq 1 .. Len(groups)
  <1>1. Uses \subseteq 1 .. Len(groups) /\ Len(groups) \in Nat
    BY DEF Uses, TypeOK
  <1>2. IsFiniteSet(1 .. Len(groups))
    BY <1>1, FS_Interval
  <1> QED
    BY <1>1, <1>2, FS_Subset, FS_CardinalityType

LEMMA UsesAfterPlacing ==
    ASSUME TypeInv, NEW r \in Reqs, PlaceOrders(r)
    PROVE  Uses' = IF tx[r].basket.coupon THEN Uses \cup {Len(groups) + 1} ELSE Uses
  <1>1. \A g \in DOMAIN groups : groups'[g].coupon <=> groups[g].coupon
    BY PlaceWrites
  <1>2. groups'[Len(groups) + 1].coupon <=> tx[r].basket.coupon
    <2>1. groups'[Len(groups) + 1] = NewGroup(tx[r].basket)
      BY PlaceWrites
    <2>2. NewGroup(tx[r].basket).coupon = tx[r].basket.coupon
      BY Zenon DEF NewGroup
    <2> QED
      BY <2>1, <2>2
  <1>3. DOMAIN groups' = DOMAIN groups \cup {Len(groups) + 1}
    <2>1. Len(groups) \in Nat
      BY DEF TypeInv, TypeOK
    <2>2. 1 .. (Len(groups) + 1) = 1 .. Len(groups) \cup {Len(groups) + 1}
      BY <2>1
    <2> QED
      BY <2>2, PlaceWrites
  <1> QED
    BY <1>1, <1>2, <1>3 DEF Uses

LEMMA SameUses ==
    ASSUME DOMAIN groups' = DOMAIN groups,
           \A g \in DOMAIN groups : groups'[g].coupon <=> groups[g].coupon
    PROVE  Uses' = Uses
  BY DEF Uses

(* The units of a product in a basket are those of some item.              *)
LEMMA UnitsOfItem ==
    ASSUME NEW items \in SUBSET Item, NEW p, Units(items, p) # 0
    PROVE  \E i \in items : i.product = p /\ i.qty = Units(items, p)
  BY DEF Units

(* What a checkout takes from stock it has read afresh, and enough of it,  *)
(* is what it puts into its orders; and what a cancellation gives back is  *)
(* what it takes out of them.                                              *)
LEMMA TakesWhatItOrders ==
    ASSUME TypeInv, NEW r \in Reqs, tx[r].op = "taking",
           ItemsInStock(r), StockIsFresh(r), NEW p \in Products
    PROVE  ShelfAfterTaking(tx[r])[p].stock
              = shelf[p].stock - Units(tx[r].basket.items, p)
  <1> DEFINE n == Units(tx[r].basket.items, p)
             loaded == tx[r].stock[p]
             new == TakenFrom(loaded, n)
  <1>1. tx[r].basket.items \in SUBSET Item
    BY BasketInHand DEF Carries, Basket, TypeInv
  <1>2. n \in Nat /\ shelf[p] \in ShelfRow /\ shelf[p].stock \in Nat
    BY <1>1, UnitsType DEF TypeInv, TypeOK, ShelfRow
  <1>3. loaded.stock = shelf[p].stock
    BY DEF StockIsFresh, StockNow
  <1>4. CASE n = 0
    <2>1. ShelfAfterTaking(tx[r])[p] = shelf[p]
      BY <1>4 DEF ShelfAfterTaking
    <2> QED
      BY <1>2, <1>4, <2>1
  <1>5. CASE n # 0
    <2>1. PICK i \in tx[r].basket.items : i.product = p /\ i.qty = n
      BY <1>1, <1>5, UnitsOfItem
    <2>2. shelf[p].stock >= n
      BY <2>1 DEF ItemsInStock
    <2>3. new.stock = shelf[p].stock - n
      BY <1>3, <2>2 DEF TakenFrom
    <2>4. ShelfAfterTaking(tx[r])[p] = WriteStock(p, loaded, new)
      BY <1>5 DEF ShelfAfterTaking
    <2> HIDE DEF n, loaded, new
    <2>5. WriteStock(p, loaded, new).stock
            = Written(loaded.stock, new.stock, shelf[p].stock)
      BY <1>2 DEF WriteStock, ShelfRow
    <2>6. Written(loaded.stock, new.stock, shelf[p].stock) = shelf[p].stock - n
      BY <1>2, <1>3, <2>3 DEF Written
    <2> QED
      BY <2>4, <2>5, <2>6 DEF n
  <1> QED
    BY <1>4, <1>5

LEMMA GivesWhatWasOrdered ==
    ASSUME TypeInv, NEW r \in Reqs, tx[r].op = "giving",
           StockIsFresh(r), NEW p \in Products
    PROVE  ShelfAfterGiving(tx[r])[p].stock
              = shelf[p].stock + Units(groups[tx[r].g].items, p)
  <1> DEFINE n == Units(groups[tx[r].g].items, p)
             loaded == tx[r].stock[p]
             new == GivenBack(loaded, n)
  <1>1. groups[tx[r].g].items \in SUBSET Item
    BY GroupAt DEF TypeInv, GroupsExist, Cancels
  <1>2. n \in Nat /\ shelf[p] \in ShelfRow /\ shelf[p].stock \in Nat
    BY <1>1, UnitsType DEF TypeInv, TypeOK, ShelfRow
  <1>3. loaded.stock = shelf[p].stock
    BY DEF StockIsFresh, StockNow
  <1>4. CASE n = 0
    <2>1. ShelfAfterGiving(tx[r])[p] = shelf[p]
      BY <1>4 DEF ShelfAfterGiving
    <2> QED
      BY <1>2, <1>4, <2>1
  <1>5. CASE n # 0
    <2>1. new.stock = shelf[p].stock + n
      BY <1>3 DEF GivenBack
    <2>2. ShelfAfterGiving(tx[r])[p] = WriteStock(p, loaded, new)
      BY <1>5 DEF ShelfAfterGiving
    <2> HIDE DEF n, loaded, new
    <2>3. WriteStock(p, loaded, new).stock
            = Written(loaded.stock, new.stock, shelf[p].stock)
      BY <1>2 DEF WriteStock, ShelfRow
    <2>4. Written(loaded.stock, new.stock, shelf[p].stock) = shelf[p].stock + n
      BY <1>2, <1>3, <2>1 DEF Written
    <2> QED
      BY <2>2, <2>3, <2>4 DEF n
  <1> QED
    BY <1>4, <1>5

LEMMA NobodyAfter ==
    ASSUME \A r \in Reqs : tx'[r].op = "idle"
    PROVE  Alone' /\ \A r \in Reqs : Fresh(r)'
  BY DEF Alone, Busy, Fresh, ItemsInStock, StockIsFresh, CouponIsLeft, Carries

LEMMA OnlyOneAfter ==
    ASSUME TypeOK, NEW r \in Reqs, NEW load, Hold(r, load),
           \A o \in Reqs : o # r => ~Busy(o),
           Fresh(r)'
    PROVE  Alone' /\ \A o \in Reqs : Fresh(o)'
  <1>1. \A o \in Reqs : o # r => tx'[o].op = "idle"
    BY SlotAfter DEF Busy
  <1>2. Alone'
    BY <1>1 DEF Alone, Busy
  <1>3. ASSUME NEW o \in Reqs, o # r
        PROVE  Fresh(o)'
    BY <1>1, <1>3 DEF Fresh, ItemsInStock, StockIsFresh, CouponIsLeft, Carries
  <1> QED
    BY <1>2, <1>3

LEMMA AddsUpAfterMove ==
    ASSUME TypeOK, AddsUp, ~overlapped, NEW units \in [Products -> Int],
           \A p \in Products : shelf'[p].stock = shelf[p].stock + units[p],
           phantom' = Moved(units)
    PROVE  AddsUp'
  <1>1. \A p \in Products : /\ phantom[p] = 0 /\ units[p] \in Int
                            /\ shelf[p].stock \in Nat
    BY DEF AddsUp, TypeOK, ShelfRow
  <1>2. \A p \in Products :
           phantom'[p] = phantom[p] + (shelf'[p].stock - shelf[p].stock) - units[p]
    BY DEF Moved
  <1> QED
    BY <1>1, <1>2 DEF AddsUp

LEMMA AloneInvInit == Init => AloneInv
  <1> SUFFICES ASSUME Init PROVE AloneInv
    OBVIOUS
  <1>1. \A r \in Reqs : tx[r].op = "idle"
    BY DEF Init, Idle
  <1>2. Uses = {}
    BY DEF Init, Uses
  <1>3. Cardinality(Uses) <= TotalLimit
    BY <1>2, FS_EmptySet, LimitsAssumption
  <1> QED
    BY <1>1, <1>3 DEF Init, AloneInv, Alone, Busy, Fresh, ItemsInStock, StockIsFresh,
                      CouponIsLeft, Carries, AddsUp, WithinTotal

LEMMA AloneInvStep ==
    ASSUME TypeInv, AloneInv, [Next]_vars
    PROVE  AloneInv'
  <1> SUFFICES ASSUME ~overlapped'
               PROVE  Alone' /\ (\A r \in Reqs : Fresh(r)') /\ AddsUp' /\ WithinTotal'
    BY DEF AloneInv
  <1> USE DEF TypeInv
  <1>1. ASSUME NEW r \in Reqs, NEW load, Hold(r, load), UNCHANGED store, Arrives,
               Fresh(r)'
        PROVE  Alone' /\ (\A o \in Reqs : Fresh(o)') /\ AddsUp' /\ WithinTotal'
    <2>1. ~overlapped /\ \A o \in Reqs : ~Busy(o)
      BY <1>1, ArrivesAlone
    <2>2. AddsUp /\ WithinTotal
      BY <2>1 DEF AloneInv
    <2>3. AddsUp' /\ WithinTotal'
      BY <1>1, <2>2 DEF AddsUp, WithinTotal, Uses, store
    <2> QED
      BY <1>1, <2>1, <2>3, OnlyOneAfter
  <1>2. ASSUME NEW r \in Reqs, NEW load, Hold(r, load), UNCHANGED <<store, overlapped>>,
               Busy(r), Fresh(r) => Fresh(r)'
        PROVE  Alone' /\ (\A o \in Reqs : Fresh(o)') /\ AddsUp' /\ WithinTotal'
    <2>1. Alone /\ Fresh(r) /\ AddsUp /\ WithinTotal
      BY <1>2 DEF AloneInv
    <2>2. \A o \in Reqs : o # r => ~Busy(o)
      BY <1>2, <2>1 DEF Alone
    <2>3. AddsUp' /\ WithinTotal'
      BY <1>2, <2>1 DEF AddsUp, WithinTotal, Uses, store
    <2> QED
      BY <1>2, <2>1, <2>2, <2>3, OnlyOneAfter
  <1>3. ASSUME NEW r \in Reqs, CartEdit(r)
        PROVE  Alone' /\ (\A o \in Reqs : Fresh(o)') /\ AddsUp' /\ WithinTotal'
    <2>1. Arrives /\ UNCHANGED <<groups, phantom, tx>>
      BY <1>3, CartEditFrame DEF Starts
    <2>2. ~overlapped /\ \A o \in Reqs : tx'[o].op = "idle"
      BY <2>1, ArrivesAlone DEF Busy
    <2>3. AddsUp /\ WithinTotal
      BY <2>2 DEF AloneInv
    <2>4. AddsUp' /\ WithinTotal'
      BY <2>1, <2>3 DEF AddsUp, WithinTotal, Uses
    <2> QED
      BY <2>2, <2>4, NobodyAfter
  <1>4. ASSUME NEW r \in Reqs, NEW owner \in Owners, NEW coupon \in BOOLEAN,
               BeginWallet(r, owner, coupon)
        PROVE  Alone' /\ (\A o \in Reqs : Fresh(o)') /\ AddsUp' /\ WithinTotal'
    <2> DEFINE load == [op |-> "priced",
                        basket |-> [owner |-> owner, method |-> "WALLET",
                                    coupon |-> coupon, items |-> CheckedItems(owner),
                                    paidFor |-> CheckedItems(owner)]]
    <2>1. Hold(r, load) /\ UNCHANGED store /\ Arrives
      BY <1>4 DEF BeginWallet, Starts
    <2>2. tx'[r].op = "priced" /\ (tx'[r].basket.coupon <=> coupon)
      BY <2>1, SlotAfter
    <2>3. coupon => Cardinality(Uses) < TotalLimit
      BY <1>4 DEF BeginWallet, CouponValid
    <2>4. Fresh(r)'
      BY <2>1, <2>2, <2>3 DEF Fresh, ItemsInStock, StockIsFresh, CouponIsLeft, Carries,
                              Uses, store
    <2> QED
      BY <1>1, <2>1, <2>4
  <1>5. ASSUME NEW r \in Reqs, NEW owner \in Owners, NEW coupon \in BOOLEAN,
               BeginCod(r, owner, coupon)
        PROVE  Alone' /\ (\A o \in Reqs : Fresh(o)') /\ AddsUp' /\ WithinTotal'
    <2> DEFINE load == [op |-> "placing",
                        basket |-> [owner |-> owner, method |-> "CASH_ON_DELIVERY",
                                    coupon |-> coupon, items |-> CheckedItems(owner),
                                    paidFor |-> {}]]
    <2>1. Hold(r, load) /\ UNCHANGED store /\ Arrives
      BY <1>5 DEF BeginCod, Starts
    <2>2. /\ tx'[r].op = "placing" /\ (tx'[r].basket.coupon <=> coupon)
          /\ tx'[r].basket.items = CheckedItems(owner)
      BY <2>1, SlotAfter
    <2>3. coupon => Cardinality(Uses) < TotalLimit
      BY <1>5 DEF BeginCod, CouponValid
    <2>4. \A i \in CheckedItems(owner) : shelf[i.product].stock >= i.qty
      BY <1>5 DEF BeginCod, InStock, Available
    <2>5. Fresh(r)'
      BY <2>1, <2>2, <2>3, <2>4 DEF Fresh, ItemsInStock, StockIsFresh, CouponIsLeft,
                                    Carries, Uses, store
    <2> QED
      BY <1>1, <2>1, <2>5
  <1>6. ASSUME NEW r \in Reqs, LoadCart(r)
        PROVE  Alone' /\ (\A o \in Reqs : Fresh(o)') /\ AddsUp' /\ WithinTotal'
    <2> DEFINE b == tx[r].basket
               load == [op |-> "placing",
                        basket |-> [b EXCEPT !.items = CheckedItems(b.owner)]]
    <2>1. Hold(r, load) /\ UNCHANGED <<store, overlapped>> /\ tx[r].op = "priced"
      BY <1>6 DEF LoadCart
    <2>2. b \in Basket
      BY <2>1, BasketInHand DEF Carries
    <2>3. tx'[r] = load
      BY <2>1, SlotAfter
    <2>4. /\ tx'[r].op = "placing" /\ tx'[r].basket.coupon = b.coupon
          /\ tx'[r].basket.items = CheckedItems(b.owner)
      BY <2>2, <2>3 DEF Basket
    <2>5. b.coupon => Cardinality(Uses) < TotalLimit
      BY <1>6 DEF LoadCart, CouponValid
    <2>6. \A i \in CheckedItems(b.owner) : shelf[i.product].stock >= i.qty
      BY <1>6 DEF LoadCart, InStock, Available
    <2>7. Fresh(r)'
      BY <2>1, <2>4, <2>5, <2>6 DEF Fresh, ItemsInStock, StockIsFresh, CouponIsLeft,
                                    Carries, Uses, store
    <2> QED
      BY <1>2, <2>1, <2>7 DEF Busy
  <1>7. ASSUME NEW r \in Reqs, TakeStock(r)
        PROVE  Alone' /\ (\A o \in Reqs : Fresh(o)') /\ AddsUp' /\ WithinTotal'
    <2> DEFINE load == [op |-> "taking", basket |-> tx[r].basket,
                        number |-> Len(groups), stock |-> StockNow]
    <2>1. Hold(r, load) /\ UNCHANGED <<store, overlapped>> /\ tx[r].op = "placing"
      BY <1>7 DEF TakeStock
    <2>2. tx'[r].op = "taking" /\ tx'[r].basket = tx[r].basket /\ tx'[r].stock = StockNow
      BY <2>1, SlotAfter
    <2>3. StockNow' = StockNow
      BY <2>1 DEF store, StockNow
    <2>4. Fresh(r) => Fresh(r)'
      BY <2>1, <2>2, <2>3 DEF Fresh, ItemsInStock, StockIsFresh, CouponIsLeft, Carries,
                              Uses, store
    <2> QED
      BY <1>2, <2>1, <2>4 DEF Busy
  <1>8. ASSUME NEW r \in Reqs, NEW g \in DOMAIN groups, BeginCancel(r, g)
        PROVE  Alone' /\ (\A o \in Reqs : Fresh(o)') /\ AddsUp' /\ WithinTotal'
    <2> DEFINE load == [op |-> "canceling", g |-> g, status |-> groups[g].status]
    <2>1. Hold(r, load) /\ UNCHANGED store /\ Arrives
      BY <1>8 DEF BeginCancel, Starts
    <2>2. tx'[r].op = "canceling"
      BY <2>1, SlotAfter
    <2>3. Fresh(r)'
      BY <2>2 DEF Fresh, ItemsInStock, StockIsFresh, CouponIsLeft, Carries
    <2> QED
      BY <1>1, <2>1, <2>3
  <1>9. ASSUME NEW r \in Reqs, ReadStock(r)
        PROVE  Alone' /\ (\A o \in Reqs : Fresh(o)') /\ AddsUp' /\ WithinTotal'
    <2> DEFINE load == [op |-> "giving", g |-> tx[r].g, status |-> tx[r].status,
                        stock |-> StockNow]
    <2>1. Hold(r, load) /\ UNCHANGED <<store, overlapped>> /\ tx[r].op = "canceling"
      BY <1>9 DEF ReadStock
    <2>2. tx'[r].op = "giving" /\ tx'[r].stock = StockNow
      BY <2>1, SlotAfter
    <2>3. StockNow' = StockNow
      BY <2>1 DEF store, StockNow
    <2>4. Fresh(r)'
      BY <2>2, <2>3 DEF Fresh, ItemsInStock, StockIsFresh, CouponIsLeft, Carries
    <2> QED
      BY <1>2, <2>1, <2>4 DEF Busy
  <1>10. ASSUME NEW r \in Reqs, Abandon(r)
         PROVE  Alone' /\ (\A o \in Reqs : Fresh(o)') /\ AddsUp' /\ WithinTotal'
    <2>1. Hold(r, Idle) /\ UNCHANGED <<store, overlapped>> /\ Busy(r)
      BY <1>10 DEF Abandon, End
    <2>2. tx'[r].op = "idle"
      BY <2>1, SlotAfter, IdleInHand
    <2>3. Fresh(r)'
      BY <2>2 DEF Fresh, ItemsInStock, StockIsFresh, CouponIsLeft, Carries
    <2> QED
      BY <1>2, <2>1, <2>3
  <1>11. ASSUME NEW r \in Reqs, Busy(r), End(r)
         PROVE  /\ ~overlapped /\ Fresh(r) /\ AddsUp /\ WithinTotal
                /\ Alone' /\ \A o \in Reqs : Fresh(o)'
    <2>1. ~overlapped /\ Hold(r, Idle)
      BY <1>11 DEF End
    <2>2. Alone /\ Fresh(r) /\ AddsUp /\ WithinTotal
      BY <2>1 DEF AloneInv
    <2>3. \A o \in Reqs : tx'[o].op = "idle"
      BY <1>11, <2>1, <2>2, SlotAfter, IdleInHand DEF Alone, Busy
    <2> QED
      BY <2>1, <2>2, <2>3, NobodyAfter
  <1>12. ASSUME NEW r \in Reqs, PlaceOrders(r)
         PROVE  Alone' /\ (\A o \in Reqs : Fresh(o)') /\ AddsUp' /\ WithinTotal'
    <2> DEFINE units == [p \in Products |-> -Units(tx[r].basket.items, p)]
    <2>1. tx[r].op = "taking" /\ End(r) /\ shelf' = ShelfAfterTaking(tx[r])
      BY <1>12 DEF PlaceOrders
    <2>2. Busy(r) /\ Carries(r)
      BY <2>1 DEF Busy, Carries
    <2>3. /\ ~overlapped /\ Fresh(r) /\ AddsUp /\ WithinTotal
          /\ Alone' /\ \A o \in Reqs : Fresh(o)'
      BY <1>11, <2>1, <2>2
    <2>4. AddsUp'
      <3>1. tx[r].basket.items \in SUBSET Item
        BY <2>2, BasketInHand DEF Basket
      <3>2. \A p \in Products : Units(tx[r].basket.items, p) \in Nat
        BY <3>1, UnitsType
      <3>3. \A p \in Products : /\ shelf[p].stock \in Nat
                                /\ shelf'[p].stock
                                      = shelf[p].stock - Units(tx[r].basket.items, p)
        BY <2>1, <2>3, TakesWhatItOrders DEF Fresh, TypeOK, ShelfRow
      <3>4. units \in [Products -> Int]
        BY <3>2
      <3>5. \A p \in Products : shelf'[p].stock = shelf[p].stock + units[p]
        BY <3>2, <3>3
      <3>6. phantom' = Moved(units)
        BY <1>12 DEF PlaceOrders
      <3> HIDE DEF units
      <3> QED
        BY <2>3, <3>4, <3>5, <3>6, AddsUpAfterMove
    <2>5. WithinTotal'
      <3>1. CASE tx[r].basket.coupon
        <4>1. Cardinality(Uses) < TotalLimit /\ Uses' = Uses \cup {Len(groups) + 1}
          BY <1>12, <2>2, <2>3, <3>1, UsesAfterPlacing DEF Fresh, CouponIsLeft
        <4> DEFINE used == Uses
                   more == used \cup {Len(groups) + 1}
        <4>2. IsFiniteSet(used) /\ Cardinality(used) \in Nat
          BY UsesFinite, FS_CardinalityType
        <4>3. /\ Cardinality(more) \in Nat
              /\ Cardinality(more) = Cardinality(used)
                   \/ Cardinality(more) = Cardinality(used) + 1
          <5> HIDE DEF used
          <5> QED
            BY <4>2, FS_AddElement, FS_CardinalityType
        <4>4. Cardinality(used) < TotalLimit
          BY <4>1
        <4>5. Cardinality(more) <= TotalLimit
          <5> HIDE DEF used, more
          <5> QED
            BY <4>2, <4>3, <4>4, LimitsAssumption
        <4>6. Uses' = more
          BY <4>1
        <4> QED
          BY <4>5, <4>6 DEF WithinTotal
      <3>2. CASE ~tx[r].basket.coupon
        BY <1>12, <2>3, <3>2, UsesAfterPlacing DEF WithinTotal
      <3> QED
        BY <3>1, <3>2
    <2> QED
      BY <2>3, <2>4, <2>5
  <1>13. ASSUME NEW r \in Reqs, CancelOrders(r)
         PROVE  Alone' /\ (\A o \in Reqs : Fresh(o)') /\ AddsUp' /\ WithinTotal'
    <2> DEFINE g == tx[r].g
               units == [p \in Products |-> Units(groups[g].items, p)]
    <2>1. tx[r].op = "giving" /\ End(r) /\ shelf' = ShelfAfterGiving(tx[r])
      BY <1>13 DEF CancelOrders
    <2>2. Busy(r)
      BY <2>1 DEF Busy
    <2>3. /\ ~overlapped /\ Fresh(r) /\ AddsUp /\ WithinTotal
          /\ Alone' /\ \A o \in Reqs : Fresh(o)'
      BY <1>11, <2>1, <2>2
    <2>4. AddsUp'
      <3>1. groups[g].items \in SUBSET Item
        BY <1>13, CancelWrites, GroupAt
      <3>2. \A p \in Products : Units(groups[g].items, p) \in Nat
        BY <3>1, UnitsType
      <3>3. \A p \in Products : /\ shelf[p].stock \in Nat
                                /\ shelf'[p].stock
                                      = shelf[p].stock + Units(groups[g].items, p)
        BY <2>1, <2>3, GivesWhatWasOrdered DEF Fresh, TypeOK, ShelfRow
      <3>4. units \in [Products -> Int]
        BY <3>2
      <3>5. \A p \in Products : shelf'[p].stock = shelf[p].stock + units[p]
        BY <3>2, <3>3
      <3>6. phantom' = Moved(units)
        BY <1>13 DEF CancelOrders
      <3> HIDE DEF units
      <3> QED
        BY <2>3, <3>4, <3>5, <3>6, AddsUpAfterMove
    <2>5. Uses' = Uses
      <3>1. /\ g \in DOMAIN groups /\ groups \in Seq(GroupRow)
            /\ CanceledRow(r) \in GroupRow
            /\ groups' = [groups EXCEPT ![g] = CanceledRow(r)]
        BY <1>13, CancelWrites DEF TypeOK
      <3>2. CanceledRow(r).coupon = groups[g].coupon
        BY <3>1, GroupAt DEF CanceledRow, GroupRow
      <3> QED
        BY <3>1, <3>2, ReplaceRow, SameUses
    <2> QED
      BY <2>3, <2>4, <2>5 DEF WithinTotal
  <1>14. ASSUME NEW g \in DOMAIN groups, NEW s \in Shops, NEW status \in OrderStatus,
                SetStatus(g, s, status)
         PROVE  Alone' /\ (\A o \in Reqs : Fresh(o)') /\ AddsUp' /\ WithinTotal'
    <2>1. Arrives /\ UNCHANGED <<phantom, tx>>
      BY <1>14 DEF SetStatus, Updates
    <2>2. ~overlapped /\ \A o \in Reqs : tx'[o].op = "idle"
      BY <2>1, ArrivesAlone DEF Busy
    <2>3. AddsUp /\ WithinTotal
      BY <2>2 DEF AloneInv
    <2>4. Uses' = Uses
      <3>1. /\ groups \in Seq(GroupRow) /\ StatusRow(g, s, status) \in GroupRow
            /\ groups' = [groups EXCEPT ![g] = StatusRow(g, s, status)]
        BY <1>14, StatusWrites DEF TypeOK
      <3>2. StatusRow(g, s, status).coupon = groups[g].coupon
        BY <3>1, GroupAt DEF StatusRow, GroupRow
      <3> QED
        BY <3>1, <3>2, ReplaceRow, SameUses
    <2> QED
      BY <2>1, <2>2, <2>3, <2>4, NobodyAfter DEF AddsUp, WithinTotal
  <1>15. ASSUME NEW p \in Products, Restock(p)
         PROVE  Alone' /\ (\A o \in Reqs : Fresh(o)') /\ AddsUp' /\ WithinTotal'
    <2>1. Arrives /\ UNCHANGED <<groups, phantom, tx>>
      BY <1>15 DEF Restock, Updates
    <2>2. ~overlapped /\ \A o \in Reqs : tx'[o].op = "idle"
      BY <2>1, ArrivesAlone DEF Busy
    <2>3. AddsUp /\ WithinTotal
      BY <2>2 DEF AloneInv
    <2>4. AddsUp' /\ WithinTotal'
      BY <2>1, <2>3 DEF AddsUp, WithinTotal, Uses
    <2> QED
      BY <2>2, <2>4, NobodyAfter
  <1>16. CASE UNCHANGED vars
    BY <1>16 DEF AloneInv, Alone, Busy, Fresh, ItemsInStock, StockIsFresh, CouponIsLeft,
                 Carries, StockNow, Uses, AddsUp, WithinTotal, vars, store
  <1> QED
    BY <1>3, <1>4, <1>5, <1>6, <1>7, <1>8, <1>9, <1>10, <1>12, <1>13, <1>14, <1>15, <1>16
       DEF Next, CartEdit, CheckoutStep, CancelStep, SellerStep

(* Until requests overlap, checkouts take from the shelf exactly what they *)
(* order, and cancellations put back exactly what was ordered: no unit is  *)
(* sold twice.                                                             *)
THEOREM NoUnitIsSoldTwice == Spec => []StockAddsUp
<1>1. AloneInv => StockAddsUp
  BY DEF AloneInv, StockAddsUp, AddsUp
<1> QED
  BY <1>1, TypeInvInit, TypeInvStep, AloneInvInit, AloneInvStep, PTL DEF Spec

(* Until requests overlap, the coupon is used total_limit times at most.   *)
THEOREM CouponIsLimited == Spec => []CouponWithinTotal
<1>1. AloneInv => CouponWithinTotal
  BY DEF AloneInv, CouponWithinTotal, WithinTotal
<1> QED
  BY <1>1, TypeInvInit, TypeInvStep, AloneInvInit, AloneInvStep, PTL DEF Spec

(***************************************************************************)
(* With one request of a shopper in flight at a time.  First the orders:   *)
(* once the stock of a group was given back, its orders stay CANCELED      *)
(* until one is revived, and a cancellation in flight is the only one of   *)
(* its group.                                                              *)
(***************************************************************************)
StaysCanceled(row) ==
    row.returned # 0 /\ ~row.revived =>
        \A s \in ShopsOf(row) : row.status[s] = "CANCELED"

GivenOnce(row) == row.returned > 1 => row.revived

(* The row of the group that a request cancels, the statuses as loaded.    *)
MayCancel(person, status, row) ==
    /\ row.owner.person = person
    /\ row.returned # 0 => row.revived
    /\ \A s \in ShopsOf(row) :
          status[s] = "CANCELED" => row.status[s] = "CANCELED" \/ row.revived

GroupsGivenOnce == \A g \in DOMAIN groups : StaysCanceled(groups[g]) /\ GivenOnce(groups[g])

CancelsAreDue ==
    \A r \in Reqs : Cancels(r) => MayCancel(Shopper[r], tx[r].status, groups[tx[r].g])

ReturnInv == GroupsGivenOnce /\ CancelsAreDue

(* What the three writes of a group do to its row.                         *)
LEMMA PlacedIsGivenOnce ==
    ASSUME NEW b \in Basket
    PROVE  StaysCanceled(NewGroup(b)) /\ GivenOnce(NewGroup(b))
  BY DEF StaysCanceled, GivenOnce, NewGroup

LEMMA CanceledIsGivenOnce ==
    ASSUME TypeInv, NEW r \in Reqs, Cancels(r),
           MayCancel(Shopper[r], tx[r].status, groups[tx[r].g])
    PROVE  StaysCanceled(CanceledRow(r)) /\ GivenOnce(CanceledRow(r))
  <1> DEFINE row == groups[tx[r].g]
             after == CanceledRow(r)
  <1>1. tx[r].g \in DOMAIN groups /\ row \in GroupRow /\ row.returned \in Nat
        /\ tx[r].status \in [Shops -> OrderStatus] /\ row.status \in [Shops -> OrderStatus]
    BY GroupAt, CancelInHand DEF TypeInv, GroupsExist
  <1>2. /\ after.items = row.items
        /\ after.revived = row.revived
        /\ after.returned = row.returned + 1
        /\ after.status = [s \in Shops |-> IF s \in ShopsOf(row)
                             THEN Written(tx[r].status[s], "CANCELED", row.status[s])
                             ELSE row.status[s]]
    BY <1>1 DEF CanceledRow, GroupRow
  <1>3. ShopsOf(after) = ShopsOf(row) /\ ShopsOf(row) \subseteq Shops
    BY <1>1, <1>2, ShopAssumption DEF ShopsOf, GroupRow, Item
  <1>4. ASSUME NEW s \in ShopsOf(row), ~row.revived
        PROVE  after.status[s] = "CANCELED"
    BY <1>2, <1>3, <1>4 DEF MayCancel, Written
  <1> HIDE DEF after, row
  <1>5. StaysCanceled(after)
    BY <1>2, <1>3, <1>4 DEF StaysCanceled
  <1>6. row.returned # 0 => row.revived
    BY DEF MayCancel, row
  <1>7. GivenOnce(after)
    BY <1>1, <1>2, <1>6 DEF GivenOnce
  <1> QED
    BY <1>5, <1>7 DEF after

LEMMA StatusKeepsGivenOnce ==
    ASSUME TypeOK, NEW g \in DOMAIN groups, NEW s \in Shops, NEW status \in OrderStatus
    PROVE  /\ StaysCanceled(groups[g]) => StaysCanceled(StatusRow(g, s, status))
           /\ GivenOnce(groups[g]) => GivenOnce(StatusRow(g, s, status))
           /\ \A person, loaded : MayCancel(person, loaded, groups[g])
                                    => MayCancel(person, loaded, StatusRow(g, s, status))
  <1> DEFINE row == groups[g]
             after == StatusRow(g, s, status)
             again == row.revived \/ (row.status[s] = "CANCELED" /\ status # "CANCELED")
  <1>1. row \in GroupRow /\ row.returned \in Nat /\ row.status \in [Shops -> OrderStatus]
    BY GroupAt
  <1>2. /\ after.items = row.items /\ after.owner = row.owner
        /\ after.returned = row.returned
        /\ after.status = [row.status EXCEPT ![s] = status]
    BY <1>1 DEF StatusRow, GroupRow
  <1>3. after.revived <=> again
    BY <1>1, Zenon DEF StatusRow, GroupRow
  <1>4. ShopsOf(after) = ShopsOf(row) /\ ShopsOf(row) \subseteq Shops
    BY <1>1, <1>2, ShopAssumption DEF ShopsOf, GroupRow, Item
  <1>5. \A o \in Shops : row.status[o] = "CANCELED" =>
                            after.status[o] = "CANCELED" \/ after.revived
    BY <1>1, <1>2, <1>3
  <1>6. row.revived => after.revived
    BY <1>3
  <1> HIDE DEF after, row, again
  <1>7. StaysCanceled(row) => StaysCanceled(after)
    BY <1>2, <1>4, <1>5, <1>6 DEF StaysCanceled
  <1>8. GivenOnce(row) => GivenOnce(after)
    BY <1>2, <1>6 DEF GivenOnce
  <1>9. ASSUME NEW person, NEW loaded, MayCancel(person, loaded, row)
        PROVE  MayCancel(person, loaded, after)
    BY <1>2, <1>4, <1>5, <1>6, <1>9 DEF MayCancel
  <1> QED
    BY <1>7, <1>8, <1>9 DEF after, row

LEMMA ReturnInvInit == Init => ReturnInv
  BY DEF Init, ReturnInv, GroupsGivenOnce, CancelsAreDue, Cancels, Idle

(* A step that writes no group, and leaves a slot with no new cancellation. *)
LEMMA ReturnInvAfterHold ==
    ASSUME TypeInv, ReturnInv, NEW r \in Reqs, NEW load, Hold(r, load), UNCHANGED groups,
           load.op \in {"canceling", "giving"} =>
               MayCancel(Shopper[r], load.status, groups[load.g])
    PROVE  ReturnInv'
  <1>1. \A o \in Reqs : tx'[o] = IF o = r THEN load ELSE tx[o]
    BY SlotAfter DEF TypeInv
  <1>2. CancelsAreDue'
    BY <1>1 DEF ReturnInv, CancelsAreDue, Cancels
  <1>3. GroupsGivenOnce'
    BY DEF ReturnInv, GroupsGivenOnce
  <1> QED
    BY <1>2, <1>3 DEF ReturnInv

LEMMA ReturnInvStep ==
    ASSUME OneDevice, TypeInv, ReturnInv, [Next]_vars
    PROVE  ReturnInv'
  <1> USE DEF TypeInv
  <1>1. ASSUME UNCHANGED <<groups, tx>>
        PROVE  ReturnInv'
    BY <1>1 DEF ReturnInv, GroupsGivenOnce, CancelsAreDue, Cancels
  <1>2. ASSUME NEW r \in Reqs, NEW load, Hold(r, load), UNCHANGED groups,
               load.op \notin {"canceling", "giving"}
        PROVE  ReturnInv'
    BY <1>2, ReturnInvAfterHold
  <1>3. ASSUME NEW r \in Reqs, CartEdit(r)
        PROVE  ReturnInv'
    BY <1>1, <1>3, CartEditFrame
  <1>4. ASSUME NEW r \in Reqs, NEW owner \in Owners, NEW coupon \in BOOLEAN,
               BeginWallet(r, owner, coupon) \/ BeginCod(r, owner, coupon)
        PROVE  ReturnInv'
    <2>1. CASE BeginWallet(r, owner, coupon)
      BY <1>2, <2>1 DEF BeginWallet, store
    <2>2. CASE BeginCod(r, owner, coupon)
      BY <1>2, <2>2 DEF BeginCod, store
    <2> QED
      BY <1>4, <2>1, <2>2
  <1>5. ASSUME NEW r \in Reqs, LoadCart(r) \/ TakeStock(r)
        PROVE  ReturnInv'
    <2>1. CASE LoadCart(r)
      BY <1>2, <2>1 DEF LoadCart, store
    <2>2. CASE TakeStock(r)
      BY <1>2, <2>2 DEF TakeStock, store
    <2> QED
      BY <1>5, <2>1, <2>2
  <1>6. ASSUME NEW r \in Reqs, Abandon(r)
        PROVE  ReturnInv'
    BY <1>2, <1>6, IdleInHand DEF Abandon, End, store
  <1>7. ASSUME NEW r \in Reqs, PlaceOrders(r)
        PROVE  ReturnInv'
    <2>1. Hold(r, Idle) /\ Carries(r)
      BY <1>7 DEF PlaceOrders, End, Carries
    <2>2. \A o \in Reqs : Cancels(o)' => Cancels(o) /\ tx'[o] = tx[o]
      BY <2>1, SlotAfter, IdleInHand DEF Cancels
    <2>3. CancelsAreDue'
      BY <1>7, <2>2, PlaceWrites DEF ReturnInv, CancelsAreDue, GroupsExist
    <2>4. GroupsGivenOnce'
      <3>1. StaysCanceled(groups'[Len(groups) + 1]) /\ GivenOnce(groups'[Len(groups) + 1])
        BY <1>7, <2>1, PlaceWrites, PlacedIsGivenOnce, BasketInHand
      <3>2. DOMAIN groups' = DOMAIN groups \cup {Len(groups) + 1}
        <4>1. Len(groups) \in Nat
          BY DEF TypeOK
        <4>2. 1 .. (Len(groups) + 1) = 1 .. Len(groups) \cup {Len(groups) + 1}
          BY <4>1
        <4> QED
          BY <1>7, <4>2, PlaceWrites
      <3> QED
        BY <1>7, <3>1, <3>2, PlaceWrites DEF ReturnInv, GroupsGivenOnce
    <2> QED
      BY <2>3, <2>4 DEF ReturnInv
  <1>8. ASSUME NEW r \in Reqs, NEW g \in DOMAIN groups, BeginCancel(r, g)
        PROVE  ReturnInv'
    <2> DEFINE load == [op |-> "canceling", g |-> g, status |-> groups[g].status]
    <2>1. Hold(r, load) /\ UNCHANGED groups
      BY <1>8 DEF BeginCancel, store
    <2>2. PICK s \in ShopsOf(groups[g]) : groups[g].status[s] # "CANCELED"
      BY <1>8 DEF BeginCancel, Cancellable
    <2>3. groups[g].returned # 0 => groups[g].revived
      BY <2>2 DEF ReturnInv, GroupsGivenOnce, StaysCanceled
    <2>4. MayCancel(Shopper[r], groups[g].status, groups[g])
      BY <1>8, <2>3 DEF BeginCancel, MayCancel
    <2>5. MayCancel(Shopper[r], load.status, groups[load.g])
      BY <2>4
    <2> HIDE DEF load
    <2> QED
      BY <2>1, <2>5, ReturnInvAfterHold
  <1>9. ASSUME NEW r \in Reqs, ReadStock(r)
        PROVE  ReturnInv'
    <2> DEFINE load == [op |-> "giving", g |-> tx[r].g, status |-> tx[r].status,
                        stock |-> StockNow]
    <2>1. Hold(r, load) /\ UNCHANGED groups /\ Cancels(r)
      BY <1>9 DEF ReadStock, store, Cancels
    <2>2. MayCancel(Shopper[r], load.status, groups[load.g])
      BY <2>1 DEF ReturnInv, CancelsAreDue
    <2> HIDE DEF load
    <2> QED
      BY <2>1, <2>2, ReturnInvAfterHold
  <1>10. ASSUME NEW r \in Reqs, CancelOrders(r)
         PROVE  ReturnInv'
    <2> DEFINE g == tx[r].g
    <2>1. Hold(r, Idle) /\ Cancels(r)
      BY <1>10 DEF CancelOrders, End, Cancels
    <2>2. MayCancel(Shopper[r], tx[r].status, groups[g])
      BY <2>1 DEF ReturnInv, CancelsAreDue
    <2>3. /\ g \in DOMAIN groups /\ groups \in Seq(GroupRow)
          /\ CanceledRow(r) \in GroupRow
          /\ groups' = [groups EXCEPT ![g] = CanceledRow(r)]
      BY <1>10, CancelWrites DEF TypeOK
    <2>4. /\ DOMAIN groups' = DOMAIN groups
          /\ \A h \in DOMAIN groups :
                groups'[h] = IF h = g THEN CanceledRow(r) ELSE groups[h]
      BY <2>3, ReplaceRow
    <2>5. StaysCanceled(CanceledRow(r)) /\ GivenOnce(CanceledRow(r))
      BY <2>1, <2>2, CanceledIsGivenOnce
    <2>6. GroupsGivenOnce'
      BY <2>4, <2>5 DEF ReturnInv, GroupsGivenOnce
    <2>7. ASSUME NEW o \in Reqs, Cancels(o)'
          PROVE  MayCancel(Shopper[o], tx'[o].status, groups'[tx'[o].g])
      <3>1. o # r /\ tx'[o] = tx[o] /\ Cancels(o)
        BY <2>1, <2>7, SlotAfter, IdleInHand DEF Cancels
      <3>2. tx[o].g \in DOMAIN groups /\ MayCancel(Shopper[o], tx[o].status, groups[tx[o].g])
        BY <3>1 DEF ReturnInv, CancelsAreDue, GroupsExist
      <3>3. tx[o].g # g
        BY <2>2, <3>1, <3>2 DEF OneDevice, MayCancel
      <3> QED
        BY <2>4, <3>1, <3>2, <3>3
    <2>8. CancelsAreDue'
      BY <2>7 DEF CancelsAreDue
    <2> QED
      BY <2>6, <2>8 DEF ReturnInv
  <1>11. ASSUME NEW g \in DOMAIN groups, NEW s \in Shops, NEW status \in OrderStatus,
                SetStatus(g, s, status)
         PROVE  ReturnInv'
    <2>1. /\ groups \in Seq(GroupRow) /\ StatusRow(g, s, status) \in GroupRow
          /\ groups' = [groups EXCEPT ![g] = StatusRow(g, s, status)]
      BY <1>11, StatusWrites DEF TypeOK
    <2>2. /\ DOMAIN groups' = DOMAIN groups
          /\ \A h \in DOMAIN groups :
                groups'[h] = IF h = g THEN StatusRow(g, s, status) ELSE groups[h]
      BY <2>1, ReplaceRow
    <2>3. GroupsGivenOnce'
      BY <2>2, StatusKeepsGivenOnce DEF ReturnInv, GroupsGivenOnce
    <2>4. CancelsAreDue'
      <3>1. UNCHANGED tx
        BY <1>11 DEF SetStatus
      <3> QED
        BY <3>1, <2>2, StatusKeepsGivenOnce DEF ReturnInv, CancelsAreDue, Cancels, GroupsExist
    <2> QED
      BY <2>3, <2>4 DEF ReturnInv
  <1>12. ASSUME NEW p \in Products, Restock(p)
         PROVE  ReturnInv'
    BY <1>1, <1>12 DEF Restock
  <1>13. CASE UNCHANGED vars
    BY <1>1, <1>13 DEF vars, store
  <1> QED
    BY <1>3, <1>4, <1>5, <1>6, <1>7, <1>8, <1>9, <1>10, <1>11, <1>12, <1>13
       DEF Next, CartEdit, CheckoutStep, CancelStep, SellerStep

(* Two requests of one shopper aside, the stock of a group is given back   *)
(* once, unless an order of it was taken out of CANCELED: cancel_order     *)
(* refuses a group all of whose orders are CANCELED.                       *)
THEOREM StockIsReturnedOnce == ASSUME OneDevice PROVE Spec => []ReturnedOnce
<1>1. ReturnInv => ReturnedOnce
  BY DEF ReturnInv, GroupsGivenOnce, GivenOnce, ReturnedOnce
<1> QED
  BY <1>1, TypeInvInit, TypeInvStep, ReturnInvInit, ReturnInvStep, PTL DEF Spec

(***************************************************************************)
(* Then the lines: a line keeps its id while it is in a cart, no two       *)
(* owners have lines of one id, and no id that was ordered is in a cart.   *)
(***************************************************************************)
IdsOwned == \A l, m \in cart : l.id = m.id => l.owner = m.owner

IdsKnown == \A l \in cart : l.id <= lines

OrderedIds == UNION {Ids(groups[g].items) : g \in DOMAIN groups}

IdsSpent == \A id \in OrderedIds : id <= lines /\ \A l \in cart : l.id # id

(* What a checkout in flight has in hand is the checked part of the cart.  *)
BasketIsCart ==
    \A r \in Reqs : Carries(r) =>
        LET b == tx[r].basket IN
        /\ b.owner.person = Shopper[r]
        /\ b.items = CheckedItems(b.owner)
        /\ b.method = "WALLET" => b.paidFor = b.items

LinesInv == /\ IdsOwned /\ IdsKnown /\ IdsSpent
            /\ BasketIsCart
            /\ LineOrderedOnce /\ PaidIsOrdered

(* The rows of a cart after an edit: the line of AddLine, or rows that     *)
(* were there, of the same person.                                         *)
LineAfter(r, l) ==
    \/ l.id = lines + 1 /\ lines' = lines + 1 /\ l.owner.person = Shopper[r]
    \/ \E m \in cart : m.id = l.id /\ m.owner.person = l.owner.person

LEMMA CartEditLines ==
    ASSUME TypeOK, IdsOwned, IdsKnown, NEW r \in Reqs, CartEdit(r)
    PROVE  /\ IdsOwned'
           /\ \A l \in cart' : LineAfter(r, l)
           /\ lines' >= lines
           /\ \A o \in Owners : o.person # Shopper[r] =>
                 \A l : l.owner = o => (l \in cart' <=> l \in cart)
  <1> DEFINE Goal == /\ IdsOwned'
                     /\ \A l \in cart' : LineAfter(r, l)
                     /\ lines' >= lines
                     /\ \A o \in Owners : o.person # Shopper[r] =>
                           \A l : l.owner = o => (l \in cart' <=> l \in cart)
  <1> USE DEF EditsCart
  <1>1. cart \in SUBSET CartRow /\ lines \in Nat
    BY DEF TypeOK
  <1>2. ASSUME NEW owner \in Owners, NEW p \in Products, NEW n \in 1 .. MaxStock,
               AddLine(r, owner, p, n)
        PROVE  Goal
    <2> DEFINE line == [id |-> lines + 1, owner |-> owner, product |-> p,
                        qty |-> n, checked |-> TRUE]
    <2>1. line.id = lines + 1 /\ line.owner = owner
      OBVIOUS
    <2>2. cart' = cart \cup {line} /\ lines' = lines + 1 /\ owner.person = Shopper[r]
      BY <1>2 DEF AddLine
    <2>3. \A l \in cart : l.id # line.id
      BY <1>1, <2>1 DEF IdsKnown, CartRow
    <2> HIDE DEF line
    <2>4. IdsOwned'
      BY <2>2, <2>3 DEF IdsOwned
    <2>5. \A l \in cart' : LineAfter(r, l)
      BY <2>1, <2>2 DEF LineAfter
    <2>6. lines' >= lines
      BY <1>1, <2>2
    <2> QED
      BY <2>1, <2>2, <2>4, <2>5, <2>6
  (* A line is replaced by one of the same id and owner. *)
  <1>3. ASSUME NEW owner, owner.person = Shopper[r], UNCHANGED lines,
               NEW gone \in SUBSET LinesOf(owner), NEW new,
               cart' = (cart \ gone) \cup new,
               \A l \in new : \E m \in gone : l.id = m.id /\ l.owner = m.owner
        PROVE  Goal
    <2>1. \A l \in cart' : \E m \in cart : l.id = m.id /\ l.owner = m.owner
      BY <1>3 DEF LinesOf
    <2>2. IdsOwned'
      BY <2>1 DEF IdsOwned
    <2>3. \A l \in cart' : LineAfter(r, l)
      BY <2>1 DEF LineAfter
    <2>4. \A l : l.owner # owner => (l \in cart' <=> l \in cart)
      BY <1>3 DEF LinesOf
    <2> QED
      BY <1>1, <1>3, <2>2, <2>3, <2>4
  <1> HIDE DEF Goal
  <1>4. ASSUME NEW owner \in Owners, NEW n \in 1 .. MaxStock, AddMore(r, owner, n)
        PROVE  Goal
    <2>1. PICK l \in LinesOf(owner) : cart' = (cart \ {l}) \cup {[l EXCEPT !.qty = @ + n]}
      BY <1>4 DEF AddMore
    <2>2. l \in CartRow
      BY <1>1 DEF LinesOf
    <2> DEFINE new == [l EXCEPT !.qty = @ + n]
    <2>3. new.id = l.id /\ new.owner = l.owner
      BY <2>2 DEF CartRow
    <2>4. owner.person = Shopper[r] /\ UNCHANGED lines /\ cart' = (cart \ {l}) \cup {new}
      BY <1>4, <2>1 DEF AddMore
    <2> HIDE DEF new
    <2>5. {l} \in SUBSET LinesOf(owner)
      OBVIOUS
    <2>6. \A x \in {new} : \E m \in {l} : x.id = m.id /\ x.owner = m.owner
      BY <2>3
    <2> QED
      BY <1>3, <2>4, <2>5, <2>6
  <1>5. ASSUME NEW owner \in Owners, NEW n \in 1 .. MaxStock, UpdateQuantity(r, owner, n)
        PROVE  Goal
    <2>1. PICK l \in LinesOf(owner) : cart' = (cart \ {l}) \cup {[l EXCEPT !.qty = n]}
      BY <1>5 DEF UpdateQuantity
    <2>2. l \in CartRow
      BY <1>1 DEF LinesOf
    <2> DEFINE new == [l EXCEPT !.qty = n]
    <2>3. new.id = l.id /\ new.owner = l.owner
      BY <2>2 DEF CartRow
    <2>4. owner.person = Shopper[r] /\ UNCHANGED lines /\ cart' = (cart \ {l}) \cup {new}
      BY <1>5, <2>1 DEF UpdateQuantity
    <2> HIDE DEF new
    <2>5. {l} \in SUBSET LinesOf(owner)
      OBVIOUS
    <2>6. \A x \in {new} : \E m \in {l} : x.id = m.id /\ x.owner = m.owner
      BY <2>3
    <2> QED
      BY <1>3, <2>4, <2>5, <2>6
  <1>6. ASSUME NEW owner \in Owners, NEW checked \in BOOLEAN, SelectItems(r, owner, checked)
        PROVE  Goal
    <2>1. PICK chosen \in SUBSET LinesOf(owner) :
             cart' = (cart \ chosen) \cup {[l EXCEPT !.checked = checked] : l \in chosen}
      BY <1>6 DEF SelectItems
    <2> DEFINE new == {[l EXCEPT !.checked = checked] : l \in chosen}
    <2>2. \A l \in chosen : l \in CartRow
      BY <1>1 DEF LinesOf
    <2>3. \A l \in new : \E m \in chosen : l.id = m.id /\ l.owner = m.owner
      BY <2>2 DEF CartRow
    <2>4. owner.person = Shopper[r] /\ UNCHANGED lines /\ cart' = (cart \ chosen) \cup new
      BY <1>6, <2>1 DEF SelectItems
    <2> HIDE DEF new
    <2> QED
      BY ZenonT(60), <1>3, <2>3, <2>4
  <1>7. ASSUME NEW owner \in Owners,
               RemoveItem(r, owner) \/ RemoveAll(r, owner) \/ ListCart(r, owner)
        PROVE  Goal
    <2>1. owner.person = Shopper[r] /\ UNCHANGED lines
      BY <1>7 DEF RemoveItem, RemoveAll, ListCart
    <2>2. \E gone \in SUBSET LinesOf(owner) : cart' = cart \ gone
      <3>1. CASE RemoveItem(r, owner) \/ RemoveAll(r, owner)
        BY <3>1 DEF RemoveItem, RemoveAll
      <3>2. CASE ListCart(r, owner)
        <4> DEFINE gone == {l \in LinesOf(owner) : ~shelf[l.product].listed}
        <4>1. cart' = cart \ gone
          BY <3>2 DEF ListCart, LinesOf
        <4> QED
          BY <4>1
      <3> QED
        BY <1>7, <3>1, <3>2
    <2>3. PICK gone \in SUBSET LinesOf(owner) : cart' = (cart \ gone) \cup {}
      BY <2>2
    <2> QED
      BY <1>3, <2>1, <2>3
  <1>8. ASSUME NEW owner \in Owners, NEW shop \in Shops, ChooseShipping(r, owner, shop)
        PROVE  Goal
    <2>1. UNCHANGED <<cart, lines>>
      BY <1>8 DEF ChooseShipping
    <2> QED
      BY <1>1, <2>1 DEF Goal, IdsOwned, LineAfter
  <1>9. ASSUME MergeGuestCart(r)
        PROVE  Goal
    <2> DEFINE guest    == [person |-> Shopper[r], guest |-> TRUE]
               customer == [person |-> Shopper[r], guest |-> FALSE]
               replaced == {l \in LinesOf(customer) :
                               \E m \in LinesOf(guest) : m.product = l.product}
               moved    == {[l EXCEPT !.owner = customer] : l \in LinesOf(guest)}
    <2>1. guest.person = Shopper[r] /\ customer.person = Shopper[r] /\ guest # customer
      OBVIOUS
    <2>2. cart' = (cart \ (LinesOf(guest) \cup replaced)) \cup moved /\ UNCHANGED lines
      BY <1>9 DEF MergeGuestCart
    <2>3. replaced \subseteq LinesOf(customer)
      OBVIOUS
    <2>4. \A l \in moved : l.owner = customer /\ \E m \in LinesOf(guest) : l.id = m.id
      BY <1>1 DEF LinesOf, CartRow
    <2> HIDE DEF guest, customer, replaced, moved
    <2>5. \A l \in cart' : \/ l \in moved
                           \/ l \in cart /\ l.owner # guest
      BY <2>2 DEF LinesOf
    <2>6. \A l \in moved, m \in cart : l.id = m.id => m.owner = guest
      BY <2>4 DEF IdsOwned, LinesOf
    <2>7. IdsOwned'
      <3> SUFFICES ASSUME NEW l \in cart', NEW m \in cart', l.id = m.id
                   PROVE  l.owner = m.owner
        BY DEF IdsOwned
      <3>1. CASE l \in moved /\ m \in moved
        BY <3>1, <2>4
      <3>2. CASE l \notin moved /\ m \notin moved
        BY <3>2, <2>5 DEF IdsOwned
      <3>3. CASE l \in moved /\ m \notin moved
        BY <3>3, <2>5, <2>6
      <3>4. CASE l \notin moved /\ m \in moved
        BY <3>4, <2>5, <2>6
      <3> QED
        BY <3>1, <3>2, <3>3, <3>4
    <2>8. \A l \in cart' : LineAfter(r, l)
      BY <2>1, <2>4, <2>5 DEF LineAfter, LinesOf
    <2>9. \A l : l.owner # guest /\ l.owner # customer => (l \in cart' <=> l \in cart)
      BY <2>2, <2>3, <2>4 DEF LinesOf
    <2> QED
      BY <1>1, <2>1, <2>2, <2>7, <2>8, <2>9 DEF Goal
  <1>10. CASE \E owner \in Owners : CartStep(r, owner)
    <2>1. PICK owner \in Owners : CartStep(r, owner)
      BY <1>10
    <2> QED
      BY <1>2, <1>4, <1>5, <1>6, <1>7, <1>8, <2>1 DEF CartStep, Goal
  <1> QED
    BY <1>9, <1>10 DEF CartEdit, Goal

LEMMA SpentIds ==
    ASSUME TypeOK, IdsSpent, NEW g \in DOMAIN groups, NEW i \in groups[g].items
    PROVE  i.id <= lines /\ \A l \in cart : l.id # i.id
  BY DEF IdsSpent, OrderedIds, Ids

LEMMA OtherCartsKept ==
    ASSUME NEW o, \A l : l.owner = o => (l \in cart' <=> l \in cart)
    PROVE  CheckedItems(o)' = CheckedItems(o)
  <1>1. LinesOf(o)' = LinesOf(o)
    BY DEF LinesOf
  <1> QED
    BY <1>1 DEF CheckedItems

LEMMA LinesInvInit == Init => LinesInv
  BY DEF Init, LinesInv, IdsOwned, IdsKnown, IdsSpent, OrderedIds, BasketIsCart, Carries,
         Idle, LineOrderedOnce, PaidIsOrdered

(* The rows of an edited cart have ids no order has.                       *)
LEMMA LinesInvAfterEdit ==
    ASSUME OneDevice, TypeInv, LinesInv, NEW r \in Reqs, CartEdit(r)
    PROVE  LinesInv'
  <1> USE DEF TypeInv, LinesInv
  <1>1. Starts(r) /\ UNCHANGED <<groups, tx>>
    BY CartEditFrame
  <1>2. /\ IdsOwned'
        /\ \A l \in cart' : LineAfter(r, l)
        /\ lines' >= lines
        /\ \A o \in Owners : o.person # Shopper[r] =>
              \A l : l.owner = o => (l \in cart' <=> l \in cart)
    BY CartEditLines
  <1>3. lines \in Nat /\ lines' \in Nat /\ cart \in SUBSET CartRow
    BY CartEditType DEF TypeOK
  <1>4. IdsKnown'
    <2> SUFFICES ASSUME NEW l \in cart'
                 PROVE  l.id <= lines'
      BY DEF IdsKnown
    <2>1. CASE l.id = lines + 1 /\ lines' = lines + 1
      BY <2>1, <1>3
    <2>2. CASE \E m \in cart : m.id = l.id
      <3>1. PICK m \in cart : m.id = l.id
        BY <2>2
      <3>2. m.id <= lines /\ m.id \in Nat
        BY <1>3 DEF IdsKnown, CartRow
      <3> QED
        BY <1>2, <1>3, <3>1, <3>2
    <2> QED
      BY <1>2, <2>1, <2>2 DEF LineAfter
  <1>5. IdsSpent'
    <2>1. OrderedIds' = OrderedIds
      BY <1>1 DEF OrderedIds
    <2> SUFFICES ASSUME NEW id \in OrderedIds
                 PROVE  id <= lines' /\ \A l \in cart' : l.id # id
      BY <2>1 DEF IdsSpent
    <2>2. id \in Nat /\ id <= lines
      BY GroupAt DEF IdsSpent, OrderedIds, Ids, Item
    <2>3. \A m \in cart : m.id # id
      BY DEF IdsSpent
    <2> QED
      BY <1>2, <1>3, <2>2, <2>3 DEF LineAfter
  <1>6. BasketIsCart'
    <2>1. ASSUME NEW o \in Owners, o.person # Shopper[r]
          PROVE  CheckedItems(o)' = CheckedItems(o)
      BY <1>2, <2>1, OtherCartsKept
    <2> SUFFICES ASSUME NEW o \in Reqs, Carries(o), NEW b, b = tx[o].basket
                 PROVE  /\ b.owner.person = Shopper[o]
                        /\ b.items = CheckedItems(b.owner)'
                        /\ b.method = "WALLET" => b.paidFor = b.items
      BY <1>1 DEF BasketIsCart, Carries
    <2>2. /\ b.owner.person = Shopper[o]
          /\ b.items = CheckedItems(b.owner)
          /\ b.method = "WALLET" => b.paidFor = b.items
      BY DEF BasketIsCart
    <2>3. b.owner \in Owners
      BY BasketInHand DEF Basket
    <2>4. o # r
      BY <1>1 DEF Starts, Busy, Carries
    <2>5. b.owner.person # Shopper[r]
      BY <2>2, <2>4 DEF OneDevice
    <2> QED
      BY <2>1, <2>2, <2>3, <2>5
  <1>7. LineOrderedOnce' /\ PaidIsOrdered'
    BY <1>1 DEF LineOrderedOnce, PaidIsOrdered
  <1> QED
    BY <1>2, <1>4, <1>5, <1>6, <1>7

(* A step that writes neither carts nor orders, and leaves in a slot a     *)
(* basket of its shopper's cart, or none.                                  *)
LEMMA LinesInvAfterHold ==
    ASSUME TypeInv, LinesInv, NEW r \in Reqs, NEW load, Hold(r, load),
           UNCHANGED <<cart, lines, groups>>,
           load.op \in {"priced", "placing", "taking"} =>
               /\ load.basket.owner.person = Shopper[r]
               /\ load.basket.items = CheckedItems(load.basket.owner)
               /\ load.basket.method = "WALLET" => load.basket.paidFor = load.basket.items
    PROVE  LinesInv'
  <1>1. \A o \in Reqs : tx'[o] = IF o = r THEN load ELSE tx[o]
    BY SlotAfter DEF TypeInv
  <1>2. \A o : CheckedItems(o)' = CheckedItems(o)
    BY OtherCartsKept
  <1>3. BasketIsCart'
    <2> SUFFICES ASSUME NEW o \in Reqs, Carries(o)'
                 PROVE  LET b == tx'[o].basket IN
                        /\ b.owner.person = Shopper[o]
                        /\ b.items = CheckedItems(b.owner)
                        /\ b.method = "WALLET" => b.paidFor = b.items
      BY <1>2 DEF BasketIsCart
    <2>1. CASE o = r
      BY <1>1, <2>1 DEF Carries
    <2>2. CASE o # r
      BY <1>1, <2>2 DEF Carries, LinesInv, BasketIsCart
    <2> QED
      BY <2>1, <2>2
  <1> QED
    BY <1>3 DEF LinesInv, IdsOwned, IdsKnown, IdsSpent, OrderedIds, LineOrderedOnce,
                PaidIsOrdered

(* The orders keep their items, and what they were paid for.               *)
LEMMA LinesInvAfterStatus ==
    ASSUME LinesInv, UNCHANGED <<cart, lines>>, DOMAIN groups' = DOMAIN groups,
           \A g \in DOMAIN groups : /\ groups'[g].items = groups[g].items
                                    /\ groups'[g].method = groups[g].method
                                    /\ groups'[g].paidFor = groups[g].paidFor
    PROVE  IdsOwned' /\ IdsKnown' /\ IdsSpent' /\ LineOrderedOnce' /\ PaidIsOrdered'
  <1>1. OrderedIds' = OrderedIds
    BY DEF OrderedIds
  <1> QED
    BY <1>1 DEF LinesInv, IdsOwned, IdsKnown, IdsSpent, LineOrderedOnce, PaidIsOrdered

LEMMA BasketsKept ==
    ASSUME TypeInv, LinesInv, NEW r \in Reqs, Hold(r, Idle), UNCHANGED cart
    PROVE  BasketIsCart'
  <1>1. \A o \in Reqs : Carries(o)' => Carries(o) /\ tx'[o] = tx[o]
    BY SlotAfter, IdleInHand DEF Carries, TypeInv
  <1>2. \A o : CheckedItems(o)' = CheckedItems(o)
    BY OtherCartsKept
  <1> QED
    BY <1>1, <1>2 DEF BasketIsCart, LinesInv

LEMMA LinesInvAfterPlacing ==
    ASSUME OneDevice, TypeInv, LinesInv, NEW r \in Reqs, PlaceOrders(r)
    PROVE  LinesInv'
  <1> DEFINE b == tx[r].basket
             n == Len(groups) + 1
  <1> USE DEF TypeInv, LinesInv
  <1>1. /\ Hold(r, Idle) /\ Carries(r) /\ UNCHANGED lines
        /\ cart' = {l \in cart : ~(l.owner = b.owner /\ l.id \in Ids(b.items))}
    BY DEF PlaceOrders, End, Carries
  <1>2. /\ b \in Basket /\ b.owner \in Owners /\ b.owner.person = Shopper[r]
        /\ b.items = CheckedItems(b.owner)
        /\ b.method = "WALLET" => b.paidFor = b.items
    BY <1>1, BasketInHand DEF BasketIsCart, Basket
  <1>3. /\ DOMAIN groups' = DOMAIN groups \cup {n}
        /\ n \notin DOMAIN groups
        /\ \A g \in DOMAIN groups : groups'[g] = groups[g]
        /\ groups'[n] = NewGroup(b)
    <2>1. Len(groups) \in Nat
      BY DEF TypeOK
    <2>2. 1 .. n = 1 .. Len(groups) \cup {n} /\ n \notin 1 .. Len(groups)
      BY <2>1
    <2>3. DOMAIN groups' = 1 .. n /\ DOMAIN groups = 1 .. Len(groups)
      BY PlaceWrites
    <2>4. groups'[n] = NewGroup(b) /\ \A g \in DOMAIN groups : groups'[g] = groups[g]
      BY PlaceWrites
    <2> HIDE DEF n, b
    <2> QED
      BY <2>2, <2>3, <2>4
  <1>4. NewGroup(b).items = b.items /\ NewGroup(b).method = b.method
        /\ NewGroup(b).paidFor = b.paidFor
    BY DEF NewGroup
  <1>5. \A i \in b.items : \E l \in cart : l.id = i.id /\ l.owner = b.owner
    BY <1>2 DEF CheckedItems, LinesOf
  <1>6. cart' \in SUBSET cart
    BY <1>1
  <1> HIDE DEF b, n
  <1>7. IdsOwned' /\ IdsKnown'
    BY <1>1, <1>6 DEF IdsOwned, IdsKnown
  <1>8. OrderedIds' = OrderedIds \cup Ids(b.items)
    BY <1>3, <1>4 DEF OrderedIds
  <1>9. IdsSpent'
    <2> SUFFICES ASSUME NEW id \in OrderedIds'
                 PROVE  id <= lines /\ \A l \in cart' : l.id # id
      BY <1>1 DEF IdsSpent
    <2>1. CASE id \in OrderedIds
      BY <1>6, <2>1 DEF IdsSpent
    <2>2. CASE id \in Ids(b.items)
      <3>1. PICK m \in cart : m.id = id /\ m.owner = b.owner
        BY <1>5, <2>2 DEF Ids
      <3>2. id <= lines
        BY <3>1 DEF IdsKnown
      <3>3. \A l \in cart : l.id = id => l.owner = b.owner
        BY <3>1 DEF IdsOwned
      <3> QED
        BY <1>1, <2>2, <3>2, <3>3
    <2> QED
      BY <1>8, <2>1, <2>2
  <1>10. BasketIsCart'
    <2> SUFFICES ASSUME NEW o \in Reqs, Carries(o)'
                 PROVE  /\ Carries(o) /\ tx'[o] = tx[o]
                        /\ CheckedItems(tx[o].basket.owner)' = CheckedItems(tx[o].basket.owner)
      BY DEF BasketIsCart
    <2>1. o # r /\ Carries(o) /\ tx'[o] = tx[o]
      BY <1>1, SlotAfter, IdleInHand DEF Carries
    <2>2. tx[o].basket.owner.person = Shopper[o]
      BY <2>1 DEF BasketIsCart
    <2>3. tx[o].basket.owner # b.owner
      BY <1>2, <2>1, <2>2 DEF OneDevice
    <2> QED
      BY <1>1, <2>1, <2>3, OtherCartsKept
  <1>11. LineOrderedOnce'
    <2>1. \A g \in DOMAIN groups : Ids(groups[g].items) \cap Ids(b.items) = {}
      <3> SUFFICES ASSUME NEW g \in DOMAIN groups, NEW id \in Ids(groups[g].items),
                          id \in Ids(b.items)
                   PROVE  FALSE
        OBVIOUS
      <3>1. id \in OrderedIds
        BY DEF OrderedIds
      <3>2. \E l \in cart : l.id = id
        BY <1>5 DEF Ids
      <3> QED
        BY <3>1, <3>2 DEF IdsSpent
    <2> QED
      BY <1>3, <1>4, <2>1 DEF LineOrderedOnce
  <1>12. PaidIsOrdered'
    BY <1>2, <1>3, <1>4 DEF PaidIsOrdered
  <1> QED
    BY <1>7, <1>9, <1>10, <1>11, <1>12

LEMMA LinesInvStep ==
    ASSUME OneDevice, TypeInv, LinesInv, [Next]_vars
    PROVE  LinesInv'
  <1> USE DEF TypeInv
  <1>1. ASSUME UNCHANGED <<cart, lines, groups, tx>>
        PROVE  LinesInv'
    <2>1. \A o : CheckedItems(o)' = CheckedItems(o)
      BY <1>1, OtherCartsKept
    <2>2. BasketIsCart'
      BY <1>1, <2>1 DEF LinesInv, BasketIsCart, Carries
    <2> QED
      BY <1>1, <2>2, LinesInvAfterStatus DEF LinesInv
  <1>2. ASSUME NEW r \in Reqs, CartEdit(r)
        PROVE  LinesInv'
    BY <1>2, LinesInvAfterEdit
  <1>3. ASSUME NEW r \in Reqs, NEW owner \in Owners, NEW coupon \in BOOLEAN,
               BeginWallet(r, owner, coupon)
        PROVE  LinesInv'
    <2> DEFINE load == [op |-> "priced",
                        basket |-> [owner |-> owner, method |-> "WALLET",
                                    coupon |-> coupon, items |-> CheckedItems(owner),
                                    paidFor |-> CheckedItems(owner)]]
    <2>1. Hold(r, load) /\ UNCHANGED <<cart, lines, groups>> /\ owner.person = Shopper[r]
      BY <1>3 DEF BeginWallet, store
    <2>2. /\ load.basket.owner = owner
          /\ load.basket.items = CheckedItems(owner)
          /\ load.basket.paidFor = CheckedItems(owner)
      OBVIOUS
    <2> HIDE DEF load
    <2> QED
      BY <2>1, <2>2, LinesInvAfterHold
  <1>4. ASSUME NEW r \in Reqs, NEW owner \in Owners, NEW coupon \in BOOLEAN,
               BeginCod(r, owner, coupon)
        PROVE  LinesInv'
    <2> DEFINE load == [op |-> "placing",
                        basket |-> [owner |-> owner, method |-> "CASH_ON_DELIVERY",
                                    coupon |-> coupon, items |-> CheckedItems(owner),
                                    paidFor |-> {}]]
    <2>1. Hold(r, load) /\ UNCHANGED <<cart, lines, groups>> /\ owner.person = Shopper[r]
      BY <1>4 DEF BeginCod, store
    <2>2. /\ load.basket.owner = owner
          /\ load.basket.items = CheckedItems(owner)
          /\ load.basket.method # "WALLET"
      OBVIOUS
    <2> HIDE DEF load
    <2> QED
      BY <2>1, <2>2, LinesInvAfterHold
  <1>5. ASSUME NEW r \in Reqs, LoadCart(r)
        PROVE  LinesInv'
    <2> DEFINE b == tx[r].basket
               again == [b EXCEPT !.items = CheckedItems(b.owner)]
               load == [op |-> "placing", basket |-> again]
    <2>1. Hold(r, load) /\ UNCHANGED <<cart, lines, groups>> /\ Carries(r)
      BY <1>5 DEF LoadCart, store, Carries
    <2>2. b \in Basket /\ b.owner.person = Shopper[r] /\ b.items = CheckedItems(b.owner)
          /\ (b.method = "WALLET" => b.paidFor = b.items)
      BY <2>1, BasketInHand DEF LinesInv, BasketIsCart
    <2>3. again = b
      BY <2>2 DEF Basket
    <2>4. load.basket = b
      BY <2>3
    <2> HIDE DEF load, b
    <2> QED
      BY <2>1, <2>2, <2>4, LinesInvAfterHold
  <1>6. ASSUME NEW r \in Reqs, TakeStock(r)
        PROVE  LinesInv'
    <2> DEFINE b == tx[r].basket
               load == [op |-> "taking", basket |-> b,
                        number |-> Len(groups), stock |-> StockNow]
    <2>1. Hold(r, load) /\ UNCHANGED <<cart, lines, groups>> /\ Carries(r)
      BY <1>6 DEF TakeStock, store, Carries
    <2>2. load.basket = b
      OBVIOUS
    <2>3. b.owner.person = Shopper[r] /\ b.items = CheckedItems(b.owner)
          /\ (b.method = "WALLET" => b.paidFor = b.items)
      BY <2>1 DEF LinesInv, BasketIsCart
    <2> HIDE DEF load, b
    <2> QED
      BY <2>1, <2>2, <2>3, LinesInvAfterHold
  <1>7. ASSUME NEW r \in Reqs, PlaceOrders(r)
        PROVE  LinesInv'
    BY <1>7, LinesInvAfterPlacing
  <1>8. ASSUME NEW r \in Reqs, NEW load, Hold(r, load), UNCHANGED <<cart, lines, groups>>,
               load.op \notin {"priced", "placing", "taking"}
        PROVE  LinesInv'
    BY <1>8, LinesInvAfterHold
  <1>9. ASSUME NEW r \in Reqs, NEW g \in DOMAIN groups, BeginCancel(r, g)
        PROVE  LinesInv'
    BY <1>8, <1>9 DEF BeginCancel, store
  <1>10. ASSUME NEW r \in Reqs, CancelOrders(r)
         PROVE  LinesInv'
    <2> DEFINE g == tx[r].g
    <2>1. Hold(r, Idle) /\ UNCHANGED <<cart, lines>>
      BY <1>10 DEF CancelOrders, End
    <2>2. /\ g \in DOMAIN groups /\ groups \in Seq(GroupRow)
          /\ CanceledRow(r) \in GroupRow
          /\ groups' = [groups EXCEPT ![g] = CanceledRow(r)]
      BY <1>10, CancelWrites DEF TypeOK
    <2>3. /\ CanceledRow(r).items = groups[g].items
          /\ CanceledRow(r).method = groups[g].method
          /\ CanceledRow(r).paidFor = groups[g].paidFor
      BY <2>2, GroupAt DEF CanceledRow, GroupRow
    <2>4. /\ DOMAIN groups' = DOMAIN groups
          /\ \A h \in DOMAIN groups : /\ groups'[h].items = groups[h].items
                                      /\ groups'[h].method = groups[h].method
                                      /\ groups'[h].paidFor = groups[h].paidFor
      BY <2>2, <2>3, ReplaceRow
    <2> QED
      BY <2>1, <2>4, BasketsKept, LinesInvAfterStatus DEF LinesInv
  <1>11. ASSUME NEW g \in DOMAIN groups, NEW s \in Shops, NEW status \in OrderStatus,
                SetStatus(g, s, status)
         PROVE  LinesInv'
    <2>1. UNCHANGED <<cart, lines, tx>>
      BY <1>11 DEF SetStatus
    <2>2. /\ groups \in Seq(GroupRow) /\ StatusRow(g, s, status) \in GroupRow
          /\ groups' = [groups EXCEPT ![g] = StatusRow(g, s, status)]
      BY <1>11, StatusWrites DEF TypeOK
    <2>3. /\ StatusRow(g, s, status).items = groups[g].items
          /\ StatusRow(g, s, status).method = groups[g].method
          /\ StatusRow(g, s, status).paidFor = groups[g].paidFor
      BY <2>2, GroupAt DEF StatusRow, GroupRow
    <2>4. /\ DOMAIN groups' = DOMAIN groups
          /\ \A h \in DOMAIN groups : /\ groups'[h].items = groups[h].items
                                      /\ groups'[h].method = groups[h].method
                                      /\ groups'[h].paidFor = groups[h].paidFor
      BY <2>2, <2>3, ReplaceRow
    <2>5. BasketIsCart'
      <3>1. \A o : CheckedItems(o)' = CheckedItems(o)
        BY <2>1, OtherCartsKept
      <3> QED
        BY <2>1, <3>1 DEF LinesInv, BasketIsCart, Carries
    <2> QED
      BY <2>1, <2>4, <2>5, LinesInvAfterStatus DEF LinesInv
  <1>12. ASSUME NEW p \in Products, Restock(p)
         PROVE  LinesInv'
    BY <1>1, <1>12 DEF Restock
  <1>13. CASE UNCHANGED vars
    BY <1>1, <1>13 DEF vars, store
  <1>14. ASSUME NEW r \in Reqs, ReadStock(r) \/ Abandon(r)
         PROVE  LinesInv'
    <2>1. CASE ReadStock(r)
      BY <1>8, <2>1 DEF ReadStock, store
    <2>2. CASE Abandon(r)
      BY <1>8, <2>2, IdleInHand DEF Abandon, End, store
    <2> QED
      BY <1>14, <2>1, <2>2
  <1> QED
    BY <1>2, <1>3, <1>4, <1>5, <1>6, <1>7, <1>9, <1>10, <1>11, <1>12, <1>13, <1>14
       DEF Next, CartEdit, CheckoutStep, CancelStep, SellerStep

(* Two requests of one shopper aside, a line of a cart is in the orders of *)
(* one checkout at most: PlaceOrders deletes exactly what it has ordered.  *)
THEOREM LinesAreOrderedOnce == ASSUME OneDevice PROVE Spec => []LineOrderedOnce
<1>1. LinesInv => LineOrderedOnce
  BY DEF LinesInv
<1> QED
  BY <1>1, TypeInvInit, TypeInvStep, LinesInvInit, LinesInvStep, PTL DEF Spec

(* Two requests of one shopper aside, the cart that place_wallet_order     *)
(* prices is the cart the orders are made of.                              *)
THEOREM WalletPaysForTheOrders == ASSUME OneDevice PROVE Spec => []PaidIsOrdered
<1>1. LinesInv => PaidIsOrdered
  BY DEF LinesInv
<1> QED
  BY <1>1, TypeInvInit, TypeInvStep, LinesInvInit, LinesInvStep, PTL DEF Spec

(***************************************************************************)
(* Then the coupon of a customer.                                          *)
(***************************************************************************)
UsesOf(owner) == GroupsOf(owner) \cap Uses

UsesInLimit == \A o \in Owners : Cardinality(UsesOf(o)) <= UsageLimit

UsesAreFirst ==
    \A g \in Uses : /\ ~groups[g].owner.guest
                    /\ FirstOnly => \A h \in GroupsOf(groups[g].owner) : h >= g

(* What calculate_discount has found of an owner is still so.              *)
CouponIsDue(owner) ==
    /\ ~owner.guest
    /\ Cardinality(UsesOf(owner)) < UsageLimit
    /\ FirstOnly => GroupsOf(owner) = {}

CouponsAreDue ==
    \A r \in Reqs : Carries(r) /\ tx[r].basket.coupon => CouponIsDue(tx[r].basket.owner)

UsageInv == UsesInLimit /\ UsesAreFirst /\ CouponsAreDue

LEMMA UsageInvInit == Init => UsageInv
  <1> SUFFICES ASSUME Init
               PROVE  UsageInv
    OBVIOUS
  <1>1. Uses = {} /\ \A o : UsesOf(o) = {}
    BY DEF Init, Uses, UsesOf
  <1>2. Cardinality({}) = 0
    BY FS_EmptySet
  <1>3. UsesInLimit
    BY <1>1, <1>2, LimitsAssumption DEF UsesInLimit
  <1>4. CouponsAreDue
    BY DEF Init, CouponsAreDue, Carries, Idle
  <1> QED
    BY <1>1, <1>3, <1>4 DEF UsageInv, UsesAreFirst

LEMMA UsesOfFinite ==
    ASSUME TypeOK, NEW o
    PROVE  IsFiniteSet(UsesOf(o)) /\ Cardinality(UsesOf(o)) \in Nat
  BY UsesFinite, FS_Subset, FS_CardinalityType DEF UsesOf

(* Every step but PlaceOrders keeps the owners of the groups and the uses. *)
GroupsKept ==
    /\ DOMAIN groups' = DOMAIN groups
    /\ \A g \in DOMAIN groups : /\ groups'[g].owner = groups[g].owner
                                /\ groups'[g].coupon <=> groups[g].coupon

LEMMA CountsKept ==
    ASSUME GroupsKept
    PROVE  /\ Uses' = Uses
           /\ \A o : GroupsOf(o)' = GroupsOf(o)
           /\ \A o : UsesOf(o)' = UsesOf(o)
           /\ \A o : CouponIsDue(o) => CouponIsDue(o)'
  <1>1. Uses' = Uses
    BY DEF GroupsKept, Uses
  <1>2. ASSUME NEW o
        PROVE  GroupsOf(o)' = GroupsOf(o)
    BY DEF GroupsKept, GroupsOf
  <1>3. ASSUME NEW o
        PROVE  UsesOf(o)' = UsesOf(o)
    BY <1>1, <1>2 DEF UsesOf
  <1>4. ASSUME NEW o, CouponIsDue(o)
        PROVE  CouponIsDue(o)'
    BY <1>2, <1>3, <1>4 DEF CouponIsDue
  <1> QED
    BY <1>1, <1>2, <1>3, <1>4

LEMMA UsesKept ==
    ASSUME UsageInv, GroupsKept
    PROVE  UsesInLimit' /\ UsesAreFirst'
  <1>1. /\ Uses' = Uses
        /\ \A o : GroupsOf(o)' = GroupsOf(o)
        /\ \A o : UsesOf(o)' = UsesOf(o)
    BY CountsKept
  <1>2. UsesInLimit'
    BY <1>1 DEF UsageInv, UsesInLimit
  <1>3. \A g \in Uses : g \in DOMAIN groups /\ groups'[g].owner = groups[g].owner
    BY DEF GroupsKept, Uses
  <1>4. UsesAreFirst'
    <2> SUFFICES ASSUME NEW g \in Uses, NEW o, o = groups[g].owner
                 PROVE  ~o.guest /\ (FirstOnly => \A h \in GroupsOf(o)' : h >= g)
      BY <1>1, <1>3 DEF UsesAreFirst
    <2> QED
      BY <1>1 DEF UsageInv, UsesAreFirst
  <1> QED
    BY <1>2, <1>4

LEMMA UsageInvAfterHold ==
    ASSUME TypeInv, UsageInv, NEW r \in Reqs, NEW load, Hold(r, load), GroupsKept,
           load.op \in {"priced", "placing", "taking"} /\ load.basket.coupon =>
               CouponIsDue(load.basket.owner)
    PROVE  UsageInv'
  <1>1. \A o \in Reqs : tx'[o] = IF o = r THEN load ELSE tx[o]
    BY SlotAfter DEF TypeInv
  <1>2. \A o : CouponIsDue(o) => CouponIsDue(o)'
    BY CountsKept
  <1>3. CouponsAreDue'
    <2> SUFFICES ASSUME NEW o \in Reqs, Carries(o)', tx'[o].basket.coupon,
                        NEW owner, owner = tx'[o].basket.owner
                 PROVE  CouponIsDue(owner)
      BY <1>2 DEF CouponsAreDue
    <2>1. CASE o = r
      BY <1>1, <2>1 DEF Carries
    <2>2. CASE o # r
      BY <1>1, <2>2 DEF Carries, UsageInv, CouponsAreDue
    <2> QED
      BY <2>1, <2>2
  <1> QED
    BY <1>3, UsesKept DEF UsageInv

LEMMA UsageInvAfterPlacing ==
    ASSUME OneDevice, TypeInv, LinesInv, UsageInv, NEW r \in Reqs, PlaceOrders(r)
    PROVE  UsageInv'
  <1> DEFINE b == tx[r].basket
             n == Len(groups) + 1
  <1> USE DEF TypeInv
  <1>1. Hold(r, Idle) /\ Carries(r)
    BY DEF PlaceOrders, End, Carries
  <1>2. b \in Basket /\ b.owner \in Owners /\ b.owner.person = Shopper[r]
    BY <1>1, BasketInHand DEF LinesInv, BasketIsCart, Basket
  <1>3. b.coupon => CouponIsDue(b.owner)
    BY <1>1 DEF UsageInv, CouponsAreDue
  <1>4. Uses' = IF b.coupon THEN Uses \cup {n} ELSE Uses
    BY UsesAfterPlacing
  <1>5. /\ DOMAIN groups' = DOMAIN groups \cup {n}
        /\ n \notin DOMAIN groups
        /\ \A g \in DOMAIN groups : g < n /\ groups'[g] = groups[g]
        /\ groups'[n].owner = b.owner
    <2>1. Len(groups) \in Nat
      BY DEF TypeOK
    <2>2. /\ 1 .. n = 1 .. Len(groups) \cup {n} /\ n \notin 1 .. Len(groups)
          /\ \A g \in 1 .. Len(groups) : g < n
      BY <2>1
    <2>3. DOMAIN groups' = 1 .. n /\ DOMAIN groups = 1 .. Len(groups)
      BY PlaceWrites
    <2>4. groups'[n] = NewGroup(b) /\ \A g \in DOMAIN groups : groups'[g] = groups[g]
      BY PlaceWrites
    <2>5. NewGroup(b).owner = b.owner
      BY DEF NewGroup
    <2> HIDE DEF n, b
    <2> QED
      BY <2>2, <2>3, <2>4, <2>5
  <1> HIDE DEF n, b
  <1>6. ASSUME NEW o
        PROVE  GroupsOf(o)' = IF o = b.owner THEN GroupsOf(o) \cup {n} ELSE GroupsOf(o)
    BY <1>5 DEF GroupsOf
  <1>7. n \notin Uses /\ \A o : n \notin GroupsOf(o)
    BY <1>5 DEF Uses, GroupsOf
  <1>8. ASSUME NEW o
        PROVE  UsesOf(o)' = IF o = b.owner /\ b.coupon THEN UsesOf(o) \cup {n} ELSE UsesOf(o)
    BY <1>4, <1>6, <1>7 DEF UsesOf
  <1>9. UsesInLimit'
    <2> SUFFICES ASSUME NEW o \in Owners
                 PROVE  Cardinality(UsesOf(o)') <= UsageLimit
      BY DEF UsesInLimit
    <2>1. CASE o = b.owner /\ b.coupon
      <3> DEFINE used == UsesOf(o)
                 more == used \cup {n}
      <3>1. IsFiniteSet(used) /\ Cardinality(used) \in Nat
        BY UsesOfFinite
      <3>2. Cardinality(used) < UsageLimit
        BY <1>3, <2>1 DEF CouponIsDue
      <3>3. Cardinality(more) = Cardinality(used) \/ Cardinality(more) = Cardinality(used) + 1
        <4> HIDE DEF used
        <4> QED
          BY <3>1, FS_AddElement
      <3>4. Cardinality(more) <= UsageLimit
        <4> HIDE DEF used, more
        <4> QED
          BY <3>1, <3>2, <3>3, LimitsAssumption
      <3> QED
        BY <1>8, <2>1, <3>4
    <2>2. CASE ~(o = b.owner /\ b.coupon)
      BY <1>8, <2>2 DEF UsageInv, UsesInLimit
    <2> QED
      BY <2>1, <2>2
  <1>10. UsesAreFirst'
    <2> SUFFICES ASSUME NEW g \in Uses', NEW o, o = groups'[g].owner
                 PROVE  ~o.guest /\ (FirstOnly => \A h \in GroupsOf(o)' : h >= g)
      BY DEF UsesAreFirst
    <2>1. CASE g = n /\ b.coupon
      <3>1. o = b.owner /\ CouponIsDue(o)
        BY <1>3, <1>5, <2>1
      <3>2. n \in Int
        BY DEF TypeOK, n
      <3>3. FirstOnly => GroupsOf(o)' = {n}
        BY <1>6, <3>1 DEF CouponIsDue
      <3> QED
        BY <2>1, <3>1, <3>2, <3>3 DEF CouponIsDue
    <2>2. CASE g \in Uses
      <3>1. g \in DOMAIN groups /\ o = groups[g].owner /\ g \in Int /\ n \in Int /\ g < n
        <4>1. g \in DOMAIN groups
          BY <2>2 DEF Uses
        <4>2. g \in Int /\ n \in Int
          BY <4>1, GroupAt DEF n, TypeOK
        <4> QED
          BY <1>5, <4>1, <4>2
      <3>2. ~o.guest /\ (FirstOnly => \A h \in GroupsOf(o) : h >= g)
        BY <2>2, <3>1 DEF UsageInv, UsesAreFirst
      <3>3. \A h \in GroupsOf(o)' : h \in GroupsOf(o) \/ h = n
        BY <1>6
      <3> QED
        BY <3>1, <3>2, <3>3
    <2> QED
      BY <1>4, <2>1, <2>2
  <1>11. CouponsAreDue'
    <2> SUFFICES ASSUME NEW o \in Reqs, Carries(o)', tx'[o].basket.coupon,
                        NEW owner, owner = tx'[o].basket.owner
                 PROVE  CouponIsDue(owner)'
      BY DEF CouponsAreDue
    <2>1. o # r /\ Carries(o) /\ tx'[o] = tx[o]
      BY <1>1, SlotAfter, IdleInHand DEF Carries
    <2>2. owner.person = Shopper[o] /\ CouponIsDue(owner)
      BY <2>1 DEF LinesInv, BasketIsCart, UsageInv, CouponsAreDue
    <2>3. owner # b.owner
      BY <1>2, <2>1, <2>2 DEF OneDevice
    <2>4. GroupsOf(owner)' = GroupsOf(owner) /\ UsesOf(owner)' = UsesOf(owner)
      BY <1>6, <1>8, <2>3
    <2> QED
      BY <2>2, <2>4 DEF CouponIsDue
  <1> QED
    BY <1>9, <1>10, <1>11 DEF UsageInv

LEMMA UsageInvStep ==
    ASSUME OneDevice, TypeInv, LinesInv, UsageInv, [Next]_vars
    PROVE  UsageInv'
  <1> USE DEF TypeInv
  <1>1. ASSUME GroupsKept, UNCHANGED tx
        PROVE  UsageInv'
    <2>1. \A o : CouponIsDue(o) => CouponIsDue(o)'
      BY <1>1, CountsKept
    <2>2. CouponsAreDue'
      <3> SUFFICES ASSUME NEW o \in Reqs, Carries(o), tx[o].basket.coupon,
                          NEW owner, owner = tx[o].basket.owner
                   PROVE  CouponIsDue(owner)
        BY <1>1, <2>1 DEF CouponsAreDue, Carries
      <3> QED
        BY DEF UsageInv, CouponsAreDue
    <2> QED
      BY <1>1, <2>2, UsesKept DEF UsageInv
  <1>2. UNCHANGED groups => GroupsKept
    BY DEF GroupsKept
  <1>3. ASSUME NEW r \in Reqs, CartEdit(r)
        PROVE  UsageInv'
    BY <1>1, <1>2, <1>3, CartEditFrame
  <1>4. ASSUME NEW r \in Reqs, NEW owner \in Owners, NEW coupon \in BOOLEAN,
               BeginWallet(r, owner, coupon)
        PROVE  UsageInv'
    <2> DEFINE load == [op |-> "priced",
                        basket |-> [owner |-> owner, method |-> "WALLET",
                                    coupon |-> coupon, items |-> CheckedItems(owner),
                                    paidFor |-> CheckedItems(owner)]]
    <2>1. Hold(r, load) /\ UNCHANGED groups
      BY <1>4 DEF BeginWallet, store
    <2>2. load.basket.owner = owner /\ (load.basket.coupon <=> coupon)
      OBVIOUS
    <2>3. coupon => CouponIsDue(owner)
      BY <1>4 DEF BeginWallet, CouponValid, CouponIsDue, UsesOf
    <2> HIDE DEF load
    <2> QED
      BY <1>2, <2>1, <2>2, <2>3, UsageInvAfterHold
  <1>5. ASSUME NEW r \in Reqs, NEW owner \in Owners, NEW coupon \in BOOLEAN,
               BeginCod(r, owner, coupon)
        PROVE  UsageInv'
    <2> DEFINE load == [op |-> "placing",
                        basket |-> [owner |-> owner, method |-> "CASH_ON_DELIVERY",
                                    coupon |-> coupon, items |-> CheckedItems(owner),
                                    paidFor |-> {}]]
    <2>1. Hold(r, load) /\ UNCHANGED groups
      BY <1>5 DEF BeginCod, store
    <2>2. load.basket.owner = owner /\ (load.basket.coupon <=> coupon)
      OBVIOUS
    <2>3. coupon => CouponIsDue(owner)
      BY <1>5 DEF BeginCod, CouponValid, CouponIsDue, UsesOf
    <2> HIDE DEF load
    <2> QED
      BY <1>2, <2>1, <2>2, <2>3, UsageInvAfterHold
  <1>6. ASSUME NEW r \in Reqs, LoadCart(r)
        PROVE  UsageInv'
    <2> DEFINE b == tx[r].basket
               again == [b EXCEPT !.items = CheckedItems(b.owner)]
               load == [op |-> "placing", basket |-> again]
    <2>1. Hold(r, load) /\ UNCHANGED groups /\ Carries(r)
      BY <1>6 DEF LoadCart, store, Carries
    <2>2. b.coupon => CouponIsDue(b.owner)
      BY <2>1 DEF UsageInv, CouponsAreDue
    <2>3. load.basket.owner = b.owner /\ (load.basket.coupon <=> b.coupon)
      BY <2>1, BasketInHand DEF Basket
    <2> HIDE DEF load, b
    <2> QED
      BY <1>2, <2>1, <2>2, <2>3, UsageInvAfterHold
  <1>7. ASSUME NEW r \in Reqs, TakeStock(r)
        PROVE  UsageInv'
    <2> DEFINE b == tx[r].basket
               load == [op |-> "taking", basket |-> b,
                        number |-> Len(groups), stock |-> StockNow]
    <2>1. Hold(r, load) /\ UNCHANGED groups /\ Carries(r)
      BY <1>7 DEF TakeStock, store, Carries
    <2>2. b.coupon => CouponIsDue(b.owner)
      BY <2>1 DEF UsageInv, CouponsAreDue
    <2>3. load.basket = b
      OBVIOUS
    <2> HIDE DEF load, b
    <2> QED
      BY <1>2, <2>1, <2>2, <2>3, UsageInvAfterHold
  <1>8. ASSUME NEW r \in Reqs, NEW load, Hold(r, load), GroupsKept,
               load.op \notin {"priced", "placing", "taking"}
        PROVE  UsageInv'
    BY <1>8, UsageInvAfterHold
  <1>9. ASSUME NEW r \in Reqs, NEW g \in DOMAIN groups, BeginCancel(r, g)
        PROVE  UsageInv'
    BY <1>2, <1>8, <1>9 DEF BeginCancel, store
  <1>10. ASSUME NEW r \in Reqs, ReadStock(r)
         PROVE  UsageInv'
    BY <1>2, <1>8, <1>10 DEF ReadStock, store
  <1>11. ASSUME NEW r \in Reqs, Abandon(r)
         PROVE  UsageInv'
    BY <1>2, <1>8, <1>11, IdleInHand DEF Abandon, End, store
  <1>12. ASSUME NEW r \in Reqs, PlaceOrders(r)
         PROVE  UsageInv'
    BY <1>12, UsageInvAfterPlacing
  <1>13. ASSUME NEW r \in Reqs, CancelOrders(r)
         PROVE  UsageInv'
    <2>1. Hold(r, Idle)
      BY <1>13 DEF CancelOrders, End
    <2>2. /\ tx[r].g \in DOMAIN groups /\ groups \in Seq(GroupRow)
          /\ CanceledRow(r) \in GroupRow
          /\ groups' = [groups EXCEPT ![tx[r].g] = CanceledRow(r)]
      BY <1>13, CancelWrites DEF TypeOK
    <2>3. /\ CanceledRow(r).owner = groups[tx[r].g].owner
          /\ CanceledRow(r).coupon = groups[tx[r].g].coupon
      BY <2>2, GroupAt DEF CanceledRow, GroupRow
    <2>4. GroupsKept
      BY <2>2, <2>3, ReplaceRow DEF GroupsKept
    <2> QED
      BY <1>8, <2>1, <2>4, IdleInHand
  <1>14. ASSUME NEW g \in DOMAIN groups, NEW s \in Shops, NEW status \in OrderStatus,
                SetStatus(g, s, status)
         PROVE  UsageInv'
    <2>1. UNCHANGED tx
      BY <1>14 DEF SetStatus
    <2>2. /\ groups \in Seq(GroupRow) /\ StatusRow(g, s, status) \in GroupRow
          /\ groups' = [groups EXCEPT ![g] = StatusRow(g, s, status)]
      BY <1>14, StatusWrites DEF TypeOK
    <2>3. /\ StatusRow(g, s, status).owner = groups[g].owner
          /\ StatusRow(g, s, status).coupon = groups[g].coupon
      BY <2>2, GroupAt DEF StatusRow, GroupRow
    <2>4. GroupsKept
      BY <2>2, <2>3, ReplaceRow DEF GroupsKept
    <2> QED
      BY <1>1, <2>1, <2>4
  <1>15. ASSUME NEW p \in Products, Restock(p)
         PROVE  UsageInv'
    BY <1>1, <1>2, <1>15 DEF Restock
  <1>16. CASE UNCHANGED vars
    BY <1>1, <1>2, <1>16 DEF vars, store
  <1> QED
    BY <1>3, <1>4, <1>5, <1>6, <1>7, <1>9, <1>10, <1>11, <1>12, <1>13, <1>14, <1>15, <1>16
       DEF Next, CartEdit, CheckoutStep, CancelStep, SellerStep

(* Two requests of one shopper aside, a customer uses the coupon           *)
(* usage_limit times at most, and a first-order coupon only on his first   *)
(* order, though the usages are counted long before one is recorded.       *)
THEOREM CustomersKeepToTheCoupon == ASSUME OneDevice PROVE Spec => []CustomerWithinLimit
<1>1. TypeOK /\ UsageInv => CustomerWithinLimit
  <2> SUFFICES ASSUME TypeOK, UsageInv, NEW g \in Uses
               PROVE  /\ ~groups[g].owner.guest
                      /\ Cardinality({h \in Uses : groups[h].owner = groups[g].owner})
                            <= UsageLimit
                      /\ FirstOnly => \A h \in GroupsOf(groups[g].owner) : h >= g
    BY DEF CustomerWithinLimit
  <2>1. groups[g].owner \in Owners
    BY GroupAt DEF Uses
  <2>2. {h \in Uses : groups[h].owner = groups[g].owner} = UsesOf(groups[g].owner)
    BY DEF UsesOf, GroupsOf, Uses
  <2> QED
    BY <2>1, <2>2 DEF UsageInv, UsesInLimit, UsesAreFirst
<1>2. TypeInv => TypeOK
  BY DEF TypeInv
<1> QED
  BY <1>1, <1>2, TypeInvInit, TypeInvStep, LinesInvInit, LinesInvStep, UsageInvInit,
     UsageInvStep, PTL DEF Spec

(* With one request per shopper in flight, a checkout orders what it has   *)
(* priced and keeps to the coupon.                                         *)
THEOREM CheckoutsAreKept == ASSUME OneDevice PROVE Spec => []CheckoutKept
<1>1. PaidIsOrdered /\ CustomerWithinLimit => CheckoutKept
  BY DEF CheckoutKept
<1> QED
  BY <1>1, WalletPaysForTheOrders, CustomersKeepToTheCoupon, PTL

(* Until requests overlap, stock and coupon add up.                        *)
THEOREM StockAndCouponAreSound == Spec => []StockAndCouponAddUp
<1>1. TypeOK /\ StockAddsUp /\ CouponWithinTotal => StockAndCouponAddUp
  BY DEF StockAndCouponAddUp
<1> QED
  BY <1>1, TypeCorrect, NoUnitIsSoldTwice, CouponIsLimited, PTL
=============================================================================
