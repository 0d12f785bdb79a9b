------------------------------- MODULE Checkout -------------------------------
(***************************************************************************)
(* The checkout of the shop: carts of customers and guests, the stock they *)
(* compete for, one coupon, and the orders a checkout makes, one per shop  *)
(* of the cart, all of one order_group_id.                                 *)
(*                                                                         *)
(* A checkout is four steps, between which other requests may commit.  A   *)
(* wallet checkout first prices the cart (checkout_total).  Then the cart  *)
(* is loaded and its stock, shipping and coupon are checked; nothing is    *)
(* locked.  Then the orders are counted for the next public_id and the     *)
(* stock is read once more.  Then everything is written.  The unique index *)
(* on public_id lets only one of the checkouts that counted alike commit.  *)
(* A request that only edits a cart writes rows of one owner: one step. So *)
(* is one of a seller: what it writes does not depend on what it has read. *)
(*                                                                         *)
(* A person owns the cart of a customer account and that of a guest id.    *)
(* Left out: prices (a line stands for itself), minimum quantities, the    *)
(* wallet (ShopWallet) and the payment of an order through Pesapal.        *)
(* History: `overlapped' says whether some request ever began while        *)
(* another was in flight; until then `phantom' counts the units that a     *)
(* checkout or a cancellation left on the shelf, or made vanish from it,   *)
(* besides the ones it moved; and of an order group, `returned' counts how *)
(* often its stock was given back and `revived' says whether an order in   *)
(* it was taken out of CANCELED.                                           *)
(***************************************************************************)
EXTENDS Integers, Sequences, FiniteSets

CONSTANTS
    Reqs,           \* request slots of the shoppers
    Persons,        \* the shoppers
    Guests,         \* the shoppers who came with a guest id
    Shopper,        \* the person whose request is in a slot
    Products,
    Shops,
    ShopOf,         \* the shop of a product
    UsageLimit,     \* ecommerce_coupons.usage_limit
    TotalLimit,     \* ecommerce_coupons.total_limit
    FirstOnly,      \* whether coupon_type is FIRST_ORDER
    MaxStock,       \* bound: units a seller may put on the shelf
    MaxLines,       \* bound: lines ever put into a cart
    MaxGroups,      \* bound: checkouts
    MaxReturns,     \* bound: cancellations of one checkout
    MaxUpdates      \* bound: what sellers and admins do

ASSUME SlotsAssumption ==
    /\ Shopper \in [Reqs -> Persons]
    /\ Guests \subseteq Persons

ASSUME ShopAssumption == ShopOf \in [Products -> Shops]

ASSUME LimitsAssumption ==
    /\ UsageLimit \in Nat /\ TotalLimit \in Nat /\ FirstOnly \in BOOLEAN
    /\ MaxStock \in Nat /\ MaxLines \in Nat
    /\ MaxGroups \in Nat /\ MaxReturns \in Nat /\ MaxUpdates \in Nat

VARIABLES
    shelf,      \* the rows of ecommerce_products
    cart,       \* the rows of ecommerce_cart_items
    lines,      \* how many rows the cart table ever had
    shipping,   \* ecommerce_cart_shipping: the owner and the shop
    groups,     \* the orders of each order_group_id, with the coupon's usage
    updates,    \* how many requests of sellers and admins there were
    phantom,    \* history
    overlapped, \* history
    tx          \* what the request in each slot has loaded

store == <<shelf, cart, lines, shipping, groups, updates, phantom>>
vars == <<store, overlapped, tx>>

-----------------------------------------------------------------------------
Owners == [person : Persons, guest : {FALSE}] \cup [person : Guests, guest : {TRUE}]

(* listed: the product is PUBLISHED; soldOut: its stock_status.            *)
ShelfRow == [stock : Nat, soldOut : BOOLEAN, listed : BOOLEAN]

(* The columns of it that a checkout or a cancellation writes.             *)
Stock == [stock : Nat, soldOut : BOOLEAN]

CartRow == [id : Nat, owner : Owners, product : Products,
            qty : Nat \ {0}, checked : BOOLEAN]

Item == [id : Nat, product : Products, qty : Nat \ {0}]

(* PROCESSING stands for the statuses cancel_order refuses.                *)
OrderStatus == {"PENDING", "CONFIRMED", "PROCESSING", "CANCELED"}

Methods == {"CASH_ON_DELIVERY", "WALLET"}

GroupRow == [owner : Owners, method : Methods, coupon : BOOLEAN,
             items : SUBSET Item, paidFor : SUBSET Item,
             status : [Shops -> OrderStatus],
             returned : Nat, revived : BOOLEAN]

Idle == [op |-> "idle"]

Basket == [owner : Owners, method : Methods, coupon : BOOLEAN,
           items : SUBSET Item, paidFor : SUBSET Item]

Tx == [op : {"idle"}]
      \cup [op : {"priced", "placing"}, basket : Basket]
      \cup [op : {"taking"}, basket : Basket, number : Nat,
            stock : [Products -> Stock]]
      \cup [op : {"canceling"}, g : Nat, status : [Shops -> OrderStatus]]
      \cup [op : {"giving"}, g : Nat, status : [Shops -> OrderStatus],
            stock : [Products -> Stock]]

(* The type invariant: rows, and the rows a request has in hand, are rows. *)
TypeOK ==
    /\ shelf \in [Products -> ShelfRow]
    /\ cart \in SUBSET CartRow
    /\ lines \in Nat
    /\ shipping \in SUBSET (Owners \X Shops)
    /\ groups \in Seq(GroupRow)
    /\ updates \in Nat
    /\ phantom \in [Products -> Int]
    /\ overlapped \in BOOLEAN
    /\ tx \in [Reqs -> Tx]

-----------------------------------------------------------------------------
Busy(r) == tx[r].op # "idle"

(* A request comes in: done in one step, or the first step of a longer one. *)
Arrives == overlapped' = (overlapped \/ \E o \in Reqs : Busy(o))

Starts(r) == ~Busy(r) /\ Arrives

Hold(r, load) == tx' = [tx EXCEPT ![r] = load]

End(r) == Hold(r, Idle) /\ UNCHANGED overlapped

(* The column after a flush: untouched when the handler left it as loaded. *)
Written(loaded, new, current) == IF new = loaded THEN current ELSE new

StockNow == [p \in Products |-> [stock |-> shelf[p].stock, soldOut |-> shelf[p].soldOut]]

WriteStock(p, loaded, new) ==
    [shelf[p] EXCEPT !.stock = Written(loaded.stock, new.stock, @),
                     !.soldOut = Written(loaded.soldOut, new.soldOut, @)]

Init ==
    /\ shelf = [p \in Products |-> [stock |-> 0, soldOut |-> FALSE, listed |-> TRUE]]
    /\ cart = {} /\ lines = 0 /\ shipping = {} /\ groups = <<>> /\ updates = 0
    /\ phantom = [p \in Products |-> 0]
    /\ overlapped = FALSE
    /\ tx = [r \in Reqs |-> Idle]

-----------------------------------------------------------------------------
(* The cart.                                                               *)

LinesOf(owner) == {l \in cart : l.owner = owner}

Available(p, n) == shelf[p].listed /\ shelf[p].stock >= n /\ ~shelf[p].soldOut

EditsCart(r, owner) ==
    /\ owner.person = Shopper[r]
    /\ Starts(r)
    /\ UNCHANGED <<shelf, shipping, groups, updates, phantom, tx>>

(* add_to_cart: a new line, or more on the line of the same product.       *)
AddLine(r, owner, p, n) ==
    /\ EditsCart(r, owner)
    /\ Available(p, n)
    /\ \A l \in LinesOf(owner) : l.product # p
    /\ lines < MaxLines
    /\ cart' = cart \cup {[id |-> lines + 1, owner |-> owner, product |-> p,
                           qty |-> n, checked |-> TRUE]}
    /\ lines' = lines + 1

AddMore(r, owner, n) ==
    /\ EditsCart(r, owner)
    /\ \E l \in LinesOf(owner) :
          /\ Available(l.product, n)
          /\ shelf[l.product].stock >= l.qty + n
          /\ cart' = (cart \ {l}) \cup {[l EXCEPT !.qty = @ + n]}
    /\ UNCHANGED lines

(* update_quantity does not look at the stock status.                      *)
UpdateQuantity(r, owner, n) ==
    /\ EditsCart(r, owner)
    /\ \E l \in LinesOf(owner) :
          /\ shelf[l.product].listed /\ shelf[l.product].stock >= n
          /\ cart' = (cart \ {l}) \cup {[l EXCEPT !.qty = n]}
    /\ UNCHANGED lines

(* remove_item, and remove_all.                                            *)
RemoveItem(r, owner) ==
    /\ EditsCart(r, owner)
    /\ \E l \in LinesOf(owner) : cart' = cart \ {l}
    /\ UNCHANGED lines

RemoveAll(r, owner) ==
    /\ EditsCart(r, owner)
    /\ cart' = cart \ LinesOf(owner)
    /\ UNCHANGED lines

SelectItems(r, owner, checked) ==
    /\ EditsCart(r, owner)
    /\ \E chosen \in SUBSET LinesOf(owner) :
          cart' = (cart \ chosen) \cup {[l EXCEPT !.checked = checked] : l \in chosen}
    /\ UNCHANGED lines

(* list_cart drops the lines whose product is no longer published.         *)
ListCart(r, owner) ==
    /\ EditsCart(r, owner)
    /\ cart' = {l \in cart : l.owner = owner => shelf[l.product].listed}
    /\ UNCHANGED lines

(* merge_guest_cart, at a login: a guest's line replaces the customer's    *)
(* line of the same product.                                               *)
MergeGuestCart(r) ==
    LET guest    == [person |-> Shopper[r], guest |-> TRUE]
        customer == [person |-> Shopper[r], guest |-> FALSE]
        replaced == {l \in LinesOf(customer) :
                        \E m \in LinesOf(guest) : m.product = l.product} IN
    /\ guest \in Owners
    /\ EditsCart(r, customer)
    /\ cart' = (cart \ (LinesOf(guest) \cup replaced))
                 \cup {[l EXCEPT !.owner = customer] : l \in LinesOf(guest)}
    /\ UNCHANGED lines

(* choose_for_order.                                                       *)
ChooseShipping(r, owner, shop) ==
    /\ owner.person = Shopper[r]
    /\ Starts(r)
    /\ shipping' = shipping \cup {<<owner, shop>>}
    /\ UNCHANGED <<shelf, cart, lines, groups, updates, phantom, tx>>

-----------------------------------------------------------------------------
(* The checkout.                                                           *)

CheckedItems(owner) ==
    {[id |-> l.id, product |-> l.product, qty |-> l.qty] :
        l \in {m \in LinesOf(owner) : m.checked}}

(* _load_checked_cart and require_shipping_for_groups.                     *)
Ready(owner) ==
    /\ CheckedItems(owner) # {}
    /\ \A i \in CheckedItems(owner) : <<owner, ShopOf[i.product]>> \in shipping

\* mutant: _validate_cart_stock compares with the wrong side of the stock
InStock_OffByOne(owner) ==
    \A i \in CheckedItems(owner) : Available(i.product, i.qty - 1)

(* _validate_cart_stock.                                                   *)
InStock(owner) == \A i \in CheckedItems(owner) : Available(i.product, i.qty)

GroupsOf(owner) == {g \in DOMAIN groups : groups[g].owner = owner}

Uses == {g \in DOMAIN groups : groups[g].coupon}

(* calculate_discount: the two counts of usages, and the first order.      *)
CouponValid(owner) ==
    /\ ~owner.guest
    /\ Cardinality(GroupsOf(owner) \cap Uses) < UsageLimit
    /\ Cardinality(Uses) < TotalLimit
    /\ FirstOnly => GroupsOf(owner) = {}

\* mutant: checkout_total forgets the quantities
BeginWallet_PerLine(r, owner, coupon) ==
    /\ owner.person = Shopper[r] /\ ~owner.guest
    /\ Starts(r)
    /\ Len(groups) < MaxGroups
    /\ Ready(owner)
    /\ coupon => CouponValid(owner)
    /\ Hold(r, [op |-> "priced",
                basket |-> [owner |-> owner, method |-> "WALLET", coupon |-> coupon,
                            items |-> CheckedItems(owner),
                            paidFor |-> {[i EXCEPT !.qty = 1] : i \in CheckedItems(owner)}]])
    /\ UNCHANGED store

(* place_wallet_order, up to the comparison with the balance.              *)
BeginWallet(r, owner, coupon) ==
    /\ owner.person = Shopper[r] /\ ~owner.guest
    /\ Starts(r)
    /\ Len(groups) < MaxGroups
    /\ Ready(owner)
    /\ coupon => CouponValid(owner)
    /\ Hold(r, [op |-> "priced",
                basket |-> [owner |-> owner, method |-> "WALLET", coupon |-> coupon,
                            items |-> CheckedItems(owner),
                            paidFor |-> CheckedItems(owner)]])
    /\ UNCHANGED store

(* generate_orders_from_cart, up to the counting of the orders.            *)
LoadCart(r) ==
    /\ tx[r].op = "priced"
    /\ LET b == tx[r].basket IN
          /\ Ready(b.owner) /\ InStock(b.owner)
          /\ b.coupon => CouponValid(b.owner)
          /\ Hold(r, [op |-> "placing",
                      basket |-> [b EXCEPT !.items = CheckedItems(b.owner)]])
    /\ UNCHANGED <<store, overlapped>>

(* The same for place_cod_order, which starts with it.                     *)
BeginCod(r, owner, coupon) ==
    /\ owner.person = Shopper[r]
    /\ Starts(r)
    /\ Len(groups) < MaxGroups
    /\ Ready(owner) /\ InStock(owner)
    /\ coupon => CouponValid(owner)
    /\ Hold(r, [op |-> "placing",
                basket |-> [owner |-> owner, method |-> "CASH_ON_DELIVERY",
                            coupon |-> coupon, items |-> CheckedItems(owner),
                            paidFor |-> {}]])
    /\ UNCHANGED store

(* _next_public_id counts the orders; then the stock is read again.        *)
TakeStock(r) ==
    /\ tx[r].op = "placing"
    /\ Hold(r, [op |-> "taking", basket |-> tx[r].basket,
                number |-> Len(groups), stock |-> StockNow])
    /\ UNCHANGED <<store, overlapped>>

Units(items, p) ==
    IF \E i \in items : i.product = p
    THEN (CHOOSE i \in items : i.product = p).qty ELSE 0

(* max(stock - quantity, 0), and OUT_OF_STOCK at zero.                     *)
TakenFrom(row, n) ==
    LET left == IF row.stock >= n THEN row.stock - n ELSE 0 IN
    [stock |-> left, soldOut |-> row.soldOut \/ left = 0]

ShelfAfterTaking(load) ==
    [p \in Products |->
        LET n == Units(load.basket.items, p) IN
        IF n = 0 THEN shelf[p]
        ELSE WriteStock(p, load.stock[p], TakenFrom(load.stock[p], n))]

NewGroup(b) ==
    [owner |-> b.owner, method |-> b.method, coupon |-> b.coupon,
     items |-> b.items, paidFor |-> b.paidFor,
     status |-> [s \in Shops |->
                    IF b.method = "WALLET" THEN "CONFIRMED" ELSE "PENDING"],
     returned |-> 0, revived |-> FALSE]

Ids(items) == {i.id : i \in items}

(* What the step did to the stock besides the units it meant to move.      *)
Moved(units) ==
    IF overlapped THEN phantom
    ELSE [p \in Products |-> phantom[p] + (shelf'[p].stock - shelf[p].stock) - units[p]]

\* mutant: the lines that were ordered stay in the cart
PlaceOrders_CartKept(r) ==
    /\ tx[r].op = "taking"
    /\ tx[r].number = Len(groups)
    /\ LET b == tx[r].basket IN
          /\ groups' = Append(groups, NewGroup(b))
          /\ shelf' = ShelfAfterTaking(tx[r])
          /\ phantom' = Moved([p \in Products |-> -Units(b.items, p)])
          /\ UNCHANGED cart
          /\ shipping' = shipping \ ({b.owner} \X Shops)
    /\ End(r)
    /\ UNCHANGED <<lines, updates>>

(* The orders, their items and the usage of the coupon are inserted, the   *)
(* stock written, the lines and the chosen shipping deleted.  The INSERT   *)
(* fails on public_id when a checkout has committed since the count.       *)
PlaceOrders(r) ==
    /\ tx[r].op = "taking"
    /\ tx[r].number = Len(groups)
    /\ LET b == tx[r].basket IN
          /\ groups' = Append(groups, NewGroup(b))
          /\ shelf' = ShelfAfterTaking(tx[r])
          /\ phantom' = Moved([p \in Products |-> -Units(b.items, p)])
          /\ cart' = {l \in cart : ~(l.owner = b.owner /\ l.id \in Ids(b.items))}
          /\ shipping' = shipping \ ({b.owner} \X Shops)
    /\ End(r)
    /\ UNCHANGED <<lines, updates>>

-----------------------------------------------------------------------------
(* The cancellation: one order of a group decides for all of it.           *)

Cancellable(method) ==
    IF method = "CASH_ON_DELIVERY" THEN {"PENDING"} ELSE {"PENDING", "CONFIRMED"}

ShopsOf(group) == {ShopOf[i.product] : i \in group.items}

\* mutant: cancel_order does not look at the order's status
BeginCancel_AnyStatus(r, g) ==
    /\ groups[g].owner.person = Shopper[r]
    /\ Starts(r)
    /\ groups[g].returned < MaxReturns
    /\ Hold(r, [op |-> "canceling", g |-> g, status |-> groups[g].status])
    /\ UNCHANGED store

BeginCancel(r, g) ==
    /\ groups[g].owner.person = Shopper[r]
    /\ Starts(r)
    /\ groups[g].returned < MaxReturns
    /\ \E s \in ShopsOf(groups[g]) :
          groups[g].status[s] \in Cancellable(groups[g].method)
    /\ Hold(r, [op |-> "canceling", g |-> g, status |-> groups[g].status])
    /\ UNCHANGED store

ReadStock(r) ==
    /\ tx[r].op = "canceling"
    /\ Hold(r, [op |-> "giving", g |-> tx[r].g, status |-> tx[r].status,
                stock |-> StockNow])
    /\ UNCHANGED <<store, overlapped>>

(* Stock that was OUT_OF_STOCK is IN_STOCK again.                          *)
GivenBack(row, n) ==
    [stock |-> row.stock + n, soldOut |-> row.soldOut /\ row.stock + n = 0]

ShelfAfterGiving(load) ==
    [p \in Products |->
        LET n == Units(groups[load.g].items, p) IN
        IF n = 0 THEN shelf[p]
        ELSE WriteStock(p, load.stock[p], GivenBack(load.stock[p], n))]

CancelOrders(r) ==
    /\ tx[r].op = "giving"
    /\ LET g == tx[r].g IN
          /\ shelf' = ShelfAfterGiving(tx[r])
          /\ phantom' = Moved([p \in Products |-> Units(groups[g].items, p)])
          /\ groups' = [groups EXCEPT
                ![g].status = [s \in Shops |->
                    IF s \in ShopsOf(groups[g])
                    THEN Written(tx[r].status[s], "CANCELED", groups[g].status[s])
                    ELSE groups[g].status[s]],
                ![g].returned = @ + 1]
    /\ End(r)
    /\ UNCHANGED <<cart, lines, shipping, updates>>

-----------------------------------------------------------------------------
(* Sellers and admins.                                                     *)

Updates == Arrives /\ updates < MaxUpdates /\ updates' = updates + 1

(* update_order_status of a seller and update_status of an admin: any      *)
(* status, whatever the order's; the stock is not touched.                 *)
SetStatus(g, s, status) ==
    /\ Updates
    /\ s \in ShopsOf(groups[g])
    /\ groups' = [groups EXCEPT
          ![g].status[s] = status,
          ![g].revived = @ \/ (groups[g].status[s] = "CANCELED" /\ status # "CANCELED")]
    /\ UNCHANGED <<shelf, cart, lines, shipping, phantom, tx>>

(* update_stock and update_product: a column is set to what the form says, *)
(* or kept as it is.                                                       *)
Restock(p) ==
    /\ Updates
    /\ \E stock \in 0 .. MaxStock \cup {shelf[p].stock}, soldOut, listed \in BOOLEAN :
          shelf' = [shelf EXCEPT ![p] =
                       [stock |-> stock, soldOut |-> soldOut, listed |-> listed]]
    /\ UNCHANGED <<cart, lines, shipping, groups, phantom, tx>>

(* A request that ends without writing: rolled back by an exception, which *)
(* may be the unique index on public_id or a wallet that is too small.     *)
Abandon(r) == Busy(r) /\ End(r) /\ UNCHANGED store

CartStep(r, owner) ==
    \/ \E p \in Products, n \in 1 .. MaxStock : AddLine(r, owner, p, n)
    \/ \E n \in 1 .. MaxStock : AddMore(r, owner, n) \/ UpdateQuantity(r, owner, n)
    \/ RemoveItem(r, owner)
    \/ RemoveAll(r, owner)
    \/ \E checked \in BOOLEAN : SelectItems(r, owner, checked)
    \/ ListCart(r, owner)
    \/ \E shop \in Shops : ChooseShipping(r, owner, shop)

CheckoutStep(r) ==
    \/ \E owner \in Owners, coupon \in BOOLEAN :
          BeginWallet(r, owner, coupon) \/ BeginCod(r, owner, coupon)
    \/ LoadCart(r)
    \/ TakeStock(r)
    \/ PlaceOrders(r)

CancelStep(r) ==
    \/ \E g \in DOMAIN groups : BeginCancel(r, g)
    \/ ReadStock(r)
    \/ CancelOrders(r)

SellerStep ==
    \/ \E g \in DOMAIN groups, s \in Shops, status \in OrderStatus :
          SetStatus(g, s, status)
    \/ \E p \in Products : Restock(p)

Next ==
    \/ \E r \in Reqs :
          \/ \E owner \in Owners : CartStep(r, owner)
          \/ MergeGuestCart(r)
          \/ CheckoutStep(r)
          \/ CancelStep(r)
    \/ SellerStep
    \/ \E r \in Reqs : Abandon(r)

Spec == Init /\ [][Next]_vars

-----------------------------------------------------------------------------
(* Properties of a shop in which a person has one request in flight, while *)
(* the requests of different people, and of the sellers, overlap.          *)

OneDevice == \A r, o \in Reqs : Shopper[r] = Shopper[o] => r = o

(* A line of a cart is ordered once: it is in the order of one checkout at *)
(* most, through every merge, cancellation and retry.                      *)
LineOrderedOnce ==
    \A g, h \in DOMAIN groups :
        Ids(groups[g].items) \cap Ids(groups[h].items) # {} => g = h

(* The wallet pays for what is ordered: the cart that checkout_total       *)
(* priced is the cart the orders were made of.                             *)
PaidIsOrdered ==
    \A g \in DOMAIN groups :
        groups[g].method = "WALLET" => groups[g].paidFor = groups[g].items

(* A cancellation gives the stock back once, unless an order was taken     *)
(* out of CANCELED by a seller or an admin and canceled again.             *)
ReturnedOnce ==
    \A g \in DOMAIN groups : groups[g].returned > 1 => groups[g].revived

(* Nobody uses the coupon more often than usage_limit says, and a coupon   *)
(* for the first order is only in the first order, whoever else checks out *)
(* at the same time.                                                       *)
CustomerWithinLimit ==
    \A g \in Uses :
        /\ ~groups[g].owner.guest
        /\ Cardinality({h \in Uses : groups[h].owner = groups[g].owner}) <= UsageLimit
        /\ FirstOnly => \A h \in GroupsOf(groups[g].owner) : h >= g

(* As long as no request has overlapped another.                           *)

(* What checkouts and cancellations do to the shelf is what they move into *)
(* and out of orders: the max(.., 0) of the checkout never hides an        *)
(* oversale, and no update of the stock is lost.                           *)
StockAddsUp == ~overlapped => \A p \in Products : phantom[p] = 0

(* The coupon is used total_limit times at most.                           *)
CouponWithinTotal == ~overlapped => Cardinality(Uses) <= TotalLimit

(* The named parts together: what the run checks.                          *)

(* A checkout orders what it priced, with no more coupons than allowed.    *)
CheckoutKept ==
    /\ PaidIsOrdered
    /\ CustomerWithinLimit

(* The rows are of their types, the shelf holds what it should, and the    *)
(* coupon is used no more often than it may.                               *)
StockAndCouponAddUp ==
    /\ TypeOK
    /\ StockAddsUp
    /\ CouponWithinTotal
=============================================================================
