------------------------------ MODULE ShopPricing ------------------------------
(***************************************************************************)
(* What an order of the shop charges: a line of the cart keeps the price   *)
(* of the product when it was added, a chosen shipping method the cost it  *)
(* had when it was chosen, a coupon is reckoned again at every use, and    *)
(* the orders of a checkout are reckoned shop by shop.  The customer is    *)
(* shown a preview of the cart and the discount of a coupon before; while  *)
(* sellers and admins change prices, methods and terms.                    *)
(*                                                                         *)
(* One customer, whose requests are made in turn.  A request is one step:  *)
(* what a checkout reads twice the session keeps as it was read first, and *)
(* what a seller or an admin writes does not depend on what was read.      *)
(* A coupon out of its dates is like one that is not active; a product or  *)
(* a shop not there yet is, for a shopper, like one that is not published. *)
(*                                                                         *)
(* Prices, costs and discounts are given in cents, percentages in whole    *)
(* percents.  The program reckons in decimals without a limit and rounds   *)
(* here and there: here an amount is a number of hundredths of a cent.     *)
(*                                                                         *)
(* Left out: stock and minimum quantities, guests and the limits of a      *)
(* coupon (Checkout), the balance of the wallet (ShopWallet).              *)
(* History: `seen' is what the customer was shown since he last touched    *)
(* the cart, its shipping, or an admin the coupon.                         *)
(***************************************************************************)
EXTENDS Integers, Sequences, FiniteSets, FiniteSetsExt

CONSTANTS
    Products,
    Shops,
    ShopOf,           \* the shop of a product
    Offers,           \* what a form of a seller may set: price, discount
    Costs,            \* what a shipping method of a shop may cost
    DefaultShipping,  \* settings.ecommerce_default_shipping_cost
    TaxRate,          \* settings.ecommerce_tax_rate_percent
    Coupons,          \* what a form of an admin may set
    MaxQty,           \* bound: of a line
    MaxRequests,      \* bound: of the customer
    MaxUpdates,       \* bound: of sellers and admins
    None

Discounts == {"flat", "percent"}

CouponKinds == {"discount_on_purchase", "first_order", "free_delivery"}

ASSUME CatalogueAssumption ==
    /\ ShopOf \in [Products -> Shops]
    /\ IsFiniteSet(Products) /\ IsFiniteSet(Shops)
    /\ Offers \subseteq [price : Nat \ {0}, discount : Int, discountType : Discounts]
    /\ Costs \subseteq Nat /\ DefaultShipping \in Nat /\ TaxRate \in Nat
    /\ MaxQty \in Nat \ {0} /\ MaxRequests \in Nat /\ MaxUpdates \in Nat

(* No form checks it, but a coupon never takes off more than everything.   *)
ASSUME CouponAssumption ==
    /\ Coupons \subseteq
          [kind : CouponKinds, discountType : Discounts, discount : Nat \ {0},
           maxDiscount : Nat \cup {None}, minPurchase : Nat,
           shop : Shops \cup {None}, active : BOOLEAN]
    /\ \A c \in Coupons : c.discountType = "percent" => c.discount <= 100
    /\ None \notin Nat \cup Shops

VARIABLES
    product,    \* the row of ecommerce_products: its offer, and whether listed
    published,  \* the shops with is_published
    method,     \* the cost of the active shipping method of a shop, if any
    coupon,     \* the row of ecommerce_coupons
    cart,       \* the rows of ecommerce_cart_items
    chosen,     \* the rows of ecommerce_cart_shipping: the cost of a shop's
    checkouts,  \* the orders of each checkout
    seen,       \* history
    requests,
    updates

pricingVars == <<product, published, method, coupon, cart, chosen, checkouts, seen,
                 requests, updates>>

-----------------------------------------------------------------------------
Line == [product : Products, qty : 1..MaxQty, offer : Offers, checked : BOOLEAN]

(* goods: what its items come to; discount: coupon_discount.               *)
OrderRow == [amount : Nat, shipping : Nat, tax : Nat, goods : Nat, discount : Nat]

(* debit: what a wallet paid; shown: what the customer expected to pay.    *)
CheckoutRow(shops) ==
    [row : [shops -> OrderRow],
     used : Coupons \cup {None}, debit : Nat \cup {None}, shown : Int \cup {None}]

Nothing == [total |-> None, discount |-> None]

(* The type invariant; no amount is negative.                              *)
PricingTypeOK ==
    /\ product \in [Products -> [offer : Offers, listed : BOOLEAN]]
    /\ published \in SUBSET Shops
    /\ method \in [Shops -> Costs \cup {None}]
    /\ coupon \in Coupons
    /\ cart \in SUBSET Line
    /\ chosen \in [Shops -> Costs \cup {DefaultShipping, None}]
    /\ \A k \in DOMAIN checkouts :
          /\ DOMAIN checkouts[k].row \in SUBSET Shops
          /\ checkouts[k] \in CheckoutRow(DOMAIN checkouts[k].row)
    /\ seen \in [total : Nat \cup {None}, discount : Nat \cup {None}]
    /\ requests \in 0..MaxRequests /\ updates \in 0..MaxUpdates

-----------------------------------------------------------------------------
(* Amounts.                                                                *)

Cents(n) == 100 * n

Total(f) == MapThenSumSet(LAMBDA x : f[x], DOMAIN f)

(* Decimal.quantize rounds n / d to the even neighbour.                    *)
HalfEven(n, d) ==
    LET q == n \div d
        r == n % d IN
    IF 2 * r < d \/ (2 * r = d /\ q % 2 = 0) THEN q ELSE q + 1

(* A column of Numeric(18, 2) rounds to the neighbour further from zero.   *)
Column(amount) == Cents((amount + 50) \div 100)

(* _sale_price.                                                            *)
SalePrice(o) ==
    IF o.discount <= 0 THEN Cents(o.price)
    ELSE IF o.discountType = "flat" THEN Max({Cents(o.price - o.discount), 0})
    ELSE Max({o.price * (100 - o.discount), 0})

(* _line_sale_price looks at the line, not at the product.                 *)
\* mutant: it looks at the product
LinePrice_OfTheProduct(l) == SalePrice(product[l.product].offer) * l.qty

LinePrice(l) == SalePrice(l.offer) * l.qty

Subtotal(lines) == Total([l \in lines |-> LinePrice(l)])

Tax(amount) == Cents(HalfEven(amount * TaxRate, 10000))

ShopsOf(lines) == {ShopOf[l.product] : l \in lines}

LinesOf(lines, s) == {l \in lines : ShopOf[l.product] = s}

-----------------------------------------------------------------------------
(* The coupon on some lines of the cart.                                   *)

Eligible(lines) ==
    IF coupon.shop = None THEN lines ELSE LinesOf(lines, coupon.shop)

CouponValid(lines) ==
    /\ coupon.active
    /\ coupon.kind = "first_order" => checkouts = <<>>
    /\ Subtotal(Eligible(lines)) > 0
    /\ Subtotal(Eligible(lines)) >= Cents(coupon.minPurchase)

(* The shipping a coupon of free delivery pays for: that of the shops with *)
(* a method chosen.                                                        *)
Delivery(s) == IF chosen[s] = None THEN 0 ELSE Cents(chosen[s])

DeliveryOf(shops) == Total([s \in shops |-> Delivery(s)])

\* mutant: max_discount is not looked at
Discount_NoMaximum(lines) ==
    LET worth == Subtotal(Eligible(lines)) IN
    IF coupon.kind = "free_delivery" THEN DeliveryOf(ShopsOf(Eligible(lines)))
    ELSE IF coupon.discountType = "flat" THEN Min({Cents(coupon.discount), worth})
    ELSE Cents(HalfEven(worth * coupon.discount, 10000))

Discount(lines) ==
    LET worth == Subtotal(Eligible(lines))
        share == Cents(HalfEven(worth * coupon.discount, 10000)) IN
    IF coupon.kind = "free_delivery" THEN DeliveryOf(ShopsOf(Eligible(lines)))
    ELSE IF coupon.discountType = "flat" THEN Min({Cents(coupon.discount), worth})
    ELSE IF coupon.maxDiscount = None THEN share
    ELSE Min({share, Cents(coupon.maxDiscount)})

(* What of the discount falls on the order of a shop.                      *)
Split(lines, s) ==
    LET mine == LinesOf(Eligible(lines), s) IN
    IF mine = {} THEN 0
    ELSE IF coupon.kind = "free_delivery" THEN Delivery(s)
    ELSE Cents(HalfEven(Discount(lines) * Subtotal(mine),
                        100 * Subtotal(Eligible(lines))))

(* _totals_for_group, before the columns round it.                         *)
ShippingOf(s, use) ==
    IF use /\ coupon.kind = "free_delivery" THEN 0 ELSE Cents(chosen[s])

Reckoned(lines, s, use) ==
    LET goods == Subtotal(LinesOf(lines, s)) IN
    Max({0, goods + ShippingOf(s, use) + Tax(goods)
              - (IF use THEN Split(lines, s) ELSE 0)})

Row(lines, s, use) ==
    LET goods == Subtotal(LinesOf(lines, s)) IN
    [amount |-> Column(Reckoned(lines, s, use)), shipping |-> ShippingOf(s, use),
     tax |-> Tax(goods), goods |-> goods,
     discount |-> IF use THEN Split(lines, s) ELSE 0]

\* mutant: the price of a wallet checkout leaves the coupon out
CheckoutTotal_NoCoupon(lines, use) ==
    Total([s \in ShopsOf(lines) |-> Reckoned(lines, s, FALSE)])

CheckoutTotal(lines, use) ==
    Total([s \in ShopsOf(lines) |-> Reckoned(lines, s, use)])

-----------------------------------------------------------------------------
PricingInit ==
    /\ \E offer \in [Products -> Offers] :
          product = [p \in Products |-> [offer |-> offer[p], listed |-> TRUE]]
    /\ published = Shops /\ method = [s \in Shops |-> None]
    /\ coupon \in Coupons
    /\ cart = {} /\ chosen = [s \in Shops |-> None] /\ checkouts = <<>>
    /\ seen = Nothing
    /\ requests = 0 /\ updates = 0

Shopper ==
    /\ requests < MaxRequests
    /\ requests' = requests + 1
    /\ UNCHANGED <<product, published, method, coupon, updates>>

Edits == Shopper /\ seen' = Nothing /\ UNCHANGED checkouts

(* add_to_cart, a piece at a time: a new line, or more on the line of the  *)
(* product, which then takes the product's price of now.                   *)
AddToCart(p) ==
    LET more(l) == [l EXCEPT !.qty = @ + 1, !.offer = product[p].offer] IN
    /\ Edits
    /\ product[p].listed /\ ShopOf[p] \in published
    /\ \/ /\ \A l \in cart : l.product # p
          /\ cart' = cart \cup {[product |-> p, qty |-> 1, offer |-> product[p].offer,
                                 checked |-> TRUE]}
       \/ \E l \in cart :
             /\ l.product = p /\ l.qty < MaxQty
             /\ cart' = (cart \ {l}) \cup {more(l)}
    /\ UNCHANGED chosen

(* update_quantity leaves the price of the line.                           *)
UpdateQuantity(l, n) ==
    /\ Edits
    /\ product[l.product].listed
    /\ cart' = (cart \ {l}) \cup {[l EXCEPT !.qty = n]}
    /\ UNCHANGED chosen

RemoveItem(l) == Edits /\ cart' = cart \ {l} /\ UNCHANGED chosen

SelectItem(l) ==
    /\ Edits
    /\ cart' = (cart \ {l}) \cup {[l EXCEPT !.checked = ~@]}
    /\ UNCHANGED chosen

(* methods_for_shop offers the active method, or the default one.          *)
ChooseForOrder(s) ==
    /\ Edits
    /\ chosen' = [chosen EXCEPT ![s] = IF method[s] = None THEN DefaultShipping ELSE method[s]]
    /\ UNCHANGED cart

(* checkout_preview drops the lines whose product is not published, and    *)
(* adds up the checked ones and every method chosen.                       *)
CheckedLines(lines) == {l \in lines : l.checked}

CheckoutPreview ==
    LET left  == {l \in cart : product[l.product].listed}
        goods == Subtotal(CheckedLines(left)) IN
    /\ Shopper
    /\ cart' = left
    /\ seen' = [total |-> goods + DeliveryOf(Shops) + Tax(goods),
                discount |-> IF left = cart THEN seen.discount ELSE None]
    /\ UNCHANGED <<chosen, checkouts>>

ApplyCoupon ==
    /\ Shopper
    /\ CheckedLines(cart) # {} /\ CouponValid(CheckedLines(cart))
    /\ seen' = [seen EXCEPT !.discount = Discount(CheckedLines(cart))]
    /\ UNCHANGED <<cart, chosen, checkouts>>

(* What he then expects: the preview, but for the shipping of shops he     *)
(* orders nothing from, less the discount.  A coupon of free delivery      *)
(* shows the shipping as its discount, and is no part of this.             *)
Expected(lines, use) ==
    LET elsewhere == DeliveryOf(Shops \ ShopsOf(lines)) IN
    IF \/ seen.total = None
       \/ use /\ (seen.discount = None \/ coupon.kind = "free_delivery") THEN None
    ELSE seen.total - elsewhere - (IF use THEN seen.discount ELSE 0)

(* place_cod_order and place_wallet_order.                                 *)
PlaceOrder(use, wallet) ==
    LET lines == CheckedLines(cart) IN
    /\ Shopper
    /\ lines # {}
    /\ \A l \in lines : product[l.product].listed
    /\ \A s \in ShopsOf(lines) : chosen[s] # None
    /\ use => CouponValid(lines)
    /\ checkouts' = Append(checkouts,
                        [row |-> [s \in ShopsOf(lines) |-> Row(lines, s, use)],
                         used |-> IF use THEN coupon ELSE None,
                         debit |-> IF wallet THEN Column(CheckoutTotal(lines, use)) ELSE None,
                         shown |-> Expected(lines, use)])
    /\ cart' = cart \ lines
    /\ chosen' = [s \in Shops |-> None]
    /\ seen' = Nothing

-----------------------------------------------------------------------------
Staff ==
    /\ updates < MaxUpdates
    /\ updates' = updates + 1
    /\ UNCHANGED <<cart, chosen, checkouts, requests>>

(* The forms of a seller and of an admin, for a new product or an old one. *)
WriteProduct(p, offer, listed) ==
    /\ Staff
    /\ product' = [product EXCEPT ![p] = [offer |-> offer, listed |-> listed]]
    /\ UNCHANGED <<published, method, coupon, seen>>

WriteVendor(s, open) ==
    /\ Staff
    /\ published' = IF open THEN published \cup {s} ELSE published \ {s}
    /\ UNCHANGED <<product, method, coupon, seen>>

UpsertShipping(s, cost, active) ==
    /\ Staff
    /\ method' = [method EXCEPT ![s] = IF active THEN cost ELSE None]
    /\ UNCHANGED <<product, published, coupon, seen>>

WriteCoupon(c) ==
    /\ Staff
    /\ coupon' = c
    /\ seen' = [seen EXCEPT !.discount = None]
    /\ UNCHANGED <<product, published, method>>

CustomerStep ==
    \/ \E p \in Products : AddToCart(p)
    \/ \E l \in cart : RemoveItem(l) \/ SelectItem(l) \/ \E n \in 1..MaxQty : UpdateQuantity(l, n)
    \/ \E s \in Shops : ChooseForOrder(s)
    \/ CheckoutPreview
    \/ ApplyCoupon
    \/ \E use \in BOOLEAN, wallet \in BOOLEAN : PlaceOrder(use, wallet)

StaffStep ==
    \/ \E p \in Products, offer \in Offers, listed \in BOOLEAN : WriteProduct(p, offer, listed)
    \/ \E s \in Shops : \/ \E open \in BOOLEAN : WriteVendor(s, open)
                        \/ \E cost \in Costs, active \in BOOLEAN : UpsertShipping(s, cost, active)
    \/ \E c \in Coupons : WriteCoupon(c)

PricingNext == CustomerStep \/ StaffStep

PricingSpec == PricingInit /\ [][PricingNext]_pricingVars

-----------------------------------------------------------------------------
(* Properties.                                                             *)

Charged(o) == Total([s \in DOMAIN o.row |-> o.row[s].amount])

Near(a, b, cents) == a - b <= Cents(cents) /\ b - a <= Cents(cents)

(* The orders of a checkout come to what the preview and the coupon showed *)
(* the customer, within two cents for each order: whatever prices, methods *)
(* and products are changed to in between.  checkout_preview reckons the   *)
(* cart as a whole, generate_orders_from_cart shop by shop.                *)
ChargedAsShown ==
    \A k \in DOMAIN checkouts : LET o == checkouts[k] IN
        o.shown # None => Near(Charged(o), o.shown, 2 * Cardinality(DOMAIN o.row))

(* The parts of a discount that calculate_discount splits over the shops   *)
(* come to no more than its terms allow, within half a cent for each; only *)
(* the shop of the coupon has one.                                         *)
CouponWithinTerms ==
    \A k \in DOMAIN checkouts :
        LET o    == checkouts[k]
            c    == o.used
            part == Total([s \in DOMAIN o.row |-> o.row[s].discount]) IN
        c # None /\ c.kind # "free_delivery" =>
            /\ \A s \in DOMAIN o.row : o.row[s].discount > 0 => c.shop \in {s, None}
            /\ c.discountType = "flat" => part <= Cents(c.discount) + 50 * Cardinality(DOMAIN o.row)
            /\ c.discountType = "percent" /\ c.maxDiscount # None =>
                  part <= Cents(c.maxDiscount) + 50 * Cardinality(DOMAIN o.row)

(* A coupon on the goods takes nothing off the shipping and the tax of an  *)
(* order, but for a cent of rounding.                                      *)
CouponLeavesShipping ==
    \A k \in DOMAIN checkouts : LET o == checkouts[k] IN
        o.used # None /\ o.used.kind # "free_delivery" =>
            \A s \in DOMAIN o.row :
                o.row[s].amount + Cents(1) >= o.row[s].shipping + o.row[s].tax

(* What the wallet pays for a checkout (checkout_total) is what its orders *)
(* come to, within a cent for each.                                        *)
WalletPaysTheOrders ==
    \A k \in DOMAIN checkouts : LET o == checkouts[k] IN
        o.debit # None => Near(Charged(o), o.debit, Cardinality(DOMAIN o.row))

(* The rows are of their types, and a coupon takes off what its terms say  *)
(* and from the goods alone.                                               *)
CouponKeepsTerms ==
    /\ PricingTypeOK
    /\ CouponWithinTerms
    /\ CouponLeavesShipping
=============================================================================
