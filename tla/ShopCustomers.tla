----------------------------- MODULE ShopCustomers -----------------------------
(***************************************************************************)
(* What the shop keeps about its customers after a checkout: the status of *)
(* their orders and what they were told of it, their reviews of the        *)
(* products they received with the numbers a product shows of them, and    *)
(* their addresses, with those they had as a guest.                        *)
(*                                                                         *)
(* A change of a status, a cancellation and a review first read and then   *)
(* write; other requests may commit in between.  What PostgreSQL makes     *)
(* wait (two updates of one row, two rows of one unique key) happens in    *)
(* the order in which the requests commit.  The other requests write what  *)
(* does not depend on what they have read, and are one step.               *)
(*                                                                         *)
(* Every shop sells one product, and a checkout takes one from each shop   *)
(* chosen.  Left out: orders of guests, whom nobody tells of a status; the *)
(* stock and refunds of a cancellation (Checkout, ShopWallet); and the     *)
(* e-mails, which are sent along with the notifications.                   *)
(* History: `overlapped' says whether some request ever began while        *)
(* another was in flight; `delivered' who ever was delivered what.         *)
(***************************************************************************)
EXTENDS Integers, Sequences, FiniteSets, FiniteSetsExt

CONSTANTS
    Slots,        \* request slots
    Customers,
    Sellers,      \* the shops, and their products
    Places,       \* address lines; the city and the names are not compared
    Phones,
    Ratings,
    MaxBegun,     \* bound: requests that ever begin
    Absent

ASSUME CustomersAssumption ==
    /\ Ratings \subseteq Nat \ {0}
    /\ MaxBegun \in Nat
    /\ Absent \notin Sellers \cup Customers

VARIABLES
    groups,      \* the orders of each order_group_id
    notes,       \* the rows of ecommerce_customer_notifications
    reviews,     \* the rows of ecommerce_product_reviews
    stats,       \* reviews_count and average_review of a product
    addresses,   \* the rows of ecommerce_shipping_addresses
    begun,
    overlapped,  \* history
    delivered,   \* history
    hand         \* what the request in each slot has loaded

rows == <<groups, notes, reviews, stats, addresses, delivered>>
customersVars == <<rows, begun, overlapped, hand>>

-----------------------------------------------------------------------------
(* PROCESSING stands for OUT_FOR_DELIVERY, FAILED and RETURNED too.        *)
Status == {"PENDING", "CONFIRMED", "PROCESSING", "DELIVERED", "CANCELED"}

ASSUME AbsentAssumption == Absent \notin Status

Methods == {"CASH_ON_DELIVERY", "WALLET"}

Placed == [CASH_ON_DELIVERY |-> "PENDING", WALLET |-> "CONFIRMED"]

OrderGroup == [customer : Customers, method : Methods,
               status : [Sellers -> Status \cup {Absent}]]

(* at: created_at, which is when the transaction of the request began.     *)
Note == [customer : Customers, group : Nat, shop : Sellers \cup {Absent},
         says : Status \cup {"placed"}, at : Nat, read : BOOLEAN]

Review == [at : Nat, customer : Customers, product : Sellers, rating : Ratings]

(* The average in hundredths, as the column keeps it.                      *)
Stats == [count : Nat, average : Nat]

(* A person is a guest until he logs in.                                   *)
Address == [id : Nat, owner : Customers, guest : BOOLEAN, place : Places, phone : Phones]

EmptyHand == [op |-> "idle"]

Hand == [op : {"idle"}]
        \cup [op : {"status"}, at : Nat, g : Nat, s : Sellers, loaded : Status, new : Status]
        \cup [op : {"cancel"}, at : Nat, g : Nat, loaded : [Sellers -> Status \cup {Absent}]]
        \cup [op : {"review"}, review : Review, loaded : Stats]
        \cup [op : {"counted"}, review : Review, loaded : Stats, new : Stats]

(* The type invariant.                                                     *)
CustomersTypeOK ==
    /\ groups \in Seq(OrderGroup)
    /\ notes \subseteq Note
    /\ reviews \subseteq Review
    /\ stats \in [Sellers -> Stats]
    /\ addresses \subseteq Address
    /\ begun \in 0..MaxBegun
    /\ overlapped \in BOOLEAN
    /\ delivered \subseteq Customers \X Sellers
    /\ hand \in [Slots -> Hand]

-----------------------------------------------------------------------------
InFlight(r) == hand[r].op # "idle"

Arrives(r) ==
    /\ ~InFlight(r) /\ begun < MaxBegun
    /\ begun' = begun + 1
    /\ overlapped' = (overlapped \/ \E o \in Slots : InFlight(o))

Begins(r, load) == Arrives(r) /\ hand' = [hand EXCEPT ![r] = load] /\ UNCHANGED rows

(* A handler of one step.                                                  *)
AtOnce(r) == Arrives(r) /\ UNCHANGED hand

Ends(r) == hand' = [hand EXCEPT ![r] = EmptyHand] /\ UNCHANGED <<begun, overlapped>>

(* An error, or a worker that is killed.                                   *)
Rollback(r) == InFlight(r) /\ Ends(r) /\ UNCHANGED rows

(* The column after a flush: untouched when the handler left it as loaded. *)
Flushed(loaded, new, current) == IF new = loaded THEN current ELSE new

OrdersOf(g) == {s \in Sellers : groups[g].status[s] # Absent}

Orders == {o \in (1..Len(groups)) \X Sellers : groups[o[1]].status[o[2]] # Absent}

Past(cs) ==
    [g \in 1..Len(cs) |-> [customer |-> cs[g], method |-> "WALLET",
                           status |-> [s \in Sellers |-> "DELIVERED"]]]

PastNotes(cs) ==
    UNION {{[customer |-> cs[g], group |-> g, shop |-> s, says |-> "DELIVERED",
             at |-> 0, read |-> TRUE] : s \in Sellers} : g \in 1..Len(cs)}

(* Some customers have an order from before, which they were delivered.    *)
CustomersInit ==
    /\ \E cs \in UNION {[1..n -> Customers] : n \in 0..Cardinality(Customers)} :
          /\ \A i, j \in 1..Len(cs) : cs[i] = cs[j] => i = j
          /\ groups = Past(cs) /\ notes = PastNotes(cs)
          /\ delivered = {cs[i] : i \in 1..Len(cs)} \X Sellers
    /\ reviews = {}
    /\ stats = [s \in Sellers |-> [count |-> 0, average |-> 0]]
    /\ addresses = {}
    /\ begun = 0 /\ overlapped = FALSE
    /\ hand = [r \in Slots |-> EmptyHand]

-----------------------------------------------------------------------------
(* Orders.                                                                 *)

(* place_cod_order and place_wallet_order, with _notify_order_placed; the  *)
(* steps of a checkout are those of Checkout.                              *)
PlaceOrders(r, c, method, shops) ==
    /\ AtOnce(r)
    /\ groups' = Append(groups,
          [customer |-> c, method |-> method,
           status |-> [s \in Sellers |-> IF s \in shops THEN Placed[method] ELSE Absent]])
    /\ notes' = notes \cup {[customer |-> c, group |-> Len(groups) + 1, shop |-> Absent,
                             says |-> "placed", at |-> begun', read |-> FALSE]}
    /\ UNCHANGED <<reviews, stats, addresses, delivered>>

(* update_order_status of a seller, update_status of an admin.             *)
BeginStatus(r, g, s, new) ==
    Begins(r, [op |-> "status", at |-> begun + 1, g |-> g, s |-> s,
               loaded |-> groups[g].status[s], new |-> new])

Told(g, s, status, at) ==
    [customer |-> groups[g].customer, group |-> g, shop |-> s, says |-> status,
     at |-> at, read |-> FALSE]

\* mutant: he is told only of what is ahead of the order
CommitStatus_TellsProgress(r) ==
    LET t == hand[r]
        c == groups[t.g].customer IN
    /\ t.op = "status"
    /\ groups' = [groups EXCEPT ![t.g].status[t.s] = Flushed(t.loaded, t.new, groups[t.g].status[t.s])]
    /\ notes' = IF t.new # "PENDING" THEN notes \cup {Told(t.g, t.s, t.new, t.at)} ELSE notes
    /\ delivered' = IF t.new = "DELIVERED" THEN delivered \cup {<<c, t.s>>} ELSE delivered
    /\ Ends(r)
    /\ UNCHANGED <<reviews, stats, addresses>>

CommitStatus(r) ==
    LET t == hand[r]
        c == groups[t.g].customer IN
    /\ t.op = "status"
    /\ groups' = [groups EXCEPT ![t.g].status[t.s] = Flushed(t.loaded, t.new, groups[t.g].status[t.s])]
    /\ notes' = notes \cup {Told(t.g, t.s, t.new, t.at)}
    /\ delivered' = IF t.new = "DELIVERED" THEN delivered \cup {<<c, t.s>>} ELSE delivered
    /\ Ends(r)
    /\ UNCHANGED <<reviews, stats, addresses>>

(* cancel_order tests the order it was asked for, and cancels the group.   *)
Cancellable(g, s) ==
    groups[g].status[s] \in
        (IF groups[g].method = "CASH_ON_DELIVERY" THEN {"PENDING"} ELSE {"PENDING", "CONFIRMED"})

BeginCancelOrder(r, g, s) ==
    /\ Cancellable(g, s)
    /\ Begins(r, [op |-> "cancel", at |-> begun + 1, g |-> g, loaded |-> groups[g].status])

CommitCancelOrder(r) ==
    LET t == hand[r] IN
    /\ t.op = "cancel"
    /\ groups' = [groups EXCEPT ![t.g].status = [s \in Sellers |->
          IF s \in OrdersOf(t.g) THEN Flushed(t.loaded[s], "CANCELED", groups[t.g].status[s])
                                 ELSE Absent]]
    /\ Ends(r)
    /\ UNCHANGED <<notes, reviews, stats, addresses, delivered>>

(* mark_read, and mark_all_read.                                           *)
MarkRead(r, c, read) ==
    /\ AtOnce(r)
    /\ read # {} /\ \A n \in read : n \in notes /\ n.customer = c
    /\ notes' = (notes \ read) \cup {[n EXCEPT !.read = TRUE] : n \in read}
    /\ UNCHANGED <<groups, reviews, stats, addresses, delivered>>

-----------------------------------------------------------------------------
(* Reviews: submit_review.                                                 *)

\* mutant: any order of the product will do
Purchased_AnyStatus(c, p) ==
    \E o \in Orders : o[2] = p /\ groups[o[1]].customer = c

Purchased(c, p) ==
    \E o \in Orders : /\ o[2] = p /\ groups[o[1]].customer = c
                      /\ groups[o[1]].status[p] = "DELIVERED"

Reviewed(c, p) == \E v \in reviews : v.customer = c /\ v.product = p

BeginReview(r, c, p, rating) ==
    /\ ~Reviewed(c, p)
    /\ Purchased(c, p)
    /\ Begins(r, [op |-> "review", loaded |-> stats[p],
                  review |-> [at |-> begun + 1, customer |-> c, product |-> p, rating |-> rating]])

StatsOf(seen) ==
    LET n   == Cardinality(seen)
        sum == MapThenSumSet(LAMBDA v : v.rating, seen)
    IN [count |-> n, average |-> IF n = 0 THEN 0 ELSE (200 * sum + n) \div (2 * n)]

(* The row is inserted, and the reviews then there are counted.            *)
\* mutant: they are counted before the row is inserted
CountReviews_Before(r) ==
    LET v    == hand[r].review
        seen == {w \in reviews : w.product = v.product} IN
    /\ hand[r].op = "review"
    /\ hand' = [hand EXCEPT ![r] = [op |-> "counted", review |-> v, loaded |-> hand[r].loaded,
          new |-> StatsOf(seen)]]
    /\ UNCHANGED <<rows, begun, overlapped>>

CountReviews(r) ==
    LET v    == hand[r].review
        seen == {w \in reviews : w.product = v.product} \cup {v} IN
    /\ hand[r].op = "review"
    /\ hand' = [hand EXCEPT ![r] = [op |-> "counted", review |-> v, loaded |-> hand[r].loaded,
          new |-> StatsOf(seen)]]
    /\ UNCHANGED <<rows, begun, overlapped>>

(* The unique index lets one review of a customer and product commit.      *)
CommitReview(r) ==
    LET t == hand[r]
        p == t.review.product IN
    /\ t.op = "counted"
    /\ ~Reviewed(t.review.customer, p)
    /\ reviews' = reviews \cup {t.review}
    /\ stats' = [stats EXCEPT ![p] =
          [count   |-> Flushed(t.loaded.count, t.new.count, stats[p].count),
           average |-> Flushed(t.loaded.average, t.new.average, stats[p].average)]]
    /\ Ends(r)
    /\ UNCHANGED <<groups, notes, addresses, delivered>>

-----------------------------------------------------------------------------
(* Addresses, of a customer or of the guest he still is.                   *)

WritesAddress(r) == AtOnce(r) /\ UNCHANGED <<groups, notes, reviews, stats, delivered>>

AddAddress(r, c, guest, place, phone) ==
    /\ WritesAddress(r)
    /\ addresses' = addresses \cup
          {[id |-> begun', owner |-> c, guest |-> guest, place |-> place, phone |-> phone]}

UpdateAddress(r, a, place, phone) ==
    /\ WritesAddress(r)
    /\ addresses' = (addresses \ {a}) \cup {[a EXCEPT !.place = place, !.phone = phone]}

DeleteAddress(r, a) ==
    /\ WritesAddress(r)
    /\ addresses' = addresses \ {a}

(* merge_guest_addresses, at a login: a guest's address replaces those of  *)
(* the customer that are Alike, one the loop has just moved among them.    *)
\* mutant: those of the same phone
Alike_ByPhone(a, b) == a.phone = b.phone

Alike(a, b) == a.place = b.place /\ a.phone = b.phone

MergeGuestAddresses(r, c) ==
    LET mine  == {a \in addresses : a.owner = c /\ ~a.guest}
        moved == {a \in addresses : a.owner = c /\ a.guest} IN
    /\ WritesAddress(r)
    /\ moved # {}
    /\ \E last \in SUBSET moved :
          /\ \A a \in moved : Cardinality({b \in last : Alike(a, b)}) = 1
          /\ addresses' = (addresses \ (moved \cup {a \in mine : \E b \in moved : Alike(a, b)}))
                             \cup {[a EXCEPT !.guest = FALSE] : a \in last}

-----------------------------------------------------------------------------
OrderStep(r) ==
    \/ \E c \in Customers, m \in Methods, shops \in SUBSET Sellers \ {{}} :
          PlaceOrders(r, c, m, shops)
    \/ \E o \in Orders : \/ BeginCancelOrder(r, o[1], o[2])
                         \/ \E new \in Status : BeginStatus(r, o[1], o[2], new)
    \/ CommitStatus(r) \/ CommitCancelOrder(r)
    \/ \E c \in Customers : \/ \E n \in notes : MarkRead(r, c, {n})
                            \/ MarkRead(r, c, {n \in notes : n.customer = c /\ ~n.read})

ReviewStep(r) ==
    \/ \E c \in Customers, p \in Sellers, rating \in Ratings : BeginReview(r, c, p, rating)
    \/ CountReviews(r) \/ CommitReview(r)

AddressStep(r) ==
    \/ \E c \in Customers, guest \in BOOLEAN, place \in Places, phone \in Phones :
          AddAddress(r, c, guest, place, phone)
    \/ \E a \in addresses : \/ DeleteAddress(r, a)
                            \/ \E place \in Places, phone \in Phones : UpdateAddress(r, a, place, phone)
    \/ \E c \in Customers : MergeGuestAddresses(r, c)

CustomersNext == \E r \in Slots : OrderStep(r) \/ ReviewStep(r) \/ AddressStep(r) \/ Rollback(r)

CustomersSpec == CustomersInit /\ [][CustomersNext]_customersVars

-----------------------------------------------------------------------------
(* Properties.                                                             *)

Abs(n) == IF n < 0 THEN -n ELSE n

NotesOf(o) == {n \in notes : n.group = o[1] /\ n.shop = o[2]}

StatusOf(o) == groups[o[1]].status[o[2]]

(* While requests take turns, the notification a customer finds on top of  *)
(* those about an order (list_notifications sorts by created_at) says the  *)
(* status it has, but for an order he has canceled himself.                *)
ToldOfStatus ==
    ~overlapped =>
        \A o \in Orders :
            \/ StatusOf(o) = "CANCELED"
            \/ NotesOf(o) = {} /\ StatusOf(o) = Placed[groups[o[1]].method]
            \/ \E n \in NotesOf(o) : /\ n.says = StatusOf(o)
                                     /\ \A k \in NotesOf(o) : k.at <= n.at

(* Whatever overlaps, an order has no status he was never told of, besides *)
(* the one it was placed with and that of his cancellation: a status and   *)
(* its notification are committed together.                                *)
EveryStatusWasTold ==
    \A o \in Orders :
        \/ StatusOf(o) \in {Placed[groups[o[1]].method], "CANCELED"}
        \/ \E n \in NotesOf(o) : n.says = StatusOf(o)

(* Whatever overlaps, who has reviewed a product was once delivered it,    *)
(* though the order may have moved on while the review was being written.  *)
ReviewersReceived ==
    \A v \in reviews : <<v.customer, v.product>> \in delivered

(* Whatever overlaps, a customer has one review of a product: submit_review *)
(* tests it on rows read before, and the index has the last word.          *)
OneReviewEach ==
    \A v, w \in reviews : v.customer = w.customer /\ v.product = w.product => v = w

(* While requests take turns, a product shows the number and the average   *)
(* of the reviews it has.                                                  *)
ReviewsShown ==
    ~overlapped =>
        \A p \in Sellers :
            LET of == {v \in reviews : v.product = p} IN
            /\ stats[p].count = Cardinality(of)
            /\ of # {} => Abs(stats[p].average * Cardinality(of)
                              - 100 * MapThenSumSet(LAMBDA v : v.rating, of)) <= Cardinality(of)

(* A login loses no place a customer noted, as a guest or before: after it *)
(* he has an address alike each.                                           *)
AddressesSurviveLogin ==
    [][\A r \in Slots, c \in Customers :
          MergeGuestAddresses(r, c) =>
              \A a \in addresses : a.owner = c =>
                  \E b \in addresses' : /\ b.owner = c /\ ~b.guest
                                        /\ b.place = a.place /\ b.phone = a.phone]_customersVars

(* The named parts together: what the run checks.                          *)

(* The customer knows where his orders stand.                              *)
CustomersAreTold ==
    /\ ToldOfStatus
    /\ EveryStatusWasTold

(* The rows are of their types, and every review is a receiver's only one. *)
ReviewsSound ==
    /\ CustomersTypeOK
    /\ ReviewersReceived
    /\ OneReviewEach
=============================================================================
