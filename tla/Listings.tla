-------------------------------- MODULE Listings -------------------------------
(***************************************************************************)
(* One listing of a supplier, with its certifications, its photos and the  *)
(* reviews buyers write of it; the categories it may be put in; and the    *)
(* admins who review it, feature it and keep the categories.               *)
(*                                                                         *)
(* A handler reads its rows, leaves the ORM a unit of work (what it has    *)
(* `seen' and `put') and COMMITS in a later step, which writes the columns *)
(* that differ.  No row is locked when it is read.  A unit of work that    *)
(* updates a row deleted for good, or that breaks a foreign key or the     *)
(* unique index of the reviews, fails as a whole.                          *)
(*                                                                         *)
(* The text, the price and the quantities of a listing are one column,     *)
(* `content'; of a certification the model keeps its name and the request  *)
(* that gave it, and of the photos which ones are marked as the cover.     *)
(* Whether a category is active, its slug and its image, and the top deals *)
(* are left out.                                                           *)
(* History: `overlapped' says whether two requests ever overlapped, and    *)
(* `crossed' whether one of the supplier overlapped with another;          *)
(* `approved', in the listing, is what its last approval had in hand.      *)
(***************************************************************************)
EXTENDS Integers, FiniteSets

CONSTANTS
    Reqs,           \* request slots
    Categories,     \* the categories there may ever be
    Contents,       \* what a listing may say
    Complete,       \* the contents that have a description and a price
    Names,          \* names of certifications
    Buyers,         \* buyer organisations
    NoCategory, None,
    MaxRequests     \* bound: requests that ever begin

ASSUME ContentsAssumption == Complete \subseteq Contents /\ Contents # {}
ASSUME CategoriesAssumption == IsFiniteSet(Categories)
ASSUME NoCategoryAssumption == NoCategory \notin Categories
ASSUME BoundsAssumption == MaxRequests \in Nat

VARIABLES
    product,    \* the row of products
    certs,      \* the rows of product_certifications that are not deleted
    covers,     \* the rows of product_images that are marked primary
    categories, \* the rows of categories
    deals,      \* the RFQ and the order of each buyer for the listing
    reviewers,  \* the buyers of the rows of export_hub_product_reviews
    requests,   \* how many requests ever began
    overlapped, crossed, \* history
    tx          \* the unit of work of the request in each slot

rows == <<product, certs, covers, categories, deals, reviewers>>
vars == <<rows, requests, overlapped, crossed, tx>>

-----------------------------------------------------------------------------
(* The archive is as good as a draft: "DRAFT" stands for both.             *)
ProductStatus == {"DRAFT", "PENDING_REVIEW", "PUBLISHED", "REJECTED"}

(* A row is not there yet, there, marked deleted, or gone for good.        *)
Existence == {"none", "live", "deleted", "gone"}

CertRow == [name : Names, edit : Nat]

CategoryRow == [row : Existence, parent : Categories \cup {NoCategory}]

(* What a reviewer checks of a listing.                                    *)
Reviewed == [content : Contents, category : Categories \cup {NoCategory}, names : SUBSET Names]

Product == [row : Existence, status : ProductStatus, content : Contents,
            category : Categories \cup {NoCategory}, featured : BOOLEAN,
            review_count : Nat, approved : Reviewed \cup {None}]

Rows == [product : Product, certs : SUBSET CertRow, covers : SUBSET Nat,
         categories : [Categories -> CategoryRow]]

Idle == [op |-> "idle"]

(* Who sent the request, what it has seen and put, the buyer whose RFQ or  *)
(* review it inserts.                                                      *)
Work == [op : {"work", "reviewing"}, by : {"supplier", "admin", "buyer"},
         seen : Rows, put : Rows, asks : SUBSET Buyers, reviews : SUBSET Buyers]

(* The type invariant: rows, and the rows a request has in hand, are rows. *)
TypeOK ==
    /\ product \in Product
    /\ certs \subseteq [name : Names, edit : 0..requests]
    /\ covers \subseteq 0..requests
    /\ categories \in [Categories -> CategoryRow]
    /\ deals \in [Buyers -> {"none", "asked", "delivered"}]
    /\ reviewers \subseteq Buyers
    /\ requests \in Nat
    /\ overlapped \in BOOLEAN /\ crossed \in BOOLEAN
    /\ tx \in [Reqs -> {Idle} \cup Work]

-----------------------------------------------------------------------------
Busy(r) == tx[r].op # "idle"

(* A handler has read its rows; nothing is written yet.                    *)
Begin(r, work) ==
    /\ ~Busy(r) /\ requests < MaxRequests
    /\ requests' = requests + 1
    /\ overlapped' = (overlapped \/ \E o \in Reqs : Busy(o))
    /\ crossed' = (crossed \/ \E o \in Reqs :
                        Busy(o) /\ "supplier" \in {work.by, tx[o].by})
    /\ tx' = [tx EXCEPT ![r] = work]
    /\ UNCHANGED rows

(* The unit of work of a handler that has changed nothing yet.             *)
Plain(by) ==
    LET rows_ == [product |-> product, certs |-> certs, covers |-> covers,
                  categories |-> categories] IN
    [op |-> "work", by |-> by, seen |-> rows_, put |-> rows_, asks |-> {}, reviews |-> {}]

Live(c) == categories[c].row = "live"

Listed == product.row = "live"

NewListing == [row |-> "none", status |-> "DRAFT", content |-> CHOOSE c \in Contents : TRUE,
               category |-> NoCategory, featured |-> FALSE, review_count |-> 0,
               approved |-> None]

(* A database without a listing or a category.                             *)
Empty ==
    /\ product = NewListing
    /\ certs = {} /\ covers = {}
    /\ categories = [c \in Categories |-> [row |-> "none", parent |-> NoCategory]]

(* The database the seed makes: a listing that MIU publishes, without a    *)
(* description, with its certifications and its cover, and the categories. *)
Seeded ==
    /\ certs = {[name |-> n, edit |-> 0] : n \in Names}
    /\ covers = {0}
    /\ categories = [c \in Categories |-> [row |-> "live", parent |-> NoCategory]]
    /\ \E content \in Contents \ Complete :
          product = [NewListing EXCEPT !.row = "live", !.status = "PUBLISHED",
              !.content = content,
              !.approved = [content |-> content, category |-> NoCategory, names |-> Names]]

Init ==
    /\ Empty \/ Seeded
    /\ deals = [b \in Buyers |-> "none"] /\ reviewers = {}
    /\ requests = 0
    /\ overlapped = FALSE /\ crossed = FALSE
    /\ tx = [r \in Reqs |-> Idle]

-----------------------------------------------------------------------------
(* The supplier.                                                           *)

\* mutant: asking to go live publishes
ResolveSupplierStatus_Publishes(asked, current) ==
    IF asked = "DRAFT" THEN asked ELSE "PUBLISHED"

(* What a supplier gets who asks for a status: anything but a draft or the *)
(* archive means "make this live".                                         *)
ResolveSupplierStatus(asked, current) ==
    IF asked = "DRAFT" THEN asked
    ELSE IF current = "PUBLISHED" THEN "PUBLISHED" ELSE "PENDING_REVIEW"

\* mutant: the certifications are not among what a reviewer checks
Fingerprint_NoCerts(p, table) ==
    [content |-> p.content, category |-> p.category, names |-> {}]

(* The names of the certifications count, sorted, once each row.           *)
Fingerprint(p, table) ==
    [content |-> p.content, category |-> p.category, names |-> {c.name : c \in table}]

(* The listing as it is offered.                                           *)
Offered == [content |-> product.content, category |-> product.category,
            names |-> {c.name : c \in certs}]

MarkSubmitted(p) == [p EXCEPT !.status = "PENDING_REVIEW", !.featured = FALSE]

(* A category that is given must be there.                                 *)
Choosable == {c \in Categories : Live(c)} \cup {NoCategory}

NewCerts(names) == {[name |-> n, edit |-> requests + 1] : n \in names}

(* The model follows one listing, so it is created once.                   *)
CreateProduct(r, content, category, names, asked) ==
    /\ product.row = "none" /\ category \in Choosable
    /\ \A o \in Reqs : Busy(o) => tx[o].put.product.row = "none"
    /\ Begin(r, [Plain("supplier") EXCEPT
          !.put.product = [@ EXCEPT !.row = "live", !.content = content,
              !.category = category, !.status = ResolveSupplierStatus(asked, "DRAFT")],
          !.put.certs = NewCerts(names)])

\* mutant: the certifications given before stay
UpdateSupplierProduct_KeepsCerts(r, content, category, names, asked) ==
    LET status == IF asked = None THEN product.status
                  ELSE ResolveSupplierStatus(asked, product.status)
        edited == [product EXCEPT !.content = content, !.status = status,
                      !.category = IF category = NoCategory THEN @ ELSE category]
        given == IF names = {} THEN certs ELSE certs \cup NewCerts(names)
        live == product.status = "PUBLISHED" /\ status = "PUBLISHED" IN
    /\ Listed /\ category \in Choosable
    /\ Begin(r, [Plain("supplier") EXCEPT
          !.put.product = IF live /\ Fingerprint(edited, given) # Fingerprint(product, certs)
                          THEN MarkSubmitted(edited) ELSE edited,
          !.put.certs = given])

(* Certifications that are given replace those there are.  A change of     *)
(* what a reviewer checks, on a listing that is live and is to stay so,    *)
(* goes back to the queue; a status is set without the rest of a           *)
(* submission, so that a featured draft is submitted featured.             *)
UpdateSupplierProduct(r, content, category, names, asked) ==
    LET status == IF asked = None THEN product.status
                  ELSE ResolveSupplierStatus(asked, product.status)
        edited == [product EXCEPT !.content = content, !.status = status,
                      !.category = IF category = NoCategory THEN @ ELSE category]
        given == IF names = {} THEN certs ELSE NewCerts(names)
        live == product.status = "PUBLISHED" /\ status = "PUBLISHED" IN
    /\ Listed /\ category \in Choosable
    /\ Begin(r, [Plain("supplier") EXCEPT
          !.put.product = IF live /\ Fingerprint(edited, given) # Fingerprint(product, certs)
                          THEN MarkSubmitted(edited) ELSE edited,
          !.put.certs = given])

SubmitForReview(r) ==
    /\ Listed /\ product.status \notin {"PENDING_REVIEW", "PUBLISHED"}
    /\ product.content \in Complete
    /\ Begin(r, [Plain("supplier") EXCEPT !.put.product = MarkSubmitted(@)])

(* A photo that is to be the cover takes the mark from the others; one     *)
(* that is not changes none of this.                                       *)
UploadProductImage(r) ==
    /\ Listed
    /\ Begin(r, [Plain("supplier") EXCEPT !.put.covers = {requests + 1}])

-----------------------------------------------------------------------------
(* The admins.                                                             *)

(* What is approved is what the row holds.  A rejected listing may be      *)
(* approved without being submitted anew.                                  *)
ReviewProduct(r, approved) ==
    /\ Listed /\ product.status \in {"PENDING_REVIEW", "REJECTED"}
    /\ Begin(r, [Plain("admin") EXCEPT
          !.put.product = IF approved
              THEN [@ EXCEPT !.status = "PUBLISHED", !.approved = Offered]
              ELSE [@ EXCEPT !.status = "REJECTED"]])

SetFeatured(r, featured) ==
    /\ Listed /\ (featured => product.status = "PUBLISHED")
    /\ Begin(r, [Plain("admin") EXCEPT !.put.product.featured = featured])

(* For good only when no RFQ and no order asks for it.                     *)
DeleteProduct(r, hard) ==
    /\ Listed
    /\ hard => \A b \in Buyers : deals[b] = "none"
    /\ Begin(r, [Plain("admin") EXCEPT
                    !.put.product.row = IF hard THEN "gone" ELSE "deleted"])

(* A parent is there, and is not the category itself.                      *)
Parents(c) == {NoCategory} \cup {k \in Categories \ {c} : Live(k)}

CreateCategory(r, c, parent) ==
    /\ categories[c].row = "none" /\ parent \in Parents(c)
    /\ \A o \in Reqs : Busy(o) => tx[o].put.categories[c].row = "none"
    /\ Begin(r, [Plain("admin") EXCEPT
          !.put.categories = [@ EXCEPT ![c] =
              [row |-> "live", parent |-> parent]]])

UpdateCategory(r, c, parent) ==
    /\ Live(c) /\ parent \in Parents(c) \cup {categories[c].parent}
    /\ Begin(r, [Plain("admin") EXCEPT
          !.put.categories = [@ EXCEPT ![c] =
              [row |-> "live", parent |-> parent]]])

\* mutant: only the products that are published keep a category
ProductCount_Published(c) == IF Listed /\ product.status = "PUBLISHED" /\ product.category = c THEN 1 ELSE 0

ProductCount(c) == IF Listed /\ product.category = c THEN 1 ELSE 0

ChildCount(c) == Cardinality({k \in Categories : Live(k) /\ categories[k].parent = c})

DeleteCategory(r, c, hard) ==
    /\ Live(c) /\ ChildCount(c) = 0 /\ ProductCount(c) = 0
    /\ Begin(r, [Plain("admin") EXCEPT
          !.put.categories = [@ EXCEPT ![c].row = IF hard THEN "gone" ELSE "deleted"]])

-----------------------------------------------------------------------------
(* The buyers.                                                             *)

BuyerProductDetail == Listed /\ product.status = "PUBLISHED"

(* An RFQ is for a listing a buyer can see.                                *)
CreateRfq(r, b) ==
    /\ BuyerProductDetail /\ deals[b] = "none"
    /\ Begin(r, [Plain("buyer") EXCEPT !.asks = {b}])

(* What became of an RFQ: its order is delivered.                          *)
ConfirmDelivery(b) ==
    /\ deals[b] = "asked"
    /\ deals' = [deals EXCEPT ![b] = "delivered"]
    /\ UNCHANGED <<product, certs, covers, categories, reviewers, requests,
                   overlapped, crossed, tx>>

(* A review is for a listing the buyer can see, and has been delivered.    *)
SubmitReview(r, b) ==
    /\ BuyerProductDetail
    /\ b \notin reviewers /\ deals[b] = "delivered"
    /\ Begin(r, [Plain("buyer") EXCEPT !.op = "reviewing", !.reviews = {b}])

(* With the row inserted the reviews there are by now are counted anew.    *)
CountReviews(r) ==
    /\ tx[r].op = "reviewing"
    /\ tx' = [tx EXCEPT ![r] = [@ EXCEPT !.op = "work",
                 !.put.product.review_count = Cardinality(reviewers \cup tx[r].reviews)]]
    /\ UNCHANGED <<rows, requests, overlapped, crossed>>

-----------------------------------------------------------------------------
(* What buyers are shown.                                                  *)

BuyerBrowse == Listed /\ product.status = "PUBLISHED"

TopRanking == Listed /\ product.status = "PUBLISHED"

FrequentlySearched == Listed /\ product.status = "PUBLISHED"

FeaturedProducts == Listed /\ product.featured /\ product.status = "PUBLISHED"

ShownToBuyers ==
    \/ BuyerProductDetail \/ BuyerBrowse \/ TopRanking
    \/ FrequentlySearched \/ FeaturedProducts

-----------------------------------------------------------------------------
(* The end of a request.                                                   *)

(* Only the columns that changed are written.                              *)
Flushed(row, seen, put) ==
    [c \in DOMAIN row |-> IF put[c] = seen[c] THEN row[c] ELSE put[c]]

(* Rows are deleted, or a mark removed, where they were seen, and added.   *)
FlushedSet(table, seen, put) == (table \ (seen \ put)) \cup (put \ seen)

(* The rows that are updated are there, and the foreign keys hold: to the  *)
(* category of a product, deleted or not, and to the parent of a category. *)
Fits(w) ==
    LET p == Flushed(product, w.seen.product, w.put.product)
        t == [c \in Categories |->
                 Flushed(categories[c], w.seen.categories[c], w.put.categories[c])] IN
    /\ w.put.product # w.seen.product => product.row # "gone"
    /\ \A c \in Categories :
          w.put.categories[c] # w.seen.categories[c] => categories[c].row # "gone"
    /\ p.row \in {"live", "deleted"} /\ p.category # NoCategory => t[p.category].row # "gone"
    /\ \A c \in Categories :
          t[c].row \in {"live", "deleted"} /\ t[c].parent # NoCategory => t[t[c].parent].row # "gone"
    /\ w.reviews \cap reviewers = {}

End(r) ==
    /\ tx' = [tx EXCEPT ![r] = Idle]
    /\ UNCHANGED <<requests, overlapped, crossed>>

Commit(r) == LET w == tx[r] IN
    /\ w.op = "work" /\ Fits(w)
    /\ product' = Flushed(product, w.seen.product, w.put.product)
    /\ certs' = FlushedSet(certs, w.seen.certs, w.put.certs)
    /\ covers' = FlushedSet(covers, w.seen.covers, w.put.covers)
    /\ categories' = [c \in Categories |->
           Flushed(categories[c], w.seen.categories[c], w.put.categories[c])]
    /\ deals' = [b \in Buyers |-> IF b \in w.asks THEN "asked" ELSE deals[b]]
    /\ reviewers' = reviewers \cup w.reviews
    /\ End(r)

(* An exception, a constraint, a row that is gone, a worker that dies.     *)
Rollback(r) == Busy(r) /\ End(r) /\ UNCHANGED rows

-----------------------------------------------------------------------------
(* Bound: a form changes the content, the category or the certifications,  *)
(* each with or without the status.                                        *)
SupplierCatalogue(r) ==
    \/ \E asked \in {"DRAFT", "PUBLISHED", None} :
          \/ \E content \in Contents :
                \/ UpdateSupplierProduct(r, content, NoCategory, {}, asked)
                \/ asked # None /\ CreateProduct(r, content, NoCategory, {}, asked)
          \/ \E category \in Categories :
                \/ UpdateSupplierProduct(r, product.content, category, {}, asked)
                \/ asked # None /\ CreateProduct(r, product.content, category, Names, asked)
          \/ UpdateSupplierProduct(r, product.content, NoCategory, Names, asked)
    \/ SubmitForReview(r) \/ UploadProductImage(r)

ProductAdmin(r) == \E choice \in BOOLEAN :
    \/ ReviewProduct(r, choice) \/ SetFeatured(r, choice)
    \/ DeleteProduct(r, choice)

CategoryAdmin(r) == \E c \in Categories :
    \/ \E parent \in Categories \cup {NoCategory} :
          CreateCategory(r, c, parent) \/ UpdateCategory(r, c, parent)
    \/ \E hard \in BOOLEAN : DeleteCategory(r, c, hard)

BuyerCatalogue(r) == \E b \in Buyers : CreateRfq(r, b) \/ SubmitReview(r, b)

Next ==
    \/ \E r \in Reqs :
          \/ SupplierCatalogue(r) \/ ProductAdmin(r) \/ CategoryAdmin(r) \/ BuyerCatalogue(r)
          \/ CountReviews(r) \/ Commit(r) \/ Rollback(r)
    \/ \E b \in Buyers : ConfirmDelivery(b)

Spec == Init /\ [][Next]_vars

-----------------------------------------------------------------------------
(* PROPERTIES.  Those that start with ~overlapped hold until two requests  *)
(* overlap, for none of the rows is locked.                                *)

(* Buyers never see a change that MIU has not seen: what they are shown is *)
(* what an admin approved, whatever the admins and the buyers do at once,  *)
(* until a request of the supplier overlaps with another.                  *)
ShownIsApproved ==
    ~crossed => (ShownToBuyers => product.approved = Offered)

(* Only an admin's request publishes or rejects a listing, whatever        *)
(* overlaps: a supplier's leaves the status of the review at most.         *)
OnlyAdminsDecide ==
    [][product'.status # product.status /\ product'.status \in {"PUBLISHED", "REJECTED"} =>
          \E r \in Reqs : tx[r].op = "work" /\ tx[r].by = "admin" /\ tx'[r] = Idle]_vars

(* The certifications of a listing were given together: those of an        *)
(* earlier edit are gone.                                                  *)
CertificationsOfOneEdit ==
    ~overlapped => \A c, d \in certs : c.edit = d.edit

(* A listing has one cover.                                                *)
OneCover == ~overlapped => Cardinality(covers) <= 1

(* A listing that is there is in a category that is there, and a category  *)
(* under one that is.                                                      *)
CategoryIsThere ==
    ~overlapped => (Listed /\ product.category # NoCategory => Live(product.category))

ParentIsThere ==
    ~overlapped => \A c \in Categories :
        Live(c) /\ categories[c].parent # NoCategory => Live(categories[c].parent)

(* The count on the listing is that of its reviews.                        *)
ReviewsCounted ==
    ~overlapped /\ product.row # "gone" => product.review_count = Cardinality(reviewers)

(* No RFQ and no order is left without its listing.                        *)
DealsKeepTheirListing ==
    ~overlapped => (product.row = "gone" => \A b \in Buyers : deals[b] = "none")

(* The named parts together: what the run checks.                          *)

(* The rows of a listing are of their types and of one edit, and count     *)
(* what is there.                                                          *)
RowsAgree ==
    /\ TypeOK
    /\ CertificationsOfOneEdit
    /\ OneCover
    /\ ReviewsCounted

(* What a row names is there.                                              *)
NothingDangles ==
    /\ CategoryIsThere
    /\ ParentIsThere
    /\ DealsKeepTheirListing
=============================================================================
