---------------------------- MODULE Listings_proofs ----------------------------
(***************************************************************************)
(* Proofs about Listings.  One inductive invariant in three parts: what    *)
(* holds however the requests overlap, what holds until a request of the   *)
(* supplier overlaps with another, and what holds until any two do.        *)
(***************************************************************************)
EXTENDS Listings, FiniteSetTheorems, TLAPS

(***************************************************************************)
(* The inductive invariant.                                                *)
(***************************************************************************)

(* Whatever overlaps: edits and photos have the number of a request that   *)
(* began, and only an admin's unit of work has a decision in it.           *)
Edits(n) == [name : Names, edit : 0..n]

Sound(w, n) ==
    /\ w.seen.certs \subseteq Edits(n) /\ w.put.certs \subseteq Edits(n)
    /\ w.seen.covers \subseteq 0..n /\ w.put.covers \subseteq 0..n
    /\ IsFiniteSet(w.reviews)
    /\ w.by = "supplier" =>
          w.put.product.status \in {"DRAFT", "PENDING_REVIEW", w.seen.product.status}
    /\ w.by = "buyer" => w.put.product.status = w.seen.product.status

AllSound == \A r \in Reqs : Busy(r) => Sound(tx[r], requests)

OverlapInv == TypeOK /\ IsFiniteSet(reviewers) /\ AllSound

(* Until a supplier's request overlaps: what is offered stays as each unit *)
(* of work has seen it, and a unit of work that leaves the listing         *)
(* published leaves it approved as it is.                                  *)
SupplierAlone ==
    \A r, s \in Reqs : Busy(r) /\ Busy(s) /\ tx[r].by = "supplier" => r = s

Uncrossed(w) ==
    /\ w.seen.product.content = product.content
    /\ w.seen.product.category = product.category
    /\ w.seen.certs = certs
    /\ w.by = "supplier" =>
          /\ w.seen.product = product
          /\ w.put.product.status = "PUBLISHED" =>
                w.put.product.approved = Fingerprint(w.put.product, w.put.certs)
    /\ w.by # "supplier" =>
          /\ w.put.product.content = w.seen.product.content
          /\ w.put.product.category = w.seen.product.category
          /\ w.put.certs = w.seen.certs
          /\ w.put.product.approved \in {w.seen.product.approved, Offered}
          /\ w.seen.product.approved = Offered => product.approved = Offered
          /\ w.put.product.status = "PUBLISHED" =>
                \/ w.seen.product.status = "PUBLISHED"
                \/ w.put.product.approved = Offered

AllUncrossed == \A r \in Reqs : Busy(r) => Uncrossed(tx[r])

PublishedIsApproved == product.status = "PUBLISHED" => product.approved = Offered

UncrossedInv == SupplierAlone /\ AllUncrossed /\ PublishedIsApproved

(* Until any two requests overlap: a unit of work has the rows as they are,*)
(* and what it puts agrees as the rows do.                                 *)
Alone == \A r, s \in Reqs : Busy(r) /\ Busy(s) => r = s

OneEdit(table) == \A c, d \in table : c.edit = d.edit

OneMark(marks) == \A i, j \in marks : i = j

InCategory(p, table) ==
    p.row = "live" /\ p.category # NoCategory => table[p.category].row = "live"

UnderParents(table) ==
    \A c \in Categories : table[c].row = "live" /\ table[c].parent # NoCategory =>
        table[table[c].parent].row = "live"

NoDeals == \A b \in Buyers : deals[b] = "none"

PutAgrees(w) ==
    /\ OneEdit(w.put.certs) /\ OneMark(w.put.covers)
    /\ InCategory(w.put.product, w.put.categories) /\ UnderParents(w.put.categories)
    /\ w.put.product.row = "gone" => w.asks = {} /\ NoDeals
    /\ w.op = "work" =>
          \/ w.reviews = {} /\ w.put.product.review_count = product.review_count
          \/ w.put.product.review_count = Cardinality(reviewers \cup w.reviews)

Fresh(w) ==
    /\ w.seen.product = product /\ w.seen.certs = certs
    /\ w.seen.covers = covers /\ w.seen.categories = categories
    /\ PutAgrees(w)

AllFresh == \A r \in Reqs : Busy(r) => Fresh(tx[r])

RowsAreGood ==
    /\ OneEdit(certs) /\ OneMark(covers)
    /\ InCategory(product, categories) /\ UnderParents(categories)
    /\ product.row = "gone" => NoDeals
    /\ product.row # "gone" => product.review_count = Cardinality(reviewers)

SerialInv == Alone /\ AllFresh /\ RowsAreGood

ListingsInv ==
    /\ OverlapInv
    /\ ~crossed => UncrossedInv
    /\ ~overlapped => SerialInv

(***************************************************************************)
(* Rows, and what a request has in hand.                                   *)
(***************************************************************************)
LEMMA FlushedProduct ==
    ASSUME NEW row \in Product, NEW seen \in Product, NEW put \in Product
    PROVE  LET new == Flushed(row, seen, put)
           IN  /\ new \in Product
               /\ new.row = IF put.row = seen.row THEN row.row ELSE put.row
               /\ new.status = IF put.status = seen.status THEN row.status ELSE put.status
               /\ new.content = IF put.content = seen.content THEN row.content ELSE put.content
               /\ new.category = IF put.category = seen.category
                                 THEN row.category ELSE put.category
               /\ new.approved = IF put.approved = seen.approved
                                 THEN row.approved ELSE put.approved
               /\ seen = row => new = put
<1> DEFINE new == Flushed(row, seen, put)
           columns == {"row", "status", "content", "category", "featured", "review_count",
                       "approved"}
<1>1. DOMAIN row = columns
  BY DEF Product
<1>2. new = [c \in columns |-> IF put[c] = seen[c] THEN row[c] ELSE put[c]]
  BY <1>1 DEF Flushed
<1>3. new = [row |-> new.row, status |-> new.status, content |-> new.content,
             category |-> new.category, featured |-> new.featured,
             review_count |-> new.review_count, approved |-> new.approved]
  BY <1>2
<1> HIDE DEF new
<1>4. /\ new.row = IF put.row = seen.row THEN row.row ELSE put.row
      /\ new.status = IF put.status = seen.status THEN row.status ELSE put.status
      /\ new.content = IF put.content = seen.content THEN row.content ELSE put.content
      /\ new.category = IF put.category = seen.category THEN row.category ELSE put.category
      /\ new.featured = IF put.featured = seen.featured THEN row.featured ELSE put.featured
      /\ new.review_count = IF put.review_count = seen.review_count
                            THEN row.review_count ELSE put.review_count
      /\ new.approved = IF put.approved = seen.approved THEN row.approved ELSE put.approved
  BY <1>2
<1>5. new \in Product
  BY <1>3, <1>4 DEF Product
<1>6. seen = row => new = put
  BY <1>4, <1>5 DEF Product
<1> QED
  BY <1>4, <1>5, <1>6 DEF new

LEMMA FlushedCategory ==
    ASSUME NEW row \in CategoryRow, NEW seen \in CategoryRow, NEW put \in CategoryRow
    PROVE  /\ Flushed(row, seen, put) \in CategoryRow
           /\ seen = row => Flushed(row, seen, put) = put
<1> DEFINE new == Flushed(row, seen, put)
<1>1. DOMAIN row = {"row", "parent"}
  BY DEF CategoryRow
<1>2. new = [c \in {"row", "parent"} |-> IF put[c] = seen[c] THEN row[c] ELSE put[c]]
  BY <1>1 DEF Flushed
<1>3. new = [row |-> new.row, parent |-> new.parent]
  BY <1>2
<1> QED
  BY <1>2, <1>3 DEF CategoryRow

LEMMA FlushedRows ==
    ASSUME NEW table, NEW seen, NEW put
    PROVE  /\ FlushedSet(table, seen, put) \subseteq table \cup put
           /\ seen = put => FlushedSet(table, seen, put) = table
           /\ seen = table => FlushedSet(table, seen, put) = put
  BY DEF FlushedSet

LEMMA WorkInHand ==
    ASSUME TypeOK, NEW r \in Reqs, Busy(r)
    PROVE  tx[r] \in Work
  BY DEF TypeOK, Busy, Idle

LEMMA SlotAfter ==
    ASSUME TypeOK, NEW r \in Reqs, NEW work, tx' = [tx EXCEPT ![r] = work]
    PROVE  \A o \in Reqs : tx'[o] = IF o = r THEN work ELSE tx[o]
  BY DEF TypeOK

LEMMA BeginType ==
    ASSUME TypeOK, NEW r \in Reqs, NEW work \in Work, Begin(r, work)
    PROVE  /\ TypeOK' /\ requests' = requests + 1
           /\ \A o \in Reqs : tx'[o] = IF o = r THEN work ELSE tx[o]
<1>1. tx' \in [Reqs -> {Idle} \cup Work]
  BY DEF TypeOK, Begin
<1>2. /\ 0..requests \subseteq 0..requests' /\ requests' \in Nat
      /\ overlapped' \in BOOLEAN /\ crossed' \in BOOLEAN
  BY DEF TypeOK, Begin
<1>3. certs' \subseteq [name : Names, edit : 0..requests']
  BY <1>2 DEF TypeOK, Begin, rows
<1>4. covers' \subseteq 0..requests'
  BY <1>2 DEF TypeOK, Begin, rows
<1>5. TypeOK'
  BY <1>1, <1>2, <1>3, <1>4 DEF TypeOK, Begin, rows
<1> QED
  BY <1>5, SlotAfter DEF Begin

LEMMA EndType ==
    ASSUME TypeOK, NEW r \in Reqs, End(r)
    PROVE  /\ tx' \in [Reqs -> {Idle} \cup Work] /\ requests' = requests
           /\ overlapped' = overlapped /\ crossed' = crossed
           /\ \A o \in Reqs : tx'[o] = IF o = r THEN Idle ELSE tx[o]
  BY SlotAfter DEF TypeOK, End

LEMMA PlainType ==
    ASSUME TypeOK, NEW by \in {"supplier", "admin", "buyer"}
    PROVE  /\ Plain(by) \in Work /\ Plain(by).op = "work" /\ Plain(by).by = by
           /\ [product |-> product, certs |-> certs, covers |-> covers,
               categories |-> categories] \in Rows
           /\ Plain(by).asks = {} /\ Plain(by).reviews = {}
<1>1. certs \subseteq CertRow /\ covers \subseteq Nat
  BY DEF TypeOK, CertRow
<1>2. [product |-> product, certs |-> certs, covers |-> covers,
       categories |-> categories] \in Rows
  BY <1>1 DEF TypeOK, Rows
<1> QED
  BY <1>2 DEF Plain, Work

(***************************************************************************)
(* The initial states.                                                     *)
(***************************************************************************)
LEMMA InitType ==
    ASSUME Init
    PROVE  /\ product \in Product /\ certs \subseteq Edits(0) /\ covers \subseteq {0}
           /\ categories \in [Categories -> CategoryRow]
           /\ OneEdit(certs) /\ PublishedIsApproved
           /\ product.category = NoCategory /\ product.row # "gone"
           /\ product.review_count = 0
           /\ \A c \in Categories : categories[c].parent = NoCategory
<1>1. NewListing \in Product /\ NewListing.review_count = 0
      /\ NewListing.category = NoCategory
  BY ContentsAssumption DEF NewListing, Product, Existence, ProductStatus
<1>2. CASE Empty
  BY <1>1, <1>2 DEF Empty, NewListing, CategoryRow, Existence, OneEdit, PublishedIsApproved
<1>3. CASE Seeded
  <2>1. PICK content \in Contents :
          product = [NewListing EXCEPT !.row = "live", !.status = "PUBLISHED",
              !.content = content,
              !.approved = [content |-> content, category |-> NoCategory, names |-> Names]]
    BY <1>3 DEF Seeded
  <2>2. /\ certs = {[name |-> n, edit |-> 0] : n \in Names} /\ covers = {0}
        /\ categories = [c \in Categories |-> [row |-> "live", parent |-> NoCategory]]
    BY <1>3 DEF Seeded
  <2>3. certs \subseteq Edits(0) /\ OneEdit(certs) /\ {c.name : c \in certs} = Names
    <3>1. \A c \in certs : \E n \in Names : c = [name |-> n, edit |-> 0]
      BY <2>2
    <3>2. \A n \in Names : [name |-> n, edit |-> 0] \in certs
      BY <2>2
    <3>3. ASSUME NEW n \in Names PROVE \E c \in certs : c.name = n
      <4>1. [name |-> n, edit |-> 0] \in certs /\ [name |-> n, edit |-> 0].name = n
        BY <3>2
      <4> QED
        BY <4>1
    <3>4. \A c \in certs : c.name \in Names
      BY <3>1
    <3>5. {c.name : c \in certs} = Names
      BY <3>3, <3>4
    <3> QED
      BY <3>1, <3>5 DEF Edits, OneEdit
  <2>4. [content |-> content, category |-> NoCategory, names |-> Names] \in Reviewed
    BY DEF Reviewed
  <2>5. product \in Product
    BY <1>1, <2>1, <2>4 DEF Product, Existence, ProductStatus
  <2>6. /\ product.content = content /\ product.category = NoCategory
        /\ product.row = "live" /\ product.review_count = 0
        /\ product.approved = [content |-> content, category |-> NoCategory, names |-> Names]
    BY <1>1, <2>1 DEF Product
  <2>7. PublishedIsApproved
    BY <2>3, <2>6 DEF PublishedIsApproved, Offered
  <2> QED
    BY <2>2, <2>3, <2>5, <2>6, <2>7 DEF CategoryRow, Existence
<1> QED
  BY <1>2, <1>3 DEF Init

LEMMA InitInv == Init => ListingsInv
<1> SUFFICES ASSUME Init PROVE ListingsInv
  OBVIOUS
<1>1. \A r \in Reqs : tx[r] = Idle /\ ~Busy(r)
  BY DEF Init, Busy, Idle
<1>2. requests = 0 /\ requests \in Nat /\ 0 \in 0..requests
  BY DEF Init
<1>3. certs \subseteq [name : Names, edit : 0..requests] /\ covers \subseteq 0..requests
  BY <1>2, InitType DEF Edits
<1>4. TypeOK
  BY <1>1, <1>2, <1>3, InitType DEF TypeOK, Init
<1>5. reviewers = {} /\ IsFiniteSet(reviewers) /\ Cardinality(reviewers) = 0
  BY FS_EmptySet DEF Init
<1>6. NoDeals
  BY DEF Init, NoDeals
<1>7. RowsAreGood
  BY <1>5, <1>6, InitType DEF RowsAreGood, OneMark, InCategory, UnderParents
<1> QED
  BY <1>1, <1>4, <1>5, <1>7, InitType
     DEF ListingsInv, OverlapInv, AllSound, UncrossedInv, SupplierAlone, AllUncrossed,
         SerialInv, Alone, AllFresh

(***************************************************************************)
(* The requests begin.                                                     *)
(***************************************************************************)
LEMMA SoundLater ==
    ASSUME NEW n \in Nat, NEW w, Sound(w, n)
    PROVE  Sound(w, n + 1)
<1>1. 0..n \subseteq 0..n + 1
  OBVIOUS
<1>2. Edits(n) \subseteq Edits(n + 1)
  BY <1>1 DEF Edits
<1> QED
  BY <1>1, <1>2 DEF Sound

LEMMA AfterBegin ==
    ASSUME ListingsInv, NEW r \in Reqs, NEW work \in Work, Begin(r, work),
           Sound(work, requests + 1),
           ~crossed => Uncrossed(work),
           ~overlapped => Fresh(work)
    PROVE  ListingsInv'
<1>1. /\ TypeOK' /\ requests' = requests + 1 /\ requests \in Nat
      /\ \A o \in Reqs : tx'[o] = IF o = r THEN work ELSE tx[o]
  BY BeginType DEF ListingsInv, OverlapInv, TypeOK
<1>2. /\ product' = product /\ certs' = certs /\ covers' = covers
      /\ categories' = categories /\ deals' = deals /\ reviewers' = reviewers
      /\ ~Busy(r)
  BY DEF Begin, rows
<1>3. OverlapInv'
  <2>1. \A o \in Reqs : Busy(o) => Sound(tx[o], requests')
    BY <1>1, SoundLater DEF ListingsInv, OverlapInv, AllSound
  <2>2. AllSound'
    BY <1>1, <2>1 DEF AllSound, Busy, Sound, Edits
  <2> QED
    BY <1>1, <1>2, <2>2 DEF ListingsInv, OverlapInv
<1>4. ASSUME ~crossed' PROVE UncrossedInv'
  <2>1. UncrossedInv /\ Uncrossed(work)
    BY <1>4 DEF Begin, ListingsInv
  <2>2. \A o \in Reqs : Busy(o) => work.by # "supplier" /\ tx[o].by # "supplier"
    BY <1>4 DEF Begin
  <2>3. SupplierAlone'
    BY <1>1, <2>1, <2>2 DEF UncrossedInv, SupplierAlone, Busy
  <2>4. AllUncrossed'
    <3>1. Offered' = Offered
      BY <1>2 DEF Offered
    <3>2. \A o \in Reqs : tx'[o].op # "idle" => Uncrossed(tx'[o])
      BY <1>1, <2>1 DEF UncrossedInv, AllUncrossed, Busy
    <3> QED
      BY <1>2, <3>1, <3>2 DEF AllUncrossed, Uncrossed, Busy, Fingerprint
  <2>5. PublishedIsApproved'
    BY <1>2, <2>1 DEF UncrossedInv, PublishedIsApproved, Offered
  <2> QED
    BY <2>3, <2>4, <2>5 DEF UncrossedInv
<1>5. ASSUME ~overlapped' PROVE SerialInv'
  <2>1. SerialInv /\ Fresh(work) /\ \A o \in Reqs : ~Busy(o)
    BY <1>5 DEF Begin, ListingsInv
  <2>2. Alone'
    BY <1>1, <2>1 DEF Alone, Busy
  <2>3. AllFresh'
    BY ZenonT(60), <1>1, <1>2, <2>1 DEF AllFresh, Fresh, PutAgrees, Busy, OneEdit, OneMark, InCategory,
                            UnderParents, NoDeals
  <2>4. RowsAreGood'
    BY <1>2, <2>1 DEF SerialInv, RowsAreGood, OneEdit, OneMark, InCategory, UnderParents,
                      NoDeals
  <2> QED
    BY <2>2, <2>3, <2>4 DEF SerialInv
<1> QED
  BY <1>3, <1>4, <1>5 DEF ListingsInv

(* What a handler begins with, given what it puts.                         *)
Carries(work, by, p, cs, cov, cat) ==
    /\ work \in Work /\ work.by = by
    /\ work.seen.product = product /\ work.seen.certs = certs
    /\ work.seen.covers = covers /\ work.seen.categories = categories
    /\ work.put.product = p /\ work.put.certs = cs
    /\ work.put.covers = cov /\ work.put.categories = cat

LEMMA AfterWork ==
    ASSUME ListingsInv, NEW r \in Reqs, NEW work, Begin(r, work),
           NEW by, NEW p, NEW cs, NEW cov, NEW cat, Carries(work, by, p, cs, cov, cat),
           cs \subseteq Edits(requests + 1), cov \subseteq 0..requests + 1,
           IsFiniteSet(work.reviews),
           by = "supplier" => p.status \in {"DRAFT", "PENDING_REVIEW", product.status},
           by = "buyer" => p.status = product.status,
           by = "supplier" /\ PublishedIsApproved =>
               (p.status = "PUBLISHED" => p.approved = Fingerprint(p, cs)),
           by # "supplier" =>
               /\ p.content = product.content /\ p.category = product.category /\ cs = certs
               /\ p.approved \in {product.approved, Offered}
               /\ p.status = "PUBLISHED" =>
                     product.status = "PUBLISHED" \/ p.approved = Offered,
           ~overlapped /\ RowsAreGood => PutAgrees(work)
    PROVE  ListingsInv'
<1>1. requests \in Nat /\ certs \subseteq Edits(requests) /\ covers \subseteq 0..requests
  BY DEF ListingsInv, OverlapInv, TypeOK, Edits
<1>2. certs \subseteq Edits(requests + 1) /\ covers \subseteq 0..requests + 1
  <2>1. 0..requests \subseteq 0..requests + 1
    BY <1>1
  <2> QED
    BY <1>1, <2>1 DEF Edits
<1>3. Sound(work, requests + 1)
  BY <1>2 DEF Sound, Carries
<1>4. ~crossed => Uncrossed(work)
  BY DEF Uncrossed, Carries, ListingsInv, UncrossedInv
<1>5. ~overlapped => Fresh(work)
  BY DEF Fresh, Carries, ListingsInv, SerialInv
<1> QED
  BY <1>3, <1>4, <1>5, AfterBegin DEF Carries

(* The supplier.                                                           *)
LEMMA Typed ==
    ASSUME ListingsInv
    PROVE  /\ TypeOK /\ product \in Product /\ requests \in Nat
           /\ certs \subseteq CertRow /\ certs \subseteq Edits(requests)
           /\ certs \subseteq Edits(requests + 1)
           /\ covers \subseteq 0..requests + 1 /\ covers \subseteq Nat
           /\ categories \in [Categories -> CategoryRow]
<1>1. /\ TypeOK /\ requests \in Nat /\ certs \subseteq [name : Names, edit : 0..requests]
      /\ covers \subseteq 0..requests
  BY DEF ListingsInv, OverlapInv, TypeOK
<1>2. 0..requests \subseteq 0..requests + 1 /\ 0..requests \subseteq Nat
  BY <1>1
<1> QED
  BY <1>1, <1>2 DEF TypeOK, CertRow, Edits

LEMMA PlainCarries ==
    ASSUME TypeOK, NEW by \in {"supplier", "admin", "buyer"}
    PROVE  /\ Carries(Plain(by), by, product, certs, covers, categories)
           /\ Plain(by).op = "work" /\ Plain(by).asks = {} /\ Plain(by).reviews = {}
  BY PlainType DEF Carries, Plain

(* A unit of work that leaves the photos and the categories as they are.   *)
LEMMA ListingPut ==
    ASSUME TypeOK, NEW by \in {"supplier", "admin", "buyer"},
           NEW p \in Product, NEW cs \in SUBSET CertRow, NEW work,
           work = [Plain(by) EXCEPT !.put.product = p, !.put.certs = cs]
    PROVE  /\ Carries(work, by, p, cs, covers, categories)
           /\ work.op = "work" /\ work.asks = {} /\ work.reviews = {}
<1>1. /\ work.seen = Plain(by).seen /\ work.op = "work" /\ work.by = by
      /\ work.asks = {} /\ work.reviews = {}
      /\ work.put.product = p /\ work.put.certs = cs
      /\ work.put.covers = covers /\ work.put.categories = categories
  BY DEF Plain
<1>2. work \in Work
  BY PlainType DEF Plain, Work, Rows
<1>3. /\ Plain(by).seen.product = product /\ Plain(by).seen.certs = certs
      /\ Plain(by).seen.covers = covers /\ Plain(by).seen.categories = categories
  BY DEF Plain
<1> QED
  BY <1>1, <1>2, <1>3 DEF Carries

LEMMA NewCertsGiven ==
    ASSUME ListingsInv, NEW names \in SUBSET Names
    PROVE  /\ NewCerts(names) \subseteq Edits(requests + 1) /\ NewCerts(names) \subseteq CertRow
           /\ OneEdit(NewCerts(names))
<1>1. requests + 1 \in Nat /\ requests + 1 \in 0..requests + 1
  BY Typed
<1> QED
  BY <1>1 DEF NewCerts, Edits, CertRow, OneEdit

LEMMA AfterCreate ==
    ASSUME ListingsInv, NEW r \in Reqs, NEW content \in Contents,
           NEW category \in Categories \cup {NoCategory}, NEW names \in SUBSET Names,
           NEW asked, CreateProduct(r, content, category, names, asked)
    PROVE  ListingsInv'
<1> DEFINE status == ResolveSupplierStatus(asked, "DRAFT")
           p == [product EXCEPT !.row = "live", !.content = content,
                    !.category = category, !.status = status]
           work == [Plain("supplier") EXCEPT !.put.product = p, !.put.certs = NewCerts(names)]
<1>1. Begin(r, work)
  BY DEF CreateProduct, Plain
<1>2. status \in {"DRAFT", "PENDING_REVIEW"}
  BY DEF ResolveSupplierStatus
<1>3. /\ p \in Product /\ p.row = "live" /\ p.status = status
      /\ p.category = category /\ p.review_count = product.review_count
  BY <1>2, Typed DEF Product, Existence, ProductStatus
<1>4. product.row = "none" /\ (category # NoCategory => categories[category].row = "live")
  BY NoCategoryAssumption DEF CreateProduct, Choosable, Live
<1> HIDE DEF p, work, status
<1>5. /\ Carries(work, "supplier", p, NewCerts(names), covers, categories)
      /\ work.op = "work" /\ work.asks = {} /\ work.reviews = {}
  BY <1>3, Typed, NewCertsGiven, ListingPut DEF work
<1>6. RowsAreGood => PutAgrees(work)
  BY <1>3, <1>4, <1>5, NewCertsGiven DEF RowsAreGood, PutAgrees, Carries, InCategory
<1>7. IsFiniteSet(work.reviews)
  BY <1>5, FS_EmptySet
<1> QED
  BY <1>1, <1>2, <1>3, <1>5, <1>6, <1>7, Typed, NewCertsGiven, AfterWork

LEMMA AfterUpdate ==
    ASSUME ListingsInv, NEW r \in Reqs, NEW content \in Contents,
           NEW category \in Categories \cup {NoCategory}, NEW names \in SUBSET Names,
           NEW asked, UpdateSupplierProduct(r, content, category, names, asked)
    PROVE  ListingsInv'
<1> DEFINE status == IF asked = None THEN product.status
                     ELSE ResolveSupplierStatus(asked, product.status)
           kept == IF category = NoCategory THEN product.category ELSE category
           edited == [product EXCEPT !.content = content, !.status = status, !.category = kept]
           given == IF names = {} THEN certs ELSE NewCerts(names)
           sent == /\ product.status = "PUBLISHED" /\ status = "PUBLISHED"
                   /\ Fingerprint(edited, given) # Fingerprint(product, certs)
           p == IF sent THEN MarkSubmitted(edited) ELSE edited
           work == [Plain("supplier") EXCEPT !.put.product = p, !.put.certs = given]
<1>1. Begin(r, work)
  BY DEF UpdateSupplierProduct
<1>2. /\ status \in {"DRAFT", "PENDING_REVIEW", product.status}
      /\ status = "PUBLISHED" => product.status = "PUBLISHED"
  BY DEF ResolveSupplierStatus
<1>3. /\ given \subseteq Edits(requests + 1) /\ given \subseteq CertRow
      /\ OneEdit(certs) => OneEdit(given)
  BY Typed, NewCertsGiven
<1>4. kept \in Categories \cup {NoCategory} /\ product.row = "live"
  BY Typed DEF Product, UpdateSupplierProduct, Listed
<1>5. RowsAreGood => (kept # NoCategory => categories[kept].row = "live")
  BY NoCategoryAssumption
     DEF UpdateSupplierProduct, Choosable, Live, Listed, RowsAreGood, InCategory
<1> HIDE DEF status, kept, given
<1>6. /\ edited \in Product /\ edited.row = "live" /\ edited.status = status
      /\ edited.category = kept /\ edited.review_count = product.review_count
      /\ edited.approved = product.approved
  BY <1>2, <1>4, Typed DEF Product, ProductStatus
<1> HIDE DEF edited
<1>7. /\ MarkSubmitted(edited) \in Product /\ MarkSubmitted(edited).row = "live"
      /\ MarkSubmitted(edited).status = "PENDING_REVIEW"
      /\ MarkSubmitted(edited).category = kept
      /\ MarkSubmitted(edited).review_count = product.review_count
  BY <1>6 DEF MarkSubmitted, Product, ProductStatus
<1>8. /\ p \in Product /\ p.row = "live" /\ p.category = kept
      /\ p.review_count = product.review_count
      /\ p.status \in {"DRAFT", "PENDING_REVIEW", product.status}
  BY <1>2, <1>6, <1>7
<1>9. PublishedIsApproved => (p.status = "PUBLISHED" => p.approved = Fingerprint(p, given))
  <2> SUFFICES ASSUME PublishedIsApproved, p.status = "PUBLISHED"
               PROVE  p.approved = Fingerprint(p, given)
    OBVIOUS
  <2>1. p = edited /\ status = "PUBLISHED" /\ ~sent
    BY <1>6, <1>7
  <2>2. Fingerprint(edited, given) = Fingerprint(product, certs)
    BY <1>2, <2>1
  <2>3. product.approved = Fingerprint(product, certs)
    BY <1>2, <2>1 DEF PublishedIsApproved, Offered, Fingerprint
  <2> QED
    BY <1>6, <2>1, <2>2, <2>3
<1> HIDE DEF p, work
<1>10. /\ Carries(work, "supplier", p, given, covers, categories)
       /\ work.op = "work" /\ work.asks = {} /\ work.reviews = {}
  BY <1>3, <1>8, Typed, ListingPut DEF work
<1>11. RowsAreGood => PutAgrees(work)
  BY <1>3, <1>5, <1>8, <1>10 DEF RowsAreGood, PutAgrees, Carries, InCategory
<1>12. IsFiniteSet(work.reviews)
  BY <1>10, FS_EmptySet
<1> QED
  BY <1>1, <1>3, <1>8, <1>9, <1>10, <1>11, <1>12, Typed, AfterWork

LEMMA AfterSubmit ==
    ASSUME ListingsInv, NEW r \in Reqs, SubmitForReview(r)
    PROVE  ListingsInv'
<1> DEFINE p == MarkSubmitted(product)
           work == [Plain("supplier") EXCEPT !.put.product = p]
<1>1. Begin(r, work) /\ product.row = "live"
  BY DEF SubmitForReview, Plain, Listed
<1>2. /\ p \in Product /\ p.row = "live" /\ p.status = "PENDING_REVIEW"
      /\ p.category = product.category /\ p.review_count = product.review_count
  BY <1>1, Typed DEF MarkSubmitted, Product, ProductStatus
<1> HIDE DEF p
<1>3. /\ Carries(work, "supplier", p, certs, covers, categories)
      /\ work.op = "work" /\ work.asks = {} /\ work.reviews = {}
  BY <1>2, Typed, PlainType DEF Carries, Plain, Work, Rows
<1> HIDE DEF work
<1>4. RowsAreGood => PutAgrees(work)
  BY <1>1, <1>2, <1>3 DEF RowsAreGood, PutAgrees, Carries, InCategory
<1>5. IsFiniteSet(work.reviews)
  BY <1>3, FS_EmptySet
<1> QED
  BY <1>1, <1>2, <1>3, <1>4, <1>5, Typed, AfterWork

LEMMA AfterUpload ==
    ASSUME ListingsInv, NEW r \in Reqs, UploadProductImage(r)
    PROVE  ListingsInv'
<1> DEFINE cov == {requests + 1}
           work == [Plain("supplier") EXCEPT !.put.covers = cov]
<1>1. Begin(r, work) /\ product.row = "live"
  BY DEF UploadProductImage, Listed
<1>2. cov \in SUBSET Nat /\ cov \subseteq 0..requests + 1 /\ OneMark(cov)
  BY Typed DEF OneMark
<1> HIDE DEF cov
<1>3. /\ Carries(work, "supplier", product, certs, cov, categories)
      /\ work.op = "work" /\ work.asks = {} /\ work.reviews = {}
  BY <1>2, Typed, PlainType DEF Carries, Plain, Work, Rows
<1> HIDE DEF work
<1>4. RowsAreGood => PutAgrees(work)
  BY <1>1, <1>2, <1>3 DEF RowsAreGood, PutAgrees, Carries
<1>5. IsFiniteSet(work.reviews)
  BY <1>3, FS_EmptySet
<1>6. PublishedIsApproved =>
        (product.status = "PUBLISHED" => product.approved = Fingerprint(product, certs))
  BY DEF PublishedIsApproved, Offered, Fingerprint
<1> QED
  BY <1>1, <1>2, <1>3, <1>4, <1>5, <1>6, Typed, AfterWork

(* The admins.                                                             *)
LEMMA AfterReviewProduct ==
    ASSUME ListingsInv, NEW r \in Reqs, NEW approved \in BOOLEAN, ReviewProduct(r, approved)
    PROVE  ListingsInv'
<1> DEFINE p == IF approved THEN [product EXCEPT !.status = "PUBLISHED", !.approved = Offered]
                ELSE [product EXCEPT !.status = "REJECTED"]
           work == [Plain("admin") EXCEPT !.put.product = p]
<1>1. Begin(r, work) /\ product.row = "live"
  BY DEF ReviewProduct, Plain, Listed
<1>2. Offered \in Reviewed
  BY Typed DEF Offered, Reviewed, Product, CertRow
<1>3. /\ p \in Product /\ p.row = "live"
      /\ p.content = product.content /\ p.category = product.category
      /\ p.review_count = product.review_count
      /\ p.approved \in {product.approved, Offered}
      /\ p.status = "PUBLISHED" => p.approved = Offered
  <2>1. CASE approved
    BY <1>1, <1>2, <2>1, Typed DEF Product, ProductStatus
  <2>2. CASE ~approved
    BY <1>1, <2>2, Typed DEF Product, ProductStatus
  <2> QED
    BY <2>1, <2>2
<1> HIDE DEF p
<1>4. /\ Carries(work, "admin", p, certs, covers, categories)
      /\ work.op = "work" /\ work.asks = {} /\ work.reviews = {}
  BY <1>3, Typed, PlainType DEF Carries, Plain, Work, Rows
<1> HIDE DEF work
<1>5. RowsAreGood => PutAgrees(work)
  BY <1>1, <1>3, <1>4 DEF RowsAreGood, PutAgrees, Carries, InCategory
<1>6. IsFiniteSet(work.reviews)
  BY <1>4, FS_EmptySet
<1> QED
  BY <1>1, <1>3, <1>4, <1>5, <1>6, Typed, AfterWork

LEMMA AfterFeatured ==
    ASSUME ListingsInv, NEW r \in Reqs, NEW featured \in BOOLEAN, SetFeatured(r, featured)
    PROVE  ListingsInv'
<1> DEFINE p == [product EXCEPT !.featured = featured]
           work == [Plain("admin") EXCEPT !.put.product.featured = featured]
<1>1. Begin(r, work) /\ product.row = "live"
  BY DEF SetFeatured, Listed
<1>2. /\ p \in Product /\ p.row = "live" /\ p.status = product.status
      /\ p.content = product.content /\ p.category = product.category
      /\ p.review_count = product.review_count /\ p.approved = product.approved
  BY <1>1, Typed DEF Product
<1>3. work.put.product = p
  BY DEF Plain
<1> HIDE DEF p
<1>4. /\ Carries(work, "admin", p, certs, covers, categories)
      /\ work.op = "work" /\ work.asks = {} /\ work.reviews = {}
  BY SMTT(30), <1>2, <1>3, Typed, PlainType DEF Carries, Plain, Work, Rows
<1> HIDE DEF work
<1>5. RowsAreGood => PutAgrees(work)
  BY <1>1, <1>2, <1>4 DEF RowsAreGood, PutAgrees, Carries, InCategory
<1>6. IsFiniteSet(work.reviews)
  BY <1>4, FS_EmptySet
<1> QED
  BY <1>1, <1>2, <1>4, <1>5, <1>6, Typed, AfterWork

LEMMA AfterDelete ==
    ASSUME ListingsInv, NEW r \in Reqs, NEW hard \in BOOLEAN, DeleteProduct(r, hard)
    PROVE  ListingsInv'
<1> DEFINE gone == IF hard THEN "gone" ELSE "deleted"
           p == [product EXCEPT !.row = gone]
           work == [Plain("admin") EXCEPT !.put.product.row = gone]
<1>1. Begin(r, work) /\ product.row = "live" /\ (hard => NoDeals)
  BY DEF DeleteProduct, Listed, NoDeals
<1>2. /\ p \in Product /\ p.row = gone /\ p.status = product.status
      /\ p.content = product.content /\ p.category = product.category
      /\ p.review_count = product.review_count /\ p.approved = product.approved
  BY <1>1, Typed DEF Product, Existence
<1>3. work.put.product = p
  BY DEF Plain
<1> HIDE DEF p
<1>4. /\ Carries(work, "admin", p, certs, covers, categories)
      /\ work.op = "work" /\ work.asks = {} /\ work.reviews = {}
  BY <1>2, <1>3, Typed, PlainType DEF Carries, Plain, Work, Rows
<1> HIDE DEF work
<1>5. RowsAreGood => PutAgrees(work)
  BY <1>1, <1>2, <1>4 DEF RowsAreGood, PutAgrees, Carries, InCategory
<1>6. IsFiniteSet(work.reviews)
  BY <1>4, FS_EmptySet
<1> QED
  BY <1>1, <1>2, <1>4, <1>5, <1>6, Typed, AfterWork

(* The categories: the table that is put is one, and keeps its parents.    *)
LEMMA CategoryPut ==
    ASSUME ListingsInv, NEW r \in Reqs, NEW work, NEW cat \in [Categories -> CategoryRow],
           Begin(r, work), work = [Plain("admin") EXCEPT !.put.categories = cat],
           RowsAreGood => InCategory(product, cat) /\ UnderParents(cat)
    PROVE  ListingsInv'
<1>1. /\ Carries(work, "admin", product, certs, covers, cat)
      /\ work.op = "work" /\ work.asks = {} /\ work.reviews = {}
  BY Typed, PlainType DEF Carries, Plain, Work, Rows
<1>2. RowsAreGood => PutAgrees(work)
  BY <1>1 DEF RowsAreGood, PutAgrees, Carries
<1>3. IsFiniteSet(work.reviews)
  BY <1>1, FS_EmptySet
<1> QED
  BY <1>1, <1>2, <1>3, Typed, AfterWork

LEMMA AfterSaveCategory ==
    ASSUME ListingsInv, NEW r \in Reqs, NEW c \in Categories,
           NEW parent \in Categories \cup {NoCategory},
           CreateCategory(r, c, parent) \/ UpdateCategory(r, c, parent)
    PROVE  ListingsInv'
<1> DEFINE row == [row |-> "live", parent |-> parent]
           cat == [categories EXCEPT ![c] = row]
           work == [Plain("admin") EXCEPT !.put.categories = cat]
<1>1. Begin(r, work)
  BY DEF CreateCategory, UpdateCategory, Plain
<1>2. /\ categories \in [Categories -> CategoryRow] /\ row \in CategoryRow
      /\ \A k \in Categories : cat[k] = IF k = c THEN row ELSE categories[k]
      /\ cat \in [Categories -> CategoryRow]
  BY Typed DEF CategoryRow, Existence
<1>3. RowsAreGood =>
        (parent # NoCategory => parent = c \/ categories[parent].row = "live")
  BY NoCategoryAssumption
     DEF CreateCategory, UpdateCategory, Parents, Live, RowsAreGood, UnderParents
<1> HIDE DEF cat
<1>4. RowsAreGood => InCategory(product, cat)
  BY <1>2, Typed DEF RowsAreGood, InCategory, Product
<1>5. RowsAreGood => UnderParents(cat)
  BY <1>2, <1>3 DEF RowsAreGood, UnderParents, CategoryRow
<1> QED
  BY <1>1, <1>2, <1>4, <1>5, CategoryPut

LEMMA NoChild ==
    ASSUME NEW c \in Categories, ChildCount(c) = 0
    PROVE  \A k \in Categories : ~(Live(k) /\ categories[k].parent = c)
<1> DEFINE children == {k \in Categories : Live(k) /\ categories[k].parent = c}
<1>1. IsFiniteSet(children)
  BY CategoriesAssumption, FS_Subset
<1>2. children = {}
  BY <1>1, FS_EmptySet DEF ChildCount
<1> QED
  BY <1>2

LEMMA AfterDeleteCategory ==
    ASSUME ListingsInv, NEW r \in Reqs, NEW c \in Categories, NEW hard \in BOOLEAN,
           DeleteCategory(r, c, hard)
    PROVE  ListingsInv'
<1> DEFINE gone == IF hard THEN "gone" ELSE "deleted"
           cat == [categories EXCEPT ![c].row = gone]
           work == [Plain("admin") EXCEPT !.put.categories = cat]
<1>1. /\ Begin(r, work) /\ ~(product.row = "live" /\ product.category = c)
      /\ \A k \in Categories : ~(categories[k].row = "live" /\ categories[k].parent = c)
  <2>1. Begin(r, work)
    BY DEF DeleteCategory, Plain
  <2>2. ~(product.row = "live" /\ product.category = c)
    BY DEF DeleteCategory, ProductCount, Listed
  <2>3. \A k \in Categories : ~(categories[k].row = "live" /\ categories[k].parent = c)
    BY NoChild DEF DeleteCategory, Live
  <2> QED
    BY <2>1, <2>2, <2>3
<1>2. /\ categories \in [Categories -> CategoryRow]
      /\ [categories[c] EXCEPT !.row = gone] \in CategoryRow
      /\ [categories[c] EXCEPT !.row = gone].row = gone
      /\ gone # "live"
  BY Typed DEF CategoryRow, Existence
<1>3. /\ \A k \in Categories : k # c => cat[k] = categories[k]
      /\ cat[c].row # "live"
      /\ cat \in [Categories -> CategoryRow]
  BY <1>2
<1> HIDE DEF cat
<1>4. RowsAreGood => InCategory(product, cat)
  BY <1>1, <1>3, Typed DEF RowsAreGood, InCategory, Product
<1>5. RowsAreGood => UnderParents(cat)
  BY <1>1, <1>2, <1>3 DEF RowsAreGood, UnderParents, CategoryRow
<1> QED
  BY <1>1, <1>3, <1>4, <1>5, CategoryPut

(* The buyers.                                                             *)
LEMMA AfterCreateRfq ==
    ASSUME ListingsInv, NEW r \in Reqs, NEW b \in Buyers, CreateRfq(r, b)
    PROVE  ListingsInv'
<1> DEFINE work == [Plain("buyer") EXCEPT !.asks = {b}]
<1>1. Begin(r, work) /\ product.row = "live"
  BY DEF CreateRfq, BuyerProductDetail, Listed
<1>2. /\ Carries(work, "buyer", product, certs, covers, categories)
      /\ work.op = "work" /\ work.reviews = {}
  BY Typed, PlainType DEF Carries, Plain, Work
<1> HIDE DEF work
<1>3. RowsAreGood => PutAgrees(work)
  BY <1>1, <1>2 DEF RowsAreGood, PutAgrees, Carries
<1>4. IsFiniteSet(work.reviews)
  BY <1>2, FS_EmptySet
<1> QED
  BY <1>1, <1>2, <1>3, <1>4, Typed, AfterWork

LEMMA AfterSubmitReview ==
    ASSUME ListingsInv, NEW r \in Reqs, NEW b \in Buyers, SubmitReview(r, b)
    PROVE  ListingsInv'
<1> DEFINE work == [Plain("buyer") EXCEPT !.op = "reviewing", !.reviews = {b}]
<1>1. Begin(r, work) /\ product.row = "live"
  BY DEF SubmitReview, BuyerProductDetail, Listed
<1>2. /\ Carries(work, "buyer", product, certs, covers, categories)
      /\ work.op = "reviewing" /\ work.reviews = {b}
  BY Typed, PlainType DEF Carries, Plain, Work
<1> HIDE DEF work
<1>3. RowsAreGood => PutAgrees(work)
  BY <1>1, <1>2 DEF RowsAreGood, PutAgrees, Carries
<1>4. IsFiniteSet(work.reviews)
  BY <1>2, FS_Singleton
<1> QED
  BY <1>1, <1>2, <1>3, <1>4, Typed, AfterWork

LEMMA AfterCount ==
    ASSUME ListingsInv, NEW r \in Reqs, CountReviews(r)
    PROVE  ListingsInv'
<1> DEFINE w == tx[r]
           n == Cardinality(reviewers \cup w.reviews)
           p == [w.put.product EXCEPT !.review_count = n]
           work == [w EXCEPT !.op = "work", !.put.product.review_count = n]
<1>1. /\ product' = product /\ certs' = certs /\ covers' = covers
      /\ categories' = categories /\ deals' = deals /\ reviewers' = reviewers
      /\ requests' = requests /\ overlapped' = overlapped /\ crossed' = crossed
      /\ Busy(r) /\ w.op = "reviewing"
  BY DEF CountReviews, rows, Busy
<1>2. /\ TypeOK /\ w \in Work /\ IsFiniteSet(reviewers) /\ Sound(w, requests)
      /\ w.put.product \in Product /\ w.put \in Rows
  BY <1>1, WorkInHand DEF ListingsInv, OverlapInv, AllSound, Work, Rows
<1>3. n \in Nat
  BY <1>2, FS_Union, FS_CardinalityType DEF Sound
<1> HIDE DEF n
<1>4. /\ p \in Product /\ p.review_count = n
      /\ p.row = w.put.product.row /\ p.status = w.put.product.status
      /\ p.content = w.put.product.content /\ p.category = w.put.product.category
      /\ p.approved = w.put.product.approved
  BY <1>2, <1>3 DEF Product
<1>5. tx' = [tx EXCEPT ![r] = work]
  BY DEF CountReviews, n
<1>6. /\ work.op = "work" /\ work.by = w.by /\ work.seen = w.seen
      /\ work.asks = w.asks /\ work.reviews = w.reviews
      /\ work.put.certs = w.put.certs /\ work.put.covers = w.put.covers
      /\ work.put.categories = w.put.categories
      /\ work.put.product = p
  BY <1>2 DEF Work, Rows
<1>7. work \in Work
  <2>1. [w.put EXCEPT !.product = p] \in Rows
    BY <1>2, <1>4 DEF Rows
  <2>2. work = [w EXCEPT !.op = "work", !.put = [w.put EXCEPT !.product = p]]
    OBVIOUS
  <2> QED
    BY <1>2, <2>1, <2>2 DEF Work
<1> HIDE DEF work, p
<1>8. \A o \in Reqs : tx'[o] = IF o = r THEN work ELSE tx[o]
  BY <1>2, <1>5, SlotAfter
<1>9. OverlapInv'
  <2>1. TypeOK'
    BY <1>1, <1>2, <1>5, <1>7 DEF TypeOK
  <2>2. Sound(work, requests)
    BY <1>2, <1>4, <1>6 DEF Sound
  <2>3. AllSound'
    BY <1>1, <1>8, <2>2 DEF ListingsInv, OverlapInv, AllSound, Busy, Sound, Edits
  <2> QED
    BY <1>1, <1>2, <2>1, <2>3 DEF OverlapInv
<1>10. ASSUME ~crossed' PROVE UncrossedInv'
  <2>1. UncrossedInv /\ Uncrossed(w)
    BY <1>1, <1>10 DEF ListingsInv, UncrossedInv, AllUncrossed
  <2>2. SupplierAlone'
    BY <1>1, <1>6, <1>8, <2>1 DEF UncrossedInv, SupplierAlone, Busy
  <2>3. Uncrossed(work)
    BY <1>4, <1>6, <2>1 DEF Uncrossed, Fingerprint
  <2>4. AllUncrossed'
    <3>1. Offered' = Offered
      BY <1>1 DEF Offered
    <3>2. \A o \in Reqs : tx'[o].op # "idle" => Uncrossed(tx'[o])
      BY <1>8, <2>1, <2>3 DEF UncrossedInv, AllUncrossed, Busy
    <3> QED
      BY <1>1, <3>1, <3>2 DEF AllUncrossed, Uncrossed, Busy, Fingerprint
  <2>5. PublishedIsApproved'
    BY <1>1, <2>1 DEF UncrossedInv, PublishedIsApproved, Offered
  <2> QED
    BY <2>2, <2>4, <2>5 DEF UncrossedInv
<1>11. ASSUME ~overlapped' PROVE SerialInv'
  <2>1. SerialInv /\ Fresh(w)
    BY <1>1, <1>11 DEF ListingsInv, SerialInv, AllFresh
  <2>2. Alone'
    BY <1>1, <1>6, <1>8, <2>1 DEF SerialInv, Alone, Busy
  <2>3. Fresh(work)
    BY <1>4, <1>6, <2>1 DEF Fresh, PutAgrees, InCategory, n
  <2>4. AllFresh'
    <3>1. \A o \in Reqs : tx'[o].op # "idle" => Fresh(tx'[o])
      BY <1>8, <2>1, <2>3 DEF SerialInv, AllFresh, Busy
    <3> QED
      BY <1>1, <3>1 DEF AllFresh, Fresh, PutAgrees, Busy, OneEdit, OneMark, InCategory,
                        UnderParents, NoDeals
  <2>5. RowsAreGood'
    BY <1>1, <2>1 DEF SerialInv, RowsAreGood, OneEdit, OneMark, InCategory, UnderParents,
                      NoDeals
  <2> QED
    BY <2>2, <2>4, <2>5 DEF SerialInv
<1> QED
  BY <1>9, <1>10, <1>11 DEF ListingsInv

LEMMA AfterDelivery ==
    ASSUME ListingsInv, NEW b \in Buyers, ConfirmDelivery(b)
    PROVE  ListingsInv'
<1>1. /\ product' = product /\ certs' = certs /\ covers' = covers
      /\ categories' = categories /\ reviewers' = reviewers
      /\ requests' = requests /\ overlapped' = overlapped /\ crossed' = crossed /\ tx' = tx
      /\ deals' = [deals EXCEPT ![b] = "delivered"] /\ ~NoDeals
  BY DEF ConfirmDelivery, NoDeals
<1>2. OverlapInv'
  BY <1>1 DEF ListingsInv, OverlapInv, TypeOK, AllSound, Busy, Sound, Edits
<1>3. ~crossed => UncrossedInv'
  BY <1>1 DEF ListingsInv, UncrossedInv, SupplierAlone, AllUncrossed, Uncrossed, Busy,
              PublishedIsApproved, Offered, Fingerprint
<1>4. ~overlapped => SerialInv'
  BY <1>1 DEF ListingsInv, SerialInv, Alone, AllFresh, Fresh, PutAgrees, Busy, RowsAreGood,
              OneEdit, OneMark, InCategory, UnderParents
<1> QED
  BY <1>1, <1>2, <1>3, <1>4 DEF ListingsInv

(***************************************************************************)
(* The requests end.                                                       *)
(***************************************************************************)
LEMMA AfterRollback ==
    ASSUME ListingsInv, NEW r \in Reqs, Rollback(r)
    PROVE  ListingsInv'
<1>1. /\ product' = product /\ certs' = certs /\ covers' = covers
      /\ categories' = categories /\ deals' = deals /\ reviewers' = reviewers
  BY DEF Rollback, rows
<1>2. /\ tx' \in [Reqs -> {Idle} \cup Work] /\ requests' = requests
      /\ overlapped' = overlapped /\ crossed' = crossed
      /\ \A o \in Reqs : tx'[o] = IF o = r THEN Idle ELSE tx[o]
  BY EndType DEF ListingsInv, OverlapInv, Rollback
<1>3. \A o \in Reqs : tx'[o].op # "idle" => tx'[o] = tx[o] /\ Busy(o)
  BY <1>2 DEF Idle, Busy
<1>4. OverlapInv'
  <2>1. TypeOK'
    BY <1>1, <1>2 DEF ListingsInv, OverlapInv, TypeOK
  <2>2. AllSound'
    BY <1>2, <1>3 DEF ListingsInv, OverlapInv, AllSound, Busy, Sound, Edits
  <2> QED
    BY <1>1, <2>1, <2>2 DEF ListingsInv, OverlapInv
<1>5. ~crossed => UncrossedInv'
  <2> SUFFICES ASSUME UncrossedInv PROVE UncrossedInv'
    BY DEF ListingsInv
  <2>1. SupplierAlone'
    BY <1>3 DEF UncrossedInv, SupplierAlone, Busy
  <2>2. AllUncrossed'
    <3>1. Offered' = Offered
      BY <1>1 DEF Offered
    <3>2. \A o \in Reqs : tx'[o].op # "idle" => Uncrossed(tx'[o])
      BY <1>3 DEF UncrossedInv, AllUncrossed
    <3> QED
      BY <1>1, <3>1, <3>2 DEF AllUncrossed, Uncrossed, Busy, Fingerprint
  <2>3. PublishedIsApproved'
    BY <1>1 DEF UncrossedInv, PublishedIsApproved, Offered
  <2> QED
    BY <2>1, <2>2, <2>3 DEF UncrossedInv
<1>6. ~overlapped => SerialInv'
  <2> SUFFICES ASSUME SerialInv PROVE SerialInv'
    BY DEF ListingsInv
  <2>1. Alone'
    BY <1>3 DEF SerialInv, Alone, Busy
  <2>2. AllFresh'
    <3>1. \A o \in Reqs : tx'[o].op # "idle" => Fresh(tx'[o])
      BY <1>3 DEF SerialInv, AllFresh
    <3> QED
      BY <1>1, <3>1 DEF AllFresh, Fresh, PutAgrees, Busy, OneEdit, OneMark, InCategory,
                        UnderParents, NoDeals
  <2>3. RowsAreGood'
    BY <1>1 DEF SerialInv, RowsAreGood, OneEdit, OneMark, InCategory, UnderParents, NoDeals
  <2> QED
    BY <2>1, <2>2, <2>3 DEF SerialInv
<1> QED
  BY <1>2, <1>4, <1>5, <1>6 DEF ListingsInv

LEMMA Committed ==
    ASSUME ListingsInv, NEW r \in Reqs, Commit(r)
    PROVE  LET w == tx[r]
           IN  /\ Busy(r) /\ w \in Work /\ w.op = "work" /\ Sound(w, requests)
               /\ w.seen.product \in Product /\ w.put.product \in Product
               /\ w.seen.categories \in [Categories -> CategoryRow]
               /\ w.put.categories \in [Categories -> CategoryRow]
               /\ tx' \in [Reqs -> {Idle} \cup Work] /\ requests' = requests
               /\ overlapped' = overlapped /\ crossed' = crossed
               /\ \A o \in Reqs : tx'[o].op # "idle" => tx'[o] = tx[o] /\ Busy(o) /\ o # r
               /\ tx'[r] = Idle
<1>1. /\ TypeOK /\ Busy(r) /\ End(r) /\ tx[r].op = "work"
  BY DEF ListingsInv, OverlapInv, Commit, Busy
<1>2. tx[r] \in Work /\ Sound(tx[r], requests)
  BY <1>1, WorkInHand DEF ListingsInv, OverlapInv, AllSound
<1>3. /\ tx' \in [Reqs -> {Idle} \cup Work] /\ requests' = requests
      /\ overlapped' = overlapped /\ crossed' = crossed
      /\ \A o \in Reqs : tx'[o] = IF o = r THEN Idle ELSE tx[o]
  BY <1>1, EndType
<1> QED
  BY <1>1, <1>2, <1>3 DEF Work, Rows, Idle, Busy

LEMMA OverlapAfterCommit ==
    ASSUME ListingsInv, NEW r \in Reqs, Commit(r)
    PROVE  OverlapInv'
<1> DEFINE w == tx[r]
<1>1. /\ TypeOK /\ w \in Work /\ Sound(w, requests)
      /\ w.seen.product \in Product /\ w.put.product \in Product
      /\ w.seen.categories \in [Categories -> CategoryRow]
      /\ w.put.categories \in [Categories -> CategoryRow]
      /\ tx' \in [Reqs -> {Idle} \cup Work] /\ requests' = requests
      /\ overlapped' = overlapped /\ crossed' = crossed
      /\ \A o \in Reqs : tx'[o].op # "idle" => tx'[o] = tx[o] /\ Busy(o)
  BY Committed DEF ListingsInv, OverlapInv
<1>2. product' \in Product
  BY <1>1, FlushedProduct DEF Commit, TypeOK
<1>3. certs' \subseteq Edits(requests) /\ covers' \subseteq 0..requests
  <2>1. /\ certs \subseteq Edits(requests) /\ w.put.certs \subseteq Edits(requests)
        /\ covers \subseteq 0..requests /\ w.put.covers \subseteq 0..requests
    BY <1>1 DEF TypeOK, Sound, Edits
  <2>2. /\ certs' \subseteq certs \cup w.put.certs
        /\ covers' \subseteq covers \cup w.put.covers
    BY FlushedRows DEF Commit
  <2> QED
    BY <2>1, <2>2
<1>4. categories' \in [Categories -> CategoryRow]
  <2>1. \A c \in Categories :
          Flushed(categories[c], w.seen.categories[c], w.put.categories[c]) \in CategoryRow
    BY <1>1, FlushedCategory DEF TypeOK
  <2> QED
    BY <2>1 DEF Commit
<1>5. deals' \in [Buyers -> {"none", "asked", "delivered"}]
  BY <1>1 DEF Commit, TypeOK
<1>6. reviewers' \subseteq Buyers /\ IsFiniteSet(reviewers')
  BY <1>1, FS_Union DEF Commit, TypeOK, Work, Sound, ListingsInv, OverlapInv
<1>7. TypeOK'
  BY <1>1, <1>2, <1>3, <1>4, <1>5, <1>6 DEF TypeOK, Edits
<1>8. AllSound'
  BY <1>1 DEF ListingsInv, OverlapInv, AllSound, Busy, Sound, Edits
<1> QED
  BY <1>6, <1>7, <1>8 DEF OverlapInv

LEMMA UncrossedAfterCommit ==
    ASSUME ListingsInv, NEW r \in Reqs, Commit(r), ~crossed
    PROVE  UncrossedInv'
<1> DEFINE w == tx[r]
           p == w.put.product
           s == w.seen.product
<1>1. /\ Busy(r) /\ w \in Work /\ s \in Product /\ p \in Product
      /\ \A o \in Reqs : tx'[o].op # "idle" => tx'[o] = tx[o] /\ Busy(o) /\ o # r
      /\ product \in Product
  BY Committed, Typed
<1>2. UncrossedInv /\ Uncrossed(w)
  BY <1>1 DEF ListingsInv, UncrossedInv, AllUncrossed
<1>3. /\ product' = Flushed(product, s, p)
      /\ certs' = FlushedSet(certs, w.seen.certs, w.put.certs)
  BY DEF Commit
<1>4. /\ product'.status = IF p.status = s.status THEN product.status ELSE p.status
      /\ product'.content = IF p.content = s.content THEN product.content ELSE p.content
      /\ product'.category = IF p.category = s.category THEN product.category ELSE p.category
      /\ product'.approved = IF p.approved = s.approved THEN product.approved ELSE p.approved
      /\ s = product => product' = p
  BY <1>1, <1>3, FlushedProduct
<1> HIDE DEF p, s
<1>5. SupplierAlone'
  BY <1>1, <1>2 DEF UncrossedInv, SupplierAlone, Busy
<1>6. CASE w.by = "supplier"
  <2>1. \A o \in Reqs : tx'[o].op = "idle"
    BY <1>1, <1>2, <1>6 DEF UncrossedInv, SupplierAlone
  <2>2. AllUncrossed'
    BY <2>1 DEF AllUncrossed, Busy
  <2>3. product' = p /\ certs' = w.put.certs
    BY <1>2, <1>3, <1>4, <1>6, FlushedRows DEF Uncrossed, s
  <2>4. PublishedIsApproved'
    <3>1. p.status = "PUBLISHED" => p.approved = Fingerprint(p, w.put.certs)
      BY <1>2, <1>6 DEF Uncrossed, p
    <3> QED
      BY <2>3, <3>1 DEF PublishedIsApproved, Offered, Fingerprint
  <2> QED
    BY <1>5, <2>2, <2>4 DEF UncrossedInv
<1>7. CASE w.by # "supplier"
  <2>1. /\ product'.content = product.content /\ product'.category = product.category
        /\ certs' = certs
    BY <1>2, <1>3, <1>4, <1>7, FlushedRows DEF Uncrossed, p, s
  <2>2. Offered' = Offered
    BY <2>1 DEF Offered
  <2>3. product'.approved \in {product.approved, Offered}
    BY <1>2, <1>4, <1>7 DEF Uncrossed, p, s
  <2>4. \A o \in Reqs : Busy(o) /\ o # r => tx[o].by # "supplier"
    BY <1>1, <1>2 DEF UncrossedInv, SupplierAlone
  <2>5. \A o \in Reqs : tx'[o].op # "idle" => tx[o].by # "supplier" /\ Uncrossed(tx[o])
    BY <1>1, <1>2, <2>4 DEF UncrossedInv, AllUncrossed
  <2>6. AllUncrossed'
    BY <1>1, <2>1, <2>2, <2>3, <2>5 DEF AllUncrossed, Uncrossed, Busy
  <2>7. PublishedIsApproved'
    <3> SUFFICES ASSUME product'.status = "PUBLISHED" PROVE product'.approved = Offered
      BY <2>2 DEF PublishedIsApproved
    <3>1. CASE product.status = "PUBLISHED"
      BY <1>2, <2>3, <3>1 DEF UncrossedInv, PublishedIsApproved
    <3>2. CASE product.status # "PUBLISHED"
      <4>1. p.status = "PUBLISHED" /\ s.status # "PUBLISHED"
        BY <1>4, <3>2
      <4>2. p.approved = Offered
        BY <1>2, <1>7, <4>1 DEF Uncrossed, p, s
      <4>3. s.approved = Offered => product.approved = Offered
        BY <1>2, <1>7 DEF Uncrossed, s
      <4> QED
        BY <1>4, <4>2, <4>3
    <3> QED
      BY <3>1, <3>2
  <2> QED
    BY <1>5, <2>6, <2>7 DEF UncrossedInv
<1> QED
  BY <1>6, <1>7

LEMMA SerialAfterCommit ==
    ASSUME ListingsInv, NEW r \in Reqs, Commit(r), ~overlapped
    PROVE  SerialInv'
<1> DEFINE w == tx[r]
           p == w.put.product
<1>1. /\ Busy(r) /\ w \in Work /\ w.op = "work" /\ p \in Product
      /\ w.put.categories \in [Categories -> CategoryRow]
      /\ \A o \in Reqs : tx'[o].op # "idle" => Busy(o) /\ o # r
  BY Committed
<1>2. SerialInv /\ Fresh(w)
  BY <1>1 DEF ListingsInv, SerialInv, AllFresh
<1>3. \A o \in Reqs : tx'[o].op = "idle"
  BY <1>1, <1>2 DEF SerialInv, Alone
<1>4. Alone' /\ AllFresh'
  BY <1>3 DEF Alone, AllFresh, Busy
<1>5. product' = p
  BY <1>1, <1>2, Typed, FlushedProduct DEF Commit, Fresh
<1>6. certs' = w.put.certs /\ covers' = w.put.covers
  BY <1>2, FlushedRows DEF Commit, Fresh
<1>7. categories' = w.put.categories
  <2>1. \A c \in Categories :
          Flushed(categories[c], w.seen.categories[c], w.put.categories[c])
              = w.put.categories[c]
    BY <1>1, <1>2, Typed, FlushedCategory DEF Fresh
  <2>2. categories' = [c \in Categories |-> w.put.categories[c]]
    BY <2>1 DEF Commit
  <2> QED
    BY <1>1, <2>2
<1>8. /\ deals' = [b \in Buyers |-> IF b \in w.asks THEN "asked" ELSE deals[b]]
      /\ reviewers' = reviewers \cup w.reviews
      /\ p # product => product.row # "gone"
  BY <1>2 DEF Commit, Fits, Fresh
<1> HIDE DEF p
<1>9. PutAgrees(w) /\ RowsAreGood
  BY <1>2 DEF SerialInv, Fresh
<1>10. p.row = "gone" => NoDeals'
  BY <1>8, <1>9 DEF PutAgrees, NoDeals, p
<1>11. p.row # "gone" => p.review_count = Cardinality(reviewers')
  <2>1. CASE w.reviews = {} /\ p.review_count = product.review_count
    <3>1. reviewers' = reviewers
      BY <1>8, <2>1
    <3> QED
      BY <1>8, <1>9, <2>1, <3>1 DEF RowsAreGood
  <2>2. CASE p.review_count = Cardinality(reviewers \cup w.reviews)
    BY <1>8, <2>2
  <2> QED
    BY <1>1, <1>9, <2>1, <2>2 DEF PutAgrees, p
<1>12. RowsAreGood'
  BY <1>5, <1>6, <1>7, <1>9, <1>10, <1>11
     DEF RowsAreGood, PutAgrees, OneEdit, OneMark, InCategory, UnderParents, p
<1> QED
  BY <1>4, <1>12 DEF SerialInv

LEMMA AfterCommit ==
    ASSUME ListingsInv, NEW r \in Reqs, Commit(r)
    PROVE  ListingsInv'
<1>1. overlapped' = overlapped /\ crossed' = crossed
  BY Committed
<1> QED
  BY <1>1, OverlapAfterCommit, UncrossedAfterCommit, SerialAfterCommit DEF ListingsInv

(***************************************************************************)
(* Every step.                                                             *)
(***************************************************************************)
LEMMA AfterSupplier ==
    ASSUME ListingsInv, NEW r \in Reqs, SupplierCatalogue(r)
    PROVE  ListingsInv'
<1>1. product.content \in Contents
  BY Typed DEF Product
<1>2. ASSUME NEW content \in Contents, NEW category \in Categories \cup {NoCategory},
             NEW names \in SUBSET Names, NEW asked,
             \/ UpdateSupplierProduct(r, content, category, names, asked)
             \/ CreateProduct(r, content, category, names, asked)
      PROVE  ListingsInv'
  BY <1>2, AfterUpdate, AfterCreate
<1>3. {} \in SUBSET Names /\ Names \in SUBSET Names
  OBVIOUS
<1> QED
  BY <1>1, <1>2, <1>3, AfterSubmit, AfterUpload DEF SupplierCatalogue

LEMMA NextInv == ListingsInv /\ [Next]_vars => ListingsInv'
<1> SUFFICES ASSUME ListingsInv, [Next]_vars PROVE ListingsInv'
  OBVIOUS
<1>1. CASE UNCHANGED vars
  <2>1. /\ product' = product /\ certs' = certs /\ covers' = covers
        /\ categories' = categories /\ deals' = deals /\ reviewers' = reviewers
        /\ requests' = requests /\ overlapped' = overlapped /\ crossed' = crossed
        /\ tx' = tx
    BY <1>1 DEF vars, rows
  <2>2. OverlapInv'
    BY <2>1 DEF ListingsInv, OverlapInv, TypeOK, AllSound, Busy, Sound, Edits
  <2>3. ~crossed => UncrossedInv'
    BY <2>1 DEF ListingsInv, UncrossedInv, SupplierAlone, AllUncrossed, Uncrossed, Busy,
                PublishedIsApproved, Offered, Fingerprint
  <2>4. ~overlapped => SerialInv'
    BY <2>1 DEF ListingsInv, SerialInv, Alone, AllFresh, Fresh, PutAgrees, Busy, RowsAreGood,
                OneEdit, OneMark, InCategory, UnderParents, NoDeals
  <2> QED
    BY <2>1, <2>2, <2>3, <2>4 DEF ListingsInv
<1>2. ASSUME NEW r \in Reqs, ProductAdmin(r) \/ CategoryAdmin(r) \/ BuyerCatalogue(r)
      PROVE  ListingsInv'
  BY <1>2, AfterReviewProduct, AfterFeatured, AfterDelete, AfterSaveCategory,
     AfterDeleteCategory, AfterCreateRfq, AfterSubmitReview
     DEF ProductAdmin, CategoryAdmin, BuyerCatalogue
<1> QED
  BY <1>1, <1>2, AfterSupplier, AfterCount, AfterCommit, AfterRollback, AfterDelivery DEF Next

LEMMA InvAlways == Spec => []ListingsInv
  BY InitInv, NextInv, PTL DEF Spec

(***************************************************************************)
(* The theorems.                                                           *)
(***************************************************************************)

(* Whatever overlaps, a listing is published or rejected by the commit of  *)
(* an admin's request; a supplier's request and a buyer's never decide.    *)
THEOREM AdminsDecide == Spec => OnlyAdminsDecide
<1>1. ASSUME ListingsInv, [Next]_vars, product'.status # product.status,
             product'.status \in {"PUBLISHED", "REJECTED"}
      PROVE  \E r \in Reqs : tx[r].op = "work" /\ tx[r].by = "admin" /\ tx'[r] = Idle
  <2>1. PICK r \in Reqs : Commit(r)
    <3>1. product' # product
      BY <1>1
    <3>2. ASSUME NEW r \in Reqs, NEW work, Begin(r, work) PROVE FALSE
      BY <3>1, <3>2 DEF Begin, rows
    <3>3. ASSUME NEW r \in Reqs, CountReviews(r) \/ Rollback(r) PROVE FALSE
      BY <3>1, <3>3 DEF CountReviews, Rollback, rows
    <3>4. ASSUME NEW b \in Buyers, ConfirmDelivery(b) PROVE FALSE
      BY <3>1, <3>4 DEF ConfirmDelivery
    <3>5. ASSUME NEW r \in Reqs, SupplierCatalogue(r) PROVE FALSE
      <4>1. ASSUME NEW content, NEW category, NEW names, NEW asked,
                   \/ UpdateSupplierProduct(r, content, category, names, asked)
                   \/ CreateProduct(r, content, category, names, asked)
            PROVE  FALSE
        BY <3>2, <4>1 DEF CreateProduct, UpdateSupplierProduct
      <4>2. CASE SubmitForReview(r) \/ UploadProductImage(r)
        BY <3>2, <4>2 DEF SubmitForReview, UploadProductImage
      <4> QED
        BY <3>5, <4>1, <4>2 DEF SupplierCatalogue
    <3>6. ASSUME NEW r \in Reqs, ProductAdmin(r) PROVE FALSE
      BY <3>2, <3>6 DEF ProductAdmin, ReviewProduct, SetFeatured, DeleteProduct
    <3>7. ASSUME NEW r \in Reqs, CategoryAdmin(r) \/ BuyerCatalogue(r) PROVE FALSE
      BY <3>2, <3>7 DEF CategoryAdmin, CreateCategory, UpdateCategory, DeleteCategory,
                        BuyerCatalogue, CreateRfq, SubmitReview
    <3>8. Next
      BY <1>1, <3>1 DEF vars, rows
    <3> QED
      BY <3>3, <3>4, <3>5, <3>6, <3>7, <3>8 DEF Next
  <2> DEFINE w == tx[r]
  <2>2. /\ w \in Work /\ w.op = "work" /\ Sound(w, requests) /\ tx'[r] = Idle
        /\ w.seen.product \in Product /\ w.put.product \in Product /\ product \in Product
    BY <1>1, <2>1, Committed, Typed
  <2>3. product'.status = IF w.put.product.status = w.seen.product.status
                          THEN product.status ELSE w.put.product.status
    BY <2>1, <2>2, FlushedProduct DEF Commit
  <2>4. /\ w.put.product.status # w.seen.product.status
        /\ w.put.product.status \in {"PUBLISHED", "REJECTED"}
    BY <1>1, <2>3
  <2>5. w.by = "admin"
    BY <2>2, <2>4 DEF Sound, Work
  <2> QED
    BY <2>2, <2>5
<1>2. ListingsInv /\ [Next]_vars =>
        [product'.status # product.status /\ product'.status \in {"PUBLISHED", "REJECTED"} =>
            \E r \in Reqs : tx[r].op = "work" /\ tx[r].by = "admin" /\ tx'[r] = Idle]_vars
  BY <1>1
<1> QED
  BY <1>2, InvAlways, PTL DEF Spec, OnlyAdminsDecide

(* Until a request of the supplier overlaps with another, what buyers are  *)
(* shown is what an admin approved, whatever admins and buyers do at once. *)
THEOREM BuyersSeeWhatWasApproved == Spec => []ShownIsApproved
<1>1. ListingsInv => ShownIsApproved
  BY DEF ListingsInv, UncrossedInv, PublishedIsApproved, ShownIsApproved, ShownToBuyers,
         BuyerProductDetail, BuyerBrowse, TopRanking, FrequentlySearched, FeaturedProducts
<1> QED
  BY <1>1, InvAlways, PTL

(* The rows are of their types; until two requests overlap, certifications *)
(* are of one edit, one photo is the cover, and the reviews are counted.   *)
THEOREM ListingRowsAgree == Spec => []RowsAgree
<1>1. ListingsInv => RowsAgree
  <2> SUFFICES ASSUME ListingsInv PROVE RowsAgree
    OBVIOUS
  <2>1. TypeOK /\ CertificationsOfOneEdit /\ ReviewsCounted
    BY DEF ListingsInv, OverlapInv, SerialInv, RowsAreGood, OneEdit, CertificationsOfOneEdit,
           ReviewsCounted
  <2>2. ASSUME OneMark(covers) PROVE Cardinality(covers) <= 1
    <3>1. CASE covers = {}
      BY <3>1, FS_EmptySet
    <3>2. ASSUME NEW i \in covers PROVE Cardinality(covers) <= 1
      <4>1. covers = {i}
        BY <2>2, <3>2 DEF OneMark
      <4>2. Cardinality({i}) = 1
        BY FS_Singleton
      <4> QED
        BY <4>1, <4>2
    <3> QED
      BY <3>1, <3>2
  <2> QED
    BY <2>1, <2>2 DEF RowsAgree, OneCover, ListingsInv, SerialInv, RowsAreGood
<1> QED
  BY <1>1, InvAlways, PTL

(* Until two requests overlap, a listing's category is there, a category's *)
(* parent is, and no RFQ is left without its listing.                      *)
THEOREM NothingIsLeftDangling == Spec => []NothingDangles
<1>1. ListingsInv => NothingDangles
  BY DEF ListingsInv, SerialInv, RowsAreGood, InCategory, UnderParents, NoDeals,
         NothingDangles, CategoryIsThere, ParentIsThere, DealsKeepTheirListing, Listed, Live
<1> QED
  BY <1>1, InvAlways, PTL
=============================================================================
