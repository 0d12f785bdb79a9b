-------------------------- MODULE Verification_proofs --------------------------
(***************************************************************************)
(* Proofs about Verification.  One inductive invariant in three parts:     *)
(* what holds however the requests overlap, what holds until the supplier  *)
(* overlaps with itself, whatever the admins do meanwhile, and what holds  *)
(* until any two requests overlap.                                         *)
(***************************************************************************)
EXTENDS Verification, FiniteSetTheorems, SequenceTheorems, TLAPS

(***************************************************************************)
(* The inductive invariant.                                                *)
(***************************************************************************)

(* From t to u: the rows of t keep their types, a site photo its file, and *)
(* what is deleted stays so.                                               *)
Grown(t, u) ==
    /\ Len(t) <= Len(u)
    /\ \A i \in DOMAIN t :
          /\ u[i].type = t[i].type
          /\ t[i].deleted => u[i].deleted
          /\ t[i].type = "sitePhotos" => u[i].file = t[i].file

(* From t to u as the admins leave the documents: every file is where it   *)
(* was, the site photos deleted have their files in D, and nothing is new  *)
(* but contact information.                                                *)
Reviewed(t, u, D) ==
    /\ Grown(t, u)
    /\ \A i \in DOMAIN t :
          /\ u[i].file = t[i].file
          /\ t[i].type = "sitePhotos" /\ u[i].deleted /\ ~t[i].deleted =>
                t[i].file \in D \cup {0}
    /\ \A i \in DOMAIN u \ DOMAIN t : u[i].type = "contact" /\ u[i].file = 0

(* Whatever overlaps: the photos on record are among the files uploaded,   *)
(* so that there are finitely many, and tables grow.                       *)
InHand(w, table, n) ==
    /\ w.tin \in 0..n /\ w.removes \subseteq 1..n
    /\ w.put.draft.photos \subseteq 1..n
    /\ Grown(w.seen.docs, table) /\ Grown(w.seen.docs, w.put.docs)
    /\ Len(w.seen.gallery) <= Len(w.put.gallery)

AllInHand == \A r \in Reqs : Busy(r) => InHand(tx[r], docs, files)

OverlapInv ==
    /\ TypeOK
    /\ draft.photos \subseteq 1..files
    /\ AllInHand
    /\ hurried => overlapped

(* Until the supplier overlaps with itself: of the last tin tin, the files *)
(* gone (deleted by the supplier) and n files uploaded, the documents and  *)
(* the draft remember nothing else.                                        *)
DocsKept(t, tin, gone, n) ==
    /\ \A d \in DOMAIN t : t[d].file \in 0..n
    /\ \A d \in Live(t) :
          /\ t[d].type = "tin" => t[d].file = tin /\ tin # 0
          /\ t[d].type = "sitePhotos" => t[d].file \notin {0, tin}
          /\ t[d].type = "contact" => t[d].file = 0
          /\ t[d].file \notin gone
    /\ \A d, e \in Live(t) : t[d].file = t[e].file /\ t[d].file # 0 => d = e

DraftKept(form, tin, gone, n) ==
    /\ form.tin \in {0, tin} /\ form.tin \notin gone
    /\ form.photos \subseteq 1..n
    /\ \A p \in form.photos : p # tin /\ p \notin gone

GalleryKept(photos, t, lost) ==
    \A p \in Live(photos) :
        \/ photos[p].file \in lost \cup {0}
        \/ \E d \in OfType(t, "sitePhotos") : t[d].file = photos[p].file

(* The last tin once w commits.                                            *)
TinOf(w) == IF w.tin = 0 THEN newest ELSE w.tin

OfSupplier(w, n) ==
    /\ w.seen.draft = draft /\ w.seen.gallery = gallery
    /\ Reviewed(w.seen.docs, docs, dropped)
    /\ w.withdraws \subseteq 1..n
    /\ DocsKept(w.put.docs, TinOf(w), withdrawn \cup w.withdraws, n)
    /\ DraftKept(w.put.draft, TinOf(w), withdrawn \cup w.withdraws, n)
    /\ GalleryKept(w.put.gallery, w.put.docs, removed \cup dropped)
    /\ saved \cup w.saves \subseteq w.put.draft.sections

OfAdmin(w) ==
    /\ Reviewed(w.seen.docs, w.put.docs, w.drops)
    /\ w.put.draft = w.seen.draft /\ w.put.gallery = w.seen.gallery
    /\ w.tin = 0 /\ w.saves = {} /\ w.withdraws = {}

OneSupplier == \A r, s \in SupplierReqs : Busy(r) /\ Busy(s) => r = s

AllUnhurried ==
    /\ \A r \in SupplierReqs : Busy(r) => OfSupplier(tx[r], files)
    /\ \A r \in AdminReqs : Busy(r) => OfAdmin(tx[r])

RowsKept ==
    /\ withdrawn \subseteq 1..files
    /\ DocsKept(docs, newest, withdrawn, files)
    /\ DraftKept(draft, newest, withdrawn, files)
    /\ GalleryKept(gallery, docs, removed \cup dropped)
    /\ saved \subseteq draft.sections

UnhurriedInv == OneSupplier /\ AllUnhurried /\ RowsKept

(* Until any two requests overlap: a unit of work has the rows as they are,*)
(* and what it puts is reviewed as the rows are.                           *)
Alone == \A r, s \in Reqs : Busy(r) /\ Busy(s) => r = s

ReviewKept(t) ==
    /\ AtMostOne(OfType(t, "contact"))
    /\ \A d \in Live(t) : t[d].status = "APPROVED" => t[d].file = t[d].approvedFile

OrgKept(o) == o.published => o.status \in {"APPROVED", "PENDING"}

Fresh(w) ==
    /\ w.seen.org = org /\ w.seen.docs = docs
    /\ ReviewKept(w.put.docs) /\ OrgKept(w.put.org)

AllFresh == \A r \in Reqs : Busy(r) => Fresh(tx[r])

SerialInv == Alone /\ AllFresh /\ ReviewKept(docs) /\ OrgKept(org)

VerificationInv ==
    /\ OverlapInv
    /\ ~hurried => UnhurriedInv
    /\ ~overlapped => SerialInv

(***************************************************************************)
(* Rows and tables.                                                        *)
(***************************************************************************)
LEMMA FlushedDoc ==
    ASSUME NEW row \in DocRow, NEW seen \in DocRow, NEW put \in DocRow
    PROVE  LET new == Flushed(row, seen, put)
           IN  /\ new \in DocRow
               /\ new.type = IF put.type = seen.type THEN row.type ELSE put.type
               /\ new.file = IF put.file = seen.file THEN row.file ELSE put.file
               /\ new.deleted = IF put.deleted = seen.deleted
                                THEN row.deleted ELSE put.deleted
               /\ seen = row => new = put
<1> DEFINE new == Flushed(row, seen, put)
           columns == {"type", "file", "status", "deleted", "approvedFile"}
<1>1. DOMAIN row = columns
  BY DEF DocRow
<1>2. new = [c \in columns |-> IF put[c] = seen[c] THEN row[c] ELSE put[c]]
  BY <1>1 DEF Flushed
<1>3. new = [type |-> new.type, file |-> new.file, status |-> new.status,
             deleted |-> new.deleted, approvedFile |-> new.approvedFile]
  BY <1>2
<1> HIDE DEF new
<1>4. /\ new.type = IF put.type = seen.type THEN row.type ELSE put.type
      /\ new.file = IF put.file = seen.file THEN row.file ELSE put.file
      /\ new.status = IF put.status = seen.status THEN row.status ELSE put.status
      /\ new.deleted = IF put.deleted = seen.deleted THEN row.deleted ELSE put.deleted
      /\ new.approvedFile = IF put.approvedFile = seen.approvedFile
                            THEN row.approvedFile ELSE put.approvedFile
  BY <1>2
<1>5. new \in DocRow
  BY <1>3, <1>4 DEF DocRow
<1>6. seen = row => new = put
  BY <1>4, <1>5 DEF DocRow
<1> QED
  BY <1>4, <1>5, <1>6 DEF new

LEMMA FlushedPhoto ==
    ASSUME NEW row \in PhotoRow, NEW seen \in PhotoRow, NEW put \in PhotoRow
    PROVE  /\ Flushed(row, seen, put) \in PhotoRow
           /\ seen = row => Flushed(row, seen, put) = put
           /\ seen = put => Flushed(row, seen, put) = row
<1> DEFINE new == Flushed(row, seen, put)
<1>1. DOMAIN row = {"file", "deleted"}
  BY DEF PhotoRow
<1>2. new = [c \in {"file", "deleted"} |-> IF put[c] = seen[c] THEN row[c] ELSE put[c]]
  BY <1>1 DEF Flushed
<1>3. new = [file |-> new.file, deleted |-> new.deleted]
  BY <1>2
<1> QED
  BY <1>2, <1>3 DEF PhotoRow

LEMMA FlushedOrg ==
    ASSUME NEW row \in OrgRow, NEW seen \in OrgRow, NEW put \in OrgRow
    PROVE  /\ Flushed(row, seen, put) \in OrgRow
           /\ seen = row => Flushed(row, seen, put) = put
<1> DEFINE new == Flushed(row, seen, put)
<1>1. DOMAIN row = {"status", "published", "deleted"}
  BY DEF OrgRow
<1>2. new = [c \in {"status", "published", "deleted"} |->
                IF put[c] = seen[c] THEN row[c] ELSE put[c]]
  BY <1>1 DEF Flushed
<1>3. new = [status |-> new.status, published |-> new.published, deleted |-> new.deleted]
  BY <1>2
<1> QED
  BY <1>2, <1>3 DEF OrgRow

LEMMA Joined ==
    ASSUME NEW R, NEW a \in Seq(R), NEW b \in Seq(R)
    PROVE  LET u == a \o b
           IN  /\ u \in Seq(R) /\ Len(u) = Len(a) + Len(b)
               /\ \A i \in 1..Len(a) : u[i] = a[i]
               /\ \A i \in Len(a) + 1..Len(u) : u[i] = b[i - Len(a)]
  BY ConcatProperties

LEMMA Suffix ==
    ASSUME NEW R, NEW p \in Seq(R), NEW n \in Nat, n <= Len(p)
    PROVE  LET u == SubSeq(p, n + 1, Len(p))
           IN  /\ u \in Seq(R) /\ Len(u) = Len(p) - n
               /\ \A i \in 1..Len(u) : u[i] = p[i + n]
<1> DEFINE u == SubSeq(p, n + 1, Len(p))
           m == Len(p)
<1>1. m \in Nat /\ n <= m /\ \A i \in 1..m : p[i] \in R
  OBVIOUS
<1>2. /\ u \in Seq(R)
      /\ Len(u) = IF n + 1 <= m THEN m - (n + 1) + 1 ELSE 0
      /\ \A i \in 1..m - (n + 1) + 1 : u[i] = p[n + 1 + i - 1]
  <2>1. n + 1 \in Int /\ m \in Int /\ \A i \in n + 1..m : p[i] \in R
    BY <1>1
  <2> QED
    BY <2>1, SubSeqProperties
<1> HIDE DEF u, m
<1>3. Len(u) = m - n
  BY <1>1, <1>2
<1>4. \A i \in 1..Len(u) : i \in 1..m - (n + 1) + 1 /\ n + 1 + i - 1 = i + n
  BY <1>1, <1>3
<1>5. \A i \in 1..Len(u) : u[i] = p[i + n]
  BY <1>2, <1>4
<1> QED
  BY <1>2, <1>3, <1>5 DEF u, m

(* What a flush makes of a table of rows.                                  *)
LEMMA FlushedRows ==
    ASSUME NEW R, NEW t \in Seq(R), NEW s \in Seq(R), NEW p \in Seq(R), Len(s) <= Len(p),
           \A row, seen, put \in R : Flushed(row, seen, put) \in R
    PROVE  LET u == FlushedTable(t, s, p)
           IN  /\ u \in Seq(R) /\ Len(u) = Len(t) + (Len(p) - Len(s))
               /\ \A i \in 1..Len(t) :
                     u[i] = IF i \in 1..Len(s) THEN Flushed(t[i], s[i], p[i]) ELSE t[i]
               /\ \A i \in Len(t) + 1..Len(u) :
                     /\ u[i] = p[i - Len(t) + Len(s)]
                     /\ i - Len(t) + Len(s) \in Len(s) + 1..Len(p)
<1> DEFINE old == [i \in DOMAIN t |->
                      IF i \in DOMAIN s THEN Flushed(t[i], s[i], p[i]) ELSE t[i]]
           new == SubSeq(p, Len(s) + 1, Len(p))
           u == FlushedTable(t, s, p)
<1>1. /\ DOMAIN t = 1..Len(t) /\ DOMAIN s = 1..Len(s) /\ DOMAIN p = 1..Len(p)
      /\ Len(t) \in Nat /\ Len(s) \in Nat /\ Len(p) \in Nat
  OBVIOUS
<1>2. \A i \in 1..Len(t) : old[i] \in R
  BY <1>1
<1>3. old \in Seq(R) /\ Len(old) = Len(t)
  BY <1>1, <1>2
<1>4. new \in Seq(R) /\ Len(new) = Len(p) - Len(s)
      /\ \A i \in 1..Len(new) : new[i] = p[i + Len(s)]
  BY <1>1, Suffix
<1>5. u = old \o new
  BY DEF FlushedTable
<1>6. \A i \in 1..Len(t) : old[i] = IF i \in 1..Len(s) THEN Flushed(t[i], s[i], p[i]) ELSE t[i]
  BY <1>1
<1> HIDE DEF old, new, u
<1>7. /\ u \in Seq(R) /\ Len(u) = Len(old) + Len(new)
      /\ \A i \in 1..Len(old) : u[i] = old[i]
      /\ \A i \in Len(old) + 1..Len(u) : u[i] = new[i - Len(old)]
  <2>1. old \in Seq(R) /\ new \in Seq(R)
    BY <1>3, <1>4
  <2>2. LET v == old \o new
        IN  /\ v \in Seq(R) /\ Len(v) = Len(old) + Len(new)
            /\ \A i \in 1..Len(old) : v[i] = old[i]
            /\ \A i \in Len(old) + 1..Len(v) : v[i] = new[i - Len(old)]
    BY <2>1, Joined, Zenon
  <2> QED
    BY <1>5, <2>2, Zenon
<1>8. Len(u) = Len(t) + (Len(p) - Len(s))
  BY <1>3, <1>4, <1>7
<1>9. \A i \in Len(t) + 1..Len(u) :
          /\ i - Len(t) \in 1..Len(new)
          /\ i - Len(t) + Len(s) \in Len(s) + 1..Len(p)
  BY <1>1, <1>4, <1>8
<1>10. \A i \in Len(t) + 1..Len(u) : u[i] = p[i - Len(t) + Len(s)]
  BY <1>3, <1>4, <1>7, <1>9
<1>11. \A i \in 1..Len(t) :
           u[i] = IF i \in 1..Len(s) THEN Flushed(t[i], s[i], p[i]) ELSE t[i]
  BY <1>3, <1>6, <1>7
<1> QED
  BY <1>7, <1>8, <1>9, <1>10, <1>11 DEF u

LEMMA FlushedDocs ==
    ASSUME NEW t \in Seq(DocRow), NEW s \in Seq(DocRow), NEW p \in Seq(DocRow),
           Len(s) <= Len(p)
    PROVE  LET u == FlushedTable(t, s, p)
           IN  /\ u \in Seq(DocRow) /\ Len(u) = Len(t) + (Len(p) - Len(s))
               /\ \A i \in 1..Len(t) :
                     u[i] = IF i \in 1..Len(s) THEN Flushed(t[i], s[i], p[i]) ELSE t[i]
               /\ \A i \in Len(t) + 1..Len(u) :
                     /\ u[i] = p[i - Len(t) + Len(s)]
                     /\ i - Len(t) + Len(s) \in Len(s) + 1..Len(p)
               /\ s = t => u = p
<1>1. \A row, seen, put \in DocRow : Flushed(row, seen, put) \in DocRow
  BY FlushedDoc
<1> DEFINE u == FlushedTable(t, s, p)
<1>2. /\ u \in Seq(DocRow) /\ Len(u) = Len(t) + (Len(p) - Len(s))
      /\ \A i \in 1..Len(t) :
            u[i] = IF i \in 1..Len(s) THEN Flushed(t[i], s[i], p[i]) ELSE t[i]
      /\ \A i \in Len(t) + 1..Len(u) :
            /\ u[i] = p[i - Len(t) + Len(s)]
            /\ i - Len(t) + Len(s) \in Len(s) + 1..Len(p)
  BY <1>1, FlushedRows
<1> HIDE DEF u
<1>3. ASSUME s = t PROVE u = p
  <2>1. Len(u) = Len(p) /\ Len(t) \in Nat /\ Len(p) \in Nat
    BY <1>2, <1>3
  <2>2. \A i \in 1..Len(t) : u[i] = Flushed(t[i], t[i], p[i]) /\ t[i] \in DocRow /\ p[i] \in DocRow
    BY <1>2, <1>3, <2>1
  <2>3. \A i \in 1..Len(t) : u[i] = p[i]
    BY <2>2, FlushedDoc
  <2>4. \A i \in Len(t) + 1..Len(u) : u[i] = p[i]
    BY <1>2, <1>3, <2>1
  <2>5. \A i \in 1..Len(p) : u[i] = p[i]
    BY <2>1, <2>3, <2>4
  <2> QED
    BY <1>2, <2>1, <2>5, SeqEqual
<1> QED
  BY <1>2, <1>3 DEF u

LEMMA FlushedGallery ==
    ASSUME NEW t \in Seq(PhotoRow), NEW s \in Seq(PhotoRow), NEW p \in Seq(PhotoRow),
           Len(s) <= Len(p)
    PROVE  /\ FlushedTable(t, s, p) \in Seq(PhotoRow)
           /\ s = t => FlushedTable(t, s, p) = p
           /\ s = p => FlushedTable(t, s, p) = t
<1>1. \A row, seen, put \in PhotoRow : Flushed(row, seen, put) \in PhotoRow
  BY FlushedPhoto
<1> DEFINE u == FlushedTable(t, s, p)
<1>2. /\ u \in Seq(PhotoRow) /\ Len(u) = Len(t) + (Len(p) - Len(s))
      /\ \A i \in 1..Len(t) :
            u[i] = IF i \in 1..Len(s) THEN Flushed(t[i], s[i], p[i]) ELSE t[i]
      /\ \A i \in Len(t) + 1..Len(u) :
            /\ u[i] = p[i - Len(t) + Len(s)]
            /\ i - Len(t) + Len(s) \in Len(s) + 1..Len(p)
  BY <1>1, FlushedRows
<1> HIDE DEF u
<1>3. Len(t) \in Nat /\ Len(s) \in Nat /\ Len(p) \in Nat
  OBVIOUS
<1>4. ASSUME s = t PROVE u = p
  <2>1. Len(u) = Len(p)
    BY <1>2, <1>3, <1>4
  <2>2. \A i \in 1..Len(t) : u[i] = Flushed(t[i], t[i], p[i]) /\ t[i] \in PhotoRow /\ p[i] \in PhotoRow
    BY <1>2, <1>3, <1>4
  <2>3. \A i \in 1..Len(t) : u[i] = p[i]
    BY <2>2, FlushedPhoto
  <2>4. \A i \in Len(t) + 1..Len(u) : u[i] = p[i]
    BY <1>2, <1>3, <1>4
  <2>5. \A i \in 1..Len(p) : u[i] = p[i]
    BY <1>3, <2>1, <2>3, <2>4
  <2> QED
    BY <1>2, <2>1, <2>5, SeqEqual
<1>5. ASSUME s = p PROVE u = t
  <2>1. Len(u) = Len(t)
    BY <1>2, <1>3, <1>5
  <2>2. \A i \in 1..Len(t) :
            /\ u[i] = IF i \in 1..Len(s) THEN Flushed(t[i], p[i], p[i]) ELSE t[i]
            /\ t[i] \in PhotoRow
            /\ i \in 1..Len(s) => p[i] \in PhotoRow
    BY <1>2, <1>3, <1>5
  <2>3. \A i \in 1..Len(t) : u[i] = t[i]
    BY <2>2, FlushedPhoto
  <2> QED
    BY <1>2, <2>1, <2>3, SeqEqual
<1> QED
  BY <1>2, <1>4, <1>5 DEF u

LEMMA TableAfter ==
    ASSUME NEW R, NEW table \in Seq(R), NEW new \in [DOMAIN table -> R]
    PROVE  new \in Seq(R) /\ DOMAIN new = DOMAIN table /\ Len(new) = Len(table)
  OBVIOUS

LEMMA TableLonger ==
    ASSUME NEW R, NEW table \in Seq(R), NEW row \in R
    PROVE  LET new == Append(table, row)
               n == Len(table) + 1
           IN  /\ new \in Seq(R) /\ Len(new) = n
               /\ n \in Nat \ {0}
               /\ n \notin DOMAIN table /\ DOMAIN new = DOMAIN table \cup {n}
               /\ new[n] = row /\ \A i \in DOMAIN table : new[i] = table[i]
  OBVIOUS

(* A finite set has a sequence of its members, each there once.            *)
LEMMA InSequence ==
    ASSUME NEW S, IsFiniteSet(S)
    PROVE  LET u == SetToSeq(S)
           IN  u \in Seq(S) /\ \A i, j \in 1..Len(u) : u[i] = u[j] => i = j
<1> DEFINE n == Cardinality(S)
           u == SetToSeq(S)
<1>1. n \in Nat /\ ExistsBijection(1..n, S)
  BY FS_CardinalityType
<1>2. \E f \in [1..n -> S] : IsInjective(f)
  BY <1>1 DEF ExistsBijection, Bijection, Injection
<1>3. u \in [1..n -> S] /\ IsInjective(u)
  BY <1>2 DEF SetToSeq
<1> HIDE DEF n, u
<1>4. u \in Seq(S) /\ Len(u) = n /\ DOMAIN u = 1..n
  BY <1>1, <1>3
<1> QED
  BY <1>3, <1>4 DEF IsInjective, u

LEMMA NewDocType ==
    ASSUME NEW type \in {"tin", "sitePhotos", "contact"}, NEW file \in Nat
    PROVE  /\ NewDoc(type, file) \in DocRow
           /\ NewDoc(type, file).type = type /\ NewDoc(type, file).file = file
           /\ NewDoc(type, file).status = "PENDING" /\ ~NewDoc(type, file).deleted
  BY DEF NewDoc, DocRow

LEMMA PhotosInSequence ==
    ASSUME NEW photos \in SUBSET Nat, IsFiniteSet(photos)
    PROVE  LET u == SetToSeq({NewDoc("sitePhotos", p) : p \in photos})
           IN  /\ u \in Seq(DocRow)
               /\ \A i \in 1..Len(u) :
                     u[i].file \in photos /\ u[i] = NewDoc("sitePhotos", u[i].file)
               /\ \A i, j \in 1..Len(u) : u[i].file = u[j].file => i = j
<1> DEFINE S == {NewDoc("sitePhotos", p) : p \in photos}
           u == SetToSeq(S)
<1>1. IsFiniteSet(S)
  <2> DEFINE f == [p \in photos |-> NewDoc("sitePhotos", p)]
  <2>1. f \in Surjection(photos, S)
    BY DEF Surjection
  <2> QED
    BY <2>1, FS_Surjection DEF ExistsSurjection
<1>2. u \in Seq(S) /\ \A i, j \in 1..Len(u) : u[i] = u[j] => i = j
  BY <1>1, InSequence
<1>3. \A x \in S : x \in DocRow /\ x.file \in photos /\ x = NewDoc("sitePhotos", x.file)
  BY NewDocType
<1>4. S \subseteq DocRow
  BY <1>3
<1> HIDE DEF S, u
<1>5. Len(u) \in Nat /\ \A i \in 1..Len(u) : u[i] \in S
  BY <1>2
<1>6. u \in Seq(DocRow)
  BY <1>2, <1>4, <1>5
<1>7. \A i, j \in 1..Len(u) : u[i].file = u[j].file => u[i] = u[j]
  BY <1>3, <1>5
<1> QED
  BY <1>2, <1>3, <1>5, <1>6, <1>7 DEF S, u

(***************************************************************************)
(* How the documents grow, and what that keeps.                            *)
(***************************************************************************)
LEMMA GrownSame ==
    ASSUME NEW t \in Seq(DocRow)
    PROVE  Grown(t, t)
  BY DEF Grown

LEMMA GrownTwice ==
    ASSUME NEW t \in Seq(DocRow), NEW u \in Seq(DocRow), NEW v \in Seq(DocRow),
           Grown(t, u), Grown(u, v)
    PROVE  Grown(t, v)
<1>1. /\ Len(t) \in Nat /\ Len(u) \in Nat /\ Len(v) \in Nat
      /\ DOMAIN t = 1..Len(t) /\ DOMAIN u = 1..Len(u) /\ DOMAIN v = 1..Len(v)
  OBVIOUS
<1>2. Len(t) <= Len(u) /\ Len(u) <= Len(v)
  BY DEF Grown
<1>3. DOMAIN t \subseteq DOMAIN u /\ Len(t) <= Len(v)
  BY <1>1, <1>2
<1> QED
  BY <1>3 DEF Grown

LEMMA ReviewedSame ==
    ASSUME NEW t \in Seq(DocRow), NEW D
    PROVE  Reviewed(t, t, D)
  BY GrownSame DEF Reviewed

LEMMA ReviewedTwice ==
    ASSUME NEW t \in Seq(DocRow), NEW u \in Seq(DocRow), NEW v \in Seq(DocRow),
           NEW D, NEW E, Reviewed(t, u, D), Reviewed(u, v, E)
    PROVE  Reviewed(t, v, D \cup E)
<1>1. Grown(t, u) /\ Grown(u, v) /\ Grown(t, v)
  BY GrownTwice DEF Reviewed
<1>2. /\ Len(t) \in Nat /\ Len(u) \in Nat /\ Len(v) \in Nat
      /\ DOMAIN t = 1..Len(t) /\ DOMAIN u = 1..Len(u) /\ DOMAIN v = 1..Len(v)
      /\ Len(t) <= Len(u) /\ Len(u) <= Len(v)
  BY <1>1 DEF Grown
<1>3. DOMAIN t \subseteq DOMAIN u /\ DOMAIN u \subseteq DOMAIN v
  BY <1>2
<1>4. ASSUME NEW i \in DOMAIN t
      PROVE  /\ v[i].file = t[i].file
             /\ t[i].type = "sitePhotos" /\ v[i].deleted /\ ~t[i].deleted =>
                    t[i].file \in D \cup E \cup {0}
  <2>1. /\ u[i].file = t[i].file /\ u[i].type = t[i].type
        /\ t[i].type = "sitePhotos" /\ u[i].deleted /\ ~t[i].deleted =>
              t[i].file \in D \cup {0}
    BY <1>1, <1>4 DEF Reviewed, Grown
  <2>2. /\ v[i].file = u[i].file
        /\ u[i].type = "sitePhotos" /\ v[i].deleted /\ ~u[i].deleted =>
              u[i].file \in E \cup {0}
    BY <1>3, <1>4 DEF Reviewed
  <2> QED
    BY <2>1, <2>2
<1>5. ASSUME NEW i \in DOMAIN v \ DOMAIN t
      PROVE  v[i].type = "contact" /\ v[i].file = 0
  <2>1. CASE i \in DOMAIN u
    BY <1>1, <1>5, <2>1 DEF Reviewed, Grown
  <2>2. CASE i \notin DOMAIN u
    BY <1>5, <2>2 DEF Reviewed
  <2> QED
    BY <2>1, <2>2
<1> QED
  BY <1>1, <1>4, <1>5 DEF Reviewed

(* A row that was there is flushed, whoever does it.                       *)
LEMMA FlushGrows ==
    ASSUME NEW t \in Seq(DocRow), NEW s \in Seq(DocRow), NEW p \in Seq(DocRow),
           Grown(s, p), Grown(s, t)
    PROVE  LET u == FlushedTable(t, s, p)
           IN  /\ u \in Seq(DocRow) /\ Len(t) <= Len(u) /\ Grown(t, u)
               /\ \A i \in DOMAIN s :
                     /\ i \in DOMAIN t /\ i \in DOMAIN p /\ i \in DOMAIN u
                     /\ u[i].type = p[i].type
                     /\ u[i].file = IF p[i].file = s[i].file THEN t[i].file ELSE p[i].file
                     /\ u[i].deleted <=> t[i].deleted \/ p[i].deleted
<1> DEFINE u == FlushedTable(t, s, p)
<1>1. /\ Len(s) \in Nat /\ Len(t) \in Nat /\ Len(p) \in Nat
      /\ Len(s) <= Len(t) /\ Len(s) <= Len(p)
      /\ DOMAIN s = 1..Len(s) /\ DOMAIN t = 1..Len(t) /\ DOMAIN p = 1..Len(p)
  BY DEF Grown
<1>2. DOMAIN s \subseteq DOMAIN t /\ DOMAIN s \subseteq DOMAIN p
  BY <1>1
<1>3. /\ u \in Seq(DocRow) /\ Len(u) = Len(t) + (Len(p) - Len(s))
      /\ \A i \in 1..Len(t) :
            u[i] = IF i \in 1..Len(s) THEN Flushed(t[i], s[i], p[i]) ELSE t[i]
  BY SMTT(30), <1>1, FlushedDocs
<1> HIDE DEF u
<1>4. Len(t) <= Len(u) /\ DOMAIN u = 1..Len(u) /\ DOMAIN t \subseteq DOMAIN u
  BY <1>1, <1>3
<1>5. ASSUME NEW i \in DOMAIN s
      PROVE  /\ u[i].type = p[i].type /\ u[i].type = t[i].type
             /\ u[i].file = IF p[i].file = s[i].file THEN t[i].file ELSE p[i].file
             /\ u[i].deleted <=> t[i].deleted \/ p[i].deleted
             /\ t[i].type = "sitePhotos" => u[i].file = t[i].file
  <2>1. t[i] \in DocRow /\ s[i] \in DocRow /\ p[i] \in DocRow
    BY <1>2
  <2>2. u[i] = Flushed(t[i], s[i], p[i])
    BY <1>1, <1>2, <1>3
  <2>3. /\ u[i].type = IF p[i].type = s[i].type THEN t[i].type ELSE p[i].type
        /\ u[i].file = IF p[i].file = s[i].file THEN t[i].file ELSE p[i].file
        /\ u[i].deleted = IF p[i].deleted = s[i].deleted THEN t[i].deleted ELSE p[i].deleted
    BY <2>1, <2>2, FlushedDoc
  <2>4. /\ p[i].type = s[i].type /\ t[i].type = s[i].type
        /\ s[i].deleted => p[i].deleted /\ t[i].deleted
        /\ s[i].type = "sitePhotos" => p[i].file = s[i].file
    BY DEF Grown
  <2>5. t[i].deleted \in BOOLEAN /\ s[i].deleted \in BOOLEAN /\ p[i].deleted \in BOOLEAN
    BY <2>1 DEF DocRow
  <2>6. u[i].deleted <=> t[i].deleted \/ p[i].deleted
    BY <2>3, <2>4, <2>5
  <2> QED
    BY <2>3, <2>4, <2>6
<1>6. \A i \in DOMAIN t \ DOMAIN s : u[i] = t[i]
  BY <1>1, <1>3
<1>7. Grown(t, u)
  BY <1>4, <1>5, <1>6 DEF Grown
<1> QED
  BY <1>2, <1>3, <1>4, <1>5, <1>7 DEF u

(* What an admin puts leaves the documents reviewed, however the table     *)
(* changed since it was read.                                              *)
LEMMA FlushReviews ==
    ASSUME NEW t \in Seq(DocRow), NEW s \in Seq(DocRow), NEW p \in Seq(DocRow), NEW D,
           Reviewed(s, p, D), Grown(s, t)
    PROVE  Reviewed(t, FlushedTable(t, s, p), D)
<1> DEFINE u == FlushedTable(t, s, p)
<1>1. Grown(s, p)
  BY DEF Reviewed
<1>2. /\ u \in Seq(DocRow) /\ Grown(t, u)
      /\ \A i \in DOMAIN s :
            /\ i \in DOMAIN t /\ i \in DOMAIN p
            /\ u[i].file = IF p[i].file = s[i].file THEN t[i].file ELSE p[i].file
            /\ u[i].deleted <=> t[i].deleted \/ p[i].deleted
  BY <1>1, FlushGrows
<1>3. /\ Len(s) \in Nat /\ Len(t) \in Nat /\ Len(p) \in Nat
      /\ Len(s) <= Len(t) /\ Len(s) <= Len(p)
      /\ DOMAIN s = 1..Len(s) /\ DOMAIN t = 1..Len(t) /\ DOMAIN p = 1..Len(p)
  BY <1>1 DEF Grown
<1>4. /\ u \in Seq(DocRow) /\ Len(u) = Len(t) + (Len(p) - Len(s))
      /\ \A i \in 1..Len(t) :
            u[i] = IF i \in 1..Len(s) THEN Flushed(t[i], s[i], p[i]) ELSE t[i]
      /\ \A i \in Len(t) + 1..Len(u) :
            /\ u[i] = p[i - Len(t) + Len(s)]
            /\ i - Len(t) + Len(s) \in Len(s) + 1..Len(p)
  BY <1>3, FlushedDocs
<1> HIDE DEF u
<1>5. \A i \in DOMAIN s :
          /\ u[i].file = t[i].file
          /\ t[i].type = "sitePhotos" /\ u[i].deleted /\ ~t[i].deleted =>
                t[i].file \in D \cup {0}
  <2>1. ASSUME NEW i \in DOMAIN s
        PROVE  /\ u[i].file = t[i].file
               /\ t[i].type = "sitePhotos" /\ u[i].deleted /\ ~t[i].deleted =>
                     t[i].file \in D \cup {0}
    <3>1. p[i].file = s[i].file /\ t[i].type = s[i].type
          /\ (s[i].deleted => t[i].deleted)
          /\ (s[i].type = "sitePhotos" => t[i].file = s[i].file)
          /\ (s[i].type = "sitePhotos" /\ p[i].deleted /\ ~s[i].deleted =>
                s[i].file \in D \cup {0})
      BY <2>1 DEF Reviewed, Grown
    <3> QED
      BY <1>2, <2>1, <3>1
  <2> QED
    BY <2>1
<1>6. \A i \in DOMAIN t \ DOMAIN s : u[i] = t[i]
  BY <1>3, <1>4
<1>7. \A i \in DOMAIN u \ DOMAIN t : u[i].type = "contact" /\ u[i].file = 0
  <2>1. ASSUME NEW i \in DOMAIN u \ DOMAIN t
        PROVE  u[i].type = "contact" /\ u[i].file = 0
    <3>1. i \in Len(t) + 1..Len(u)
      BY <1>2, <1>3, <2>1
    <3>2. /\ u[i] = p[i - Len(t) + Len(s)]
          /\ i - Len(t) + Len(s) \in Len(s) + 1..Len(p)
      BY <1>4, <3>1
    <3>3. i - Len(t) + Len(s) \in DOMAIN p \ DOMAIN s
      BY <1>3, <3>2
    <3> QED
      BY <3>2, <3>3 DEF Reviewed
  <2> QED
    BY <2>1
<1> QED
  BY <1>2, <1>5, <1>6, <1>7 DEF Reviewed, u

(* What an admin leaves of the documents is kept.                          *)
LEMMA ReviewKeepsDocs ==
    ASSUME NEW t \in Seq(DocRow), NEW u \in Seq(DocRow), NEW D, NEW tin \in Nat,
           NEW n \in Nat, NEW gone \in SUBSET (1..n),
           Reviewed(t, u, D), DocsKept(t, tin, gone, n)
    PROVE  DocsKept(u, tin, gone, n)
<1>1. \A d \in Live(u) :
          \/ d \in Live(t) /\ u[d].type = t[d].type /\ u[d].file = t[d].file
          \/ u[d].type = "contact" /\ u[d].file = 0
  BY DEF Reviewed, Grown, Live
<1>2. 0 \in 0..n /\ 0 \notin gone
  OBVIOUS
<1>3. \A d \in DOMAIN u : u[d].file \in 0..n
  BY <1>2 DEF Reviewed, DocsKept
<1>4. \A d \in Live(u) :
          /\ u[d].type = "tin" => u[d].file = tin /\ tin # 0
          /\ u[d].type = "sitePhotos" => u[d].file \notin {0, tin}
          /\ u[d].type = "contact" => u[d].file = 0
          /\ u[d].file \notin gone
  BY <1>1, <1>2 DEF DocsKept
<1>5. \A d, e \in Live(u) : u[d].file = u[e].file /\ u[d].file # 0 => d = e
  BY <1>1 DEF DocsKept
<1> QED
  BY <1>3, <1>4, <1>5 DEF DocsKept

LEMMA ReviewKeepsGallery ==
    ASSUME NEW t \in Seq(DocRow), NEW u \in Seq(DocRow), NEW D, NEW photos, NEW lost,
           Reviewed(t, u, D), GalleryKept(photos, t, lost)
    PROVE  GalleryKept(photos, u, lost \cup D)
<1>1. /\ Len(t) \in Nat /\ Len(u) \in Nat /\ Len(t) <= Len(u)
      /\ DOMAIN t = 1..Len(t) /\ DOMAIN u = 1..Len(u)
  BY DEF Reviewed, Grown
<1>2. DOMAIN t \subseteq DOMAIN u
  BY <1>1
<1>3. \A d \in OfType(t, "sitePhotos") :
          \/ d \in OfType(u, "sitePhotos") /\ u[d].file = t[d].file
          \/ t[d].file \in D \cup {0}
  BY <1>2 DEF Reviewed, Grown, OfType, Live
<1> QED
  BY <1>3 DEF GalleryKept

(* What the supplier puts is kept, whatever the admins left of the         *)
(* documents since they were read.                                         *)
LEMMA FlushKeeps ==
    ASSUME NEW t \in Seq(DocRow), NEW s \in Seq(DocRow), NEW p \in Seq(DocRow),
           NEW D, NEW tin \in Nat, NEW n \in Nat, NEW gone \in SUBSET (1..n),
           Reviewed(s, t, D), Grown(s, p), DocsKept(p, tin, gone, n)
    PROVE  LET u == FlushedTable(t, s, p)
           IN  /\ DocsKept(u, tin, gone, n)
               /\ \A photos, lost : D \subseteq lost /\ GalleryKept(photos, p, lost) =>
                      GalleryKept(photos, u, lost)
<1> DEFINE u == FlushedTable(t, s, p)
           from(i) == IF i \in DOMAIN s THEN i ELSE i - Len(t) + Len(s)
           to(i) == IF i \in DOMAIN s THEN i ELSE i - Len(s) + Len(t)
<1>1. Grown(s, t)
  BY DEF Reviewed
<1>2. /\ Len(s) \in Nat /\ Len(t) \in Nat /\ Len(p) \in Nat
      /\ Len(s) <= Len(t) /\ Len(s) <= Len(p)
      /\ DOMAIN s = 1..Len(s) /\ DOMAIN t = 1..Len(t) /\ DOMAIN p = 1..Len(p)
  BY <1>1 DEF Grown
<1>3. /\ u \in Seq(DocRow) /\ Len(u) = Len(t) + (Len(p) - Len(s))
      /\ \A i \in 1..Len(t) :
            u[i] = IF i \in 1..Len(s) THEN Flushed(t[i], s[i], p[i]) ELSE t[i]
      /\ \A i \in Len(t) + 1..Len(u) :
            /\ u[i] = p[i - Len(t) + Len(s)]
            /\ i - Len(t) + Len(s) \in Len(s) + 1..Len(p)
  BY <1>2, FlushedDocs
<1>4. \A i \in DOMAIN s :
          /\ i \in DOMAIN t /\ i \in DOMAIN p /\ i \in DOMAIN u
          /\ u[i].type = p[i].type
          /\ u[i].file = IF p[i].file = s[i].file THEN t[i].file ELSE p[i].file
          /\ u[i].deleted <=> t[i].deleted \/ p[i].deleted
  BY ZenonT(60), <1>1, FlushGrows
<1>5. DOMAIN u = 1..Len(u)
  BY <1>3
<1> HIDE DEF u
<1>6. \A i \in DOMAIN s :
          /\ u[i].type = p[i].type /\ u[i].file = p[i].file
          /\ ~u[i].deleted => ~p[i].deleted
  BY <1>4 DEF Reviewed
<1>7. \A i \in DOMAIN t \ DOMAIN s : u[i].type = "contact" /\ u[i].file = 0
  BY <1>2, <1>3 DEF Reviewed
<1>8. \A i \in DOMAIN u \ DOMAIN t : from(i) \in DOMAIN p \ DOMAIN s /\ u[i] = p[from(i)]
  <2>1. ASSUME NEW i \in DOMAIN u \ DOMAIN t
        PROVE  from(i) \in DOMAIN p \ DOMAIN s /\ u[i] = p[from(i)]
    <3>1. i \in Len(t) + 1..Len(u) /\ i \notin DOMAIN s
      BY <1>2, <1>5, <2>1
    <3>2. from(i) \in Len(s) + 1..Len(p) /\ u[i] = p[from(i)]
      BY <1>3, <3>1
    <3> QED
      BY <1>2, <3>2
  <2> QED
    BY <2>1
<1>9. \A i \in Live(u) :
          \/ /\ i \in DOMAIN s \/ i \in DOMAIN u \ DOMAIN t
             /\ from(i) \in Live(p) /\ u[i].type = p[from(i)].type
             /\ u[i].file = p[from(i)].file
          \/ u[i].type = "contact" /\ u[i].file = 0
  <2>1. \A i \in DOMAIN s : from(i) = i /\ from(i) \in DOMAIN p
    BY <1>4
  <2> HIDE DEF from
  <2> QED
    BY <1>6, <1>7, <1>8, <2>1 DEF Live
<1>10. \A i, j \in DOMAIN u :
           /\ i \in DOMAIN s \/ i \in DOMAIN u \ DOMAIN t
           /\ j \in DOMAIN s \/ j \in DOMAIN u \ DOMAIN t
           /\ from(i) = from(j)
           => i = j
  BY <1>2, <1>5
<1>11. 0 \in 0..n /\ 0 \notin gone
  OBVIOUS
<1>12. \A d \in DOMAIN u : u[d].file \in 0..n
  <2> HIDE DEF from
  <2> QED
    BY <1>4, <1>6, <1>7, <1>8, <1>11 DEF DocsKept
<1>13. DocsKept(u, tin, gone, n)
  <2> HIDE DEF from
  <2>1. \A d \in Live(u) :
            /\ u[d].type = "tin" => u[d].file = tin /\ tin # 0
            /\ u[d].type = "sitePhotos" => u[d].file \notin {0, tin}
            /\ u[d].type = "contact" => u[d].file = 0
            /\ u[d].file \notin gone
    BY <1>9, <1>11 DEF DocsKept
  <2>2. \A d, e \in Live(u) : u[d].file = u[e].file /\ u[d].file # 0 => d = e
    <3>1. ASSUME NEW d \in Live(u), NEW e \in Live(u), u[d].file = u[e].file, u[d].file # 0
          PROVE  d = e
      <4>1. /\ d \in DOMAIN s \/ d \in DOMAIN u \ DOMAIN t
            /\ e \in DOMAIN s \/ e \in DOMAIN u \ DOMAIN t
            /\ from(d) \in Live(p) /\ u[d].file = p[from(d)].file
            /\ from(e) \in Live(p) /\ u[e].file = p[from(e)].file
        BY <1>9, <3>1
      <4>2. from(d) = from(e)
        BY <3>1, <4>1 DEF DocsKept
      <4> QED
        BY <1>10, <4>1, <4>2 DEF Live
    <3> QED
      BY <3>1
  <2> QED
    BY <1>12, <2>1, <2>2 DEF DocsKept
<1>14. ASSUME NEW photos, NEW lost, D \subseteq lost, GalleryKept(photos, p, lost)
       PROVE  GalleryKept(photos, u, lost)
  <2>1. \A i \in DOMAIN p \ DOMAIN s : to(i) \in DOMAIN u /\ u[to(i)] = p[i]
    <3>1. ASSUME NEW i \in DOMAIN p \ DOMAIN s PROVE to(i) \in DOMAIN u /\ u[to(i)] = p[i]
      <4>1. i \in Len(s) + 1..Len(p)
        BY <1>2, <3>1
      <4>2. to(i) \in Len(t) + 1..Len(u) /\ to(i) - Len(t) + Len(s) = i
        BY <1>2, <1>3, <3>1, <4>1
      <4>3. u[to(i)] = p[to(i) - Len(t) + Len(s)]
        BY <1>3, <4>2
      <4> QED
        BY <1>2, <1>5, <4>2, <4>3
    <3> QED
      BY <3>1
  <2> HIDE DEF to
  <2>2. \A i \in DOMAIN s :
            p[i].type = "sitePhotos" /\ ~p[i].deleted /\ u[i].deleted =>
                p[i].file \in D \cup {0}
    <3>1. ASSUME NEW i \in DOMAIN s, p[i].type = "sitePhotos", ~p[i].deleted, u[i].deleted
          PROVE  p[i].file \in D \cup {0}
      <4>1. t[i].deleted
        BY <1>4, <3>1
      <4>2. /\ s[i].type = "sitePhotos" /\ p[i].file = s[i].file
            /\ ~s[i].deleted
        BY <3>1 DEF Grown
      <4> QED
        BY <3>1, <4>1, <4>2 DEF Reviewed
    <3> QED
      BY <3>1
  <2>3. ASSUME NEW d \in OfType(p, "sitePhotos")
        PROVE  \/ p[d].file \in D \cup {0}
               \/ \E e \in OfType(u, "sitePhotos") : u[e].file = p[d].file
    <3>1. d \in DOMAIN p /\ ~p[d].deleted /\ p[d].type = "sitePhotos"
      BY <2>3 DEF OfType, Live
    <3>2. CASE d \in DOMAIN s
      BY <1>4, <1>6, <2>2, <3>1, <3>2 DEF OfType, Live
    <3>3. CASE d \notin DOMAIN s
      BY <2>1, <3>1, <3>3 DEF OfType, Live
    <3> QED
      BY <3>2, <3>3
  <2>4. ASSUME NEW q \in Live(photos)
        PROVE  \/ photos[q].file \in lost \cup {0}
               \/ \E e \in OfType(u, "sitePhotos") : u[e].file = photos[q].file
    BY <1>14, <2>3 DEF GalleryKept
  <2> QED
    BY <2>4 DEF GalleryKept
<1> QED
  BY <1>13, <1>14 DEF u

LEMMA KeptLater ==
    ASSUME NEW n \in Nat, NEW m \in Nat, n <= m
    PROVE  /\ \A t, tin, gone : DocsKept(t, tin, gone, n) => DocsKept(t, tin, gone, m)
           /\ \A form, tin, gone : DraftKept(form, tin, gone, n) => DraftKept(form, tin, gone, m)
<1>1. 0..n \subseteq 0..m /\ 1..n \subseteq 1..m
  OBVIOUS
<1> QED
  BY <1>1 DEF DocsKept, DraftKept

LEMMA LostLater ==
    ASSUME NEW photos, NEW t, NEW lost, NEW more, lost \subseteq more,
           GalleryKept(photos, t, lost)
    PROVE  GalleryKept(photos, t, more)
  BY DEF GalleryKept

(***************************************************************************)
(* The initial states, and what a request begins with and ends with.       *)
(***************************************************************************)
LEMMA InitInv == Init => VerificationInv
<1> SUFFICES ASSUME Init PROVE VerificationInv
  OBVIOUS
<1>1. \A r \in Reqs : tx[r] = Idle /\ ~Busy(r)
  BY DEF Init, Busy, Idle
<1>2. docs \in Seq(DocRow) /\ gallery \in Seq(PhotoRow) /\ DOMAIN docs = {} /\ DOMAIN gallery = {}
  BY DEF Init
<1>3. TypeOK
  <2>1. org \in OrgRow /\ draft \in DraftRow
    BY DEF Init, OrgRow, DraftRow
  <2>2. tx \in [Reqs -> {Idle} \cup Work]
    BY DEF Init
  <2>3. /\ removed \subseteq 1..files /\ withdrawn \subseteq Nat /\ dropped \subseteq Nat
        /\ saved \subseteq Sections
    BY DEF Init
  <2>4. files \in Nat /\ requests \in Nat /\ newest \in 0..files
    BY DEF Init
  <2>5. overlapped \in BOOLEAN /\ hurried \in BOOLEAN
    BY DEF Init
  <2> QED
    BY <1>2, <2>1, <2>2, <2>3, <2>4, <2>5 DEF TypeOK
<1>4. OverlapInv
  BY <1>1, <1>3 DEF OverlapInv, AllInHand, Init
<1>5. Live(docs) = {} /\ Live(gallery) = {}
  BY <1>2 DEF Live
<1>6. OfType(docs, "contact") = {}
  BY <1>5 DEF OfType
<1>7. RowsKept
  BY <1>2, <1>5 DEF RowsKept, DocsKept, DraftKept, GalleryKept, Init
<1>8. UnhurriedInv
  <2>1. \A r \in SupplierReqs : ~Busy(r)
    BY <1>1 DEF Reqs
  <2>2. \A r \in AdminReqs : ~Busy(r)
    BY <1>1 DEF Reqs
  <2> QED
    BY <1>7, <2>1, <2>2 DEF UnhurriedInv, OneSupplier, AllUnhurried
<1>9. SerialInv
  BY <1>1, <1>5, <1>6
     DEF SerialInv, Alone, AllFresh, ReviewKept, AtMostOne, OrgKept, Init
<1> QED
  BY <1>4, <1>8, <1>9 DEF VerificationInv

LEMMA WorkInHand ==
    ASSUME TypeOK, NEW r \in Reqs, Busy(r)
    PROVE  /\ tx[r] \in Work
           /\ tx[r].seen.org \in OrgRow /\ tx[r].put.org \in OrgRow
           /\ tx[r].seen.docs \in Seq(DocRow) /\ tx[r].put.docs \in Seq(DocRow)
           /\ tx[r].seen.gallery \in Seq(PhotoRow) /\ tx[r].put.gallery \in Seq(PhotoRow)
           /\ tx[r].seen.draft \in DraftRow /\ tx[r].put.draft \in DraftRow
           /\ tx[r].tin \in Nat /\ tx[r].saves \in SUBSET Sections
           /\ tx[r].withdraws \in SUBSET Nat /\ tx[r].drops \in SUBSET Nat
<1>1. tx[r] \in Work
  BY DEF TypeOK, Busy, Idle
<1> QED
  BY <1>1 DEF Work, Row

LEMMA SlotAfter ==
    ASSUME TypeOK, NEW r \in Reqs, NEW work, tx' = [tx EXCEPT ![r] = work]
    PROVE  \A o \in Reqs : tx'[o] = IF o = r THEN work ELSE tx[o]
  BY DEF TypeOK

LEMMA BeginType ==
    ASSUME TypeOK, NEW r \in Reqs, NEW work \in Work, NEW uploads \in {0, 1},
           BeginWith(r, work, uploads)
    PROVE  /\ TypeOK'
           /\ files' = files + uploads /\ files' \in Nat /\ files \in Nat /\ files <= files'
           /\ \A o \in Reqs : tx'[o] = IF o = r THEN work ELSE tx[o]
<1>1. tx' \in [Reqs -> {Idle} \cup Work]
  BY DEF TypeOK, BeginWith
<1>2. /\ files' = files + uploads /\ files' \in Nat /\ files \in Nat /\ files <= files'
      /\ requests' \in Nat /\ overlapped' \in BOOLEAN /\ hurried' \in BOOLEAN
  BY DEF TypeOK, BeginWith, Starts
<1>3. removed' \subseteq 1..files' /\ newest' \in 0..files'
  <2>1. 1..files \subseteq 1..files' /\ 0..files \subseteq 0..files'
    BY <1>2
  <2> QED
    BY <2>1 DEF TypeOK, BeginWith, rows, history
<1>4. TypeOK'
  BY <1>1, <1>2, <1>3 DEF TypeOK, BeginWith, rows, history
<1> QED
  BY <1>2, <1>4, SlotAfter DEF BeginWith

(* While the rows stay as they are, it is enough to know what each request *)
(* now in flight has in hand of these rows.                                *)
LEMMA UnhurriedAfter ==
    ASSUME /\ docs' = docs /\ gallery' = gallery /\ draft' = draft /\ removed' = removed
           /\ newest' = newest /\ saved' = saved /\ withdrawn' = withdrawn /\ dropped' = dropped,
           \A o \in SupplierReqs : tx'[o].op # "idle" => OfSupplier(tx'[o], files'),
           \A o \in AdminReqs : tx'[o].op # "idle" => OfAdmin(tx'[o])
    PROVE  AllUnhurried'
<1>1. ASSUME NEW o \in SupplierReqs, tx'[o].op # "idle"
      PROVE  OfSupplier(tx[o], files)'
  <2>1. OfSupplier(tx'[o], files')
    BY <1>1
  <2>2. Reviewed(tx[o].seen.docs, docs, dropped)'
    BY <2>1 DEF OfSupplier, Reviewed, Grown
  <2>3. DocsKept(tx[o].put.docs, TinOf(tx[o]), withdrawn \cup tx[o].withdraws, files)'
    BY <2>1 DEF OfSupplier, DocsKept, TinOf, Live, OfType
  <2>4. DraftKept(tx[o].put.draft, TinOf(tx[o]), withdrawn \cup tx[o].withdraws, files)'
    BY <2>1 DEF OfSupplier, DraftKept, TinOf
  <2>5. GalleryKept(tx[o].put.gallery, tx[o].put.docs, removed \cup dropped)'
    BY <2>1 DEF OfSupplier, GalleryKept, Live, OfType
  <2>6. /\ tx'[o].seen.draft = draft' /\ tx'[o].seen.gallery = gallery'
        /\ tx'[o].withdraws \subseteq 1..files'
        /\ saved' \cup tx'[o].saves \subseteq tx'[o].put.draft.sections
    BY <2>1 DEF OfSupplier
  <2> QED
    BY <2>2, <2>3, <2>4, <2>5, <2>6 DEF OfSupplier
<1>2. ASSUME NEW o \in AdminReqs, tx'[o].op # "idle"
      PROVE  OfAdmin(tx[o])'
  <2>1. OfAdmin(tx'[o])
    BY <1>2
  <2>2. Reviewed(tx[o].seen.docs, tx[o].put.docs, tx[o].drops)'
    BY <2>1 DEF OfAdmin, Reviewed, Grown
  <2> QED
    BY <2>1, <2>2 DEF OfAdmin
<1> QED
  BY <1>1, <1>2 DEF AllUnhurried, Busy

LEMMA AfterBegin ==
    ASSUME VerificationInv, NEW r \in Reqs, NEW work \in Work, NEW uploads \in {0, 1},
           BeginWith(r, work, uploads),
           InHand(work, docs, files + uploads),
           r \in SupplierReqs /\ ~hurried => OfSupplier(work, files + uploads),
           r \in AdminReqs => OfAdmin(work) /\ uploads = 0,
           ~overlapped => Fresh(work)
    PROVE  VerificationInv'
<1>1. /\ TypeOK' /\ files' = files + uploads /\ files' \in Nat /\ files \in Nat
      /\ files <= files'
      /\ \A o \in Reqs : tx'[o] = IF o = r THEN work ELSE tx[o]
  BY BeginType DEF VerificationInv, OverlapInv
<1>2. /\ org' = org /\ docs' = docs /\ gallery' = gallery /\ draft' = draft
      /\ removed' = removed /\ newest' = newest /\ saved' = saved
      /\ withdrawn' = withdrawn /\ dropped' = dropped /\ ~Busy(r)
  BY DEF BeginWith, Starts, rows, history
<1>3. 1..files \subseteq 1..files' /\ 0..files \subseteq 0..files'
  BY <1>1
<1>4. OverlapInv'
  <2>1. \A o \in Reqs : tx'[o].op # "idle" => InHand(tx'[o], docs, files')
    <3>1. ASSUME NEW o \in Reqs, Busy(o) PROVE InHand(tx[o], docs, files')
      BY <1>3, <3>1 DEF VerificationInv, OverlapInv, AllInHand, InHand
    <3> QED
      BY <1>1, <3>1 DEF Busy
  <2>2. AllInHand'
    BY <1>2, <2>1 DEF AllInHand, InHand, Busy, Grown
  <2>3. draft'.photos \subseteq 1..files'
    BY <1>2, <1>3 DEF VerificationInv, OverlapInv
  <2>4. hurried' => overlapped'
    BY DEF VerificationInv, OverlapInv, BeginWith, Starts, Reqs
  <2> QED
    BY <1>1, <2>2, <2>3, <2>4 DEF OverlapInv
<1>5. ASSUME ~hurried' PROVE UnhurriedInv'
  <2>1. UnhurriedInv /\ ~hurried
    BY <1>5 DEF BeginWith, Starts, VerificationInv
  <2>2. RowsKept'
    <3>1. /\ withdrawn \subseteq 1..files'
          /\ DocsKept(docs, newest, withdrawn, files')
          /\ DraftKept(draft, newest, withdrawn, files')
          /\ GalleryKept(gallery, docs, removed \cup dropped)
          /\ saved \subseteq draft.sections
      BY <1>1, <1>3, <2>1, KeptLater DEF UnhurriedInv, RowsKept
    <3> QED
      BY <1>2, <3>1 DEF RowsKept, DocsKept, DraftKept, GalleryKept, Live, OfType
  <2>3. \A o \in AdminReqs : tx'[o].op # "idle" => OfAdmin(tx'[o])
    BY <1>1, <2>1 DEF UnhurriedInv, AllUnhurried, Busy, Reqs
  <2>4. \A o \in SupplierReqs : tx'[o].op # "idle" => OfSupplier(tx'[o], files')
    <3>1. CASE r \in SupplierReqs
      <4>1. \A o \in SupplierReqs : tx[o].op = "idle"
        BY <1>5, <3>1 DEF BeginWith, Starts, Busy
      <4> QED
        BY <1>1, <2>1, <3>1, <4>1 DEF Reqs
    <3>2. CASE r \notin SupplierReqs
      <4>1. files' = files
        BY <1>1, <3>2 DEF Reqs
      <4> QED
        BY <1>1, <2>1, <3>2, <4>1 DEF UnhurriedInv, AllUnhurried, Busy, Reqs
    <3> QED
      BY <3>1, <3>2
  <2>5. AllUnhurried'
    BY <1>2, <2>3, <2>4, UnhurriedAfter
  <2>6. OneSupplier'
    <3>1. \A o \in Reqs : tx'[o].op # "idle" => o = r \/ tx[o].op # "idle"
      BY <1>1
    <3>2. r \in SupplierReqs => \A o \in SupplierReqs : tx[o].op = "idle"
      BY <1>5 DEF BeginWith, Starts, Busy
    <3>3. \A o, s \in SupplierReqs : tx[o].op # "idle" /\ tx[s].op # "idle" => o = s
      BY <2>1 DEF UnhurriedInv, OneSupplier, Busy
    <3>4. SupplierReqs \subseteq Reqs
      BY DEF Reqs
    <3>5. \A o, s \in SupplierReqs : tx'[o].op # "idle" /\ tx'[s].op # "idle" => o = s
      BY <3>1, <3>2, <3>3, <3>4
    <3> QED
      BY <3>5 DEF OneSupplier, Busy
  <2> QED
    BY <2>2, <2>5, <2>6 DEF UnhurriedInv
<1>6. ASSUME ~overlapped' PROVE SerialInv'
  <2>1. SerialInv /\ Fresh(work) /\ \A o \in Reqs : ~Busy(o)
    BY <1>6 DEF BeginWith, Starts, VerificationInv
  <2>2. Alone'
    BY <1>1, <2>1 DEF Alone, Busy
  <2>3. \A o \in Reqs : tx'[o].op # "idle" => Fresh(tx'[o])
    BY <1>1, <2>1 DEF Busy
  <2>4. AllFresh'
    BY <1>2, <2>3 DEF AllFresh, Fresh, Busy, ReviewKept, OrgKept, OfType, Live, AtMostOne
  <2>5. ReviewKept(docs)' /\ OrgKept(org)'
    BY <1>2, <2>1 DEF SerialInv, ReviewKept, OrgKept, OfType, Live, AtMostOne
  <2> QED
    BY <2>2, <2>4, <2>5 DEF SerialInv
<1> QED
  BY <1>4, <1>5, <1>6 DEF VerificationInv

LEMMA AfterEnd ==
    ASSUME TypeOK, NEW r \in Reqs, End(r)
    PROVE  /\ tx' \in [Reqs -> {Idle} \cup Work]
           /\ files' = files /\ requests' = requests
           /\ overlapped' = overlapped /\ hurried' = hurried
           /\ \A o \in Reqs : tx'[o].op # "idle" => o # r /\ Busy(o) /\ tx'[o] = tx[o]
<1>1. \A o \in Reqs : tx'[o] = IF o = r THEN Idle ELSE tx[o]
  BY SlotAfter DEF End
<1>2. \A o \in Reqs : tx'[o].op # "idle" => o # r /\ Busy(o) /\ tx'[o] = tx[o]
  BY <1>1 DEF Idle, Busy
<1> QED
  BY <1>2 DEF TypeOK, End

(* What a commit writes, whatever overlaps.                                *)
LEMMA CommitRows ==
    ASSUME OverlapInv, NEW r \in Reqs, Commit(r)
    PROVE  /\ TypeOK' /\ draft'.photos \subseteq 1..files' /\ Grown(docs, docs')
           /\ Grown(tx[r].seen.docs, tx[r].put.docs) /\ Grown(tx[r].seen.docs, docs)
           /\ draft' = IF tx[r].put.draft = tx[r].seen.draft THEN draft ELSE tx[r].put.draft
           /\ tx[r].seen.org = org => org' = tx[r].put.org
           /\ tx[r].seen.docs = docs => docs' = tx[r].put.docs
           /\ tx[r].seen.gallery = gallery => gallery' = tx[r].put.gallery
           /\ tx[r].put.gallery = tx[r].seen.gallery => gallery' = gallery
<1> DEFINE w == tx[r]
<1>1. /\ Busy(r) /\ End(r)
      /\ org' = Flushed(org, w.seen.org, w.put.org)
      /\ docs' = FlushedTable(docs, w.seen.docs, w.put.docs)
      /\ gallery' = FlushedTable(gallery, w.seen.gallery, w.put.gallery)
      /\ draft' = IF w.put.draft = w.seen.draft THEN draft ELSE w.put.draft
      /\ removed' = removed \cup w.removes
      /\ newest' = IF w.tin = 0 THEN newest ELSE w.tin
      /\ saved' = saved \cup w.saves
      /\ withdrawn' = withdrawn \cup w.withdraws
      /\ dropped' = dropped \cup w.drops
  BY DEF Commit
<1>2. TypeOK /\ InHand(w, docs, files)
  BY <1>1 DEF OverlapInv, AllInHand
<1>3. /\ w.seen.org \in OrgRow /\ w.put.org \in OrgRow
      /\ w.seen.docs \in Seq(DocRow) /\ w.put.docs \in Seq(DocRow)
      /\ w.seen.gallery \in Seq(PhotoRow) /\ w.put.gallery \in Seq(PhotoRow)
      /\ w.seen.draft \in DraftRow /\ w.put.draft \in DraftRow
      /\ w.tin \in Nat /\ w.saves \in SUBSET Sections
      /\ w.withdraws \in SUBSET Nat /\ w.drops \in SUBSET Nat
  BY <1>1, <1>2, WorkInHand
<1> HIDE DEF w
<1>4. org \in OrgRow /\ docs \in Seq(DocRow) /\ gallery \in Seq(PhotoRow) /\ draft \in DraftRow
  BY <1>2 DEF TypeOK
<1>5. /\ w.tin \in 0..files /\ w.removes \subseteq 1..files
      /\ w.put.draft.photos \subseteq 1..files
      /\ Grown(w.seen.docs, docs) /\ Grown(w.seen.docs, w.put.docs)
      /\ Len(w.seen.docs) <= Len(w.put.docs)
      /\ Len(w.seen.gallery) <= Len(w.put.gallery)
  BY <1>2 DEF InHand, Grown
<1>6. org' \in OrgRow /\ (w.seen.org = org => org' = w.put.org)
  BY <1>1, <1>3, <1>4, FlushedOrg
<1>7. docs' \in Seq(DocRow) /\ Grown(docs, docs')
  BY <1>1, <1>3, <1>4, <1>5, FlushGrows
<1>8. w.seen.docs = docs => docs' = w.put.docs
  BY <1>1, <1>3, <1>4, <1>5, FlushedDocs
<1>9. /\ gallery' \in Seq(PhotoRow)
      /\ w.seen.gallery = gallery => gallery' = w.put.gallery
      /\ w.put.gallery = w.seen.gallery => gallery' = gallery
  BY <1>1, <1>3, <1>4, <1>5, FlushedGallery
<1>10. draft' \in DraftRow /\ draft'.photos \subseteq 1..files
  BY <1>1, <1>3, <1>4, <1>5 DEF OverlapInv
<1>11. /\ tx' \in [Reqs -> {Idle} \cup Work]
       /\ files' = files /\ requests' = requests
       /\ overlapped' = overlapped /\ hurried' = hurried
  BY <1>1, <1>2, AfterEnd
<1>12. /\ removed' \subseteq 1..files /\ withdrawn' \subseteq Nat /\ dropped' \subseteq Nat
       /\ saved' \subseteq Sections /\ newest' \in 0..files
  BY <1>1, <1>2, <1>3, <1>5 DEF TypeOK
<1>13. TypeOK'
  BY <1>2, <1>6, <1>7, <1>9, <1>10, <1>11, <1>12 DEF TypeOK
<1> QED
  BY <1>1, <1>5, <1>6, <1>7, <1>8, <1>9, <1>10, <1>11, <1>13 DEF w

LEMMA CommitOverlap ==
    ASSUME OverlapInv, NEW r \in Reqs, Commit(r)
    PROVE  OverlapInv'
<1>1. /\ TypeOK /\ TypeOK' /\ draft'.photos \subseteq 1..files' /\ Grown(docs, docs')
  BY CommitRows DEF OverlapInv
<1>2. /\ files' = files /\ overlapped' = overlapped /\ hurried' = hurried
      /\ \A o \in Reqs : tx'[o].op # "idle" => o # r /\ Busy(o) /\ tx'[o] = tx[o]
  BY <1>1, AfterEnd DEF Commit
<1>3. docs \in Seq(DocRow) /\ docs' \in Seq(DocRow)
  BY <1>1 DEF TypeOK
<1>4. \A o \in Reqs : tx'[o].op # "idle" => InHand(tx'[o], docs', files')
  <2>1. ASSUME NEW o \in Reqs, Busy(o) PROVE InHand(tx[o], docs', files)
    <3>1. InHand(tx[o], docs, files) /\ tx[o].seen.docs \in Seq(DocRow)
      BY <1>1, <2>1, WorkInHand DEF OverlapInv, AllInHand
    <3>2. Grown(tx[o].seen.docs, docs)
      BY <3>1 DEF InHand
    <3>3. Grown(tx[o].seen.docs, docs')
      BY <1>1, <1>3, <3>1, <3>2, GrownTwice
    <3> QED
      BY <3>1, <3>3 DEF InHand
  <2> QED
    BY <1>2, <2>1
<1>5. AllInHand'
  BY <1>4 DEF AllInHand, InHand, Busy, Grown
<1> QED
  BY <1>1, <1>2, <1>5 DEF OverlapInv

LEMMA CommitUnhurried ==
    ASSUME OverlapInv, UnhurriedInv, NEW r \in Reqs, Commit(r)
    PROVE  UnhurriedInv'
<1> DEFINE w == tx[r]
<1>1. /\ TypeOK /\ Busy(r) /\ w.seen.docs \in Seq(DocRow) /\ w.put.docs \in Seq(DocRow)
      /\ docs \in Seq(DocRow) /\ docs' \in Seq(DocRow)
  BY WorkInHand, CommitRows DEF OverlapInv, TypeOK, Commit
<1>2. /\ docs' = FlushedTable(docs, w.seen.docs, w.put.docs)
      /\ draft' = IF w.put.draft = w.seen.draft THEN draft ELSE w.put.draft
      /\ removed' = removed \cup w.removes
      /\ newest' = TinOf(w)
      /\ saved' = saved \cup w.saves
      /\ withdrawn' = withdrawn \cup w.withdraws
      /\ dropped' = dropped \cup w.drops
  BY DEF Commit, TinOf
<1>3. /\ Grown(w.seen.docs, w.put.docs) /\ Grown(w.seen.docs, docs)
      /\ w.seen.gallery = gallery => gallery' = w.put.gallery
      /\ w.put.gallery = w.seen.gallery => gallery' = gallery
      /\ newest' \in 0..files' /\ newest \in 0..files /\ files \in Nat
  BY CommitRows DEF OverlapInv, TypeOK
<1>4. /\ files' = files
      /\ \A o \in Reqs : tx'[o].op # "idle" => o # r /\ Busy(o) /\ tx'[o] = tx[o]
  BY <1>1, AfterEnd DEF Commit
<1> HIDE DEF w
<1>5. OneSupplier'
  <2>1. \A o, s \in SupplierReqs : tx'[o].op # "idle" /\ tx'[s].op # "idle" => o = s
    BY <1>4 DEF UnhurriedInv, OneSupplier, Reqs
  <2> QED
    BY <2>1 DEF OneSupplier, Busy
<1>6. \A o \in AdminReqs : tx'[o].op # "idle" => OfAdmin(tx'[o])
  BY <1>4 DEF UnhurriedInv, AllUnhurried, Reqs
<1>7. newest' \in Nat /\ newest \in Nat
  BY <1>3, <1>4
<1>8. CASE r \in SupplierReqs
  <2>1. OfSupplier(w, files)
    BY <1>1, <1>8 DEF UnhurriedInv, AllUnhurried, w
  <2>2. /\ w.seen.draft = draft /\ w.seen.gallery = gallery
        /\ Reviewed(w.seen.docs, docs, dropped)
        /\ withdrawn' \in SUBSET (1..files)
        /\ DocsKept(w.put.docs, newest', withdrawn', files)
        /\ DraftKept(w.put.draft, newest', withdrawn', files)
        /\ GalleryKept(w.put.gallery, w.put.docs, removed \cup dropped)
        /\ saved' \subseteq w.put.draft.sections
    BY <1>2, <2>1 DEF OfSupplier, UnhurriedInv, RowsKept
  <2>3. draft' = w.put.draft /\ gallery' = w.put.gallery
    BY <1>2, <1>3, <2>2
  <2>4. /\ DocsKept(docs', newest', withdrawn', files)
        /\ GalleryKept(gallery', docs', removed \cup dropped)
    <3>1. /\ DocsKept(docs', newest', withdrawn', files)
          /\ \A photos, lost : dropped \subseteq lost /\ GalleryKept(photos, w.put.docs, lost) =>
                 GalleryKept(photos, docs', lost)
      BY <1>1, <1>2, <1>3, <1>7, <2>2, FlushKeeps
    <3> QED
      BY <2>2, <2>3, <3>1
  <2>5. GalleryKept(gallery', docs', removed' \cup dropped')
    <3>1. removed \cup dropped \subseteq removed' \cup dropped'
      BY <1>2
    <3> QED
      BY <2>4, <3>1, LostLater
  <2>6. RowsKept'
    BY <1>4, <2>2, <2>3, <2>4, <2>5
       DEF RowsKept, DocsKept, DraftKept, GalleryKept, Live, OfType
  <2>7. \A o \in SupplierReqs : tx'[o].op = "idle"
    BY <1>1, <1>4, <1>8 DEF UnhurriedInv, OneSupplier, Reqs
  <2>8. AllUnhurried'
    BY <1>6, <2>7 DEF AllUnhurried, OfAdmin, Reviewed, Grown, Busy
  <2> QED
    BY <1>5, <2>6, <2>8 DEF UnhurriedInv
<1>9. CASE r \in AdminReqs
  <2>1. OfAdmin(w)
    BY <1>1, <1>9 DEF UnhurriedInv, AllUnhurried, w
  <2>2. /\ Reviewed(w.seen.docs, w.put.docs, w.drops)
        /\ gallery' = gallery /\ draft' = draft
        /\ newest' = newest /\ saved' = saved /\ withdrawn' = withdrawn
    BY <1>2, <1>3, <2>1 DEF OfAdmin, TinOf
  <2>3. Reviewed(docs, docs', w.drops)
    BY <1>1, <1>2, <1>3, <2>2, FlushReviews
  <2>4. removed \cup dropped \cup w.drops \subseteq removed' \cup dropped'
        /\ removed \cup dropped \subseteq removed' \cup dropped'
    BY <1>2
  <2>5. /\ withdrawn \in SUBSET (1..files)
        /\ DocsKept(docs, newest, withdrawn, files)
        /\ DraftKept(draft, newest, withdrawn, files)
        /\ GalleryKept(gallery, docs, removed \cup dropped)
        /\ saved \subseteq draft.sections
    BY DEF UnhurriedInv, RowsKept
  <2>6. DocsKept(docs', newest, withdrawn, files)
    BY <1>1, <1>3, <1>7, <2>3, <2>5, ReviewKeepsDocs
  <2>7. GalleryKept(gallery, docs', removed' \cup dropped')
    <3>1. GalleryKept(gallery, docs', (removed \cup dropped) \cup w.drops)
      BY <1>1, <2>3, <2>5, ReviewKeepsGallery
    <3> QED
      BY <2>4, <3>1, LostLater
  <2>8. RowsKept'
    BY <1>4, <2>2, <2>5, <2>6, <2>7
       DEF RowsKept, DocsKept, DraftKept, GalleryKept, Live, OfType
  <2>9. ASSUME NEW o \in SupplierReqs, Busy(o)
        PROVE  /\ Reviewed(tx[o].seen.docs, docs', dropped')
               /\ GalleryKept(tx[o].put.gallery, tx[o].put.docs, removed' \cup dropped')
               /\ OfSupplier(tx[o], files)
    <3>1. OfSupplier(tx[o], files) /\ tx[o].seen.docs \in Seq(DocRow)
      BY <1>1, <2>9, WorkInHand DEF UnhurriedInv, AllUnhurried, Reqs
    <3>2. Reviewed(tx[o].seen.docs, docs, dropped)
          /\ GalleryKept(tx[o].put.gallery, tx[o].put.docs, removed \cup dropped)
      BY <3>1 DEF OfSupplier
    <3>3. Reviewed(tx[o].seen.docs, docs', dropped \cup w.drops)
      BY <1>1, <2>3, <3>1, <3>2, ReviewedTwice
    <3>4. GalleryKept(tx[o].put.gallery, tx[o].put.docs, removed' \cup dropped')
      BY <2>4, <3>2, LostLater
    <3> QED
      BY <1>2, <3>1, <3>3, <3>4
  <2>10. \A o \in SupplierReqs : tx'[o].op # "idle" =>
             /\ Reviewed(tx'[o].seen.docs, docs', dropped')
             /\ GalleryKept(tx'[o].put.gallery, tx'[o].put.docs, removed' \cup dropped')
             /\ OfSupplier(tx'[o], files)
    BY <1>4, <2>9 DEF Reqs
  <2>11. \A o \in SupplierReqs : tx'[o].op # "idle" =>
             /\ tx'[o].seen.draft = draft' /\ tx'[o].seen.gallery = gallery'
             /\ Reviewed(tx'[o].seen.docs, docs', dropped')
             /\ tx'[o].withdraws \subseteq 1..files'
             /\ DocsKept(tx'[o].put.docs, IF tx'[o].tin = 0 THEN newest' ELSE tx'[o].tin,
                         withdrawn' \cup tx'[o].withdraws, files')
             /\ DraftKept(tx'[o].put.draft, IF tx'[o].tin = 0 THEN newest' ELSE tx'[o].tin,
                          withdrawn' \cup tx'[o].withdraws, files')
             /\ GalleryKept(tx'[o].put.gallery, tx'[o].put.docs, removed' \cup dropped')
             /\ saved' \cup tx'[o].saves \subseteq tx'[o].put.draft.sections
    BY <1>4, <2>2, <2>10 DEF OfSupplier, TinOf
  <2>12. AllUnhurried'
    BY <1>6, <2>11
       DEF AllUnhurried, OfAdmin, OfSupplier, TinOf, Reviewed, Grown, DocsKept,
           DraftKept, GalleryKept, Live, OfType, Busy
  <2> QED
    BY <1>5, <2>8, <2>12 DEF UnhurriedInv
<1> QED
  BY <1>8, <1>9 DEF Reqs

LEMMA CommitSerial ==
    ASSUME OverlapInv, SerialInv, NEW r \in Reqs, Commit(r)
    PROVE  SerialInv'
<1>1. TypeOK /\ Busy(r)
  BY DEF OverlapInv, Commit
<1>2. Fresh(tx[r])
  BY <1>1 DEF SerialInv, AllFresh
<1>3. docs' = tx[r].put.docs /\ org' = tx[r].put.org
  BY <1>2, CommitRows DEF Fresh
<1>4. \A o \in Reqs : tx'[o].op = "idle"
  BY <1>1, AfterEnd DEF Commit, SerialInv, Alone
<1>5. ReviewKept(docs)' /\ OrgKept(org)'
  BY <1>2, <1>3 DEF Fresh, ReviewKept, OrgKept, OfType, Live, AtMostOne
<1>6. Alone' /\ AllFresh'
  BY <1>4 DEF Alone, AllFresh, Busy
<1> QED
  BY <1>5, <1>6 DEF SerialInv

LEMMA AfterCommit ==
    ASSUME VerificationInv, NEW r \in Reqs, Commit(r)
    PROVE  VerificationInv'
<1>1. overlapped' = overlapped /\ hurried' = hurried
  BY DEF Commit, End
<1> QED
  BY <1>1, CommitOverlap, CommitUnhurried, CommitSerial DEF VerificationInv

LEMMA AfterRollback ==
    ASSUME VerificationInv, NEW r \in Reqs, Rollback(r)
    PROVE  VerificationInv'
<1>1. /\ org' = org /\ docs' = docs /\ gallery' = gallery /\ draft' = draft
      /\ removed' = removed /\ newest' = newest /\ saved' = saved
      /\ withdrawn' = withdrawn /\ dropped' = dropped /\ TypeOK
  BY DEF Rollback, rows, history, VerificationInv, OverlapInv
<1>2. /\ tx' \in [Reqs -> {Idle} \cup Work]
      /\ files' = files /\ requests' = requests
      /\ overlapped' = overlapped /\ hurried' = hurried
      /\ \A o \in Reqs : tx'[o].op # "idle" => o # r /\ Busy(o) /\ tx'[o] = tx[o]
  BY <1>1, AfterEnd DEF Rollback
<1>3. OverlapInv'
  <2>1. TypeOK'
    BY <1>1, <1>2 DEF TypeOK
  <2>2. \A o \in Reqs : tx'[o].op # "idle" => InHand(tx'[o], docs', files')
    BY <1>1, <1>2 DEF VerificationInv, OverlapInv, AllInHand
  <2>3. AllInHand'
    BY <2>2 DEF AllInHand, InHand, Busy, Grown
  <2> QED
    BY <1>1, <1>2, <2>1, <2>3 DEF VerificationInv, OverlapInv
<1>4. ASSUME UnhurriedInv PROVE UnhurriedInv'
  <2>1. OneSupplier'
    BY <1>2, <1>4 DEF UnhurriedInv, OneSupplier, Busy, Reqs
  <2>2. RowsKept'
    BY <1>1, <1>2, <1>4
       DEF UnhurriedInv, RowsKept, DocsKept, DraftKept, GalleryKept, Live, OfType
  <2>3. \A o \in AdminReqs : tx'[o].op # "idle" => OfAdmin(tx'[o])
    BY <1>2, <1>4 DEF UnhurriedInv, AllUnhurried, Reqs
  <2>4. \A o \in SupplierReqs : tx'[o].op # "idle" => OfSupplier(tx'[o], files)
    BY <1>2, <1>4 DEF UnhurriedInv, AllUnhurried, Reqs
  <2>5. AllUnhurried'
    BY <1>1, <1>2, <2>3, <2>4, UnhurriedAfter
  <2> QED
    BY <2>1, <2>2, <2>5 DEF UnhurriedInv
<1>5. ASSUME SerialInv PROVE SerialInv'
  <2>1. Alone'
    BY <1>2, <1>5 DEF SerialInv, Alone, Busy
  <2>2. \A o \in Reqs : tx'[o].op # "idle" => Fresh(tx'[o])
    BY <1>2, <1>5 DEF SerialInv, AllFresh
  <2>3. AllFresh'
    BY <1>1, <2>2 DEF AllFresh, Fresh, Busy, ReviewKept, OrgKept, OfType, Live, AtMostOne
  <2> QED
    BY <1>1, <1>5, <2>1, <2>3 DEF SerialInv, ReviewKept, OrgKept, OfType, Live, AtMostOne
<1> QED
  BY <1>2, <1>3, <1>4, <1>5 DEF VerificationInv

(***************************************************************************)
(* The documents as the supplier's handlers make them.                     *)
(***************************************************************************)

(* From t to u as the supplier adds documents: nothing counts as reviewed  *)
(* that was not, and every site photo is where it was.                     *)
Extended(t, u) ==
    /\ u \in Seq(DocRow) /\ Grown(t, u)
    /\ ReviewKept(t) => ReviewKept(u)
    /\ \A d \in OfType(t, "sitePhotos") :
          d \in OfType(u, "sitePhotos") /\ u[d].file = t[d].file

LEMMA ExtendedSame ==
    ASSUME NEW t \in Seq(DocRow)
    PROVE  Extended(t, t)
  BY GrownSame DEF Extended

LEMMA ExtendedTwice ==
    ASSUME NEW t \in Seq(DocRow), NEW u, NEW v, Extended(t, u), Extended(u, v)
    PROVE  Extended(t, v)
<1>1. u \in Seq(DocRow) /\ v \in Seq(DocRow) /\ Grown(t, u) /\ Grown(u, v)
  BY DEF Extended
<1>2. Grown(t, v)
  BY <1>1, GrownTwice
<1> QED
  BY <1>1, <1>2 DEF Extended

LEMMA ExtendedGallery ==
    ASSUME NEW t, NEW u, Extended(t, u), NEW photos, NEW lost, GalleryKept(photos, t, lost)
    PROVE  GalleryKept(photos, u, lost)
  BY DEF Extended, GalleryKept

LEMMA FileReplaced ==
    ASSUME NEW row \in DocRow, NEW file \in Nat
    PROVE  LET new == [row EXCEPT !.file = file, !.status = "PENDING"]
           IN  /\ new \in DocRow
               /\ new.type = row.type /\ new.deleted = row.deleted
               /\ new.file = file /\ new.status = "PENDING"
  BY DEF DocRow

(* A tin takes the place of the one there is, or is new.                   *)
LEMMA WithTinRows ==
    ASSUME NEW t \in Seq(DocRow), NEW file \in Nat
    PROVE  LET u == WithTin(t, file)
           IN  /\ u \in Seq(DocRow) /\ Len(t) <= Len(u)
               /\ \A d \in DOMAIN t :
                     /\ d \in DOMAIN u
                     /\ u[d].type = t[d].type /\ u[d].deleted = t[d].deleted
                     /\ d \notin OfType(t, "tin") => u[d] = t[d]
                     /\ d \in OfType(t, "tin") => u[d].file = file /\ u[d].status = "PENDING"
               /\ \A d \in DOMAIN u \ DOMAIN t :
                     /\ OfType(t, "tin") = {} /\ d = Len(t) + 1
                     /\ u[d] = NewDoc("tin", file)
<1> DEFINE u == WithTin(t, file)
           same == OfType(t, "tin")
<1>1. CASE same = {}
  <2>1. u = Append(t, NewDoc("tin", file)) /\ NewDoc("tin", file) \in DocRow
    BY <1>1, NewDocType DEF WithTin
  <2>2. /\ u \in Seq(DocRow) /\ Len(u) = Len(t) + 1
        /\ DOMAIN u = DOMAIN t \cup {Len(t) + 1}
        /\ u[Len(t) + 1] = NewDoc("tin", file) /\ \A i \in DOMAIN t : u[i] = t[i]
    BY <2>1, TableLonger
  <2> HIDE DEF u
  <2>3. Len(t) <= Len(u)
    BY <2>2
  <2> QED
    BY <1>1, <2>2, <2>3 DEF u
<1>2. CASE same # {}
  <2> DEFINE v == [d \in DOMAIN t |->
                      IF d \in same THEN [t[d] EXCEPT !.file = file, !.status = "PENDING"]
                      ELSE t[d]]
  <2>1. u = v
    BY <1>2 DEF WithTin
  <2>2. \A d \in DOMAIN t : t[d] \in DocRow
    OBVIOUS
  <2>3. \A d \in DOMAIN t :
            /\ v[d] \in DocRow
            /\ v[d].type = t[d].type /\ v[d].deleted = t[d].deleted
            /\ d \notin same => v[d] = t[d]
            /\ d \in same => v[d].file = file /\ v[d].status = "PENDING"
    BY <2>2, FileReplaced
  <2>4. v \in [DOMAIN t -> DocRow]
    BY <2>3
  <2> HIDE DEF v
  <2>5. v \in Seq(DocRow) /\ DOMAIN v = DOMAIN t /\ Len(v) = Len(t)
    BY <2>4, TableAfter
  <2> QED
    BY <2>1, <2>3, <2>5
<1> QED
  BY <1>1, <1>2

LEMMA WithTinExtends ==
    ASSUME NEW t \in Seq(DocRow), NEW file \in Nat
    PROVE  Extended(t, WithTin(t, file))
<1> DEFINE u == WithTin(t, file)
<1>1. /\ u \in Seq(DocRow) /\ Len(t) <= Len(u)
      /\ \A d \in DOMAIN t :
            /\ d \in DOMAIN u
            /\ u[d].type = t[d].type /\ u[d].deleted = t[d].deleted
            /\ d \notin OfType(t, "tin") => u[d] = t[d]
            /\ d \in OfType(t, "tin") => u[d].file = file /\ u[d].status = "PENDING"
      /\ \A d \in DOMAIN u \ DOMAIN t :
            /\ OfType(t, "tin") = {} /\ d = Len(t) + 1
            /\ u[d] = NewDoc("tin", file)
  BY WithTinRows
<1> HIDE DEF u
<1>2. NewDoc("tin", file).type = "tin" /\ NewDoc("tin", file).status = "PENDING"
  BY NewDocType
<1>3. \A d \in DOMAIN t : t[d].type # "tin" => u[d] = t[d]
  BY <1>1 DEF OfType
<1>4. Grown(t, u)
  BY <1>1, <1>3 DEF Grown
<1>5. ASSUME ReviewKept(t) PROVE ReviewKept(u)
  <2>1. \A d \in OfType(u, "contact") : d \in OfType(t, "contact")
    BY <1>1, <1>2 DEF OfType, Live
  <2>2. \A d \in Live(u) : u[d].status = "APPROVED" => d \in Live(t) /\ u[d] = t[d]
    BY <1>1, <1>2 DEF Live
  <2> QED
    BY <1>5, <2>1, <2>2 DEF ReviewKept, AtMostOne
<1>6. \A d \in OfType(t, "sitePhotos") :
          d \in OfType(u, "sitePhotos") /\ u[d].file = t[d].file
  BY <1>1, <1>3 DEF OfType, Live
<1> QED
  BY <1>1, <1>4, <1>5, <1>6 DEF Extended, u

LEMMA WithTinKeeps ==
    ASSUME NEW t \in Seq(DocRow), NEW n \in Nat, NEW m \in Nat, n <= m, NEW file \in 1..m,
           NEW tin, NEW gone, DocsKept(t, tin, gone, n), 0 \notin gone, file \notin gone,
           \A d \in OfType(t, "sitePhotos") : t[d].file # file
    PROVE  DocsKept(WithTin(t, file), file, gone, m)
<1> DEFINE u == WithTin(t, file)
<1>1. file \in Nat /\ file # 0 /\ file \in 0..m
  OBVIOUS
<1>2. /\ u \in Seq(DocRow) /\ Len(t) <= Len(u)
      /\ \A d \in DOMAIN t :
            /\ d \in DOMAIN u
            /\ u[d].type = t[d].type /\ u[d].deleted = t[d].deleted
            /\ d \notin OfType(t, "tin") => u[d] = t[d]
            /\ d \in OfType(t, "tin") => u[d].file = file /\ u[d].status = "PENDING"
      /\ \A d \in DOMAIN u \ DOMAIN t :
            /\ OfType(t, "tin") = {} /\ d = Len(t) + 1
            /\ u[d] = NewDoc("tin", file)
  BY <1>1, WithTinRows
<1>3. NewDoc("tin", file).type = "tin" /\ NewDoc("tin", file).file = file
  BY <1>1, NewDocType
<1> HIDE DEF u
<1>4. DocsKept(t, tin, gone, m)
  BY KeptLater
<1>5. \A d \in Live(u) :
          \/ u[d].type = "tin" /\ u[d].file = file
          \/ /\ u[d].type # "tin" /\ d \in Live(t)
             /\ u[d].type = t[d].type /\ u[d].file = t[d].file
  BY <1>2, <1>3 DEF OfType, Live
<1>6. \A d, e \in Live(u) : u[d].type = "tin" /\ u[e].type = "tin" => d = e
  <2>1. ASSUME NEW d \in Live(u), NEW e \in Live(u), u[d].type = "tin", u[e].type = "tin"
        PROVE  d = e
    <3>1. CASE OfType(t, "tin") = {}
      <4>1. d \notin DOMAIN t /\ e \notin DOMAIN t
        BY <1>2, <2>1, <3>1 DEF OfType, Live
      <4> QED
        BY <1>2, <2>1, <4>1 DEF Live
    <3>2. CASE OfType(t, "tin") # {}
      <4>1. d \in OfType(t, "tin") /\ e \in OfType(t, "tin")
        BY <1>2, <2>1, <3>2 DEF OfType, Live
      <4> QED
        BY <4>1 DEF DocsKept, OfType
    <3> QED
      BY <3>1, <3>2
  <2> QED
    BY <2>1
<1>7. \A d \in DOMAIN u : u[d].file \in 0..m
  BY <1>1, <1>2, <1>3, <1>4 DEF DocsKept
<1>8. \A d \in Live(u) : u[d].type = "sitePhotos" => u[d].file \notin {0, file}
  BY <1>5 DEF DocsKept, OfType
<1>9. \A d \in Live(u) :
          /\ u[d].type = "tin" => u[d].file = file /\ file # 0
          /\ u[d].type = "contact" => u[d].file = 0
          /\ u[d].file \notin gone
  BY <1>1, <1>5 DEF DocsKept
<1>10. \A d, e \in Live(u) : u[d].file = u[e].file /\ u[d].file # 0 => d = e
  <2>1. ASSUME NEW d \in Live(u), NEW e \in Live(u), u[d].file = u[e].file, u[d].file # 0
        PROVE  d = e
    <3>1. u[d].type \in {"tin", "sitePhotos", "contact"}
          /\ u[e].type \in {"tin", "sitePhotos", "contact"}
      <4>1. u[d] \in DocRow /\ u[e] \in DocRow
        BY <1>2, <2>1 DEF Live
      <4> QED
        BY <4>1 DEF DocRow
    <3>2. CASE u[d].type = "tin"
      BY <1>5, <1>6, <1>8, <1>9, <2>1, <3>1, <3>2
    <3>3. CASE u[d].type # "tin"
      <4>1. u[e].type # "tin"
        BY <1>8, <1>9, <2>1, <3>1, <3>3
      <4> QED
        BY <1>5, <2>1, <3>3, <4>1 DEF DocsKept
    <3> QED
      BY <3>2, <3>3
  <2> QED
    BY <2>1
<1> QED
  BY <1>7, <1>8, <1>9, <1>10 DEF DocsKept, u

(* Site photos are added after the rows there are.                         *)
AddedPhotos(t, u, photos) ==
    /\ u \in Seq(DocRow) /\ Len(t) <= Len(u)
    /\ \A d \in DOMAIN t : d \in DOMAIN u /\ u[d] = t[d]
    /\ \A d \in DOMAIN u \ DOMAIN t :
          u[d].file \in photos /\ u[d] = NewDoc("sitePhotos", u[d].file)
    /\ \A d, e \in DOMAIN u \ DOMAIN t : u[d].file = u[e].file => d = e

LEMMA OnePhotoAdded ==
    ASSUME NEW t \in Seq(DocRow), NEW file \in Nat
    PROVE  AddedPhotos(t, Append(t, NewDoc("sitePhotos", file)), {file})
<1> DEFINE u == Append(t, NewDoc("sitePhotos", file))
<1>1. NewDoc("sitePhotos", file) \in DocRow /\ NewDoc("sitePhotos", file).file = file
  BY NewDocType
<1>2. /\ u \in Seq(DocRow) /\ Len(u) = Len(t) + 1
      /\ DOMAIN u = DOMAIN t \cup {Len(t) + 1}
      /\ u[Len(t) + 1] = NewDoc("sitePhotos", file) /\ \A i \in DOMAIN t : u[i] = t[i]
  BY <1>1, TableLonger
<1> HIDE DEF u
<1>3. Len(t) <= Len(u)
  BY <1>2
<1> QED
  BY <1>1, <1>2, <1>3 DEF AddedPhotos, u

LEMMA PhotosAdded ==
    ASSUME NEW t \in Seq(DocRow), NEW photos \in SUBSET Nat, IsFiniteSet(photos)
    PROVE  AddedPhotos(t, t \o SetToSeq({NewDoc("sitePhotos", p) : p \in photos}), photos)
<1> DEFINE v == SetToSeq({NewDoc("sitePhotos", p) : p \in photos})
           u == t \o v
<1>1. /\ v \in Seq(DocRow)
      /\ \A i \in 1..Len(v) :
            v[i].file \in photos /\ v[i] = NewDoc("sitePhotos", v[i].file)
      /\ \A i, j \in 1..Len(v) : v[i].file = v[j].file => i = j
  BY PhotosInSequence
<1> HIDE DEF v
<1>2. /\ u \in Seq(DocRow) /\ Len(u) = Len(t) + Len(v)
      /\ \A i \in 1..Len(t) : u[i] = t[i]
      /\ \A i \in Len(t) + 1..Len(u) : u[i] = v[i - Len(t)]
  BY <1>1, Joined
<1> HIDE DEF u
<1>3. /\ Len(t) \in Nat /\ Len(v) \in Nat /\ DOMAIN t = 1..Len(t) /\ DOMAIN u = 1..Len(u)
  BY <1>1, <1>2
<1>4. Len(t) <= Len(u) /\ DOMAIN t \subseteq DOMAIN u
  BY <1>2, <1>3
<1>5. \A d \in DOMAIN u \ DOMAIN t :
          d \in Len(t) + 1..Len(u) /\ d - Len(t) \in 1..Len(v)
  BY <1>2, <1>3
<1>6. \A d \in DOMAIN u \ DOMAIN t : u[d] = v[d - Len(t)]
  BY <1>2, <1>5
<1>7. \A d \in DOMAIN u \ DOMAIN t :
          u[d].file \in photos /\ u[d] = NewDoc("sitePhotos", u[d].file)
  BY <1>1, <1>5, <1>6
<1>8. \A d, e \in DOMAIN u \ DOMAIN t : u[d].file = u[e].file => d = e
  <2>1. ASSUME NEW d \in DOMAIN u \ DOMAIN t, NEW e \in DOMAIN u \ DOMAIN t,
               u[d].file = u[e].file
        PROVE  d = e
    <3>1. d - Len(t) = e - Len(t)
      BY <1>1, <1>5, <1>6, <2>1
    <3> QED
      BY <1>3, <2>1, <3>1
  <2> QED
    BY <2>1
<1> QED
  BY <1>2, <1>3, <1>4, <1>7, <1>8 DEF AddedPhotos, u, v

LEMMA AddedRows ==
    ASSUME NEW t, NEW u, NEW photos, AddedPhotos(t, u, photos)
    PROVE  \A d \in DOMAIN u \ DOMAIN t :
               u[d].file \in photos /\ u[d].type = "sitePhotos" /\ u[d].status = "PENDING"
<1>1. ASSUME NEW d \in DOMAIN u \ DOMAIN t
      PROVE  u[d].file \in photos /\ u[d].type = "sitePhotos" /\ u[d].status = "PENDING"
  <2> DEFINE file == u[d].file
  <2>1. file \in photos /\ u[d] = NewDoc("sitePhotos", file)
    BY <1>1 DEF AddedPhotos
  <2>2. NewDoc("sitePhotos", file).type = "sitePhotos"
        /\ NewDoc("sitePhotos", file).status = "PENDING"
    BY DEF NewDoc
  <2> QED
    BY <2>1, <2>2
<1> QED
  BY <1>1

LEMMA AddedExtends ==
    ASSUME NEW t \in Seq(DocRow), NEW u, NEW photos \in SUBSET Nat, AddedPhotos(t, u, photos)
    PROVE  Extended(t, u)
<1>1. /\ u \in Seq(DocRow) /\ Len(t) <= Len(u)
      /\ \A d \in DOMAIN t : d \in DOMAIN u /\ u[d] = t[d]
      /\ \A d \in DOMAIN u \ DOMAIN t : u[d].type = "sitePhotos" /\ u[d].status = "PENDING"
  <2>1. \A d \in DOMAIN u \ DOMAIN t :
            u[d].file \in photos /\ u[d].type = "sitePhotos" /\ u[d].status = "PENDING"
    BY AddedRows
  <2> QED
    BY <2>1 DEF AddedPhotos
<1>2. Grown(t, u)
  BY <1>1 DEF Grown
<1>3. ASSUME ReviewKept(t) PROVE ReviewKept(u)
  <2>1. \A d \in OfType(u, "contact") : d \in OfType(t, "contact")
    BY <1>1 DEF OfType, Live
  <2>2. \A d \in Live(u) : u[d].status = "APPROVED" => d \in Live(t) /\ u[d] = t[d]
    BY <1>1 DEF Live
  <2> QED
    BY <1>3, <2>1, <2>2 DEF ReviewKept, AtMostOne
<1>4. \A d \in OfType(t, "sitePhotos") :
          d \in OfType(u, "sitePhotos") /\ u[d].file = t[d].file
  BY <1>1 DEF OfType, Live
<1> QED
  BY <1>1, <1>2, <1>3, <1>4 DEF Extended

LEMMA AddedKeeps ==
    ASSUME NEW t \in Seq(DocRow), NEW u, NEW n \in Nat, NEW m \in Nat, n <= m,
           NEW photos \in SUBSET (1..m), AddedPhotos(t, u, photos),
           NEW tin, NEW gone, DocsKept(t, tin, gone, n),
           \A p \in photos : p # tin /\ p \notin gone,
           \A d \in Live(t) : t[d].file \notin photos
    PROVE  DocsKept(u, tin, gone, m)
<1>1. DocsKept(t, tin, gone, m)
  BY KeptLater
<1>2. /\ \A d \in DOMAIN t : d \in DOMAIN u /\ u[d] = t[d]
      /\ \A d \in DOMAIN u \ DOMAIN t : u[d].file \in photos /\ u[d].type = "sitePhotos"
      /\ \A d, e \in DOMAIN u \ DOMAIN t : u[d].file = u[e].file => d = e
  <2>1. \A d \in DOMAIN u \ DOMAIN t :
            u[d].file \in photos /\ u[d].type = "sitePhotos" /\ u[d].status = "PENDING"
    BY AddedRows
  <2> QED
    BY <2>1 DEF AddedPhotos
<1>3. \A d \in DOMAIN u : u[d].file \in 0..m
  <2>1. \A d \in DOMAIN t : u[d].file \in 0..m
    BY <1>1, <1>2 DEF DocsKept
  <2>2. photos \subseteq 0..m
    OBVIOUS
  <2> QED
    BY <1>2, <2>1, <2>2
<1>4. \A p \in photos : p # 0
  OBVIOUS
<1>5. \A d \in Live(u) :
          \/ d \in Live(t) /\ u[d] = t[d]
          \/ d \in DOMAIN u \ DOMAIN t /\ u[d].type = "sitePhotos" /\ u[d].file \in photos
  BY <1>2 DEF Live
<1>6. \A d \in Live(u) :
          /\ u[d].type = "tin" => u[d].file = tin /\ tin # 0
          /\ u[d].type = "sitePhotos" => u[d].file \notin {0, tin}
          /\ u[d].type = "contact" => u[d].file = 0
          /\ u[d].file \notin gone
  BY <1>1, <1>4, <1>5 DEF DocsKept
<1>7. \A d, e \in Live(u) : u[d].file = u[e].file /\ u[d].file # 0 => d = e
  BY <1>1, <1>2, <1>5 DEF DocsKept
<1> QED
  BY <1>3, <1>6, <1>7 DEF DocsKept

(* The synchronisation adds what the draft remembers, and no more.         *)
LEMMA SyncedRows ==
    ASSUME NEW t \in Seq(DocRow), NEW form \in DraftRow, IsFiniteSet(form.photos)
    PROVE  LET known == {t[d].file : d \in Live(t)}
               photos == form.photos \ (known \cup removed)
               v == IF form.tin \in known \cup removed \cup {0} THEN t ELSE WithTin(t, form.tin)
           IN  /\ Extended(t, v) /\ AddedPhotos(v, Synced(t, form), photos)
               /\ photos \in SUBSET Nat
<1> DEFINE known == {t[d].file : d \in Live(t)}
           tins == {form.tin} \ (known \cup removed \cup {0})
           photos == form.photos \ (known \cup removed)
           v == IF form.tin \in known \cup removed \cup {0} THEN t ELSE WithTin(t, form.tin)
<1>1. form.tin \in Nat /\ form.photos \in SUBSET Nat
  BY DEF DraftRow
<1>2. Extended(t, v)
  BY <1>1, ExtendedSame, WithTinExtends
<1>3. photos \in SUBSET Nat /\ IsFiniteSet(photos)
  BY <1>1, FS_Subset
<1>4. v = IF tins = {} THEN t ELSE WithTin(t, form.tin)
  OBVIOUS
<1>5. Synced(t, form) = v \o SetToSeq({NewDoc("sitePhotos", p) : p \in photos})
  BY <1>4 DEF Synced
<1> HIDE DEF v, photos, known
<1>6. v \in Seq(DocRow)
  BY <1>2 DEF Extended
<1>7. AddedPhotos(v, Synced(t, form), photos)
  BY <1>3, <1>5, <1>6, PhotosAdded
<1> QED
  BY <1>2, <1>3, <1>7 DEF v, photos, known

LEMMA SyncedExtends ==
    ASSUME NEW t \in Seq(DocRow), NEW form \in DraftRow, IsFiniteSet(form.photos)
    PROVE  Extended(t, Synced(t, form))
<1> DEFINE known == {t[d].file : d \in Live(t)}
           photos == form.photos \ (known \cup removed)
           v == IF form.tin \in known \cup removed \cup {0} THEN t ELSE WithTin(t, form.tin)
<1>1. /\ Extended(t, v) /\ AddedPhotos(v, Synced(t, form), photos)
      /\ photos \in SUBSET Nat
  BY SyncedRows
<1> HIDE DEF known, photos, v
<1>2. v \in Seq(DocRow)
  BY <1>1 DEF Extended
<1>3. Extended(v, Synced(t, form))
  BY <1>1, <1>2, AddedExtends
<1> QED
  BY <1>1, <1>3, ExtendedTwice

LEMMA SyncedKeeps ==
    ASSUME NEW t \in Seq(DocRow), NEW form \in DraftRow, NEW n \in Nat, NEW tin \in 0..n,
           NEW gone, 0 \notin gone, DocsKept(t, tin, gone, n), DraftKept(form, tin, gone, n)
    PROVE  DocsKept(Synced(t, form), tin, gone, n)
<1> DEFINE known == {t[d].file : d \in Live(t)}
           photos == form.photos \ (known \cup removed)
           v == IF form.tin \in known \cup removed \cup {0} THEN t ELSE WithTin(t, form.tin)
<1>1. /\ form.tin \in {0, tin} /\ form.tin \notin gone /\ form.photos \subseteq 1..n
      /\ \A p \in form.photos : p # tin /\ p \notin gone
  BY DEF DraftKept
<1>2. IsFiniteSet(form.photos)
  <2>1. 1 \in Int /\ n \in Int
    OBVIOUS
  <2>2. IsFiniteSet(1..n)
    BY <2>1, FS_Interval
  <2>3. form.photos \in SUBSET (1..n)
    BY <1>1
  <2> QED
    BY <2>2, <2>3, FS_Subset
<1>3. /\ Extended(t, v) /\ AddedPhotos(v, Synced(t, form), photos)
      /\ photos \in SUBSET Nat
  BY <1>2, SyncedRows
<1>4. v \in Seq(DocRow)
  BY <1>3 DEF Extended
<1>5. CASE form.tin \in known \cup removed \cup {0}
  <2>1. v = t
    BY <1>5
  <2>2. \A d \in Live(t) : t[d].file \notin photos
    OBVIOUS
  <2>3. photos \in SUBSET (1..n) /\ \A p \in photos : p # tin /\ p \notin gone
    BY <1>1
  <2> HIDE DEF photos, v
  <2> QED
    BY <1>3, <2>1, <2>2, <2>3, AddedKeeps
<1>6. CASE form.tin \notin known \cup removed \cup {0}
  <2>1. v = WithTin(t, tin) /\ tin \in 1..n /\ tin \notin gone /\ tin \in Nat
    BY <1>1, <1>6
  <2>2. \A d \in OfType(t, "sitePhotos") : t[d].file # tin
    BY DEF DocsKept, OfType
  <2>3. DocsKept(v, tin, gone, n)
    BY <2>1, <2>2, WithTinKeeps
  <2>4. photos \in SUBSET (1..n) /\ \A p \in photos : p # tin /\ p \notin gone
    BY <1>1
  <2>5. \A d \in Live(v) : v[d].file \notin photos
    <3>1. ASSUME NEW d \in Live(v), v[d].file \in photos PROVE FALSE
      <4>1. v[d].file # tin /\ v[d].file \notin known /\ v[d].file # 0
        BY <1>1, <3>1
      <4>2. v[d].type # "tin"
        BY <2>3, <3>1, <4>1 DEF DocsKept
      <4>3. /\ \A e \in DOMAIN t :
                  /\ v[e].type = t[e].type /\ v[e].deleted = t[e].deleted
                  /\ e \notin OfType(t, "tin") => v[e] = t[e]
            /\ \A e \in DOMAIN v \ DOMAIN t : v[e] = NewDoc("tin", tin)
        <5>1. LET u == WithTin(t, tin)
              IN  /\ u \in Seq(DocRow) /\ Len(t) <= Len(u)
                  /\ \A e \in DOMAIN t :
                        /\ e \in DOMAIN u
                        /\ u[e].type = t[e].type /\ u[e].deleted = t[e].deleted
                        /\ e \notin OfType(t, "tin") => u[e] = t[e]
                        /\ e \in OfType(t, "tin") =>
                              u[e].file = tin /\ u[e].status = "PENDING"
                  /\ \A e \in DOMAIN u \ DOMAIN t :
                        /\ OfType(t, "tin") = {} /\ e = Len(t) + 1
                        /\ u[e] = NewDoc("tin", tin)
          BY <2>1, WithTinRows
        <5> QED
          BY <2>1, <5>1
      <4>4. d \in DOMAIN t
        BY <3>1, <4>2, <4>3 DEF Live, NewDoc
      <4>5. d \in Live(t) /\ v[d] = t[d]
        BY <3>1, <4>2, <4>3, <4>4 DEF Live, OfType
      <4> QED
        BY <4>1, <4>5
    <3> QED
      BY <3>1
  <2> HIDE DEF photos, v
  <2> QED
    BY <1>3, <1>4, <2>3, <2>4, <2>5, AddedKeeps
<1> QED
  BY <1>5, <1>6

(* The row of the contact information, which both sides make.              *)
LEMMA WithContactRows ==
    ASSUME NEW t \in Seq(DocRow)
    PROVE  /\ Extended(t, WithContact(t)) /\ Reviewed(t, WithContact(t), {})
<1> DEFINE u == WithContact(t)
<1>1. CASE OfType(t, "contact") # {}
  BY <1>1, ExtendedSame, ReviewedSame DEF WithContact
<1>2. CASE OfType(t, "contact") = {}
  <2>1. /\ NewDoc("contact", 0) \in DocRow /\ NewDoc("contact", 0).type = "contact"
        /\ NewDoc("contact", 0).file = 0 /\ NewDoc("contact", 0).status = "PENDING"
    BY NewDocType
  <2>2. u = Append(t, NewDoc("contact", 0))
    BY <1>2 DEF WithContact
  <2>3. /\ u \in Seq(DocRow) /\ Len(u) = Len(t) + 1
        /\ DOMAIN u = DOMAIN t \cup {Len(t) + 1} /\ Len(t) + 1 \notin DOMAIN t
        /\ u[Len(t) + 1] = NewDoc("contact", 0) /\ \A i \in DOMAIN t : u[i] = t[i]
    BY <2>1, <2>2, TableLonger
  <2> HIDE DEF u
  <2>4. Grown(t, u)
    BY <2>3 DEF Grown
  <2>5. Reviewed(t, u, {})
    BY <2>1, <2>3, <2>4 DEF Reviewed
  <2>6. ASSUME ReviewKept(t) PROVE ReviewKept(u)
    <3>1. \A d \in OfType(u, "contact") : d = Len(t) + 1
      BY <1>2, <2>3 DEF OfType, Live
    <3>2. \A d \in Live(u) : u[d].status = "APPROVED" => d \in Live(t) /\ u[d] = t[d]
      BY <2>1, <2>3 DEF Live
    <3> QED
      BY <2>6, <3>1, <3>2 DEF ReviewKept, AtMostOne
  <2>7. \A d \in OfType(t, "sitePhotos") :
            d \in OfType(u, "sitePhotos") /\ u[d].file = t[d].file
    BY <2>3 DEF OfType, Live
  <2> QED
    BY <2>3, <2>4, <2>5, <2>6, <2>7 DEF Extended, u
<1> QED
  BY <1>1, <1>2

(* A row is marked as deleted, and nothing else changes.                   *)
Without(t, d) == [t EXCEPT ![d].deleted = TRUE]

LEMMA WithoutRows ==
    ASSUME NEW t \in Seq(DocRow), NEW d \in DOMAIN t
    PROVE  LET u == Without(t, d)
           IN  /\ u \in Seq(DocRow) /\ Len(u) = Len(t) /\ DOMAIN u = DOMAIN t
               /\ \A e \in DOMAIN t : e # d => u[e] = t[e]
               /\ u[d].deleted /\ u[d].type = t[d].type /\ u[d].file = t[d].file
<1> DEFINE u == Without(t, d)
<1>1. t[d] \in DocRow /\ [t[d] EXCEPT !.deleted = TRUE] \in DocRow
  <2>1. t[d] \in DocRow
    OBVIOUS
  <2> QED
    BY <2>1 DEF DocRow
<1>2. u = [t EXCEPT ![d] = [t[d] EXCEPT !.deleted = TRUE]]
  BY DEF Without
<1>3. u \in [DOMAIN t -> DocRow]
  BY <1>1, <1>2
<1>4. u \in Seq(DocRow) /\ DOMAIN u = DOMAIN t /\ Len(u) = Len(t)
  BY <1>3, TableAfter
<1>5. u[d] = [t[d] EXCEPT !.deleted = TRUE] /\ \A e \in DOMAIN t : e # d => u[e] = t[e]
  BY <1>2
<1>6. u[d].deleted /\ u[d].type = t[d].type /\ u[d].file = t[d].file
  BY <1>1, <1>5 DEF DocRow
<1> QED
  BY <1>4, <1>5, <1>6 DEF u

LEMMA WithoutReviewed ==
    ASSUME NEW t \in Seq(DocRow), NEW d \in DOMAIN t
    PROVE  /\ Reviewed(t, Without(t, d), {t[d].file} \ {0})
           /\ ReviewKept(t) => ReviewKept(Without(t, d))
<1> DEFINE u == Without(t, d)
<1>1. /\ u \in Seq(DocRow) /\ Len(u) = Len(t) /\ DOMAIN u = DOMAIN t
      /\ \A e \in DOMAIN t : e # d => u[e] = t[e]
      /\ u[d].deleted /\ u[d].type = t[d].type /\ u[d].file = t[d].file
  BY WithoutRows
<1> HIDE DEF u
<1>2. Grown(t, u)
  BY <1>1 DEF Grown
<1>3. Reviewed(t, u, {t[d].file} \ {0})
  BY <1>1, <1>2 DEF Reviewed
<1>4. ReviewKept(t) => ReviewKept(u)
  BY <1>1 DEF ReviewKept, AtMostOne, OfType, Live
<1> QED
  BY <1>3, <1>4 DEF u

LEMMA WithoutKeeps ==
    ASSUME NEW t \in Seq(DocRow), NEW d \in Live(t), NEW tin, NEW gone, NEW n,
           DocsKept(t, tin, gone, n)
    PROVE  DocsKept(Without(t, d), tin, gone \cup ({t[d].file} \ {0}), n)
<1> DEFINE u == Without(t, d)
<1>1. /\ u \in Seq(DocRow) /\ DOMAIN u = DOMAIN t
      /\ \A e \in DOMAIN t : e # d => u[e] = t[e]
      /\ u[d].deleted /\ u[d].file = t[d].file
  BY WithoutRows DEF Live
<1> HIDE DEF u
<1>2. \A e \in Live(u) : e \in Live(t) /\ e # d /\ u[e] = t[e]
  BY <1>1 DEF Live
<1>3. \A e \in DOMAIN u : u[e].file \in 0..n
  BY <1>1 DEF DocsKept
<1>4. \A e \in Live(u) : u[e].file \notin gone \cup ({t[d].file} \ {0})
  BY <1>2 DEF DocsKept
<1> QED
  BY <1>2, <1>3, <1>4 DEF DocsKept, u

(* The documents of D are marked, and no file moves.                       *)
Marked(t, u) ==
    /\ u \in Seq(DocRow) /\ DOMAIN u = DOMAIN t /\ Len(u) = Len(t)
    /\ \A d \in DOMAIN t :
          /\ u[d].type = t[d].type /\ u[d].file = t[d].file /\ u[d].deleted = t[d].deleted
          /\ \/ u[d].status # "APPROVED" \/ u[d].approvedFile = u[d].file
             \/ u[d] = t[d]

LEMMA MarkedReviewed ==
    ASSUME NEW t \in Seq(DocRow), NEW u, Marked(t, u)
    PROVE  /\ Reviewed(t, u, {})
           /\ ReviewKept(t) => ReviewKept(u)
<1>1. Grown(t, u)
  BY DEF Marked, Grown
<1>2. Reviewed(t, u, {})
  BY <1>1 DEF Marked, Reviewed
<1>3. Live(u) = Live(t) /\ OfType(u, "contact") = OfType(t, "contact")
  BY DEF Marked, Live, OfType
<1>4. ReviewKept(t) => ReviewKept(u)
  BY <1>3 DEF Marked, ReviewKept, Live
<1> QED
  BY <1>2, <1>4

LEMMA MarkedDocs ==
    ASSUME NEW t \in Seq(DocRow), NEW D \in SUBSET DOMAIN t
    PROVE  Marked(t, ApprovedDocs(t, D)) /\ Marked(t, FlaggedDocs(t, D))
<1>1. \A row \in DocRow :
          LET a == [row EXCEPT !.status = "APPROVED", !.approvedFile = row.file]
              f == [row EXCEPT !.status = "REJECTED"]
          IN  /\ a \in DocRow /\ a.type = row.type /\ a.file = row.file
              /\ a.deleted = row.deleted /\ a.approvedFile = a.file
              /\ f \in DocRow /\ f.type = row.type /\ f.file = row.file
              /\ f.deleted = row.deleted /\ f.status # "APPROVED"
  BY DEF DocRow
<1>2. \A d \in DOMAIN t : t[d] \in DocRow
  OBVIOUS
<1>3. Marked(t, ApprovedDocs(t, D))
  <2> DEFINE u == ApprovedDocs(t, D)
  <2>1. u \in [DOMAIN t -> DocRow]
    BY <1>1, <1>2 DEF ApprovedDocs
  <2>2. u \in Seq(DocRow) /\ DOMAIN u = DOMAIN t /\ Len(u) = Len(t)
    BY <2>1, TableAfter
  <2>3. \A d \in DOMAIN t :
            /\ u[d].type = t[d].type /\ u[d].file = t[d].file /\ u[d].deleted = t[d].deleted
            /\ u[d].approvedFile = u[d].file \/ u[d] = t[d]
    BY ZenonT(60), <1>1, <1>2 DEF ApprovedDocs
  <2> QED
    BY <2>2, <2>3 DEF Marked
<1>4. Marked(t, FlaggedDocs(t, D))
  <2> DEFINE u == FlaggedDocs(t, D)
  <2>1. u \in [DOMAIN t -> DocRow]
    BY <1>1, <1>2 DEF FlaggedDocs
  <2>2. u \in Seq(DocRow) /\ DOMAIN u = DOMAIN t /\ Len(u) = Len(t)
    BY <2>1, TableAfter
  <2>3. \A d \in DOMAIN t :
            /\ u[d].type = t[d].type /\ u[d].file = t[d].file /\ u[d].deleted = t[d].deleted
            /\ u[d].status # "APPROVED" \/ u[d] = t[d]
    BY <1>1, <1>2 DEF FlaggedDocs
  <2> QED
    BY <2>2, <2>3 DEF Marked
<1> QED
  BY <1>3, <1>4

(***************************************************************************)
(* The requests begin.                                                     *)
(***************************************************************************)
LEMMA Typed ==
    ASSUME VerificationInv
    PROVE  /\ TypeOK /\ org \in OrgRow /\ docs \in Seq(DocRow) /\ gallery \in Seq(PhotoRow)
           /\ draft \in DraftRow /\ files \in Nat /\ files + 0 = files /\ files + 1 \in Nat
           /\ newest \in 0..files /\ newest \in Nat
           /\ draft.photos \subseteq 1..files /\ IsFiniteSet(draft.photos)
<1>1. /\ TypeOK /\ files \in Nat /\ draft.photos \subseteq 1..files /\ newest \in 0..files
  BY DEF VerificationInv, OverlapInv, TypeOK
<1>2. IsFiniteSet(draft.photos)
  <2>1. 1 \in Int /\ files \in Int
    BY <1>1
  <2>2. IsFiniteSet(1..files)
    BY <2>1, FS_Interval
  <2> QED
    BY <1>1, <2>2, FS_Subset
<1>3. files + 0 = files /\ files + 1 \in Nat /\ newest \in Nat
  BY <1>1
<1> QED
  BY <1>1, <1>2, <1>3 DEF TypeOK

(* A unit of work that has the rows as they are and puts o, t, g and f.    *)
Carries(work, o, t, g, f) ==
    /\ work \in Work
    /\ work.seen.org = org /\ work.seen.docs = docs
    /\ work.seen.gallery = gallery /\ work.seen.draft = draft
    /\ work.put.org = o /\ work.put.docs = t /\ work.put.gallery = g /\ work.put.draft = f

LEMMA PlainCarries ==
    ASSUME TypeOK
    PROVE  /\ Plain \in Work /\ Carries(Plain, org, docs, gallery, draft)
           /\ Plain.tin = 0 /\ Plain.saves = {} /\ Plain.withdraws = {} /\ Plain.drops = {}
           /\ Plain.removes = {}
<1>1. [org |-> org, docs |-> docs, gallery |-> gallery, draft |-> draft] \in Row
  BY DEF TypeOK, Row
<1>2. Plain \in Work
  BY <1>1 DEF Plain, Work
<1> QED
  BY <1>2 DEF Plain, Carries

LEMMA AfterSupplier ==
    ASSUME VerificationInv, NEW r \in SupplierReqs, NEW work, NEW uploads \in {0, 1},
           BeginWith(r, work, uploads),
           NEW o, NEW t, NEW g, NEW f, Carries(work, o, t, g, f),
           work.tin \in 0..files + uploads, work.removes = {},
           f.photos \subseteq 1..files + uploads, Grown(docs, t), Len(gallery) <= Len(g),
           RowsKept =>
               /\ work.withdraws \subseteq 1..files + uploads
               /\ DocsKept(t, TinOf(work), withdrawn \cup work.withdraws, files + uploads)
               /\ DraftKept(f, TinOf(work), withdrawn \cup work.withdraws, files + uploads)
               /\ GalleryKept(g, t, removed \cup dropped)
               /\ saved \cup work.saves \subseteq f.sections,
           ReviewKept(docs) => ReviewKept(t),
           OrgKept(org) => OrgKept(o)
    PROVE  VerificationInv'
<1>1. docs \in Seq(DocRow) /\ Grown(docs, docs) /\ Reviewed(docs, docs, dropped)
  BY Typed, GrownSame, ReviewedSame
<1>2. work \in Work /\ r \in Reqs
  BY DEF Carries, Reqs
<1>3. InHand(work, docs, files + uploads)
  BY <1>1 DEF InHand, Carries
<1>4. ~hurried => OfSupplier(work, files + uploads)
  BY <1>1 DEF OfSupplier, Carries, VerificationInv, UnhurriedInv
<1>5. ~overlapped => Fresh(work)
  BY DEF Fresh, Carries, VerificationInv, SerialInv
<1>6. r \notin AdminReqs
  BY SlotsAssumption
<1> QED
  BY <1>2, <1>3, <1>4, <1>5, <1>6, AfterBegin

LEMMA AfterAdmin ==
    ASSUME VerificationInv, NEW r \in AdminReqs, NEW work, Begin(r, work),
           NEW o, NEW t, Carries(work, o, t, gallery, draft), Reviewed(docs, t, work.drops),
           work.tin = 0, work.saves = {}, work.withdraws = {}, work.removes \subseteq 1..files,
           ReviewKept(docs) => ReviewKept(t),
           OrgKept(org) => OrgKept(o)
    PROVE  VerificationInv'
<1>1. /\ docs \in Seq(DocRow) /\ Grown(docs, docs) /\ files \in Nat /\ files + 0 = files
      /\ draft.photos \subseteq 1..files /\ gallery \in Seq(PhotoRow)
  BY Typed, GrownSame
<1>2. work \in Work /\ r \in Reqs /\ BeginWith(r, work, 0)
  BY DEF Carries, Reqs, Begin
<1>3. InHand(work, docs, files + 0)
  BY <1>1 DEF InHand, Carries, Reviewed
<1>4. OfAdmin(work)
  BY DEF OfAdmin, Carries
<1>5. ~overlapped => Fresh(work)
  BY DEF Fresh, Carries, VerificationInv, SerialInv
<1>6. r \notin SupplierReqs
  BY SlotsAssumption
<1> QED
  BY <1>2, <1>3, <1>4, <1>5, <1>6, AfterBegin

(* The photos of the gallery.                                              *)
LEMMA PhotoAdded ==
    ASSUME NEW photos \in Seq(PhotoRow), NEW file \in Nat
    PROVE  LET u == Append(photos, NewPhoto(file))
           IN  /\ u \in Seq(PhotoRow) /\ Len(photos) <= Len(u)
               /\ \A t, lost :
                     /\ GalleryKept(photos, t, lost)
                     /\ file = 0 \/ \E d \in OfType(t, "sitePhotos") : t[d].file = file
                     => GalleryKept(u, t, lost)
<1> DEFINE u == Append(photos, NewPhoto(file))
<1>1. NewPhoto(file) \in PhotoRow /\ NewPhoto(file).file = file
  BY DEF NewPhoto, PhotoRow
<1>2. /\ u \in Seq(PhotoRow) /\ Len(u) = Len(photos) + 1
      /\ DOMAIN u = DOMAIN photos \cup {Len(photos) + 1}
      /\ u[Len(photos) + 1] = NewPhoto(file) /\ \A i \in DOMAIN photos : u[i] = photos[i]
  BY <1>1, TableLonger
<1> HIDE DEF u
<1>3. Len(photos) <= Len(u)
  BY <1>2
<1>4. ASSUME NEW t, NEW lost, GalleryKept(photos, t, lost),
             file = 0 \/ \E d \in OfType(t, "sitePhotos") : t[d].file = file
      PROVE  GalleryKept(u, t, lost)
  BY <1>1, <1>2, <1>4 DEF GalleryKept, Live
<1> QED
  BY <1>2, <1>3, <1>4 DEF u

(* What is marked as deleted, or gets another picture, asks for nothing.   *)
LEMMA PhotosChanged ==
    ASSUME NEW photos \in Seq(PhotoRow), NEW u \in [DOMAIN photos -> PhotoRow]
    PROVE  /\ u \in Seq(PhotoRow) /\ Len(photos) <= Len(u)
           /\ \A t, lost :
                 /\ GalleryKept(photos, t, lost)
                 /\ \A p \in DOMAIN photos :
                       u[p] = photos[p] \/ u[p].deleted \/ u[p].file = 0
                 => GalleryKept(u, t, lost)
<1>1. u \in Seq(PhotoRow) /\ DOMAIN u = DOMAIN photos /\ Len(u) = Len(photos)
  BY TableAfter
<1>2. Len(photos) <= Len(u)
  BY <1>1
<1>3. ASSUME NEW t, NEW lost, GalleryKept(photos, t, lost),
             \A p \in DOMAIN photos : u[p] = photos[p] \/ u[p].deleted \/ u[p].file = 0
      PROVE  GalleryKept(u, t, lost)
  BY <1>1, <1>3 DEF GalleryKept, Live
<1> QED
  BY <1>1, <1>2, <1>3

(* The supplier.                                                           *)
LEMMA SaveStep ==
    ASSUME VerificationInv, NEW r \in SupplierReqs, NEW s \in Sections, Save(r, s)
    PROVE  VerificationInv'
<1> DEFINE f == [draft EXCEPT !.exists = TRUE, !.sections = @ \cup {s}]
           work == [Plain EXCEPT !.saves = {s}, !.put.draft = f]
<1>1. BeginWith(r, work, 0)
  BY DEF Save, Begin
<1>2. /\ TypeOK /\ draft \in DraftRow /\ docs \in Seq(DocRow) /\ gallery \in Seq(PhotoRow)
      /\ files \in Nat /\ files + 0 = files /\ draft.photos \subseteq 1..files
  BY Typed
<1>3. /\ f \in DraftRow /\ f.tin = draft.tin /\ f.photos = draft.photos
      /\ f.sections = draft.sections \cup {s}
  BY <1>2 DEF DraftRow
<1>4. Plain \in Work /\ Carries(Plain, org, docs, gallery, draft)
      /\ Plain.tin = 0 /\ Plain.withdraws = {} /\ Plain.removes = {}
  BY <1>2, PlainCarries
<1>5. /\ work.put.draft = f /\ work.put.org = org /\ work.put.docs = docs
      /\ work.put.gallery = gallery /\ work.seen = Plain.seen /\ work.tin = 0
      /\ work.saves = {s} /\ work.withdraws = {} /\ work.removes = {}
  BY DEF Plain
<1>6. work \in Work
  BY <1>2, <1>3 DEF Plain, Work, Row, TypeOK
<1> HIDE DEF work, f
<1>7. Carries(work, org, docs, gallery, f)
  BY <1>4, <1>5, <1>6 DEF Carries
<1>8. ASSUME RowsKept
      PROVE  /\ work.withdraws \subseteq 1..files + 0
             /\ DocsKept(docs, TinOf(work), withdrawn \cup work.withdraws, files + 0)
             /\ DraftKept(f, TinOf(work), withdrawn \cup work.withdraws, files + 0)
             /\ GalleryKept(gallery, docs, removed \cup dropped)
             /\ saved \cup work.saves \subseteq f.sections
  <2>1. TinOf(work) = newest /\ withdrawn \cup work.withdraws = withdrawn
    BY <1>5 DEF TinOf
  <2> QED
    BY <1>2, <1>3, <1>5, <1>8, <2>1 DEF RowsKept, DraftKept
<1>9. Grown(docs, docs) /\ Len(gallery) <= Len(gallery)
  BY <1>2, GrownSame
<1>10. work.tin \in 0..files + 0 /\ f.photos \subseteq 1..files + 0
  BY <1>2, <1>3, <1>5
<1> QED
  BY <1>1, <1>5, <1>7, <1>8, <1>9, <1>10, AfterSupplier

(* A request of the supplier that changes none of its documents.           *)
LEMMA StorefrontStep ==
    ASSUME VerificationInv, NEW r \in SupplierReqs, NEW work, Begin(r, work),
           NEW o, NEW g, Carries(work, o, docs, g, draft), Len(gallery) <= Len(g),
           work.tin = 0, work.saves = {}, work.withdraws = {}, work.removes = {},
           GalleryKept(gallery, docs, removed \cup dropped) =>
               GalleryKept(g, docs, removed \cup dropped),
           OrgKept(org) => OrgKept(o)
    PROVE  VerificationInv'
<1>1. /\ docs \in Seq(DocRow) /\ Grown(docs, docs) /\ files \in Nat /\ files + 0 = files
      /\ draft.photos \subseteq 1..files
  BY Typed, GrownSame
<1>2. BeginWith(r, work, 0)
  BY DEF Begin
<1>3. TinOf(work) = newest /\ withdrawn \cup work.withdraws = withdrawn
  BY DEF TinOf
<1>4. RowsKept =>
          /\ work.withdraws \subseteq 1..files + 0
          /\ DocsKept(docs, TinOf(work), withdrawn \cup work.withdraws, files + 0)
          /\ DraftKept(draft, TinOf(work), withdrawn \cup work.withdraws, files + 0)
          /\ GalleryKept(g, docs, removed \cup dropped)
          /\ saved \cup work.saves \subseteq draft.sections
  BY <1>1, <1>3 DEF RowsKept
<1>5. work.tin \in 0..files + 0 /\ draft.photos \subseteq 1..files + 0
  BY <1>1
<1> QED
  BY <1>1, <1>2, <1>4, <1>5, AfterSupplier

LEMMA SetPublishedStep ==
    ASSUME VerificationInv, NEW r \in SupplierReqs, NEW published \in BOOLEAN,
           SetPublished(r, published)
    PROVE  VerificationInv'
<1> DEFINE o == [org EXCEPT !.published = published]
           work == [Plain EXCEPT !.put.org.published = published]
<1>1. Begin(r, work) /\ (published => org.status = "APPROVED")
  BY DEF SetPublished
<1>2. TypeOK /\ org \in OrgRow /\ gallery \in Seq(PhotoRow)
  BY Typed
<1>3. o \in OrgRow /\ o.published = published /\ o.status = org.status
  BY <1>2 DEF OrgRow
<1>4. /\ Plain \in Work /\ Carries(Plain, org, docs, gallery, draft)
      /\ Plain.tin = 0 /\ Plain.saves = {} /\ Plain.withdraws = {} /\ Plain.removes = {}
  BY <1>2, PlainCarries
<1>5. /\ work.put.draft = draft /\ work.put.org = o /\ work.put.docs = docs
      /\ work.put.gallery = gallery /\ work.seen = Plain.seen /\ work.tin = 0
      /\ work.saves = {} /\ work.withdraws = {} /\ work.removes = {}
  BY <1>4 DEF Work, Row, Carries
<1>6. work \in Work
  BY <1>3, <1>4 DEF Work, Row, Carries
<1> HIDE DEF work, o
<1>7. Carries(work, o, docs, gallery, draft)
  BY <1>4, <1>5, <1>6 DEF Carries
<1>8. OrgKept(org) => OrgKept(o)
  BY <1>1, <1>3 DEF OrgKept
<1>9. Len(gallery) <= Len(gallery)
  BY <1>2
<1> QED
  BY <1>1, <1>5, <1>7, <1>8, <1>9, StorefrontStep

LEMMA AddGalleryPhotoStep ==
    ASSUME VerificationInv, NEW r \in SupplierReqs, AddGalleryPhoto(r)
    PROVE  VerificationInv'
<1> DEFINE g == Append(gallery, NewPhoto(0))
           work == [Plain EXCEPT !.put.gallery = Append(@, NewPhoto(0))]
<1>1. Begin(r, work)
  BY DEF AddGalleryPhoto
<1>2. TypeOK /\ gallery \in Seq(PhotoRow)
  BY Typed
<1>3. /\ g \in Seq(PhotoRow) /\ Len(gallery) <= Len(g)
      /\ \A t, lost : GalleryKept(gallery, t, lost) => GalleryKept(g, t, lost)
  BY <1>2, PhotoAdded
<1> HIDE DEF g
<1>4. /\ Plain \in Work /\ Carries(Plain, org, docs, gallery, draft)
      /\ Plain.tin = 0 /\ Plain.saves = {} /\ Plain.withdraws = {} /\ Plain.removes = {}
  BY <1>2, PlainCarries
<1>5. /\ work.put.draft = draft /\ work.put.org = org /\ work.put.docs = docs
      /\ work.put.gallery = g /\ work.seen = Plain.seen /\ work.tin = 0
      /\ work.saves = {} /\ work.withdraws = {} /\ work.removes = {}
  BY <1>4 DEF Work, Row, Carries, g
<1>6. work \in Work
  <2>1. work = [Plain EXCEPT !.put.gallery = g]
    BY <1>4 DEF Carries, g
  <2> QED
    BY <1>3, <1>4, <2>1 DEF Work, Row
<1> HIDE DEF work
<1>7. Carries(work, org, docs, g, draft)
  BY <1>4, <1>5, <1>6 DEF Carries
<1> QED
  BY <1>1, <1>3, <1>5, <1>7, StorefrontStep

LEMMA ChangedPhotoStep ==
    ASSUME VerificationInv, NEW r \in SupplierReqs, NEW g \in [DOMAIN gallery -> PhotoRow],
           \A p \in DOMAIN gallery : g[p] = gallery[p] \/ g[p].deleted \/ g[p].file = 0,
           Begin(r, [Plain EXCEPT !.put.gallery = g])
    PROVE  VerificationInv'
<1> DEFINE work == [Plain EXCEPT !.put.gallery = g]
<1>1. TypeOK /\ gallery \in Seq(PhotoRow)
  BY Typed
<1>2. /\ g \in Seq(PhotoRow) /\ Len(gallery) <= Len(g)
      /\ \A t, lost : GalleryKept(gallery, t, lost) => GalleryKept(g, t, lost)
  BY <1>1, PhotosChanged
<1>3. /\ Plain \in Work /\ Carries(Plain, org, docs, gallery, draft)
      /\ Plain.tin = 0 /\ Plain.saves = {} /\ Plain.withdraws = {} /\ Plain.removes = {}
  BY <1>1, PlainCarries
<1>4. /\ work.put.draft = draft /\ work.put.org = org /\ work.put.docs = docs
      /\ work.put.gallery = g /\ work.seen = Plain.seen /\ work.tin = 0
      /\ work.saves = {} /\ work.withdraws = {} /\ work.removes = {}
  BY <1>3 DEF Work, Row, Carries
<1>5. work \in Work
  BY <1>2, <1>3 DEF Work, Row
<1> HIDE DEF work
<1>6. Carries(work, org, docs, g, draft)
  BY <1>3, <1>4, <1>5 DEF Carries
<1>7. Begin(r, work)
  BY DEF work
<1> QED
  BY <1>2, <1>4, <1>6, <1>7, StorefrontStep

LEMMA UpdateGalleryPhotoStep ==
    ASSUME VerificationInv, NEW r \in SupplierReqs, NEW p \in DOMAIN gallery,
           UpdateGalleryPhoto(r, p) \/ DeleteGalleryPhoto(r, p)
    PROVE  VerificationInv'
<1>1. TypeOK /\ gallery \in Seq(PhotoRow) /\ gallery[p] \in PhotoRow
  BY Typed
<1>2. Plain.put.gallery = gallery
  BY DEF Plain
<1>3. CASE UpdateGalleryPhoto(r, p)
  <2> DEFINE g == [gallery EXCEPT ![p].file = 0]
  <2>1. g = [gallery EXCEPT ![p] = [gallery[p] EXCEPT !.file = 0]]
    OBVIOUS
  <2>2. [gallery[p] EXCEPT !.file = 0] \in PhotoRow /\ [gallery[p] EXCEPT !.file = 0].file = 0
    BY <1>1 DEF PhotoRow
  <2>3. g \in [DOMAIN gallery -> PhotoRow]
    BY <1>1, <2>1, <2>2
  <2>4. \A q \in DOMAIN gallery : g[q] = gallery[q] \/ g[q].deleted \/ g[q].file = 0
    BY <1>1, <2>1, <2>2
  <2>5. Begin(r, [Plain EXCEPT !.put.gallery = g])
    BY <1>2, <1>3 DEF UpdateGalleryPhoto
  <2> HIDE DEF g
  <2> QED
    BY <2>3, <2>4, <2>5, ChangedPhotoStep
<1>4. CASE DeleteGalleryPhoto(r, p)
  <2> DEFINE g == [gallery EXCEPT ![p].deleted = TRUE]
  <2>1. g = [gallery EXCEPT ![p] = [gallery[p] EXCEPT !.deleted = TRUE]]
    OBVIOUS
  <2>2. /\ [gallery[p] EXCEPT !.deleted = TRUE] \in PhotoRow
        /\ [gallery[p] EXCEPT !.deleted = TRUE].deleted
    BY <1>1 DEF PhotoRow
  <2>3. g \in [DOMAIN gallery -> PhotoRow]
    BY <1>1, <2>1, <2>2
  <2>4. \A q \in DOMAIN gallery : g[q] = gallery[q] \/ g[q].deleted \/ g[q].file = 0
    BY <1>1, <2>1, <2>2
  <2>5. Begin(r, [Plain EXCEPT !.put.gallery = g])
    BY <1>2, <1>4 DEF DeleteGalleryPhoto
  <2> HIDE DEF g
  <2> QED
    BY <2>3, <2>4, <2>5, ChangedPhotoStep
<1> QED
  BY <1>3, <1>4

LEMMA UploadTinStep ==
    ASSUME VerificationInv, NEW r \in SupplierReqs, UploadTin(r)
    PROVE  VerificationInv'
<1> DEFINE file == files + 1
           f == [draft EXCEPT !.exists = TRUE, !.tin = file]
           v == WithTin(docs, file)
           t == Synced(v, f)
           work == [Plain EXCEPT !.tin = file, !.put.draft = f, !.put.docs = t]
<1>1. BeginWith(r, work, 1)
  BY DEF UploadTin, Upload
<1>2. /\ TypeOK /\ draft \in DraftRow /\ docs \in Seq(DocRow) /\ gallery \in Seq(PhotoRow)
      /\ files \in Nat /\ draft.photos \subseteq 1..files /\ IsFiniteSet(draft.photos)
      /\ newest \in 0..files
  BY Typed
<1>3. file \in Nat /\ file \in 1..files + 1 /\ file # 0 /\ files <= files + 1
  BY <1>2
<1>4. /\ f \in DraftRow /\ f.tin = file /\ f.photos = draft.photos
      /\ f.sections = draft.sections
  BY <1>2, <1>3 DEF DraftRow
<1> HIDE DEF f
<1>5. Extended(docs, v) /\ v \in Seq(DocRow)
  BY <1>2, <1>3, WithTinExtends DEF Extended
<1> HIDE DEF v
<1>6. Extended(v, t)
  BY <1>2, <1>4, <1>5, SyncedExtends
<1> HIDE DEF t
<1>7. Extended(docs, t)
  BY <1>2, <1>5, <1>6, ExtendedTwice
<1>8. t \in Seq(DocRow) /\ Grown(docs, t) /\ (ReviewKept(docs) => ReviewKept(t))
  BY <1>7 DEF Extended
<1>9. /\ Plain \in Work /\ Carries(Plain, org, docs, gallery, draft)
      /\ Plain.tin = 0 /\ Plain.saves = {} /\ Plain.withdraws = {} /\ Plain.removes = {}
  BY <1>2, PlainCarries
<1>10. /\ work.put.draft = f /\ work.put.org = org /\ work.put.docs = t
       /\ work.put.gallery = gallery /\ work.seen = Plain.seen /\ work.tin = file
       /\ work.saves = {} /\ work.withdraws = {} /\ work.removes = {}
  BY <1>9 DEF Work, Row, Carries
<1>11. work \in Work
  BY <1>3, <1>4, <1>8, <1>9 DEF Work, Row
<1> HIDE DEF work
<1>12. Carries(work, org, t, gallery, f)
  BY <1>9, <1>10, <1>11 DEF Carries
<1>13. ASSUME RowsKept
       PROVE  /\ work.withdraws \subseteq 1..files + 1
              /\ DocsKept(t, TinOf(work), withdrawn \cup work.withdraws, files + 1)
              /\ DraftKept(f, TinOf(work), withdrawn \cup work.withdraws, files + 1)
              /\ GalleryKept(gallery, t, removed \cup dropped)
              /\ saved \cup work.saves \subseteq f.sections
  <2>1. TinOf(work) = file /\ withdrawn \cup work.withdraws = withdrawn
    BY <1>3, <1>10 DEF TinOf
  <2>2. /\ withdrawn \subseteq 1..files /\ DocsKept(docs, newest, withdrawn, files)
        /\ DraftKept(draft, newest, withdrawn, files)
        /\ GalleryKept(gallery, docs, removed \cup dropped)
        /\ saved \subseteq draft.sections
    BY <1>13 DEF RowsKept
  <2>3. 0 \notin withdrawn /\ file \notin withdrawn
    BY <1>2, <2>2
  <2>4. \A d \in OfType(docs, "sitePhotos") : docs[d].file # file
    BY <1>2, <2>2 DEF DocsKept, OfType, Live
  <2> HIDE DEF file
  <2>5. DocsKept(v, file, withdrawn, files + 1)
    <3>1. files + 1 \in Nat
      BY <1>2
    <3> QED
      BY <1>2, <1>3, <2>2, <2>3, <2>4, <3>1, WithTinKeeps DEF v
  <2>6. DraftKept(f, file, withdrawn, files + 1)
    <3>1. \A p \in draft.photos : p # file /\ p \in 1..files + 1 /\ p \notin withdrawn
      BY <1>2, <2>2 DEF DraftKept, file
    <3> QED
      BY <1>4, <2>3, <3>1 DEF DraftKept
  <2>7. DocsKept(t, file, withdrawn, files + 1)
    <3>1. files + 1 \in Nat /\ file \in 0..files + 1
      BY <1>2, <1>3
    <3> QED
      BY <1>4, <1>5, <2>3, <2>5, <2>6, <3>1, SyncedKeeps DEF t
  <2>8. GalleryKept(gallery, t, removed \cup dropped)
    BY <1>7, <2>2, ExtendedGallery
  <2> QED
    BY <1>4, <1>10, <2>1, <2>2, <2>6, <2>7, <2>8
<1>14. work.tin \in 0..files + 1 /\ f.photos \subseteq 1..files + 1
       /\ Len(gallery) <= Len(gallery)
  BY <1>2, <1>3, <1>4, <1>10
<1> QED
  BY ZenonT(60), <1>1, <1>8, <1>10, <1>12, <1>13, <1>14, AfterSupplier

(* A photo uploaded: its document, and its place in the gallery.           *)
LEMMA PhotoUploaded ==
    ASSUME VerificationInv
    PROVE  LET file == files + 1
               v == Append(docs, NewDoc("sitePhotos", file))
               g == Append(gallery, NewPhoto(file))
           IN  /\ Extended(docs, v) /\ v \in Seq(DocRow)
               /\ g \in Seq(PhotoRow) /\ Len(gallery) <= Len(g)
               /\ RowsKept =>
                      /\ DocsKept(v, newest, withdrawn, file)
                      /\ GalleryKept(g, v, removed \cup dropped)
                      /\ 0 \notin withdrawn /\ file \notin withdrawn /\ file # newest
<1> DEFINE file == files + 1
           v == Append(docs, NewDoc("sitePhotos", file))
           g == Append(gallery, NewPhoto(file))
<1>1. /\ docs \in Seq(DocRow) /\ gallery \in Seq(PhotoRow) /\ files \in Nat
      /\ newest \in 0..files
  BY Typed
<1>2. /\ file \in Nat /\ file \in 1..file /\ file # 0 /\ files <= file /\ file # newest
      /\ file \notin 0..files
  BY <1>1
<1>3. AddedPhotos(docs, v, {file})
  BY <1>1, <1>2, OnePhotoAdded
<1>4. Extended(docs, v) /\ v \in Seq(DocRow)
  <2>1. {file} \in SUBSET Nat
    BY <1>2
  <2>2. Extended(docs, v)
    BY <1>1, <1>3, <2>1, AddedExtends
  <2> QED
    BY <2>2 DEF Extended
<1>5. /\ g \in Seq(PhotoRow) /\ Len(gallery) <= Len(g)
      /\ \A t, lost :
            /\ GalleryKept(gallery, t, lost)
            /\ file = 0 \/ \E d \in OfType(t, "sitePhotos") : t[d].file = file
            => GalleryKept(g, t, lost)
  BY <1>1, <1>2, PhotoAdded
<1>6. \E d \in OfType(v, "sitePhotos") : v[d].file = file
  <2>1. /\ NewDoc("sitePhotos", file) \in DocRow
        /\ NewDoc("sitePhotos", file).type = "sitePhotos"
        /\ NewDoc("sitePhotos", file).file = file /\ ~NewDoc("sitePhotos", file).deleted
    BY <1>2, NewDocType
  <2>2. Len(docs) + 1 \in DOMAIN v /\ v[Len(docs) + 1] = NewDoc("sitePhotos", file)
    BY <1>1, <2>1, TableLonger
  <2> QED
    BY <2>1, <2>2 DEF OfType, Live
<1> HIDE DEF v, g
<1>7. ASSUME RowsKept
      PROVE  /\ DocsKept(v, newest, withdrawn, file)
             /\ GalleryKept(g, v, removed \cup dropped)
             /\ 0 \notin withdrawn /\ file \notin withdrawn
  <2>1. /\ withdrawn \subseteq 1..files /\ DocsKept(docs, newest, withdrawn, files)
        /\ GalleryKept(gallery, docs, removed \cup dropped)
    BY <1>7 DEF RowsKept
  <2>2. 0 \notin withdrawn /\ file \notin withdrawn
    BY <1>1, <1>2, <2>1
  <2>3. \A d \in Live(docs) : docs[d].file \notin {file}
    BY <1>2, <2>1 DEF DocsKept, Live
  <2>4. {file} \in SUBSET (1..file) /\ \A p \in {file} : p # newest /\ p \notin withdrawn
    BY <1>2, <2>2
  <2> HIDE DEF file
  <2>5. DocsKept(v, newest, withdrawn, file)
    BY <1>1, <1>2, <1>3, <2>1, <2>3, <2>4, AddedKeeps
  <2>6. GalleryKept(gallery, v, removed \cup dropped)
    BY <1>4, <2>1, ExtendedGallery
  <2> QED
    BY <1>5, <1>6, <2>2, <2>5, <2>6
<1> QED
  BY <1>2, <1>4, <1>5, <1>7 DEF v, g

LEMMA UploadSitePhotoStep ==
    ASSUME VerificationInv, NEW r \in SupplierReqs, UploadSitePhoto(r)
    PROVE  VerificationInv'
<1> DEFINE file == files + 1
           f == [draft EXCEPT !.exists = TRUE, !.photos = @ \cup {file}]
           v == Append(docs, NewDoc("sitePhotos", file))
           t == Synced(v, f)
           g == Append(gallery, NewPhoto(file))
           work == [Plain EXCEPT !.put.draft = f, !.put.docs = t, !.put.gallery = g]
<1>1. BeginWith(r, work, 1)
  <2>1. Plain.put.gallery = gallery
    BY DEF Plain
  <2> QED
    BY <2>1 DEF UploadSitePhoto, Upload
<1>2. /\ TypeOK /\ draft \in DraftRow /\ docs \in Seq(DocRow) /\ gallery \in Seq(PhotoRow)
      /\ files \in Nat /\ draft.photos \subseteq 1..files /\ IsFiniteSet(draft.photos)
      /\ newest \in 0..files
  BY Typed
<1>3. file \in Nat /\ file \in 1..file /\ file # 0
  BY <1>2
<1>4. /\ f \in DraftRow /\ f.tin = draft.tin /\ f.photos = draft.photos \cup {file}
      /\ f.sections = draft.sections
  BY <1>2, <1>3 DEF DraftRow
<1>5. f.photos \subseteq 1..file
  BY <1>2, <1>4
<1>6. IsFiniteSet(f.photos)
  <2>1. 1 \in Int /\ file \in Int
    BY <1>2
  <2>2. IsFiniteSet(1..file) /\ f.photos \in SUBSET (1..file)
    BY <1>5, <2>1, FS_Interval
  <2> QED
    BY <2>2, FS_Subset
<1>7. /\ Extended(docs, v) /\ v \in Seq(DocRow)
      /\ g \in Seq(PhotoRow) /\ Len(gallery) <= Len(g)
      /\ RowsKept =>
             /\ DocsKept(v, newest, withdrawn, file)
             /\ GalleryKept(g, v, removed \cup dropped)
             /\ 0 \notin withdrawn /\ file \notin withdrawn /\ file # newest
  BY PhotoUploaded
<1> HIDE DEF f, v, g
<1>8. Extended(v, t)
  BY <1>4, <1>6, <1>7, SyncedExtends
<1> HIDE DEF t
<1>9. Extended(docs, t)
  BY <1>2, <1>7, <1>8, ExtendedTwice
<1>10. t \in Seq(DocRow) /\ Grown(docs, t) /\ (ReviewKept(docs) => ReviewKept(t))
  BY <1>9 DEF Extended
<1>11. /\ Plain \in Work /\ Carries(Plain, org, docs, gallery, draft)
       /\ Plain.tin = 0 /\ Plain.saves = {} /\ Plain.withdraws = {} /\ Plain.removes = {}
  BY <1>2, PlainCarries
<1>12. /\ work.put.draft = f /\ work.put.org = org /\ work.put.docs = t
       /\ work.put.gallery = g /\ work.seen = Plain.seen /\ work.tin = 0
       /\ work.saves = {} /\ work.withdraws = {} /\ work.removes = {}
  BY <1>11 DEF Work, Row, Carries
<1>13. work \in Work
  BY <1>4, <1>7, <1>10, <1>11 DEF Work, Row
<1> HIDE DEF work
<1>14. Carries(work, org, t, g, f)
  BY <1>11, <1>12, <1>13 DEF Carries
<1>15. ASSUME RowsKept
       PROVE  /\ work.withdraws \subseteq 1..files + 1
              /\ DocsKept(t, TinOf(work), withdrawn \cup work.withdraws, files + 1)
              /\ DraftKept(f, TinOf(work), withdrawn \cup work.withdraws, files + 1)
              /\ GalleryKept(g, t, removed \cup dropped)
              /\ saved \cup work.saves \subseteq f.sections
  <2>1. TinOf(work) = newest /\ withdrawn \cup work.withdraws = withdrawn
    BY <1>12 DEF TinOf
  <2>2. DraftKept(draft, newest, withdrawn, files) /\ saved \subseteq draft.sections
    BY <1>15 DEF RowsKept
  <2>3. DraftKept(f, newest, withdrawn, file)
    BY <1>4, <1>5, <1>7, <1>15, <2>2 DEF DraftKept
  <2>4. newest \in 0..file
    BY <1>2
  <2> HIDE DEF file
  <2>5. DocsKept(t, newest, withdrawn, file)
    BY <1>3, <1>4, <1>7, <1>15, <2>3, <2>4, SyncedKeeps DEF t
  <2>6. GalleryKept(g, t, removed \cup dropped)
    BY <1>7, <1>8, <1>15, ExtendedGallery
  <2> QED
    BY <1>4, <1>12, <2>1, <2>2, <2>3, <2>5, <2>6 DEF file
<1>16. work.tin \in 0..files + 1 /\ f.photos \subseteq 1..files + 1
  BY <1>2, <1>5, <1>12
<1> QED
  BY <1>1, <1>7, <1>10, <1>12, <1>14, <1>15, <1>16, AfterSupplier

LEMMA UploadGalleryPhotoStep ==
    ASSUME VerificationInv, NEW r \in SupplierReqs, UploadGalleryPhoto(r)
    PROVE  VerificationInv'
<1> DEFINE file == files + 1
           t == Append(docs, NewDoc("sitePhotos", file))
           g == Append(gallery, NewPhoto(file))
           work == [Plain EXCEPT !.put.gallery = g, !.put.docs = t]
<1>1. BeginWith(r, work, 1)
  <2>1. Plain.put.gallery = gallery /\ Plain.put.docs = docs
    BY DEF Plain
  <2>2. [Plain EXCEPT !.put.gallery = g].put.docs = docs
    BY DEF Plain
  <2> QED
    BY <2>1, <2>2 DEF UploadGalleryPhoto, Upload
<1>2. /\ TypeOK /\ draft \in DraftRow /\ files \in Nat /\ draft.photos \subseteq 1..files
      /\ newest \in 0..files
  BY Typed
<1>3. /\ Extended(docs, t) /\ t \in Seq(DocRow)
      /\ g \in Seq(PhotoRow) /\ Len(gallery) <= Len(g)
      /\ RowsKept =>
             /\ DocsKept(t, newest, withdrawn, file)
             /\ GalleryKept(g, t, removed \cup dropped)
             /\ 0 \notin withdrawn /\ file \notin withdrawn /\ file # newest
  BY PhotoUploaded
<1> HIDE DEF t, g
<1>4. Grown(docs, t) /\ (ReviewKept(docs) => ReviewKept(t))
  BY <1>3 DEF Extended
<1>5. /\ Plain \in Work /\ Carries(Plain, org, docs, gallery, draft)
      /\ Plain.tin = 0 /\ Plain.saves = {} /\ Plain.withdraws = {} /\ Plain.removes = {}
  BY <1>2, PlainCarries
<1>6. /\ work.put.draft = draft /\ work.put.org = org /\ work.put.docs = t
      /\ work.put.gallery = g /\ work.seen = Plain.seen /\ work.tin = 0
      /\ work.saves = {} /\ work.withdraws = {} /\ work.removes = {}
  BY <1>5 DEF Work, Row, Carries
<1>7. work \in Work
  BY <1>3, <1>5 DEF Work, Row
<1> HIDE DEF work
<1>8. Carries(work, org, t, g, draft)
  BY <1>5, <1>6, <1>7 DEF Carries
<1>9. ASSUME RowsKept
      PROVE  /\ work.withdraws \subseteq 1..files + 1
             /\ DocsKept(t, TinOf(work), withdrawn \cup work.withdraws, files + 1)
             /\ DraftKept(draft, TinOf(work), withdrawn \cup work.withdraws, files + 1)
             /\ GalleryKept(g, t, removed \cup dropped)
             /\ saved \cup work.saves \subseteq draft.sections
  <2>1. TinOf(work) = newest /\ withdrawn \cup work.withdraws = withdrawn
    BY <1>6 DEF TinOf
  <2>2. DraftKept(draft, newest, withdrawn, files) /\ saved \subseteq draft.sections
    BY <1>9 DEF RowsKept
  <2>3. DraftKept(draft, newest, withdrawn, files + 1)
    <3>1. files + 1 \in Nat /\ files <= files + 1
      BY <1>2
    <3> QED
      BY <1>2, <2>2, <3>1, KeptLater
  <2> QED
    BY <1>3, <1>6, <1>9, <2>1, <2>2, <2>3
<1>10. work.tin \in 0..files + 1 /\ draft.photos \subseteq 1..files + 1
  BY <1>2, <1>6
<1> QED
  BY ZenonT(60), <1>1, <1>3, <1>4, <1>6, <1>8, <1>9, <1>10, AfterSupplier

LEMMA DeleteDocumentStep ==
    ASSUME VerificationInv, NEW r \in SupplierReqs, NEW d \in DOMAIN docs, DeleteDocument(r, d)
    PROVE  VerificationInv'
<1> DEFINE file == docs[d].file
           f == [draft EXCEPT !.photos = @ \ {file}, !.tin = IF @ = file THEN 0 ELSE @]
           t == Without(docs, d)
           g == [p \in DOMAIN gallery |->
                    IF gallery[p].file = file /\ file \notin removed \cup {0}
                    THEN [gallery[p] EXCEPT !.deleted = TRUE] ELSE gallery[p]]
           work == [Plain EXCEPT !.withdraws = {file} \ {0}, !.put.draft = f,
                                 !.put.docs = t, !.put.gallery = g]
<1>1. BeginWith(r, work, 0) /\ d \in Live(docs)
  <2>1. Plain.put.gallery = gallery /\ Plain.put.docs = docs
    BY DEF Plain
  <2> QED
    BY <2>1 DEF DeleteDocument, Begin, Without
<1>2. /\ TypeOK /\ draft \in DraftRow /\ docs \in Seq(DocRow) /\ gallery \in Seq(PhotoRow)
      /\ files \in Nat /\ files + 0 = files /\ draft.photos \subseteq 1..files
  BY Typed
<1>3. docs[d] \in DocRow /\ file \in Nat
  <2>1. docs[d] \in DocRow
    BY <1>2
  <2> QED
    BY <2>1 DEF DocRow
<1>4. /\ f \in DraftRow /\ f.tin = IF draft.tin = file THEN 0 ELSE draft.tin
      /\ f.photos = draft.photos \ {file} /\ f.sections = draft.sections
  BY <1>2 DEF DraftRow
<1>5. /\ t \in Seq(DocRow) /\ DOMAIN t = DOMAIN docs
      /\ \A e \in DOMAIN docs : e # d => t[e] = docs[e]
  BY <1>2, WithoutRows
<1>6. Reviewed(docs, t, {file} \ {0}) /\ (ReviewKept(docs) => ReviewKept(t))
  BY <1>2, WithoutReviewed
<1>7. Grown(docs, t)
  BY <1>6 DEF Reviewed
<1>8. \A p \in DOMAIN gallery :
          /\ g[p] \in PhotoRow
          /\ g[p] = gallery[p] \/ g[p].deleted
          /\ ~g[p].deleted => /\ g[p] = gallery[p]
                              /\ gallery[p].file = file => file \in removed \cup {0}
  <2>1. ASSUME NEW p \in DOMAIN gallery
        PROVE  /\ g[p] \in PhotoRow
               /\ g[p] = gallery[p] \/ g[p].deleted
               /\ ~g[p].deleted => /\ g[p] = gallery[p]
                                   /\ gallery[p].file = file => file \in removed \cup {0}
    <3>1. gallery[p] \in PhotoRow
      BY <1>2
    <3>2. /\ [gallery[p] EXCEPT !.deleted = TRUE] \in PhotoRow
          /\ [gallery[p] EXCEPT !.deleted = TRUE].deleted
      BY <3>1 DEF PhotoRow
    <3> QED
      BY <3>1, <3>2
  <2> QED
    BY <2>1
<1>9. g \in [DOMAIN gallery -> PhotoRow]
  BY <1>8
<1>10. g \in Seq(PhotoRow) /\ DOMAIN g = DOMAIN gallery /\ Len(gallery) <= Len(g)
  BY <1>2, <1>9, PhotosChanged, TableAfter
<1> HIDE DEF f, t, g
<1>11. /\ Plain \in Work /\ Carries(Plain, org, docs, gallery, draft)
       /\ Plain.tin = 0 /\ Plain.saves = {} /\ Plain.withdraws = {} /\ Plain.removes = {}
  BY <1>2, PlainCarries
<1>12. /\ work.put.draft = f /\ work.put.org = org /\ work.put.docs = t
       /\ work.put.gallery = g /\ work.seen = Plain.seen /\ work.tin = 0
       /\ work.saves = {} /\ work.withdraws = {file} \ {0} /\ work.removes = {}
  BY <1>11 DEF Work, Row, Carries
<1>13. work \in Work
  BY <1>3, <1>4, <1>5, <1>10, <1>11 DEF Work, Row
<1> HIDE DEF work
<1>14. Carries(work, org, t, g, f)
  BY <1>11, <1>12, <1>13 DEF Carries
<1>15. ASSUME RowsKept
       PROVE  /\ work.withdraws \subseteq 1..files + 0
              /\ DocsKept(t, TinOf(work), withdrawn \cup work.withdraws, files + 0)
              /\ DraftKept(f, TinOf(work), withdrawn \cup work.withdraws, files + 0)
              /\ GalleryKept(g, t, removed \cup dropped)
              /\ saved \cup work.saves \subseteq f.sections
  <2>1. TinOf(work) = newest
    BY <1>12 DEF TinOf
  <2>2. /\ withdrawn \subseteq 1..files /\ DocsKept(docs, newest, withdrawn, files)
        /\ DraftKept(draft, newest, withdrawn, files)
        /\ GalleryKept(gallery, docs, removed \cup dropped)
        /\ saved \subseteq draft.sections
    BY <1>15 DEF RowsKept
  <2>3. {file} \ {0} \subseteq 1..files
    BY <1>2, <2>2 DEF DocsKept
  <2>4. DocsKept(t, newest, withdrawn \cup ({file} \ {0}), files)
    BY <1>1, <1>2, <2>2, WithoutKeeps DEF t
  <2>5. DraftKept(f, newest, withdrawn \cup ({file} \ {0}), files)
    <3>1. 0 \notin withdrawn
      BY <2>2
    <3> QED
      BY <1>4, <2>2, <3>1 DEF DraftKept
  <2>6. ASSUME NEW p \in Live(g)
        PROVE  \/ g[p].file \in removed \cup dropped \cup {0}
               \/ \E e \in OfType(t, "sitePhotos") : t[e].file = g[p].file
    <3>1. p \in DOMAIN gallery /\ ~g[p].deleted
      BY <1>10, <2>6 DEF Live
    <3>2. /\ g[p] = gallery[p] /\ p \in Live(gallery)
          /\ gallery[p].file = file => file \in removed \cup {0}
      BY <1>8, <3>1 DEF Live
    <3>3. \/ gallery[p].file \in removed \cup dropped \cup {0}
          \/ \E e \in OfType(docs, "sitePhotos") : docs[e].file = gallery[p].file
      BY <2>2, <3>2 DEF GalleryKept
    <3>4. \A e \in OfType(docs, "sitePhotos") :
              e # d => e \in OfType(t, "sitePhotos") /\ t[e].file = docs[e].file
      BY <1>5 DEF OfType, Live
    <3> QED
      BY <3>2, <3>3, <3>4
  <2>7. GalleryKept(g, t, removed \cup dropped)
    BY <2>6 DEF GalleryKept
  <2> QED
    BY <1>2, <1>4, <1>12, <2>1, <2>2, <2>3, <2>4, <2>5, <2>7
<1>16. work.tin \in 0..files + 0 /\ f.photos \subseteq 1..files + 0
  BY <1>2, <1>4, <1>12
<1> QED
  BY <1>1, <1>6, <1>7, <1>10, <1>12, <1>14, <1>15, <1>16, AfterSupplier

LEMMA SubmitStep ==
    ASSUME VerificationInv, NEW r \in SupplierReqs, Submit(r)
    PROVE  VerificationInv'
<1> DEFINE v == Synced(docs, draft)
           t == WithContact(v)
           o == [org EXCEPT !.status = "PENDING"]
           work == [Plain EXCEPT !.put.docs = t, !.put.org.status = "PENDING"]
<1>1. BeginWith(r, work, 0)
  BY DEF Submit, Begin
<1>2. /\ TypeOK /\ org \in OrgRow /\ draft \in DraftRow /\ docs \in Seq(DocRow)
      /\ gallery \in Seq(PhotoRow) /\ files \in Nat /\ files + 0 = files
      /\ draft.photos \subseteq 1..files /\ IsFiniteSet(draft.photos) /\ newest \in 0..files
      /\ newest \in Nat
  BY Typed
<1>3. o \in OrgRow /\ o.status = "PENDING"
  BY <1>2 DEF OrgRow
<1>4. Extended(docs, v) /\ v \in Seq(DocRow)
  BY <1>2, SyncedExtends DEF Extended
<1>5. Extended(v, t) /\ Reviewed(v, t, {})
  BY <1>4, WithContactRows
<1>6. Extended(docs, t)
  BY <1>2, <1>4, <1>5, ExtendedTwice
<1> HIDE DEF t, v
<1>7. t \in Seq(DocRow) /\ Grown(docs, t) /\ (ReviewKept(docs) => ReviewKept(t))
  BY <1>6 DEF Extended
<1>8. /\ Plain \in Work /\ Carries(Plain, org, docs, gallery, draft)
      /\ Plain.tin = 0 /\ Plain.saves = {} /\ Plain.withdraws = {} /\ Plain.removes = {}
  BY <1>2, PlainCarries
<1>9. /\ work.put.draft = draft /\ work.put.org = o /\ work.put.docs = t
      /\ work.put.gallery = gallery /\ work.seen = Plain.seen /\ work.tin = 0
      /\ work.saves = {} /\ work.withdraws = {} /\ work.removes = {}
  BY <1>8 DEF Work, Row, Carries
<1>10. work \in Work
  BY <1>3, <1>7, <1>8 DEF Work, Row, Carries
<1> HIDE DEF work, o
<1>11. Carries(work, o, t, gallery, draft)
  BY <1>8, <1>9, <1>10 DEF Carries
<1>12. ASSUME RowsKept
       PROVE  /\ work.withdraws \subseteq 1..files + 0
              /\ DocsKept(t, TinOf(work), withdrawn \cup work.withdraws, files + 0)
              /\ DraftKept(draft, TinOf(work), withdrawn \cup work.withdraws, files + 0)
              /\ GalleryKept(gallery, t, removed \cup dropped)
              /\ saved \cup work.saves \subseteq draft.sections
  <2>1. TinOf(work) = newest /\ withdrawn \cup work.withdraws = withdrawn
    BY <1>9 DEF TinOf
  <2>2. /\ withdrawn \in SUBSET (1..files) /\ DocsKept(docs, newest, withdrawn, files)
        /\ DraftKept(draft, newest, withdrawn, files)
        /\ GalleryKept(gallery, docs, removed \cup dropped)
        /\ saved \subseteq draft.sections
    BY <1>12 DEF RowsKept
  <2>3. 0 \notin withdrawn
    BY <2>2
  <2>4. DocsKept(v, newest, withdrawn, files)
    BY <1>2, <2>2, <2>3, SyncedKeeps DEF v
  <2>5. DocsKept(t, newest, withdrawn, files)
    BY <1>2, <1>4, <1>5, <1>7, <2>2, <2>4, ReviewKeepsDocs
  <2>6. GalleryKept(gallery, t, removed \cup dropped)
    BY <1>6, <2>2, ExtendedGallery
  <2> QED
    BY <1>2, <1>9, <2>1, <2>2, <2>5, <2>6
<1>13. work.tin \in 0..files + 0 /\ draft.photos \subseteq 1..files + 0
       /\ Len(gallery) <= Len(gallery)
  BY <1>2, <1>9
<1>14. OrgKept(o)
  BY <1>3 DEF OrgKept
<1> QED
  BY <1>1, <1>7, <1>9, <1>11, <1>12, <1>13, <1>14, AfterSupplier

(* The admins: the organisation.                                           *)
LEMMA VerifySupplierStep ==
    ASSUME VerificationInv, NEW r \in AdminReqs, NEW approved \in BOOLEAN,
           VerifySupplier(r, approved)
    PROVE  VerificationInv'
<1> DEFINE o == [org EXCEPT !.status = IF approved THEN "APPROVED" ELSE "REJECTED",
                          !.published = approved]
           work == [Plain EXCEPT !.put.org.status = IF approved THEN "APPROVED" ELSE "REJECTED",
                                 !.put.org.published = approved]
<1>1. Begin(r, work)
  BY DEF VerifySupplier
<1>2. TypeOK /\ org \in OrgRow /\ docs \in Seq(DocRow)
  BY Typed
<1>3. o \in OrgRow /\ o.published = approved /\ o.status = IF approved THEN "APPROVED" ELSE "REJECTED"
  BY <1>2 DEF OrgRow
<1>4. /\ Plain \in Work /\ Carries(Plain, org, docs, gallery, draft)
      /\ Plain.tin = 0 /\ Plain.saves = {} /\ Plain.withdraws = {} /\ Plain.drops = {}
      /\ Plain.removes = {}
  BY <1>2, PlainCarries
<1>5. /\ work.put.draft = draft /\ work.put.org = o /\ work.put.docs = docs
      /\ work.put.gallery = gallery /\ work.seen = Plain.seen /\ work.tin = 0
      /\ work.saves = {} /\ work.withdraws = {} /\ work.removes = {}
  BY <1>4 DEF Work, Row, Carries
<1>6. work \in Work
  BY <1>3, <1>4 DEF Work, Row, Carries
<1> HIDE DEF work, o
<1>7. Carries(work, o, docs, gallery, draft)
  BY <1>4, <1>5, <1>6 DEF Carries
<1>8. OrgKept(org) => OrgKept(o)
  BY <1>1, <1>3 DEF OrgKept
<1>9. Reviewed(docs, docs, work.drops) /\ work.removes \subseteq 1..files
  BY <1>2, <1>5, ReviewedSame
<1> QED
  BY <1>1, <1>5, <1>7, <1>8, <1>9, AfterAdmin

LEMMA RequestInfoStep ==
    ASSUME VerificationInv, NEW r \in AdminReqs, RequestInfo(r)
    PROVE  VerificationInv'
<1> DEFINE o == ActionRequired(org)
           work == [Plain EXCEPT !.put.org = ActionRequired(@)]
<1>1. Begin(r, work)
  BY DEF RequestInfo
<1>2. TypeOK /\ org \in OrgRow /\ docs \in Seq(DocRow)
  BY Typed
<1>3. o \in OrgRow /\ ~o.published
  BY <1>2 DEF OrgRow, ActionRequired
<1>4. /\ Plain \in Work /\ Carries(Plain, org, docs, gallery, draft)
      /\ Plain.tin = 0 /\ Plain.saves = {} /\ Plain.withdraws = {} /\ Plain.drops = {}
      /\ Plain.removes = {}
  BY <1>2, PlainCarries
<1>5. /\ work.put.draft = draft /\ work.put.org = o /\ work.put.docs = docs
      /\ work.put.gallery = gallery /\ work.seen = Plain.seen /\ work.tin = 0
      /\ work.saves = {} /\ work.withdraws = {} /\ work.removes = {}
  BY <1>4 DEF Work, Row, Carries
<1>6. work \in Work
  BY <1>3, <1>4 DEF Work, Row, Carries
<1> HIDE DEF work, o
<1>7. Carries(work, o, docs, gallery, draft)
  BY <1>4, <1>5, <1>6 DEF Carries
<1>8. OrgKept(org) => OrgKept(o)
  BY <1>1, <1>3 DEF OrgKept
<1>9. Reviewed(docs, docs, work.drops) /\ work.removes \subseteq 1..files
  BY <1>2, <1>5, ReviewedSame
<1> QED
  BY <1>1, <1>5, <1>7, <1>8, <1>9, AfterAdmin

LEMMA SuspendSupplierStep ==
    ASSUME VerificationInv, NEW r \in AdminReqs, SuspendSupplier(r)
    PROVE  VerificationInv'
<1> DEFINE o == [org EXCEPT !.status = "SUSPENDED", !.published = FALSE]
           work == [Plain EXCEPT !.put.org.status = "SUSPENDED", !.put.org.published = FALSE]
<1>1. Begin(r, work)
  BY DEF SuspendSupplier
<1>2. TypeOK /\ org \in OrgRow /\ docs \in Seq(DocRow)
  BY Typed
<1>3. o \in OrgRow /\ ~o.published
  BY <1>2 DEF OrgRow
<1>4. /\ Plain \in Work /\ Carries(Plain, org, docs, gallery, draft)
      /\ Plain.tin = 0 /\ Plain.saves = {} /\ Plain.withdraws = {} /\ Plain.drops = {}
      /\ Plain.removes = {}
  BY <1>2, PlainCarries
<1>5. /\ work.put.draft = draft /\ work.put.org = o /\ work.put.docs = docs
      /\ work.put.gallery = gallery /\ work.seen = Plain.seen /\ work.tin = 0
      /\ work.saves = {} /\ work.withdraws = {} /\ work.removes = {}
  BY <1>4 DEF Work, Row, Carries
<1>6. work \in Work
  BY <1>3, <1>4 DEF Work, Row, Carries
<1> HIDE DEF work, o
<1>7. Carries(work, o, docs, gallery, draft)
  BY <1>4, <1>5, <1>6 DEF Carries
<1>8. OrgKept(org) => OrgKept(o)
  BY <1>1, <1>3 DEF OrgKept
<1>9. Reviewed(docs, docs, work.drops) /\ work.removes \subseteq 1..files
  BY <1>2, <1>5, ReviewedSame
<1> QED
  BY <1>1, <1>5, <1>7, <1>8, <1>9, AfterAdmin

LEMMA RestoreSupplierStep ==
    ASSUME VerificationInv, NEW r \in AdminReqs, RestoreSupplier(r)
    PROVE  VerificationInv'
<1> DEFINE o == [org EXCEPT !.status = "APPROVED", !.published = TRUE]
           work == [Plain EXCEPT !.put.org.status = "APPROVED", !.put.org.published = TRUE]
<1>1. Begin(r, work)
  BY DEF RestoreSupplier
<1>2. TypeOK /\ org \in OrgRow /\ docs \in Seq(DocRow)
  BY Typed
<1>3. o \in OrgRow /\ o.status = "APPROVED"
  BY <1>2 DEF OrgRow
<1>4. /\ Plain \in Work /\ Carries(Plain, org, docs, gallery, draft)
      /\ Plain.tin = 0 /\ Plain.saves = {} /\ Plain.withdraws = {} /\ Plain.drops = {}
      /\ Plain.removes = {}
  BY <1>2, PlainCarries
<1>5. /\ work.put.draft = draft /\ work.put.org = o /\ work.put.docs = docs
      /\ work.put.gallery = gallery /\ work.seen = Plain.seen /\ work.tin = 0
      /\ work.saves = {} /\ work.withdraws = {} /\ work.removes = {}
  BY <1>4 DEF Work, Row, Carries
<1>6. work \in Work
  BY <1>3, <1>4 DEF Work, Row, Carries
<1> HIDE DEF work, o
<1>7. Carries(work, o, docs, gallery, draft)
  BY <1>4, <1>5, <1>6 DEF Carries
<1>8. OrgKept(org) => OrgKept(o)
  BY <1>1, <1>3 DEF OrgKept
<1>9. Reviewed(docs, docs, work.drops) /\ work.removes \subseteq 1..files
  BY <1>2, <1>5, ReviewedSame
<1> QED
  BY <1>1, <1>5, <1>7, <1>8, <1>9, AfterAdmin

LEMMA DeleteSupplierOrgStep ==
    ASSUME VerificationInv, NEW r \in AdminReqs, DeleteSupplierOrg(r)
    PROVE  VerificationInv'
<1> DEFINE o == [org EXCEPT !.deleted = TRUE]
           work == [Plain EXCEPT !.put.org.deleted = TRUE]
<1>1. Begin(r, work)
  BY DEF DeleteSupplierOrg
<1>2. TypeOK /\ org \in OrgRow /\ docs \in Seq(DocRow)
  BY Typed
<1>3. o \in OrgRow /\ o.status = org.status /\ o.published = org.published
  BY <1>2 DEF OrgRow
<1>4. /\ Plain \in Work /\ Carries(Plain, org, docs, gallery, draft)
      /\ Plain.tin = 0 /\ Plain.saves = {} /\ Plain.withdraws = {} /\ Plain.drops = {}
      /\ Plain.removes = {}
  BY <1>2, PlainCarries
<1>5. /\ work.put.draft = draft /\ work.put.org = o /\ work.put.docs = docs
      /\ work.put.gallery = gallery /\ work.seen = Plain.seen /\ work.tin = 0
      /\ work.saves = {} /\ work.withdraws = {} /\ work.removes = {}
  BY <1>4 DEF Work, Row, Carries
<1>6. work \in Work
  BY <1>3, <1>4 DEF Work, Row, Carries
<1> HIDE DEF work, o
<1>7. Carries(work, o, docs, gallery, draft)
  BY <1>4, <1>5, <1>6 DEF Carries
<1>8. OrgKept(org) => OrgKept(o)
  BY <1>1, <1>3 DEF OrgKept
<1>9. Reviewed(docs, docs, work.drops) /\ work.removes \subseteq 1..files
  BY <1>2, <1>5, ReviewedSame
<1> QED
  BY <1>1, <1>5, <1>7, <1>8, <1>9, AfterAdmin

(* The admins: the documents.                                              *)
LEMMA GetApplicationStep ==
    ASSUME VerificationInv, NEW r \in AdminReqs, GetApplication(r)
    PROVE  VerificationInv'
<1> DEFINE t == WithContact(docs)
           work == [Plain EXCEPT !.put.docs = t]
<1>1. Begin(r, work)
  <2>1. Plain.put.docs = docs /\ Plain.put.org = org
    BY DEF Plain
  <2> QED
    BY <2>1 DEF GetApplication
<1>2. TypeOK /\ org \in OrgRow /\ docs \in Seq(DocRow)
  BY Typed
<1>3. t \in Seq(DocRow) /\ Reviewed(docs, t, {}) /\ (ReviewKept(docs) => ReviewKept(t))
  BY <1>2, WithContactRows DEF Extended
<1>4. /\ Plain \in Work /\ Carries(Plain, org, docs, gallery, draft)
      /\ Plain.tin = 0 /\ Plain.saves = {} /\ Plain.withdraws = {} /\ Plain.drops = {}
      /\ Plain.removes = {}
  BY <1>2, PlainCarries
<1>5. org \in OrgRow /\ (OrgKept(org) => OrgKept(org))
  BY <1>2
<1> HIDE DEF t
<1>6. /\ work.put.draft = draft /\ work.put.org = org /\ work.put.docs = t
      /\ work.put.gallery = gallery /\ work.seen = Plain.seen /\ work.tin = 0
      /\ work.saves = {} /\ work.withdraws = {} /\ work.removes = {}
      /\ work.drops = {}
  BY <1>4 DEF Work, Row, Carries
<1>7. work \in Work
  BY <1>3, <1>4, <1>5 DEF Work, Row, Carries
<1> HIDE DEF work
<1>8. Carries(work, org, t, gallery, draft) /\ work.removes \subseteq 1..files
  BY <1>4, <1>6, <1>7 DEF Carries
<1> QED
  BY <1>1, <1>3, <1>5, <1>6, <1>8, AfterAdmin

LEMMA ApproveDocumentStep ==
    ASSUME VerificationInv, NEW r \in AdminReqs, NEW d \in DOMAIN docs,
           ApproveDocument(r, d)
    PROVE  VerificationInv'
<1> DEFINE t == ApprovedDocs(docs, {d})
           work == [Plain EXCEPT !.put.docs = t]
<1>1. Begin(r, work)
  <2>1. Plain.put.docs = docs /\ Plain.put.org = org
    BY DEF Plain
  <2> QED
    BY <2>1 DEF ApproveDocument
<1>2. TypeOK /\ org \in OrgRow /\ docs \in Seq(DocRow)
  BY Typed
<1>3. t \in Seq(DocRow) /\ Reviewed(docs, t, {}) /\ (ReviewKept(docs) => ReviewKept(t))
  <2>1. {d} \in SUBSET DOMAIN docs
    OBVIOUS
  <2>2. Marked(docs, t)
    BY <1>2, <2>1, MarkedDocs
  <2> QED
    BY <1>2, <2>2, MarkedReviewed DEF Marked
<1>4. /\ Plain \in Work /\ Carries(Plain, org, docs, gallery, draft)
      /\ Plain.tin = 0 /\ Plain.saves = {} /\ Plain.withdraws = {} /\ Plain.drops = {}
      /\ Plain.removes = {}
  BY <1>2, PlainCarries
<1>5. org \in OrgRow /\ (OrgKept(org) => OrgKept(org))
  BY <1>2
<1> HIDE DEF t
<1>6. /\ work.put.draft = draft /\ work.put.org = org /\ work.put.docs = t
      /\ work.put.gallery = gallery /\ work.seen = Plain.seen /\ work.tin = 0
      /\ work.saves = {} /\ work.withdraws = {} /\ work.removes = {}
      /\ work.drops = {}
  BY <1>4 DEF Work, Row, Carries
<1>7. work \in Work
  BY <1>3, <1>4, <1>5 DEF Work, Row, Carries
<1> HIDE DEF work
<1>8. Carries(work, org, t, gallery, draft) /\ work.removes \subseteq 1..files
  BY <1>4, <1>6, <1>7 DEF Carries
<1> QED
  BY <1>1, <1>3, <1>5, <1>6, <1>8, AfterAdmin

LEMMA FlagDocumentStep ==
    ASSUME VerificationInv, NEW r \in AdminReqs, NEW d \in DOMAIN docs,
           FlagDocument(r, d)
    PROVE  VerificationInv'
<1> DEFINE t == FlaggedDocs(docs, {d})
           o == IF org.deleted THEN org ELSE ActionRequired(org)
           work == [Plain EXCEPT !.put.docs = t, !.put.org = o]
<1>1. Begin(r, work)
  <2>1. Plain.put.docs = docs /\ Plain.put.org = org
    BY DEF Plain
  <2> QED
    BY <2>1 DEF FlagDocument
<1>2. TypeOK /\ org \in OrgRow /\ docs \in Seq(DocRow)
  BY Typed
<1>3. t \in Seq(DocRow) /\ Reviewed(docs, t, {}) /\ (ReviewKept(docs) => ReviewKept(t))
  <2>1. {d} \in SUBSET DOMAIN docs
    OBVIOUS
  <2>2. Marked(docs, t)
    BY <1>2, <2>1, MarkedDocs
  <2> QED
    BY <1>2, <2>2, MarkedReviewed DEF Marked
<1>4. /\ Plain \in Work /\ Carries(Plain, org, docs, gallery, draft)
      /\ Plain.tin = 0 /\ Plain.saves = {} /\ Plain.withdraws = {} /\ Plain.drops = {}
      /\ Plain.removes = {}
  BY <1>2, PlainCarries
<1>5. o \in OrgRow /\ (OrgKept(org) => OrgKept(o))
  <2>1. /\ ActionRequired(org) \in OrgRow /\ ~ActionRequired(org).published
    BY <1>2 DEF ActionRequired, OrgRow
  <2> QED
    BY <1>2, <2>1 DEF OrgKept
<1> HIDE DEF t, o
<1>6. /\ work.put.draft = draft /\ work.put.org = o /\ work.put.docs = t
      /\ work.put.gallery = gallery /\ work.seen = Plain.seen /\ work.tin = 0
      /\ work.saves = {} /\ work.withdraws = {} /\ work.removes = {}
      /\ work.drops = {}
  BY <1>4 DEF Work, Row, Carries
<1>7. work \in Work
  BY <1>3, <1>4, <1>5 DEF Work, Row, Carries
<1> HIDE DEF work
<1>8. Carries(work, o, t, gallery, draft) /\ work.removes \subseteq 1..files
  BY <1>4, <1>6, <1>7 DEF Carries
<1> QED
  BY <1>1, <1>3, <1>5, <1>6, <1>8, AfterAdmin

LEMMA BulkApproveStep ==
    ASSUME VerificationInv, NEW r \in AdminReqs, NEW D \in SUBSET DOMAIN docs,
           BulkUpdate(r, D, TRUE)
    PROVE  VerificationInv'
<1> DEFINE t == ApprovedDocs(docs, D)
           work == [Plain EXCEPT !.put.docs = t]
<1>1. Begin(r, work)
  <2>1. Plain.put.docs = docs /\ Plain.put.org = org
    BY DEF Plain
  <2> QED
    BY <2>1 DEF BulkUpdate
<1>2. TypeOK /\ org \in OrgRow /\ docs \in Seq(DocRow)
  BY Typed
<1>3. t \in Seq(DocRow) /\ Reviewed(docs, t, {}) /\ (ReviewKept(docs) => ReviewKept(t))
  <2>1. D \in SUBSET DOMAIN docs
    OBVIOUS
  <2>2. Marked(docs, t)
    BY <1>2, <2>1, MarkedDocs
  <2> QED
    BY <1>2, <2>2, MarkedReviewed DEF Marked
<1>4. /\ Plain \in Work /\ Carries(Plain, org, docs, gallery, draft)
      /\ Plain.tin = 0 /\ Plain.saves = {} /\ Plain.withdraws = {} /\ Plain.drops = {}
      /\ Plain.removes = {}
  BY <1>2, PlainCarries
<1>5. org \in OrgRow /\ (OrgKept(org) => OrgKept(org))
  BY <1>2
<1> HIDE DEF t
<1>6. /\ work.put.draft = draft /\ work.put.org = org /\ work.put.docs = t
      /\ work.put.gallery = gallery /\ work.seen = Plain.seen /\ work.tin = 0
      /\ work.saves = {} /\ work.withdraws = {} /\ work.removes = {}
      /\ work.drops = {}
  BY <1>4 DEF Work, Row, Carries
<1>7. work \in Work
  BY <1>3, <1>4, <1>5 DEF Work, Row, Carries
<1> HIDE DEF work
<1>8. Carries(work, org, t, gallery, draft) /\ work.removes \subseteq 1..files
  BY <1>4, <1>6, <1>7 DEF Carries
<1> QED
  BY <1>1, <1>3, <1>5, <1>6, <1>8, AfterAdmin

LEMMA BulkFlagStep ==
    ASSUME VerificationInv, NEW r \in AdminReqs, NEW D \in SUBSET DOMAIN docs,
           BulkUpdate(r, D, FALSE)
    PROVE  VerificationInv'
<1> DEFINE t == FlaggedDocs(docs, D)
           o == ActionRequired(org)
           work == [Plain EXCEPT !.put.docs = t, !.put.org = o]
<1>1. Begin(r, work)
  <2>1. Plain.put.docs = docs /\ Plain.put.org = org
    BY DEF Plain
  <2> QED
    BY <2>1 DEF BulkUpdate
<1>2. TypeOK /\ org \in OrgRow /\ docs \in Seq(DocRow)
  BY Typed
<1>3. t \in Seq(DocRow) /\ Reviewed(docs, t, {}) /\ (ReviewKept(docs) => ReviewKept(t))
  <2>1. D \in SUBSET DOMAIN docs
    OBVIOUS
  <2>2. Marked(docs, t)
    BY <1>2, <2>1, MarkedDocs
  <2> QED
    BY <1>2, <2>2, MarkedReviewed DEF Marked
<1>4. /\ Plain \in Work /\ Carries(Plain, org, docs, gallery, draft)
      /\ Plain.tin = 0 /\ Plain.saves = {} /\ Plain.withdraws = {} /\ Plain.drops = {}
      /\ Plain.removes = {}
  BY <1>2, PlainCarries
<1>5. o \in OrgRow /\ (OrgKept(org) => OrgKept(o))
  <2>1. /\ ActionRequired(org) \in OrgRow /\ ~ActionRequired(org).published
    BY <1>2 DEF ActionRequired, OrgRow
  <2> QED
    BY <1>2, <2>1 DEF OrgKept
<1> HIDE DEF t, o
<1>6. /\ work.put.draft = draft /\ work.put.org = o /\ work.put.docs = t
      /\ work.put.gallery = gallery /\ work.seen = Plain.seen /\ work.tin = 0
      /\ work.saves = {} /\ work.withdraws = {} /\ work.removes = {}
      /\ work.drops = {}
  BY <1>4 DEF Work, Row, Carries
<1>7. work \in Work
  BY <1>3, <1>4, <1>5 DEF Work, Row, Carries
<1> HIDE DEF work
<1>8. Carries(work, o, t, gallery, draft) /\ work.removes \subseteq 1..files
  BY <1>4, <1>6, <1>7 DEF Carries
<1> QED
  BY <1>1, <1>3, <1>5, <1>6, <1>8, AfterAdmin

LEMMA DeleteVerificationDocumentStep ==
    ASSUME VerificationInv, NEW r \in AdminReqs, NEW d \in DOMAIN docs,
           DeleteVerificationDocument(r, d)
    PROVE  VerificationInv'
<1> DEFINE t == Without(docs, d)
           work == [Plain EXCEPT !.put.docs = t, !.drops = {docs[d].file} \ {0}]
<1>1. Begin(r, work)
  <2>1. Plain.put.docs = docs /\ Plain.put.org = org
    BY DEF Plain
  <2> QED
    BY <2>1 DEF DeleteVerificationDocument, Without
<1>2. TypeOK /\ org \in OrgRow /\ docs \in Seq(DocRow)
  BY Typed
<1>3. t \in Seq(DocRow) /\ Reviewed(docs, t, {docs[d].file} \ {0}) /\ (ReviewKept(docs) => ReviewKept(t))
  BY <1>2, WithoutRows, WithoutReviewed
<1>4. /\ Plain \in Work /\ Carries(Plain, org, docs, gallery, draft)
      /\ Plain.tin = 0 /\ Plain.saves = {} /\ Plain.withdraws = {} /\ Plain.drops = {}
      /\ Plain.removes = {}
  BY <1>2, PlainCarries
<1>5. org \in OrgRow /\ (OrgKept(org) => OrgKept(org))
  BY <1>2
<1>9. docs[d].file \in Nat
  <2>1. docs[d] \in DocRow
    BY <1>2
  <2> QED
    BY <2>1 DEF DocRow
<1> HIDE DEF t
<1>6. /\ work.put.draft = draft /\ work.put.org = org /\ work.put.docs = t
      /\ work.put.gallery = gallery /\ work.seen = Plain.seen /\ work.tin = 0
      /\ work.saves = {} /\ work.withdraws = {} /\ work.removes = {}
      /\ work.drops = {docs[d].file} \ {0}
  BY <1>4 DEF Work, Row, Carries
<1>7. work \in Work
  BY <1>3, <1>4, <1>5, <1>9 DEF Work, Row, Carries
<1> HIDE DEF work
<1>8. Carries(work, org, t, gallery, draft) /\ work.removes \subseteq 1..files
  BY <1>4, <1>6, <1>7 DEF Carries
<1> QED
  BY <1>1, <1>3, <1>5, <1>6, <1>8, AfterAdmin

LEMMA DeleteFileRecordStep ==
    ASSUME VerificationInv, NEW r \in AdminReqs, NEW f \in 1..files, DeleteFileRecord(r, f)
    PROVE  VerificationInv'
<1> DEFINE work == [Plain EXCEPT !.removes = {f}]
<1>1. Begin(r, work)
  BY DEF DeleteFileRecord
<1>2. TypeOK /\ docs \in Seq(DocRow) /\ files \in Nat
  BY Typed
<1>3. /\ Plain \in Work /\ Carries(Plain, org, docs, gallery, draft)
      /\ Plain.tin = 0 /\ Plain.saves = {} /\ Plain.withdraws = {} /\ Plain.drops = {}
  BY <1>2, PlainCarries
<1>4. /\ work.put = Plain.put /\ work.seen = Plain.seen /\ work.tin = 0
      /\ work.saves = {} /\ work.withdraws = {} /\ work.removes = {f} /\ work.drops = {}
  BY <1>3 DEF Work
<1>5. work \in Work
  BY <1>2, <1>3 DEF Work
<1> HIDE DEF work
<1>6. Carries(work, org, docs, gallery, draft)
  BY <1>3, <1>4, <1>5 DEF Carries
<1>7. Reviewed(docs, docs, work.drops) /\ work.removes \subseteq 1..files
  BY <1>2, <1>4, ReviewedSame
<1> QED
  BY <1>1, <1>4, <1>6, <1>7, AfterAdmin

(***************************************************************************)
(* Every step keeps the invariant.                                         *)
(***************************************************************************)
LEMMA Stutter ==
    ASSUME VerificationInv, UNCHANGED vars
    PROVE  VerificationInv'
<1>1. /\ org' = org /\ docs' = docs /\ gallery' = gallery /\ draft' = draft
      /\ removed' = removed /\ files' = files /\ requests' = requests /\ newest' = newest
      /\ saved' = saved /\ withdrawn' = withdrawn /\ dropped' = dropped
      /\ overlapped' = overlapped /\ hurried' = hurried /\ tx' = tx
  BY DEF vars, rows, history
<1>2. OverlapInv'
  BY <1>1 DEF VerificationInv, OverlapInv, TypeOK, AllInHand, InHand, Grown, Busy
<1>3. ASSUME UnhurriedInv PROVE UnhurriedInv'
  <2>1. OneSupplier'
    BY <1>1, <1>3 DEF UnhurriedInv, OneSupplier, Busy
  <2>2. RowsKept'
    BY <1>1, <1>3 DEF UnhurriedInv, RowsKept, DocsKept, DraftKept, GalleryKept, Live, OfType
  <2>3. AllUnhurried'
    BY <1>1, <1>3, UnhurriedAfter DEF UnhurriedInv, AllUnhurried, Busy
  <2> QED
    BY <2>1, <2>2, <2>3 DEF UnhurriedInv
<1>4. SerialInv => SerialInv'
  BY <1>1 DEF SerialInv, Alone, AllFresh, Fresh, ReviewKept, OrgKept, OfType, Live, AtMostOne,
              Busy
<1> QED
  BY <1>1, <1>2, <1>3, <1>4 DEF VerificationInv

LEMMA StepInv == VerificationInv /\ [Next]_vars => VerificationInv'
<1> SUFFICES ASSUME VerificationInv, [Next]_vars PROVE VerificationInv'
  OBVIOUS
<1>1. ASSUME NEW r \in SupplierReqs, Onboarding(r) PROVE VerificationInv'
  <2>1. ASSUME NEW s \in Sections, Save(r, s) PROVE VerificationInv'
    BY <2>1, SaveStep
  <2>2. ASSUME NEW d \in DOMAIN docs, DeleteDocument(r, d) PROVE VerificationInv'
    BY <2>2, DeleteDocumentStep
  <2> QED
    BY <1>1, <2>1, <2>2, UploadTinStep, UploadSitePhotoStep, SubmitStep DEF Onboarding
<1>2. ASSUME NEW r \in SupplierReqs, StorefrontService(r) PROVE VerificationInv'
  <2>1. ASSUME NEW published \in BOOLEAN, SetPublished(r, published) PROVE VerificationInv'
    BY <2>1, SetPublishedStep
  <2>2. ASSUME NEW p \in DOMAIN gallery, UpdateGalleryPhoto(r, p) \/ DeleteGalleryPhoto(r, p)
        PROVE  VerificationInv'
    BY <2>2, UpdateGalleryPhotoStep
  <2> QED
    BY <1>2, <2>1, <2>2, UploadGalleryPhotoStep, AddGalleryPhotoStep DEF StorefrontService
<1>3. ASSUME NEW r \in AdminReqs, VerificationAdmin(r) PROVE VerificationInv'
  <2>1. ASSUME NEW approved \in BOOLEAN, VerifySupplier(r, approved) PROVE VerificationInv'
    BY <2>1, VerifySupplierStep
  <2>2. ASSUME NEW d \in DOMAIN docs,
               \/ ApproveDocument(r, d) \/ FlagDocument(r, d)
               \/ DeleteVerificationDocument(r, d)
        PROVE  VerificationInv'
    BY <2>2, ApproveDocumentStep, FlagDocumentStep, DeleteVerificationDocumentStep
  <2>3. ASSUME NEW D \in SUBSET DOMAIN docs, NEW approve \in BOOLEAN, BulkUpdate(r, D, approve)
        PROVE  VerificationInv'
    <3>1. approve = TRUE \/ approve = FALSE
      OBVIOUS
    <3> QED
      BY <2>3, <3>1, BulkApproveStep, BulkFlagStep
  <2>4. ASSUME NEW f \in 1..files, DeleteFileRecord(r, f) PROVE VerificationInv'
    BY <2>4, DeleteFileRecordStep
  <2> QED
    BY <1>3, <2>1, <2>2, <2>3, <2>4, GetApplicationStep, RequestInfoStep, SuspendSupplierStep,
       RestoreSupplierStep, DeleteSupplierOrgStep DEF VerificationAdmin
<1>4. ASSUME NEW r \in Reqs, Commit(r) \/ Rollback(r) PROVE VerificationInv'
  BY <1>4, AfterCommit, AfterRollback
<1>5. CASE UNCHANGED vars
  BY <1>5, Stutter
<1> QED
  BY <1>1, <1>2, <1>3, <1>4, <1>5 DEF Next

LEMMA InvAlways == Spec => []VerificationInv
<1> QED
  BY InitInv, StepInv, PTL DEF Spec

-----------------------------------------------------------------------------
(* What a table of documents shows, once the supplier's rows are kept.     *)
LEMMA KeptIsShown ==
    ASSUME TypeOK, RowsKept
    PROVE  /\ Shown("tin") \subseteq {newest}
           /\ (Shown("tin") \cup Shown("sitePhotos")) \cap withdrawn = {}
           /\ \A d \in OfType(docs, "sitePhotos") : docs[d].file \in Shown("sitePhotos") \cup removed
<1>1. /\ \A d \in OfType(docs, "tin") : docs[d].file = newest
      /\ \A d \in Live(docs) : docs[d].file \notin withdrawn
  BY DEF RowsKept, DocsKept, OfType
<1>2. /\ OnRecord("tin") \subseteq {newest}
      /\ OnRecord("tin") \cap withdrawn = {}
      /\ OnRecord("sitePhotos") \cap withdrawn = {}
  BY DEF RowsKept, DraftKept, OnRecord
<1>3. Shown("tin") \subseteq {newest} /\ Shown("tin") \cap withdrawn = {}
  BY <1>1, <1>2 DEF Shown, OfType
<1>4. Shown("sitePhotos") \cap withdrawn = {}
  BY <1>1, <1>2 DEF Shown, OfType
<1>5. \A d \in OfType(docs, "sitePhotos") : docs[d].file \in Shown("sitePhotos") \cup removed
  BY DEF Shown
<1> QED
  BY <1>3, <1>4, <1>5

(* Until two requests overlap, a storefront is open only while its         *)
(* supplier is approved or, having submitted anew, pending: a rejection, a flag, a request for information *)
(* and a suspension all take it down (admin_service.py), and no handler of *)
(* the supplier opens it again.                                            *)
THEOREM SuspensionsTakeDown == Spec => []TakenDown
<1>1. VerificationInv => TakenDown
  BY DEF VerificationInv, SerialInv, OrgKept, TakenDown
<1> QED
  BY <1>1, InvAlways, PTL

(* Until two requests overlap, an approved document holds the very file    *)
(* its approval had in hand: an upload and the synchronisation of the      *)
(* draft both send a document whose file they replace back to review.      *)
THEOREM ApprovalsAreOfTheFile == Spec => []ApprovedFileReviewed
<1>1. VerificationInv => ApprovedFileReviewed
  BY DEF VerificationInv, SerialInv, ReviewKept, ApprovedFileReviewed
<1> QED
  BY <1>1, InvAlways, PTL

(* While the supplier does one thing at a time, and whatever the admins do *)
(* meanwhile, the admins are shown the last tin uploaded, nothing that the *)
(* supplier deleted comes back, and no section once saved is lost.         *)
THEOREM DraftsKeepUp == Spec => []DraftKeepsUp
<1>1. ASSUME VerificationInv PROVE DraftKeepsUp
  <2>1. TypeOK /\ (~hurried => RowsKept)
    BY <1>1 DEF VerificationInv, OverlapInv, UnhurriedInv
  <2>2. NewestFileCounts /\ WithdrawnStaysWithdrawn
    BY <2>1, KeptIsShown DEF NewestFileCounts, WithdrawnStaysWithdrawn
  <2>3. NothingSavedIsLost
    BY <2>1 DEF RowsKept, NothingSavedIsLost
  <2> QED
    BY <2>2, <2>3 DEF DraftKeepsUp
<1> QED
  BY <1>1, InvAlways, PTL

(* The rows are of their types; until two requests overlap, a type of one  *)
(* file has one document and a file one row, so that no handler finds two  *)
(* where it asks for one; until the supplier overlaps with itself, what    *)
(* its gallery shows is among the documents the admins review.             *)
THEOREM VerificationRowsAgree == Spec => []RowsAgree
<1>1. ASSUME VerificationInv PROVE RowsAgree
  <2>1. TypeOK /\ (~hurried => RowsKept)
    BY <1>1 DEF VerificationInv, OverlapInv, UnhurriedInv
  <2>2. OneRowEach
    <3>1. CASE overlapped
      BY <3>1 DEF OneRowEach
    <3>2. CASE ~overlapped
      <4>1. RowsKept /\ AtMostOne(OfType(docs, "contact"))
        BY <1>1, <2>1, <3>2 DEF VerificationInv, OverlapInv, SerialInv, ReviewKept
      <4>2. AtMostOne(OfType(docs, "tin"))
        BY <4>1 DEF RowsKept, DocsKept, OfType, AtMostOne
      <4>3. \A d, e \in OfType(docs, "sitePhotos") : docs[d].file = docs[e].file => d = e
        BY <4>1 DEF RowsKept, DocsKept, OfType
      <4> QED
        BY <4>1, <4>2, <4>3 DEF OneRowEach
    <3> QED
      BY <3>1, <3>2
  <2>3. GalleryIsSubmitted
    <3>1. ASSUME RowsKept, NEW p \in Live(gallery)
          PROVE  gallery[p].file \in Shown("sitePhotos") \cup removed \cup dropped \cup {0}
      <4>1. \/ gallery[p].file \in removed \cup dropped \cup {0}
            \/ \E d \in OfType(docs, "sitePhotos") : docs[d].file = gallery[p].file
        BY <3>1 DEF RowsKept, GalleryKept
      <4> QED
        BY <2>1, <3>1, <4>1, KeptIsShown
    <3> QED
      BY <2>1, <3>1 DEF GalleryIsSubmitted
  <2> QED
    BY <2>1, <2>2, <2>3 DEF RowsAgree
<1> QED
  BY <1>1, InvAlways, PTL
=============================================================================
