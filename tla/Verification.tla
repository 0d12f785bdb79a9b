----------------------------- MODULE Verification -----------------------------
(***************************************************************************)
(* The application of one supplier organisation: its registration draft,   *)
(* the documents and site photos uploaded with it, the gallery of its      *)
(* storefront, and the admins who review the documents and decide on the   *)
(* organisation.                                                           *)
(*                                                                         *)
(* A handler reads its rows, leaves the ORM a unit of work (what it has    *)
(* `seen' and `put') and COMMITS in a later step, which writes the columns *)
(* that differ; the JSON payload of the draft is one column.  No row is    *)
(* locked and no index keeps two documents of one type apart: a handler    *)
(* that finds two where it asks for one raises, so its guard says          *)
(* `AtMostOne'.                                                            *)
(*                                                                         *)
(* A file is known by its number, in the order of upload.  The single-file *)
(* documents are alike in the code; "tin" stands for them all.  Deleting a *)
(* row for good is modelled as marking it deleted.                         *)
(* History: `overlapped' says whether two requests ever overlapped, and    *)
(* `hurried' whether two requests of the supplier did; `newest', the last  *)
(* tin uploaded; `saved', the sections of the form ever saved; `withdrawn',*)
(* the files of the documents the supplier deleted; `dropped', those the   *)
(* admins deleted; in a document, the file its last approval had in hand.  *)
(***************************************************************************)
EXTENDS Integers, Sequences, FiniteSets, SequencesExt

CONSTANTS
    SupplierReqs,   \* request slots of the supplier
    AdminReqs,      \* request slots of the admins
    Sections,       \* the sections of the form
    SitePhotosMax,  \* SITE_PHOTOS_MAX
    MaxRequests     \* bound: requests that ever begin

ASSUME SlotsAssumption == SupplierReqs \cap AdminReqs = {}
ASSUME BoundsAssumption == SitePhotosMax \in Nat /\ MaxRequests \in Nat

VARIABLES
    org,        \* the row of supplier_organizations
    docs,       \* the rows of registration_documents
    gallery,    \* the rows of supplier_gallery_photos
    draft,      \* the row of supplier_registration_drafts
    removed,    \* the files an admin deleted
    files,      \* how many files were ever uploaded
    requests,   \* how many requests ever began
    newest, saved, withdrawn, dropped, overlapped, hurried, \* history
    tx          \* the unit of work of the request in each slot

rows == <<org, docs, gallery, draft, removed>>
history == <<newest, saved, withdrawn, dropped>>
vars == <<rows, files, requests, history, overlapped, hurried, tx>>

Reqs == SupplierReqs \cup AdminReqs

-----------------------------------------------------------------------------
OrgRow == [status : {"DRAFT", "PENDING", "APPROVED", "REJECTED", "ACTION_REQUIRED", "SUSPENDED"},
           published : BOOLEAN, deleted : BOOLEAN]

(* Contact information is a document without a file: number 0.             *)
DocRow == [type : {"tin", "sitePhotos", "contact"}, file : Nat,
           status : {"PENDING", "APPROVED", "REJECTED"}, deleted : BOOLEAN,
           approvedFile : Nat]

(* A photo may also be given by the address of any picture: number 0.      *)
PhotoRow == [file : Nat, deleted : BOOLEAN]

(* The payload: the sections saved, the tin and the site photos on record. *)
DraftRow == [exists : BOOLEAN, sections : SUBSET Sections, tin : Nat, photos : SUBSET Nat]

Row == [org : OrgRow, docs : Seq(DocRow), gallery : Seq(PhotoRow), draft : DraftRow]

Idle == [op |-> "idle"]

(* `tin' is the file of a tin uploaded, `saves' the sections saved,        *)
(* `withdraws' and `drops' the files whose documents the supplier, or an   *)
(* admin, deletes, and `removes' the files that an admin deletes.          *)
Work == [op : {"work"}, seen : Row, put : Row, tin : Nat, saves : SUBSET Sections,
         withdraws : SUBSET Nat, drops : SUBSET Nat, removes : SUBSET Nat]

(* The type invariant: rows, and the rows a request has in hand, are rows. *)
TypeOK ==
    /\ org \in OrgRow
    /\ docs \in Seq(DocRow)
    /\ gallery \in Seq(PhotoRow)
    /\ draft \in DraftRow
    /\ removed \subseteq 1..files /\ withdrawn \subseteq Nat /\ dropped \subseteq Nat
    /\ files \in Nat /\ requests \in Nat /\ newest \in 0..files
    /\ saved \subseteq Sections
    /\ overlapped \in BOOLEAN /\ hurried \in BOOLEAN
    /\ tx \in [Reqs -> {Idle} \cup Work]

-----------------------------------------------------------------------------
Busy(r) == tx[r].op # "idle"

Starts(r) ==
    /\ ~Busy(r) /\ requests < MaxRequests
    /\ requests' = requests + 1
    /\ overlapped' = (overlapped \/ \E o \in Reqs : Busy(o))
    /\ hurried' = (hurried \/ (r \in SupplierReqs /\ \E o \in SupplierReqs : Busy(o)))

(* A handler has read its rows, and stored a file if it uploads one;       *)
(* no row is written yet.                                                  *)
BeginWith(r, work, uploads) ==
    /\ Starts(r)
    /\ files' = files + uploads
    /\ tx' = [tx EXCEPT ![r] = work]
    /\ UNCHANGED <<rows, history>>

Begin(r, work) == BeginWith(r, work, 0)

Upload(r, work) == BeginWith(r, work, 1)

(* The unit of work of a handler that has changed nothing yet.             *)
Plain == LET row == [org |-> org, docs |-> docs, gallery |-> gallery, draft |-> draft] IN
    [op |-> "work", seen |-> row, put |-> row, tin |-> 0, saves |-> {},
     withdraws |-> {}, drops |-> {}, removes |-> {}]

NewDoc(type, file) ==
    [type |-> type, file |-> file, status |-> "PENDING", deleted |-> FALSE, approvedFile |-> 0]

NewPhoto(file) == [file |-> file, deleted |-> FALSE]

Live(table) == {i \in DOMAIN table : ~table[i].deleted}

OfType(table, type) == {d \in Live(table) : table[d].type = type}

(* scalar_one_or_none raises when there are more.                          *)
AtMostOne(S) == \A i, j \in S : i = j

Init ==
    /\ org = [status |-> "DRAFT", published |-> FALSE, deleted |-> FALSE]
    /\ docs = <<>> /\ gallery = <<>>
    /\ draft = [exists |-> FALSE, sections |-> {}, tin |-> 0, photos |-> {}]
    /\ removed = {}
    /\ files = 0 /\ requests = 0
    /\ newest = 0 /\ saved = {} /\ withdrawn = {} /\ dropped = {}
    /\ overlapped = FALSE /\ hurried = FALSE
    /\ tx = [r \in Reqs |-> Idle]

-----------------------------------------------------------------------------
(* The documents of the draft.                                             *)

\* mutant: a file put in place of another keeps the status of the review
WithTin_KeepsStatus(table, file) ==
    LET same == OfType(table, "tin") IN
    IF same = {} THEN Append(table, NewDoc("tin", file))
    ELSE [d \in DOMAIN table |->
            IF d \in same THEN [table[d] EXCEPT !.file = file] ELSE table[d]]

(* A single-file document is replaced in place, and is to be reviewed anew.*)
WithTin(table, file) ==
    LET same == OfType(table, "tin") IN
    IF same = {} THEN Append(table, NewDoc("tin", file))
    ELSE [d \in DOMAIN table |->
            IF d \in same THEN [table[d] EXCEPT !.file = file, !.status = "PENDING"]
            ELSE table[d]]

(* Every file of the draft that is still there gets a document.            *)
Synced(table, form) ==
    LET known == {table[d].file : d \in Live(table)}
        tins == {form.tin} \ (known \cup removed \cup {0})
        photos == form.photos \ (known \cup removed) IN
    (IF tins = {} THEN table ELSE WithTin(table, form.tin))
        \o SetToSeq({NewDoc("sitePhotos", p) : p \in photos})

(* The queries of the synchronisation find one document each.              *)
Syncable(table, form) ==
    /\ form.tin # 0 => AtMostOne(OfType(table, "tin"))
    /\ \A p \in form.photos : AtMostOne({d \in OfType(table, "sitePhotos") : table[d].file = p})

\* mutant: a second row whenever the first is no longer pending
WithContact_Again(table) ==
    IF \E d \in OfType(table, "contact") : table[d].status = "PENDING"
    THEN table ELSE Append(table, NewDoc("contact", 0))

WithContact(table) ==
    IF OfType(table, "contact") # {} THEN table ELSE Append(table, NewDoc("contact", 0))

-----------------------------------------------------------------------------
(* The supplier.                                                           *)

(* The section is merged into the payload.                                 *)
Save(r, s) ==
    LET form == [draft EXCEPT !.exists = TRUE, !.sections = @ \cup {s}] IN
    Begin(r, [Plain EXCEPT !.saves = {s}, !.put.draft = form])

UploadTin(r) ==
    LET file == files + 1
        form == [draft EXCEPT !.exists = TRUE, !.tin = file] IN
    /\ ~org.deleted
    /\ AtMostOne(OfType(docs, "tin")) /\ Syncable(docs, form)
    /\ Upload(r, [Plain EXCEPT !.tin = file, !.put.draft = form,
                               !.put.docs = Synced(WithTin(docs, file), form)])

UploadSitePhoto(r) ==
    LET file == files + 1
        form == [draft EXCEPT !.exists = TRUE, !.photos = @ \cup {file}] IN
    /\ ~org.deleted
    /\ Cardinality(OfType(docs, "sitePhotos")) < SitePhotosMax
    /\ Syncable(docs, form)
    /\ Upload(r, [Plain EXCEPT !.put.draft = form,
                     !.put.docs = Synced(Append(docs, NewDoc("sitePhotos", file)), form),
                     !.put.gallery = Append(@, NewPhoto(file))])

\* mutant: the draft still lists the file
DeleteDocument_DraftStays(r, d) ==
    /\ ~org.deleted /\ d \in Live(docs)
    /\ Begin(r, [Plain EXCEPT !.withdraws = {docs[d].file} \ {0},
                     !.put.docs = [@ EXCEPT ![d].deleted = TRUE],
                     !.put.gallery = [p \in DOMAIN @ |->
                         IF @[p].file = docs[d].file /\ docs[d].file \notin removed \cup {0}
                         THEN [@[p] EXCEPT !.deleted = TRUE] ELSE @[p]]])

(* The draft forgets the file, and a site photo leaves the gallery, unless *)
(* an admin deleted the file before.                                       *)
DeleteDocument(r, d) ==
    LET file == docs[d].file
        form == [draft EXCEPT !.photos = @ \ {file}, !.tin = IF @ = file THEN 0 ELSE @] IN
    /\ ~org.deleted /\ d \in Live(docs)
    /\ Begin(r, [Plain EXCEPT !.withdraws = {file} \ {0}, !.put.draft = form,
                     !.put.docs = [@ EXCEPT ![d].deleted = TRUE],
                     !.put.gallery = [p \in DOMAIN @ |->
                         IF @[p].file = file /\ file \notin removed \cup {0}
                         THEN [@[p] EXCEPT !.deleted = TRUE] ELSE @[p]]])

(* From any status, a suspended supplier's too; the storefront stays as it *)
(* is.                                                                     *)
Submit(r) ==
    LET synced == Synced(docs, draft) IN
    /\ ~org.deleted
    /\ Syncable(docs, draft) /\ AtMostOne(OfType(docs, "contact"))
    /\ Begin(r, [Plain EXCEPT !.put.docs = WithContact(synced), !.put.org.status = "PENDING"])

(* The switch of the storefront; the form can also turn it off while the   *)
(* supplier is not approved.                                               *)
SetPublished(r, published) ==
    /\ ~org.deleted
    /\ published => org.status = "APPROVED"
    /\ Begin(r, [Plain EXCEPT !.put.org.published = published])

UploadGalleryPhoto(r) ==
    /\ ~org.deleted
    /\ Cardinality(Live(gallery)) < SitePhotosMax
    /\ Upload(r, [Plain EXCEPT !.put.gallery = Append(@, NewPhoto(files + 1)),
                               !.put.docs = Append(@, NewDoc("sitePhotos", files + 1))])

AddGalleryPhoto(r) ==
    /\ ~org.deleted
    /\ Begin(r, [Plain EXCEPT !.put.gallery = Append(@, NewPhoto(0))])

(* The photo gets the address of any picture.                              *)
UpdateGalleryPhoto(r, p) ==
    /\ ~org.deleted /\ p \in Live(gallery)
    /\ Begin(r, [Plain EXCEPT !.put.gallery = [@ EXCEPT ![p].file = 0]])

DeleteGalleryPhoto(r, p) ==
    /\ ~org.deleted /\ p \in Live(gallery)
    /\ Begin(r, [Plain EXCEPT !.put.gallery = [@ EXCEPT ![p].deleted = TRUE]])

-----------------------------------------------------------------------------
(* The admins.                                                             *)

(* Reading an application makes the row of its contact information.        *)
GetApplication(r) ==
    /\ ~org.deleted /\ AtMostOne(OfType(docs, "contact"))
    /\ Begin(r, [Plain EXCEPT !.put.docs = WithContact(@)])

VerifySupplier(r, approved) ==
    /\ ~org.deleted
    /\ Begin(r, [Plain EXCEPT !.put.org.status = IF approved THEN "APPROVED" ELSE "REJECTED",
                              !.put.org.published = approved])

ActionRequired(o) == [o EXCEPT !.status = "ACTION_REQUIRED", !.published = FALSE]

RequestInfo(r) ==
    /\ ~org.deleted
    /\ org.status \in {"PENDING", "APPROVED", "ACTION_REQUIRED"}
    /\ Begin(r, [Plain EXCEPT !.put.org = ActionRequired(@)])

\* mutant: the storefront stays open
SuspendSupplier_StaysPublished(r) ==
    /\ ~org.deleted /\ org.status = "APPROVED"
    /\ Begin(r, [Plain EXCEPT !.put.org.status = "SUSPENDED"])

SuspendSupplier(r) ==
    /\ ~org.deleted /\ org.status = "APPROVED"
    /\ Begin(r, [Plain EXCEPT !.put.org.status = "SUSPENDED", !.put.org.published = FALSE])

RestoreSupplier(r) ==
    /\ ~org.deleted /\ org.status \in {"SUSPENDED", "REJECTED"}
    /\ Begin(r, [Plain EXCEPT !.put.org.status = "APPROVED", !.put.org.published = TRUE])

ApprovedDocs(table, D) == [d \in DOMAIN table |->
    IF d \in D THEN [table[d] EXCEPT !.status = "APPROVED", !.approvedFile = table[d].file]
    ELSE table[d]]

FlaggedDocs(table, D) == [d \in DOMAIN table |->
    IF d \in D THEN [table[d] EXCEPT !.status = "REJECTED"] ELSE table[d]]

ApproveDocument(r, d) ==
    /\ d \in Live(docs)
    /\ Begin(r, [Plain EXCEPT !.put.docs = ApprovedDocs(@, {d})])

(* A flag, from any status, asks the supplier for action.                  *)
FlagDocument(r, d) ==
    /\ d \in Live(docs)
    /\ Begin(r, [Plain EXCEPT !.put.docs = FlaggedDocs(@, {d}),
                              !.put.org = IF org.deleted THEN @ ELSE ActionRequired(@)])

BulkUpdate(r, D, approve) ==
    /\ ~org.deleted /\ D # {} /\ D \subseteq Live(docs)
    /\ Begin(r, IF approve THEN [Plain EXCEPT !.put.docs = ApprovedDocs(@, D)]
                ELSE [Plain EXCEPT !.put.docs = FlaggedDocs(@, D),
                                   !.put.org = ActionRequired(@)])

DeleteVerificationDocument(r, d) ==
    /\ d \in Live(docs)
    /\ Begin(r, [Plain EXCEPT !.put.docs = [@ EXCEPT ![d].deleted = TRUE],
                              !.drops = {docs[d].file} \ {0}])

DeleteFileRecord(r, f) ==
    /\ f \in 1..files \ removed
    /\ \E d \in DOMAIN docs : docs[d].file = f
    /\ Begin(r, [Plain EXCEPT !.removes = {f}])

DeleteSupplierOrg(r) ==
    /\ ~org.deleted
    /\ Begin(r, [Plain EXCEPT !.put.org.deleted = TRUE])

-----------------------------------------------------------------------------
(* The files an admin is shown of a type: those of its documents or, when  *)
(* there is none, the last one the draft has on record.                    *)

OnRecord(type) ==
    IF type = "tin" THEN {draft.tin} \ {0}
    ELSE {p \in draft.photos : \A q \in draft.photos : q <= p}

Shown(type) ==
    LET rowsOfType == OfType(docs, type) IN
    (IF rowsOfType # {} THEN {docs[d].file : d \in rowsOfType} ELSE OnRecord(type)) \ removed

-----------------------------------------------------------------------------
(* The end of a request.                                                   *)

(* Only the columns that changed are written.                              *)
Flushed(row, seen, put) ==
    [c \in DOMAIN row |-> IF put[c] = seen[c] THEN row[c] ELSE put[c]]

(* The rows that were there are flushed, the new ones inserted.            *)
FlushedTable(table, seen, put) ==
    [i \in DOMAIN table |->
        IF i \in DOMAIN seen THEN Flushed(table[i], seen[i], put[i]) ELSE table[i]]
    \o SubSeq(put, Len(seen) + 1, Len(put))

End(r) ==
    /\ tx' = [tx EXCEPT ![r] = Idle]
    /\ UNCHANGED <<files, requests, overlapped, hurried>>

(* The draft of an account is unique: of two first saves one fails.        *)
Commit(r) == LET w == tx[r] IN
    /\ Busy(r)
    /\ w.put.draft # w.seen.draft => draft.exists = w.seen.draft.exists
    /\ org' = Flushed(org, w.seen.org, w.put.org)
    /\ docs' = FlushedTable(docs, w.seen.docs, w.put.docs)
    /\ gallery' = FlushedTable(gallery, w.seen.gallery, w.put.gallery)
    /\ draft' = IF w.put.draft = w.seen.draft THEN draft ELSE w.put.draft
    /\ removed' = removed \cup w.removes
    /\ newest' = IF w.tin = 0 THEN newest ELSE w.tin
    /\ saved' = saved \cup w.saves
    /\ withdrawn' = withdrawn \cup w.withdraws
    /\ dropped' = dropped \cup w.drops
    /\ End(r)

(* An exception, a constraint, a worker that dies.                         *)
Rollback(r) == Busy(r) /\ End(r) /\ UNCHANGED <<rows, history>>

-----------------------------------------------------------------------------
Onboarding(r) ==
    \/ \E s \in Sections : Save(r, s)
    \/ UploadTin(r) \/ UploadSitePhoto(r) \/ Submit(r)
    \/ \E d \in DOMAIN docs : DeleteDocument(r, d)

StorefrontService(r) ==
    \/ \E published \in BOOLEAN : SetPublished(r, published)
    \/ UploadGalleryPhoto(r) \/ AddGalleryPhoto(r)
    \/ \E p \in DOMAIN gallery : UpdateGalleryPhoto(r, p) \/ DeleteGalleryPhoto(r, p)

VerificationAdmin(r) ==
    \/ GetApplication(r) \/ RequestInfo(r) \/ SuspendSupplier(r) \/ RestoreSupplier(r)
    \/ DeleteSupplierOrg(r)
    \/ \E approved \in BOOLEAN : VerifySupplier(r, approved)
    \/ \E d \in DOMAIN docs :
          ApproveDocument(r, d) \/ FlagDocument(r, d) \/ DeleteVerificationDocument(r, d)
    \/ \E D \in SUBSET DOMAIN docs, approve \in BOOLEAN : BulkUpdate(r, D, approve)
    \/ \E f \in 1..files : DeleteFileRecord(r, f)

Next ==
    \/ \E r \in SupplierReqs : Onboarding(r) \/ StorefrontService(r)
    \/ \E r \in AdminReqs : VerificationAdmin(r)
    \/ \E r \in Reqs : Commit(r) \/ Rollback(r)

Spec == Init /\ [][Next]_vars

-----------------------------------------------------------------------------
(* PROPERTIES.  Those that start with ~overlapped hold until two requests  *)
(* of the organisation overlap, for none of the rows is locked; those that *)
(* start with ~hurried hold until the supplier overlaps with itself (in a  *)
(* second window), whatever the admins do meanwhile.                       *)

(* A handler finds one document where it asks for one: one row of a type   *)
(* that has one file, one row of a file.  With two, every later upload of  *)
(* the type, and every reading of the application, would raise.            *)
OneRowEach ==
    ~overlapped =>
        /\ AtMostOne(OfType(docs, "tin")) /\ AtMostOne(OfType(docs, "contact"))
        /\ \A d, e \in OfType(docs, "sitePhotos") : docs[d].file = docs[e].file => d = e

(* An approved document holds the file that was approved: a file put in    *)
(* its place, by an upload or by the synchronisation, is reviewed anew.    *)
ApprovedFileReviewed ==
    ~overlapped => \A d \in Live(docs) :
        docs[d].status = "APPROVED" => docs[d].file = docs[d].approvedFile

(* The admins review the last file the supplier uploaded: what the draft   *)
(* remembers never puts an earlier one back.                               *)
NewestFileCounts ==
    ~hurried => Shown("tin") \subseteq {newest}

(* What the supplier deleted is shown no more, and does not come back with *)
(* the next upload or submission.                                          *)
WithdrawnStaysWithdrawn ==
    ~hurried => (Shown("tin") \cup Shown("sitePhotos")) \cap withdrawn = {}

(* An uploaded photo of the gallery is among the documents the admins are  *)
(* shown, unless an admin deleted the document or the file.                *)
GalleryIsSubmitted ==
    ~hurried => \A p \in Live(gallery) :
        gallery[p].file \in Shown("sitePhotos") \cup removed \cup dropped \cup {0}

(* A section of the form, once saved, stays in the draft whatever is saved *)
(* or uploaded later.                                                      *)
NothingSavedIsLost == ~hurried => saved \subseteq draft.sections

(* A rejection, a flag, a request for information and a suspension take    *)
(* the storefront down, and the supplier cannot open it again.             *)
TakenDown ==
    ~overlapped => (org.published => org.status \in {"APPROVED", "PENDING"})

(* The named parts together: what the run checks.                          *)

(* The rows are of their types, each is there once, and the photos of the  *)
(* gallery are among the documents.                                        *)
RowsAgree ==
    /\ TypeOK
    /\ OneRowEach
    /\ GalleryIsSubmitted

(* What the draft remembers is what the supplier last did: nothing of it   *)
(* is lost, and nothing older comes back.                                  *)
DraftKeepsUp ==
    /\ NewestFileCounts
    /\ WithdrawnStaysWithdrawn
    /\ NothingSavedIsLost
=============================================================================
