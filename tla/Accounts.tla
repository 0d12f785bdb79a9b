------------------------------- MODULE Accounts -------------------------------
(***************************************************************************)
(* The account behind one e-mail address, in any one of the six realms:    *)
(* buyers, suppliers and admins of the export hub; customers, sellers and  *)
(* admins of the shop.  Its password, its sessions (a row per refresh      *)
(* token), the links mailed for a password reset or an activation, and,    *)
(* for a buyer, the organisation that registration makes and admins verify.*)
(*                                                                         *)
(* A handler reads its rows, decides, and leaves the ORM a unit of work: it*)
(* BEGINS with what it has `seen' and `put'.  The flush writes the columns *)
(* that changed; it COMMITS in a later step, and between the two the       *)
(* requests in other slots may commit.  No row is locked when it is read.  *)
(* A purge deletes the account, and a unit of work that updates a row that *)
(* is gone fails as a whole.                                               *)
(*                                                                         *)
(* An account is known by its number, for an address may be registered     *)
(* again.  Of its password the model keeps whether it is the temporary one *)
(* (mustChange): a request with a wrong password, or on an expired session *)
(* or link, is refused and changes nothing.                                *)
(* History: `overlapped' says whether some request ever began while another*)
(* was in flight; `resets' counts the resets of the account, a session has *)
(* the count at the time it was granted and the session it was refreshed   *)
(* from, and a link counts how often it was taken.                         *)
(***************************************************************************)
EXTENDS Integers, Sequences, FiniteSets

CONSTANTS
    Reqs,           \* request slots
    MaxRequests     \* bound: requests that ever begin

ASSUME BoundsAssumption == MaxRequests \in Nat

VARIABLES
    realm,      \* whose account it is
    account,    \* the row with the address
    org,        \* the organisation a buyer's account is a member of
    sessions,   \* the rows of the realm's session table
    links,      \* password_reset_tokens and account_verification_tokens
    accounts,   \* how many accounts the address ever had
    requests,   \* how many requests ever began
    resets,     \* history
    overlapped, \* history
    tx          \* the unit of work of the request in each slot

rows == <<account, org, sessions, links>>
vars == <<realm, rows, accounts, requests, resets, overlapped, tx>>

-----------------------------------------------------------------------------
Realms == {"buyer", "supplier", "admin", "customer", "seller", "shop_admin"}

VerificationStatus == {"DRAFT", "PENDING", "APPROVED", "REJECTED",
                       "ACTION_REQUIRED", "SUSPENDED"}

(* `id' is 0 when no row has the address.                                  *)
AccountRow == [id : Nat, mustChange : BOOLEAN, active : BOOLEAN,
               verified : BOOLEAN, deleted : BOOLEAN]

OrgRow == [status : VerificationStatus, verified : BOOLEAN, deleted : BOOLEAN]

SessionRow == [of : Nat, status : {"live", "revoked", "purged"},
               from : Nat, resets : Nat]

LinkRow == [of : Nat, kind : {"reset", "activation"},
            status : {"unused", "used", "purged"}, taken : Nat]

NoAccount == [id |-> 0, mustChange |-> FALSE, active |-> FALSE,
              verified |-> FALSE, deleted |-> FALSE]

NoOrg == [status |-> "DRAFT", verified |-> FALSE, deleted |-> TRUE]

Idle == [op |-> "idle"]

(* What a request leaves to be written: the account and the organisation   *)
(* as it found them and as it left them, whether it opens a session, the   *)
(* sessions it revokes, the one among them it refreshes, the link it takes,*)
(* the links it ends, and the kind of the link it mails.                   *)
Work == [op : {"work", "resetting"},
         seen : [account : AccountRow, org : OrgRow],
         put : [account : AccountRow, org : OrgRow],
         resets : Nat, opens : BOOLEAN, from : Nat, revokes : SUBSET Nat,
         takes : Nat, ends : SUBSET Nat, mails : {"none", "reset", "activation"}]

Tx == [op : {"idle"}] \cup [op : {"registering", "deleting"}, purges : Nat] \cup Work

(* The type invariant: rows, and the rows a request has in hand, are rows. *)
TypeOK ==
    /\ realm \in Realms
    /\ account \in AccountRow
    /\ org \in OrgRow
    /\ sessions \in Seq(SessionRow)
    /\ links \in Seq(LinkRow)
    /\ accounts \in Nat /\ requests \in Nat
    /\ resets \in Nat
    /\ overlapped \in BOOLEAN
    /\ tx \in [Reqs -> Tx]

-----------------------------------------------------------------------------
Busy(r) == tx[r].op # "idle"

Starts(r) ==
    /\ ~Busy(r) /\ requests < MaxRequests
    /\ requests' = requests + 1
    /\ overlapped' = (overlapped \/ \E o \in Reqs : Busy(o))

(* A handler has read its rows; nothing is written yet.                    *)
Begin(r, work) ==
    /\ Starts(r)
    /\ tx' = [tx EXCEPT ![r] = work]
    /\ UNCHANGED <<realm, rows, accounts, resets>>

End(r) ==
    /\ tx' = [tx EXCEPT ![r] = Idle]
    /\ UNCHANGED <<realm, requests, overlapped>>

(* The unit of work of a handler that has changed nothing yet.             *)
Plain == LET rows_ == [account |-> account, org |-> org] IN
    [op |-> "work", seen |-> rows_, put |-> rows_, resets |-> resets,
     opens |-> FALSE, from |-> 0, revokes |-> {}, takes |-> 0, ends |-> {},
     mails |-> "none"]

(* The row after a flush: only the columns that changed are written.       *)
Flushed(row, seen, put) ==
    [c \in DOMAIN row |-> IF put[c] = seen[c] THEN row[c] ELSE put[c]]

NewSession(a, n, from) ==
    [of |-> a, status |-> "live", from |-> from, resets |-> n]

NewLink(a, kind) == [of |-> a, kind |-> kind, status |-> "unused", taken |-> 0]

Present == account.id # 0 /\ ~account.deleted

(* The links mailed to the account that were not used yet.                 *)
Pending(kind) == {l \in DOMAIN links :
    links[l].of = account.id /\ links[l].kind = kind /\ links[l].status = "unused"}

LiveSessions == {s \in DOMAIN sessions :
    sessions[s].of = account.id /\ sessions[s].status = "live"}

(* An access token outlives its session: whoever was ever let in has one.  *)
SignedIn == Present /\ account.active /\ \E s \in DOMAIN sessions : sessions[s].of = account.id

PasswordChanged == SignedIn /\ ~account.mustChange

Init ==
    /\ realm \in Realms
    /\ account = IF realm = "shop_admin"
                 THEN [NoAccount EXCEPT !.id = 1, !.active = TRUE, !.verified = TRUE]
                 ELSE NoAccount
    /\ org = NoOrg
    /\ sessions = <<>> /\ links = <<>>
    /\ accounts = account.id /\ requests = 0
    /\ resets = 0
    /\ overlapped = FALSE
    /\ tx = [r \in Reqs |-> Idle]

-----------------------------------------------------------------------------
(* Registration.                                                           *)

NewAccount(mustChange, verified) ==
    /\ accounts' = accounts + 1
    /\ account' = [id |-> accounts + 1, mustChange |-> mustChange,
                   active |-> TRUE, verified |-> verified, deleted |-> FALSE]
    /\ resets' = 0

(* A buyer's address may be taken again once its account or its            *)
(* organisation is deleted: what is left of that account is purged.        *)
RegisterBuyer(r) ==
    /\ realm = "buyer"
    /\ ~Present \/ org.deleted
    /\ Begin(r, [op |-> "registering", purges |-> account.id])

\* mutant: the sessions stay
Without_LinksOnly(table, id) == [i \in DOMAIN table |->
    IF table[i].of = id /\ "taken" \in DOMAIN table[i]
    THEN [table[i] EXCEPT !.status = "purged"] ELSE table[i]]

(* hard_purge_buyer_account deletes the sessions and the links of an       *)
(* account, and its membership, before the account.                        *)
Without(table, id) == [i \in DOMAIN table |->
    IF table[i].of = id THEN [table[i] EXCEPT !.status = "purged"] ELSE table[i]]

(* The insert fails on the unique index of the address when another        *)
(* registration has committed.  The activation link is mailed with it.     *)
CommitRegister(r) ==
    /\ tx[r].op = "registering"
    /\ account.id \in {0, tx[r].purges}
    /\ NewAccount(FALSE, FALSE)
    /\ org' = [status |-> "DRAFT", verified |-> FALSE, deleted |-> FALSE]
    /\ sessions' = Without(sessions, tx[r].purges)
    /\ links' = Append(Without(links, tx[r].purges),
                       NewLink(accounts + 1, "activation"))
    /\ End(r)

(* The other realms take an address once and insert the account at once.   *)
(* Suppliers and customers are let in by the same request.                 *)
InsertAccount(r, mustChange, verified, opens) ==
    /\ account.id = 0
    /\ Starts(r)
    /\ NewAccount(mustChange, verified)
    /\ sessions' = IF opens THEN <<NewSession(accounts + 1, 0, 0)>> ELSE <<>>
    /\ UNCHANGED <<realm, org, links, tx>>

RegisterSupplier(r) == realm = "supplier" /\ InsertAccount(r, FALSE, TRUE, TRUE)

RegisterCustomer(r) == realm = "customer" /\ InsertAccount(r, FALSE, TRUE, TRUE)

Invite(r) == realm = "admin" /\ InsertAccount(r, TRUE, TRUE, FALSE)

CreateVendor(r) == realm = "seller" /\ InsertAccount(r, FALSE, FALSE, FALSE)

(* An admin of the shop turns a seller off and on.                         *)
UpdateVendor(r, active) ==
    /\ realm = "seller" /\ Present
    /\ Begin(r, [Plain EXCEPT !.put.account.active = active])

-----------------------------------------------------------------------------
(* Sessions.                                                               *)

\* mutant: a buyer need not have activated the account
Login_Unverified(r) ==
    /\ Present /\ account.active
    /\ Begin(r, [Plain EXCEPT !.opens = TRUE])

Login(r) ==
    /\ Present /\ account.active
    /\ realm = "buyer" => account.verified
    /\ Begin(r, [Plain EXCEPT !.opens = TRUE])

\* mutant: a revoked token is taken
Refresh_Revoked(r) == \E s \in DOMAIN sessions :
    /\ sessions[s].of = account.id /\ sessions[s].status # "purged"
    /\ Present /\ account.active
    /\ realm = "buyer" => account.verified
    /\ Begin(r, [Plain EXCEPT !.opens = TRUE, !.from = s, !.revokes = {s}])

Refresh(r) == \E s \in LiveSessions :
    /\ Present /\ account.active
    /\ realm = "buyer" => account.verified
    /\ Begin(r, [Plain EXCEPT !.opens = TRUE, !.from = s, !.revokes = {s}])

(* Logging out asks nothing of the session but that it is there.           *)
Logout(r) == \E s \in DOMAIN sessions :
    /\ sessions[s].of = account.id
    /\ Begin(r, [Plain EXCEPT !.revokes = {s}])

(* A new password in place of the current one keeps the sessions.          *)
ChangePassword(r) ==
    /\ SignedIn
    /\ Begin(r, [Plain EXCEPT !.put.account.mustChange = FALSE])

-----------------------------------------------------------------------------
(* Links: password resets and activations.                                 *)

RequestReset(r) ==
    /\ Present /\ account.active
    /\ realm = "buyer" => account.verified
    /\ Begin(r, [Plain EXCEPT !.mails = "reset", !.ends = Pending("reset")])

ResetPassword(r) == \E l \in Pending("reset") :
    /\ Present /\ account.active
    /\ Begin(r, [Plain EXCEPT !.op = "resetting", !.takes = l,
                              !.put.account.mustChange = FALSE])

(* The second query of a reset: the sessions that are live by now.         *)
\* mutant: the sessions stay
ListSessions_None(r) ==
    /\ tx[r].op = "resetting"
    /\ tx' = [tx EXCEPT ![r].op = "work"]
    /\ UNCHANGED <<realm, rows, accounts, requests, resets, overlapped>>

ListSessions(r) ==
    /\ tx[r].op = "resetting"
    /\ tx' = [tx EXCEPT ![r] = [@ EXCEPT !.op = "work",
                 !.revokes = {s \in DOMAIN sessions : /\ sessions[s].of = tx[r].seen.account.id
                                                      /\ sessions[s].status = "live"}]]
    /\ UNCHANGED <<realm, rows, accounts, requests, resets, overlapped>>

ResendActivation(r) ==
    /\ realm = "buyer" /\ Present /\ ~account.verified
    /\ Begin(r, [Plain EXCEPT !.mails = "activation"])

(* The organisation as approved, unless it is deleted.                     *)
Approved(o) == IF o.deleted THEN o ELSE [o EXCEPT !.status = "APPROVED", !.verified = TRUE]

Activate(r) == \E l \in Pending("activation") :
    /\ Present /\ account.active
    /\ Begin(r, [Plain EXCEPT !.put.account.verified = TRUE, !.put.org = Approved(@),
                              !.takes = l, !.opens = TRUE])

(* A used activation link lets a verified buyer in once more.              *)
ActivateAgain(r) == \E l \in DOMAIN links :
    /\ links[l].of = account.id /\ links[l].kind = "activation" /\ links[l].status = "used"
    /\ Present /\ account.active /\ account.verified
    /\ Begin(r, [Plain EXCEPT !.opens = TRUE])

-----------------------------------------------------------------------------
(* The organisation of a buyer.                                            *)

(* A buyer's request on the hub: whatever the admins decided, the          *)
(* organisation of an activated buyer is approved by it.                   *)
RequireOnboardedBuyer(r) ==
    /\ realm = "buyer"
    /\ PasswordChanged /\ account.verified /\ ~org.deleted
    /\ org.status # "APPROVED"
    /\ Begin(r, [Plain EXCEPT !.put.org = Approved(@)])

Reviews(r, work) ==
    /\ realm = "buyer" /\ account.id # 0 /\ ~org.deleted
    /\ Begin(r, work)

VerifyBuyer(r, approved) ==
    Reviews(r, [Plain EXCEPT !.put.org.status = IF approved THEN "APPROVED" ELSE "REJECTED",
                             !.put.org.verified = approved])

\* mutant: the buyer stays verified
RequestBuyerInfo_StaysVerified(r) ==
    /\ org.status \in {"PENDING", "APPROVED", "ACTION_REQUIRED"}
    /\ Reviews(r, [Plain EXCEPT !.put.org.status = "ACTION_REQUIRED"])

RequestBuyerInfo(r) ==
    /\ org.status \in {"PENDING", "APPROVED", "ACTION_REQUIRED"}
    /\ Reviews(r, [Plain EXCEPT !.put.org.status = "ACTION_REQUIRED",
                                !.put.org.verified = FALSE])

SuspendBuyer(r) ==
    /\ org.status = "APPROVED"
    /\ Reviews(r, [Plain EXCEPT !.put.org.status = "SUSPENDED", !.put.org.verified = FALSE])

RestoreBuyer(r) ==
    /\ org.status \in {"SUSPENDED", "REJECTED"}
    /\ Reviews(r, [Plain EXCEPT !.put.org.status = "APPROVED", !.put.org.verified = TRUE])

(* Deleting the organisation deletes its accounts with it: softly, or for  *)
(* good when it has no RFQ.                                                *)
DeleteBuyerOrg(r) ==
    \/ Reviews(r, [Plain EXCEPT !.put.org.deleted = TRUE, !.put.account.deleted = TRUE])
    \/ Reviews(r, [op |-> "deleting", purges |-> account.id])

CommitDelete(r) ==
    /\ tx[r].op = "deleting"
    /\ sessions' = Without(sessions, tx[r].purges)
    /\ links' = Without(links, tx[r].purges)
    /\ IF account.id = tx[r].purges
       THEN account' = NoAccount /\ org' = NoOrg
       ELSE UNCHANGED <<account, org>>
    /\ End(r)
    /\ UNCHANGED <<accounts, resets>>

-----------------------------------------------------------------------------
(* The end of a request.                                                   *)

(* The rows it updates are there; one that only mails a link updates none. *)
Fits(w) == w.seen.account.id = account.id

Mailed(w, table) ==
    IF w.mails = "none" THEN table ELSE Append(table, NewLink(w.seen.account.id, w.mails))

Taken(w) == [l \in DOMAIN links |->
    IF l = w.takes THEN [links[l] EXCEPT !.status = "used", !.taken = @ + 1]
    ELSE IF l \in w.ends THEN [links[l] EXCEPT !.status = "used"] ELSE links[l]]

Revoked(w) == [s \in DOMAIN sessions |->
    IF s \in w.revokes THEN [sessions[s] EXCEPT !.status = "revoked"] ELSE sessions[s]]

Commit(r) == LET w == tx[r] IN
    /\ w.op = "work" /\ Fits(w)
    /\ account' = Flushed(account, w.seen.account, w.put.account)
    /\ org' = Flushed(org, w.seen.org, w.put.org)
    /\ sessions' = Revoked(w) \o
          (IF w.opens THEN <<NewSession(account.id, w.resets, w.from)>> ELSE <<>>)
    /\ links' = Mailed(w, Taken(w))
    /\ resets' = IF w.takes # 0 /\ links[w.takes].kind = "reset" THEN resets + 1 ELSE resets
    /\ End(r)
    /\ UNCHANGED accounts

(* The account was purged meanwhile: nothing but the mailed link is left.  *)
CommitOrphan(r) == LET w == tx[r] IN
    /\ w.op = "work" /\ ~Fits(w) /\ w.mails # "none"
    /\ links' = Mailed(w, links)
    /\ End(r)
    /\ UNCHANGED <<account, org, sessions, accounts, resets>>

(* An exception, a constraint, a row that is gone, a worker that dies.     *)
Rollback(r) == Busy(r) /\ End(r) /\ UNCHANGED <<rows, accounts, resets>>

-----------------------------------------------------------------------------
(* The services and the endpoints that call them.                          *)

BuyerAuthService(r) ==
    /\ realm = "buyer"
    /\ \/ RegisterBuyer(r) \/ Activate(r) \/ ActivateAgain(r)
       \/ Login(r) \/ Refresh(r) \/ Logout(r) \/ ChangePassword(r)

SupplierAuthService(r) ==
    /\ realm = "supplier"
    /\ \/ RegisterSupplier(r) \/ Login(r) \/ Refresh(r) \/ Logout(r) \/ ChangePassword(r)

AdminAuthService(r) ==
    /\ realm = "admin"
    /\ \/ Invite(r) \/ Login(r) \/ Refresh(r) \/ Logout(r) \/ ChangePassword(r)

EcommerceCustomerAuthService(r) ==
    /\ realm = "customer"
    /\ \/ RegisterCustomer(r) \/ Login(r) \/ Refresh(r) \/ Logout(r)

EcommerceSellerAuthService(r) ==
    realm = "seller" /\ (Login(r) \/ Refresh(r) \/ Logout(r))

EcommerceAdminAuthService(r) ==
    realm = "shop_admin" /\ (Login(r) \/ Refresh(r) \/ Logout(r))

PasswordResetService(r) ==
    /\ realm \in {"buyer", "supplier", "admin"}
    /\ (RequestReset(r) \/ ResetPassword(r) \/ ListSessions(r))

EcommercePasswordResetService(r) ==
    /\ realm \in {"customer", "seller", "shop_admin"}
    /\ \/ RequestReset(r) \/ ResetPassword(r) \/ ListSessions(r)
       \/ ChangePassword(r)

BuyerAuth(r) ==
    BuyerAuthService(r) \/ ResendActivation(r) \/ (realm = "buyer" /\ PasswordResetService(r))

SupplierAuth(r) ==
    SupplierAuthService(r) \/ (realm = "supplier" /\ PasswordResetService(r))

AdminAuth(r) ==
    AdminAuthService(r) \/ (realm = "admin" /\ PasswordResetService(r))

ShopAuth(r) ==
    \/ EcommerceCustomerAuthService(r)
    \/ EcommerceSellerAuthService(r)
    \/ EcommerceAdminAuthService(r)

ShopPasswords(r) == EcommercePasswordResetService(r)

ShopVendors(r) ==
    CreateVendor(r) \/ \E active \in BOOLEAN : UpdateVendor(r, active)

BuyerAdmin(r) ==
    \/ \E approved \in BOOLEAN : VerifyBuyer(r, approved)
    \/ RequestBuyerInfo(r) \/ SuspendBuyer(r) \/ RestoreBuyer(r) \/ DeleteBuyerOrg(r)

Next == \E r \in Reqs :
    \/ BuyerAuth(r) \/ SupplierAuth(r) \/ AdminAuth(r)
    \/ ShopAuth(r) \/ ShopPasswords(r) \/ ShopVendors(r)
    \/ RequireOnboardedBuyer(r) \/ BuyerAdmin(r)
    \/ CommitRegister(r) \/ CommitDelete(r) \/ Commit(r) \/ CommitOrphan(r) \/ Rollback(r)

Spec == Init /\ [][Next]_vars

-----------------------------------------------------------------------------
(* PROPERTIES.  Those that start with ~overlapped hold until two requests  *)
(* of the account overlap: none of the rows is locked.                     *)

(* No buyer is let in who has not activated the account: a session that is *)
(* live belongs to a verified buyer, also when an address is taken again.  *)
OnlyVerifiedBuyersEnter ==
    realm = "buyer" => \A s \in LiveSessions : account.verified

(* A reset ends every session there is: a session that is live was granted *)
(* after the last reset of its account (revoke_all_account_sessions).      *)
SessionsEndWithReset ==
    ~overlapped => \A s \in LiveSessions : sessions[s].resets = resets

(* A refresh token is good for one refresh: no two sessions were refreshed *)
(* from one, and a session that was refreshed is revoked.                  *)
OneSuccessor ==
    ~overlapped => \A s \in DOMAIN sessions : sessions[s].from # 0 =>
        /\ sessions[sessions[s].from].status # "live"
        /\ \A t \in DOMAIN sessions : sessions[t].from = sessions[s].from => t = s

(* Of the reset links mailed to an account only the last one is good.      *)
OneLiveLink ==
    ~overlapped => \A l, k \in Pending("reset") : l = k

(* A link, of a reset or of an activation, is taken once.                  *)
LinkTakenOnce ==
    ~overlapped => \A l \in DOMAIN links : links[l].taken <= 1

(* A purge leaves nothing behind: a session or a link that is still there  *)
(* belongs to the account that has the address now.                        *)
NothingOutlivesAPurge ==
    ~overlapped =>
        /\ \A s \in DOMAIN sessions : sessions[s].status # "purged" => sessions[s].of = account.id
        /\ \A l \in DOMAIN links : links[l].status # "purged" => links[l].of = account.id

(* The two columns that say a buyer is approved agree.                     *)
VerifiedAgrees ==
    ~overlapped => (org.verified <=> org.status = "APPROVED")

(* An organisation is deleted together with its account.                   *)
DeletedTogether ==
    ~overlapped /\ realm = "buyer" => (org.deleted <=> ~Present)

(* The named parts together: what the run checks.                          *)

(* A token is good for one use: that of a session, and the link of a mail, *)
(* of which only the last one is good.                                     *)
EachTokenOnce ==
    /\ OneSuccessor
    /\ OneLiveLink
    /\ LinkTakenOnce

(* The rows are of their types, and account and organisation agree.        *)
RowsAgree ==
    /\ TypeOK
    /\ VerifiedAgrees
    /\ DeletedTogether
=============================================================================
