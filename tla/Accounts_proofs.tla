---------------------------- MODULE Accounts_proofs ----------------------------
(***************************************************************************)
(* Proofs about Accounts.  One inductive invariant: its first part holds   *)
(* however the requests overlap, the second until two of them do.          *)
(***************************************************************************)
EXTENDS Accounts, TLAPS

(***************************************************************************)
(* The inductive invariant.                                                *)
(***************************************************************************)
Buyers == realm = "buyer"

(* The numbers of the accounts there were are 1..accounts.                 *)
NumbersAreSpent ==
    /\ account.id \in 0..accounts
    /\ \A s \in DOMAIN sessions : sessions[s].of \in 1..accounts
    /\ \A l \in DOMAIN links : links[l].of \in 1..accounts

(* What holds of a unit of work whatever committed since it was begun: it  *)
(* is about one account, and nobody takes a buyer's verification back.     *)
Sound(w) ==
    w.op \in {"work", "resetting"} =>
        /\ w.seen.account.id \in 1..accounts
        /\ w.put.account.id = w.seen.account.id
        /\ Buyers =>
              /\ w.seen.account.verified \/ w.opens => w.put.account.verified
              /\ Fits(w) /\ w.seen.account.verified => account.verified

AllSound == \A r \in Reqs : Sound(tx[r])

OverlapInv ==
    /\ TypeOK
    /\ NumbersAreSpent
    /\ AllSound
    /\ OnlyVerifiedBuyersEnter

(* What holds of a unit of work that nothing overlapped: it has the rows as*)
(* they are, what it puts agrees, and what it revokes, ends and takes is   *)
(* still there to be.                                                      *)
PutAgrees(w) ==
    /\ w.put.org.verified <=> w.put.org.status = "APPROVED"
    /\ Buyers => (w.put.org.deleted <=> w.put.account.deleted)

TokensInHand(w) ==
    /\ \A s \in w.revokes : s \in DOMAIN sessions /\ sessions[s].of = account.id
    /\ w.from # 0 => w.from \in LiveSessions /\ w.from \in w.revokes
    /\ w.ends = IF w.mails = "reset" THEN Pending("reset") ELSE {}
    /\ w.takes # 0 =>
          /\ w.takes \in DOMAIN links
          /\ links[w.takes].of = account.id
          /\ links[w.takes].status = "unused"
          /\ links[w.takes].kind = "reset" =>
                ~w.opens /\ (w.op = "work" => LiveSessions \subseteq w.revokes)

Fresh(w) ==
    /\ w.op \in {"registering", "deleting"} => w.purges = account.id
    /\ w.op \in {"work", "resetting"} =>
          /\ w.seen.account = account /\ w.seen.org = org /\ w.resets = resets
          /\ PutAgrees(w)
          /\ TokensInHand(w)

AllFresh == \A r \in Reqs : Fresh(tx[r])

Alone == \A r, s \in Reqs : Busy(r) /\ Busy(s) => r = s

SessionsAreGood ==
    /\ \A s \in LiveSessions : sessions[s].resets = resets
    /\ \A s \in DOMAIN sessions : sessions[s].from # 0 =>
          /\ sessions[s].from \in DOMAIN sessions
          /\ sessions[sessions[s].from].status # "live"
          /\ \A t \in DOMAIN sessions : sessions[t].from = sessions[s].from => t = s
    /\ \A s \in DOMAIN sessions : sessions[s].status # "purged" => sessions[s].of = account.id

LinksAreGood ==
    /\ \A l, k \in Pending("reset") : l = k
    /\ \A l \in DOMAIN links :
          /\ links[l].taken <= 1
          /\ links[l].status = "unused" => links[l].taken = 0
          /\ links[l].status # "purged" => links[l].of = account.id

OrgIsGood ==
    /\ org.verified <=> org.status = "APPROVED"
    /\ Buyers => (org.deleted <=> ~Present)

SerialInv ==
    /\ Alone
    /\ AllFresh
    /\ SessionsAreGood
    /\ LinksAreGood
    /\ OrgIsGood

AccountsInv == OverlapInv /\ (~overlapped => SerialInv)

(***************************************************************************)
(* Rows, tables and what a request has in hand.                            *)
(***************************************************************************)
LEMMA TableAfter ==
    ASSUME NEW Row, NEW table \in Seq(Row), NEW new \in [DOMAIN table -> Row]
    PROVE  new \in Seq(Row) /\ DOMAIN new = DOMAIN table /\ Len(new) = Len(table)
  OBVIOUS

LEMMA TableLonger ==
    ASSUME NEW Row, NEW table \in Seq(Row), NEW row \in Row
    PROVE  LET new == Append(table, row)
               n == Len(table) + 1
           IN  /\ new \in Seq(Row)
               /\ n \in Nat \ {0}
               /\ n \notin DOMAIN table /\ DOMAIN new = DOMAIN table \cup {n}
               /\ new[n] = row /\ \A i \in DOMAIN table : new[i] = table[i]
  OBVIOUS

LEMMA NewRows ==
    ASSUME NEW a \in Nat, NEW n \in Nat, NEW from \in Nat,
           NEW kind \in {"reset", "activation"}
    PROVE  NewSession(a, n, from) \in SessionRow /\ NewLink(a, kind) \in LinkRow
  BY DEF NewSession, NewLink, SessionRow, LinkRow

LEMMA FlushedAccount ==
    ASSUME NEW row \in AccountRow, NEW seen \in AccountRow, NEW put \in AccountRow
    PROVE  /\ Flushed(row, seen, put) \in AccountRow
           /\ Flushed(row, seen, put).id = IF put.id = seen.id THEN row.id ELSE put.id
           /\ Flushed(row, seen, put).verified =
                 IF put.verified = seen.verified THEN row.verified ELSE put.verified
           /\ seen = row => Flushed(row, seen, put) = put
<1> DEFINE new == Flushed(row, seen, put)
<1>1. DOMAIN row = {"id", "mustChange", "active", "verified", "deleted"}
  BY DEF AccountRow
<1>2. new = [c \in {"id", "mustChange", "active", "verified", "deleted"} |->
                 IF put[c] = seen[c] THEN row[c] ELSE put[c]]
  BY <1>1 DEF Flushed
<1>3. new = [id |-> new.id, mustChange |-> new.mustChange, active |-> new.active,
             verified |-> new.verified, deleted |-> new.deleted]
  BY <1>2
<1> QED
  BY <1>2, <1>3 DEF AccountRow

LEMMA FlushedOrg ==
    ASSUME NEW row \in OrgRow, NEW seen \in OrgRow, NEW put \in OrgRow
    PROVE  /\ Flushed(row, seen, put) \in OrgRow
           /\ seen = row => Flushed(row, seen, put) = put
<1> DEFINE new == Flushed(row, seen, put)
<1>1. DOMAIN row = {"status", "verified", "deleted"}
  BY DEF OrgRow
<1>2. new = [c \in {"status", "verified", "deleted"} |->
                 IF put[c] = seen[c] THEN row[c] ELSE put[c]]
  BY <1>1 DEF Flushed
<1>3. new = [status |-> new.status, verified |-> new.verified, deleted |-> new.deleted]
  BY <1>2
<1> QED
  BY <1>2, <1>3 DEF OrgRow

LEMMA WorkInHand ==
    ASSUME TypeOK, NEW r \in Reqs, tx[r].op \in {"work", "resetting"}
    PROVE  tx[r] \in Work
  BY DEF TypeOK, Tx, Idle

LEMMA PurgeInHand ==
    ASSUME TypeOK, NEW r \in Reqs, tx[r].op \in {"registering", "deleting"}
    PROVE  tx[r].purges \in Nat
  BY DEF TypeOK, Tx, Work

LEMMA SlotAfter ==
    ASSUME TypeOK, NEW r \in Reqs, NEW work, tx' = [tx EXCEPT ![r] = work]
    PROVE  \A o \in Reqs : tx'[o] = IF o = r THEN work ELSE tx[o]
  BY DEF TypeOK

LEMMA BeginType ==
    ASSUME TypeOK, NEW r \in Reqs, NEW work \in Tx, Begin(r, work)
    PROVE  /\ TypeOK'
           /\ \A o \in Reqs : tx'[o] = IF o = r THEN work ELSE tx[o]
  BY SlotAfter DEF TypeOK, Begin, Starts, rows

LEMMA EndType ==
    ASSUME TypeOK, NEW r \in Reqs, End(r)
    PROVE  /\ tx' \in [Reqs -> Tx] /\ realm' = realm /\ requests' \in Nat
           /\ overlapped' = overlapped
           /\ \A o \in Reqs : tx'[o] = IF o = r THEN Idle ELSE tx[o]
<1>1. Idle \in Tx
  BY DEF Tx, Idle
<1> QED
  BY <1>1, SlotAfter DEF TypeOK, End

LEMMA PlainType ==
    ASSUME TypeOK
    PROVE  /\ Plain \in Work /\ Plain.op = "work"
           /\ Plain.seen.account = account /\ Plain.seen.org = org
           /\ Plain.put.account = account /\ Plain.put.org = org
           /\ Plain.resets = resets /\ Plain.opens = FALSE /\ Plain.from = 0
           /\ Plain.revokes = {} /\ Plain.takes = 0 /\ Plain.ends = {}
           /\ Plain.mails = "none"
  BY DEF TypeOK, Plain, Work

(***************************************************************************)
(* What a unit of work does to the two tables.                             *)
(***************************************************************************)
LEMMA RevokedRows ==
    ASSUME TypeOK, NEW w \in Work
    PROVE  /\ Revoked(w) \in Seq(SessionRow) /\ DOMAIN Revoked(w) = DOMAIN sessions
           /\ \A s \in DOMAIN sessions :
                 /\ Revoked(w)[s].of = sessions[s].of
                 /\ Revoked(w)[s].from = sessions[s].from
                 /\ Revoked(w)[s].resets = sessions[s].resets
                 /\ Revoked(w)[s].status =
                       IF s \in w.revokes THEN "revoked" ELSE sessions[s].status
<1>1. sessions \in Seq(SessionRow) /\ \A s \in DOMAIN sessions : sessions[s] \in SessionRow
  BY DEF TypeOK
<1>2. Revoked(w) \in [DOMAIN sessions -> SessionRow]
  BY <1>1 DEF Revoked, SessionRow
<1> QED
  BY <1>1, <1>2, TableAfter DEF Revoked, SessionRow

LEMMA TakenRows ==
    ASSUME TypeOK, NEW w \in Work
    PROVE  /\ Taken(w) \in Seq(LinkRow) /\ DOMAIN Taken(w) = DOMAIN links
           /\ \A l \in DOMAIN links :
                 /\ Taken(w)[l].of = links[l].of
                 /\ Taken(w)[l].kind = links[l].kind
                 /\ Taken(w)[l].status =
                       IF l = w.takes \/ l \in w.ends THEN "used" ELSE links[l].status
                 /\ Taken(w)[l].taken =
                       IF l = w.takes THEN links[l].taken + 1 ELSE links[l].taken
<1>1. links \in Seq(LinkRow) /\ \A l \in DOMAIN links : links[l] \in LinkRow
  BY DEF TypeOK
<1>2. ASSUME NEW row \in LinkRow
      PROVE  /\ [row EXCEPT !.status = "used"] \in LinkRow
             /\ [row EXCEPT !.status = "used", !.taken = row.taken + 1] \in LinkRow
  <2>1. row.taken + 1 \in Nat
    BY DEF LinkRow
  <2>2. \A n \in Nat : [row EXCEPT !.status = "used", !.taken = n] \in LinkRow
    BY DEF LinkRow
  <2>3. [row EXCEPT !.status = "used"] \in LinkRow
    BY DEF LinkRow
  <2> QED
    BY <2>1, <2>2, <2>3
<1>3. Taken(w) \in [DOMAIN links -> LinkRow]
  BY <1>1, <1>2 DEF Taken
<1> QED
  BY <1>1, <1>3, TableAfter DEF Taken, LinkRow

LEMMA WithoutSessions ==
    ASSUME TypeOK, NEW a \in Nat
    PROVE  LET new == Without(sessions, a)
           IN  /\ new \in Seq(SessionRow) /\ DOMAIN new = DOMAIN sessions
               /\ \A s \in DOMAIN sessions :
                     /\ new[s].of = sessions[s].of
                     /\ new[s].from = sessions[s].from
                     /\ new[s].resets = sessions[s].resets
                     /\ new[s].status =
                           IF sessions[s].of = a THEN "purged" ELSE sessions[s].status
<1>1. sessions \in Seq(SessionRow) /\ \A s \in DOMAIN sessions : sessions[s] \in SessionRow
  BY DEF TypeOK
<1>2. Without(sessions, a) \in [DOMAIN sessions -> SessionRow]
  BY <1>1 DEF Without, SessionRow
<1> QED
  BY <1>1, <1>2, TableAfter DEF Without, SessionRow

LEMMA WithoutLinks ==
    ASSUME TypeOK, NEW a \in Nat
    PROVE  LET new == Without(links, a)
           IN  /\ new \in Seq(LinkRow) /\ DOMAIN new = DOMAIN links
               /\ \A l \in DOMAIN links :
                     /\ new[l].of = links[l].of
                     /\ new[l].kind = links[l].kind
                     /\ new[l].taken = links[l].taken
                     /\ new[l].status =
                           IF links[l].of = a THEN "purged" ELSE links[l].status
<1>1. links \in Seq(LinkRow) /\ \A l \in DOMAIN links : links[l] \in LinkRow
  BY DEF TypeOK
<1>2. Without(links, a) \in [DOMAIN links -> LinkRow]
  BY <1>1 DEF Without, LinkRow
<1> QED
  BY <1>1, <1>2, TableAfter DEF Without, LinkRow

(***************************************************************************)
(* The initial states.                                                     *)
(***************************************************************************)
LEMMA InitInv == Init => AccountsInv
<1> SUFFICES ASSUME Init PROVE AccountsInv
  OBVIOUS
<1>1. tx \in [Reqs -> Tx] /\ \A r \in Reqs : tx[r] = Idle
  BY DEF Init, Tx, Idle
<1>2. /\ sessions \in Seq(SessionRow) /\ links \in Seq(LinkRow)
      /\ DOMAIN sessions = {} /\ DOMAIN links = {}
  BY DEF Init
<1>3. account \in AccountRow /\ org \in OrgRow
  BY DEF Init, NoAccount, NoOrg, AccountRow, OrgRow, VerificationStatus
<1>4. accounts \in Nat /\ account.id \in 0..accounts
  BY <1>3 DEF Init, AccountRow
<1>5. TypeOK
  BY <1>1, <1>2, <1>3, <1>4 DEF TypeOK, Init
<1>6. NumbersAreSpent
  BY <1>2, <1>4 DEF NumbersAreSpent
<1>7. \A r \in Reqs : Sound(tx[r]) /\ Fresh(tx[r]) /\ ~Busy(r)
  BY <1>1 DEF Sound, Fresh, Busy, Idle
<1>8. OnlyVerifiedBuyersEnter /\ SessionsAreGood
  BY <1>2 DEF OnlyVerifiedBuyersEnter, SessionsAreGood, LiveSessions
<1>9. LinksAreGood
  BY <1>2 DEF LinksAreGood, Pending
<1>10. OrgIsGood
  BY DEF Init, OrgIsGood, NoOrg, NoAccount, Present, Buyers
<1> QED
  BY <1>5, <1>6, <1>7, <1>8, <1>9, <1>10 DEF AccountsInv, OverlapInv, SerialInv, AllSound, AllFresh, Alone

(***************************************************************************)
(* The requests begin.                                                     *)
(***************************************************************************)
LEMMA AfterBegin ==
    ASSUME AccountsInv, NEW r \in Reqs, NEW work \in Tx, Begin(r, work),
           Sound(work), ~overlapped => Fresh(work)
    PROVE  AccountsInv'
<1>1. /\ TypeOK'
      /\ \A o \in Reqs : tx'[o] = IF o = r THEN work ELSE tx[o]
  BY BeginType DEF AccountsInv, OverlapInv
<1>2. /\ realm' = realm /\ account' = account /\ org' = org
      /\ sessions' = sessions /\ links' = links /\ accounts' = accounts /\ resets' = resets
  BY DEF Begin, rows
<1>3. OverlapInv'
  <2>1. NumbersAreSpent'
    BY <1>2 DEF AccountsInv, OverlapInv, NumbersAreSpent
  <2>2. AllSound'
    BY <1>1, <1>2 DEF AccountsInv, OverlapInv, AllSound, Sound, Fits, Buyers
  <2>3. OnlyVerifiedBuyersEnter'
    BY <1>2 DEF AccountsInv, OverlapInv, OnlyVerifiedBuyersEnter, LiveSessions
  <2> QED
    BY <1>1, <2>1, <2>2, <2>3 DEF OverlapInv
<1>4. ASSUME ~overlapped' PROVE SerialInv'
  <2>1. ~overlapped /\ \A o \in Reqs : ~Busy(o)
    BY <1>4 DEF Begin, Starts
  <2>2. Alone'
    BY <1>1, <2>1 DEF Alone, Busy
  <2>3. \A o \in Reqs : tx'[o].op # "idle" => tx'[o] = work
    BY <1>1, <2>1 DEF Busy
  <2>4. AllFresh'
    BY <1>2, <2>1, <2>3 DEF AllFresh, Fresh, PutAgrees, TokensInHand, LiveSessions, Pending, Buyers
  <2>5. SessionsAreGood' /\ LinksAreGood' /\ OrgIsGood'
    BY <1>2, <2>1 DEF AccountsInv, SerialInv, SessionsAreGood, LinksAreGood, OrgIsGood,
                      LiveSessions, Pending, Present, Buyers
  <2> QED
    BY <2>2, <2>4, <2>5 DEF SerialInv
<1> QED
  BY <1>3, <1>4 DEF AccountsInv

LEMMA AfterWork ==
    ASSUME AccountsInv, NEW r \in Reqs, NEW work \in Work, Begin(r, work),
           account.id # 0,
           work.seen.account = account, work.seen.org = org, work.resets = resets,
           work.put.account.id = account.id,
           Buyers => (account.verified \/ work.opens => work.put.account.verified),
           OrgIsGood => PutAgrees(work),
           TokensInHand(work)
    PROVE  AccountsInv'
<1>1. work \in Tx /\ work.op \in {"work", "resetting"}
  BY DEF Tx, Work
<1>2. account.id \in 1..accounts
  BY DEF AccountsInv, OverlapInv, NumbersAreSpent, TypeOK
<1>3. Sound(work)
  BY <1>2 DEF Sound
<1>4. ~overlapped => Fresh(work)
  BY <1>1 DEF AccountsInv, SerialInv, Fresh
<1> QED
  BY <1>1, <1>3, <1>4, AfterBegin

LEMMA AfterPurge ==
    ASSUME AccountsInv, NEW r \in Reqs, NEW op \in {"registering", "deleting"},
           Begin(r, [op |-> op, purges |-> account.id])
    PROVE  AccountsInv'
<1> DEFINE work == [op |-> op, purges |-> account.id]
<1>1. work \in Tx /\ Sound(work) /\ Fresh(work)
  BY DEF AccountsInv, OverlapInv, TypeOK, AccountRow, Tx, Sound, Fresh
<1>2. Begin(r, work)
  OBVIOUS
<1> HIDE DEF work
<1> QED
  BY <1>1, <1>2, AfterBegin

LEMMA SessionsAreOfAccounts ==
    ASSUME AccountsInv, NEW s \in DOMAIN sessions, sessions[s].of = account.id
    PROVE  account.id # 0 /\ s \in Nat
  BY DEF AccountsInv, OverlapInv, NumbersAreSpent, TypeOK

LEMMA NoTokens ==
    ASSUME NEW work \in Work, work.revokes = {}, work.from = 0, work.ends = {},
           work.mails # "reset", work.takes = 0
    PROVE  TokensInHand(work)
  BY DEF TokensInHand

LEMMA AfterLogin ==
    ASSUME AccountsInv, NEW r \in Reqs, Login(r) \/ ActivateAgain(r)
    PROVE  AccountsInv'
<1> DEFINE work == [Plain EXCEPT !.opens = TRUE]
<1>1. Begin(r, work) /\ account.id # 0 /\ (Buyers => account.verified)
  BY DEF Login, ActivateAgain, Present, Buyers
<1>2. /\ work \in Work
      /\ work.seen.account = account /\ work.seen.org = org /\ work.resets = resets
      /\ work.put.account = account /\ work.put.org = org
      /\ work.revokes = {} /\ work.from = 0 /\ work.ends = {} /\ work.mails = "none"
      /\ work.takes = 0
  BY PlainType DEF AccountsInv, OverlapInv, Work
<1> HIDE DEF work
<1>3. OrgIsGood => PutAgrees(work)
  BY <1>1, <1>2 DEF OrgIsGood, PutAgrees, Present
<1> QED
  BY <1>1, <1>2, <1>3, NoTokens, AfterWork

LEMMA AfterRefresh ==
    ASSUME AccountsInv, NEW r \in Reqs, Refresh(r)
    PROVE  AccountsInv'
<1>1. PICK s \in LiveSessions :
        /\ account.id # 0 /\ (Buyers => account.verified)
        /\ Begin(r, [Plain EXCEPT !.opens = TRUE, !.from = s, !.revokes = {s}])
  BY DEF Refresh, Present, Buyers
<1> DEFINE work == [Plain EXCEPT !.opens = TRUE, !.from = s, !.revokes = {s}]
<1>2. s \in Nat /\ s \in DOMAIN sessions /\ sessions[s].of = account.id
  BY SessionsAreOfAccounts DEF LiveSessions
<1>3. /\ work \in Work
      /\ work.seen.account = account /\ work.seen.org = org /\ work.resets = resets
      /\ work.put.account = account /\ work.put.org = org
      /\ work.revokes = {s} /\ work.from = s /\ work.ends = {} /\ work.mails = "none"
      /\ work.takes = 0
  BY <1>2, PlainType DEF AccountsInv, OverlapInv, Work
<1>4. Begin(r, work)
  BY <1>1
<1> HIDE DEF work
<1>5. OrgIsGood => PutAgrees(work)
  BY <1>1, <1>3 DEF OrgIsGood, PutAgrees, Present
<1>6. TokensInHand(work)
  BY <1>2, <1>3 DEF TokensInHand
<1> QED
  BY <1>1, <1>3, <1>4, <1>5, <1>6, AfterWork

LEMMA AfterLogout ==
    ASSUME AccountsInv, NEW r \in Reqs, Logout(r)
    PROVE  AccountsInv'
<1>1. PICK s \in DOMAIN sessions :
        sessions[s].of = account.id /\ Begin(r, [Plain EXCEPT !.revokes = {s}])
  BY DEF Logout
<1> DEFINE work == [Plain EXCEPT !.revokes = {s}]
<1>2. s \in Nat /\ account.id # 0
  BY <1>1, SessionsAreOfAccounts
<1>3. /\ work \in Work
      /\ work.seen.account = account /\ work.seen.org = org /\ work.resets = resets
      /\ work.put.account = account /\ work.put.org = org /\ work.opens = FALSE
      /\ work.revokes = {s} /\ work.from = 0 /\ work.ends = {} /\ work.mails = "none"
      /\ work.takes = 0
  BY <1>2, PlainType DEF AccountsInv, OverlapInv, Work
<1>4. Begin(r, work)
  BY <1>1
<1> HIDE DEF work
<1>5. OrgIsGood => PutAgrees(work)
  BY <1>2, <1>3 DEF OrgIsGood, PutAgrees, Present
<1>6. TokensInHand(work)
  BY <1>1, <1>3 DEF TokensInHand
<1> QED
  BY <1>2, <1>3, <1>4, <1>5, <1>6, AfterWork

(* Requests that change the account or the organisation, and no token.     *)
OnlyPuts(work, a, o) ==
    /\ work \in Work
    /\ work.seen.account = account /\ work.seen.org = org /\ work.resets = resets
    /\ work.put.account = a /\ work.put.org = o /\ work.opens = FALSE
    /\ work.revokes = {} /\ work.from = 0 /\ work.ends = {} /\ work.mails = "none"
    /\ work.takes = 0

LEMMA AfterPut ==
    ASSUME AccountsInv, NEW r \in Reqs, NEW a \in AccountRow, NEW o \in OrgRow,
           NEW work, Begin(r, work), OnlyPuts(work, a, o), account.id # 0,
           a.id = account.id, account.verified => a.verified,
           OrgIsGood => /\ o.verified <=> o.status = "APPROVED"
                        /\ Buyers => (o.deleted <=> a.deleted)
    PROVE  AccountsInv'
<1>1. OrgIsGood => PutAgrees(work)
  BY DEF PutAgrees, OnlyPuts
<1> QED
  BY <1>1, NoTokens, AfterWork DEF OnlyPuts

LEMMA AfterAccountPut ==
    ASSUME AccountsInv, NEW r \in Reqs,
           ChangePassword(r) \/ \E active \in BOOLEAN : UpdateVendor(r, active)
    PROVE  AccountsInv'
<1>1. /\ account \in AccountRow /\ org \in OrgRow /\ TypeOK
      /\ account.id # 0 /\ (OrgIsGood => (org.verified <=> org.status = "APPROVED"))
      /\ OrgIsGood /\ Buyers => (org.deleted <=> account.deleted)
  BY DEF AccountsInv, OverlapInv, TypeOK, OrgIsGood, ChangePassword, UpdateVendor, SignedIn,
         Present
<1>2. CASE ChangePassword(r)
  <2> DEFINE work == [Plain EXCEPT !.put.account.mustChange = FALSE]
             a == [account EXCEPT !.mustChange = FALSE]
  <2>1. Begin(r, work)
    BY <1>2 DEF ChangePassword
  <2>2. OnlyPuts(work, a, org)
    BY <1>1 DEF OnlyPuts, Plain, Work, TypeOK, AccountRow
  <2>3. /\ a \in AccountRow /\ a.id = account.id
        /\ a.verified = account.verified /\ a.deleted = account.deleted
    BY <1>1 DEF AccountRow
  <2> HIDE DEF work, a
  <2> QED
    BY <1>1, <2>1, <2>2, <2>3, AfterPut
<1>3. ASSUME NEW active \in BOOLEAN, UpdateVendor(r, active) PROVE AccountsInv'
  <2> DEFINE work == [Plain EXCEPT !.put.account.active = active]
             a == [account EXCEPT !.active = active]
  <2>1. Begin(r, work)
    BY <1>3 DEF UpdateVendor
  <2>2. OnlyPuts(work, a, org)
    BY <1>1 DEF OnlyPuts, Plain, Work, TypeOK, AccountRow
  <2>3. /\ a \in AccountRow /\ a.id = account.id
        /\ a.verified = account.verified /\ a.deleted = account.deleted
    BY <1>1 DEF AccountRow
  <2> HIDE DEF work, a
  <2> QED
    BY <1>1, <2>1, <2>2, <2>3, AfterPut
<1> QED
  BY <1>2, <1>3

(* What the reviews of the admins, and a buyer's request, put.             *)
OrgStatuses(o) ==
    {p \in OrgRow : p.deleted = o.deleted /\ (p.verified <=> p.status = "APPROVED")}

LEMMA AfterOrgPut ==
    ASSUME AccountsInv, NEW r \in Reqs, NEW o \in OrgStatuses(org),
           NEW work, Begin(r, work), OnlyPuts(work, account, o), account.id # 0
    PROVE  AccountsInv'
<1>1. account \in AccountRow /\ org \in OrgRow /\ o \in OrgRow /\ o.deleted = org.deleted
  BY DEF AccountsInv, OverlapInv, TypeOK, OrgStatuses
<1>2. o.verified <=> o.status = "APPROVED"
  BY DEF OrgStatuses
<1>3. OrgIsGood /\ Buyers => (o.deleted <=> account.deleted)
  BY <1>1 DEF OrgIsGood, Present
<1> QED
  BY <1>1, <1>2, <1>3, AfterPut

LEMMA AfterReview ==
    ASSUME AccountsInv, NEW r \in Reqs,
           \/ \E approved \in BOOLEAN : VerifyBuyer(r, approved)
           \/ RequestBuyerInfo(r) \/ SuspendBuyer(r) \/ RestoreBuyer(r)
    PROVE  AccountsInv'
<1>1. account \in AccountRow /\ org \in OrgRow /\ TypeOK /\ account.id # 0
  BY DEF AccountsInv, OverlapInv, TypeOK, VerifyBuyer, RequestBuyerInfo, SuspendBuyer,
         RestoreBuyer, Reviews
<1>2. \E status \in VerificationStatus, verified \in BOOLEAN :
        /\ verified <=> status = "APPROVED"
        /\ Begin(r, [Plain EXCEPT !.put.org.status = status, !.put.org.verified = verified])
  BY DEF VerifyBuyer, RequestBuyerInfo, SuspendBuyer, RestoreBuyer, Reviews, VerificationStatus
<1>3. PICK status \in VerificationStatus, verified \in BOOLEAN :
        /\ verified <=> status = "APPROVED"
        /\ Begin(r, [Plain EXCEPT !.put.org.status = status, !.put.org.verified = verified])
  BY <1>2
<1> DEFINE work == [Plain EXCEPT !.put.org.status = status, !.put.org.verified = verified]
           o == [org EXCEPT !.status = status, !.verified = verified]
<1>4. Begin(r, work)
  BY <1>3
<1>5. o \in OrgStatuses(org)
  BY <1>1, <1>3 DEF OrgStatuses, OrgRow
<1>6. OnlyPuts(work, account, o)
  BY <1>1 DEF OnlyPuts, Plain, Work, TypeOK, OrgRow
<1> HIDE DEF work, o
<1> QED
  BY <1>1, <1>4, <1>5, <1>6, AfterOrgPut

LEMMA AfterOnboarded ==
    ASSUME AccountsInv, NEW r \in Reqs, RequireOnboardedBuyer(r)
    PROVE  AccountsInv'
<1>1. account \in AccountRow /\ org \in OrgRow /\ TypeOK /\ account.id # 0 /\ ~org.deleted
  BY DEF AccountsInv, OverlapInv, TypeOK, RequireOnboardedBuyer, PasswordChanged, SignedIn,
         Present
<1> DEFINE work == [Plain EXCEPT !.put.org = Approved(@)]
           o == [org EXCEPT !.status = "APPROVED", !.verified = TRUE]
<1>2. Begin(r, work)
  BY DEF RequireOnboardedBuyer
<1>3. o \in OrgStatuses(org)
  BY <1>1 DEF OrgStatuses, OrgRow, VerificationStatus
<1>4. Approved(org) = o
  BY <1>1 DEF Approved
<1>5. OnlyPuts(work, account, o)
  BY <1>1, <1>3, <1>4 DEF OnlyPuts, Plain, Work, TypeOK, OrgStatuses
<1> HIDE DEF work, o
<1> QED
  BY <1>1, <1>2, <1>3, <1>5, AfterOrgPut

LEMMA AfterDeleteOrg ==
    ASSUME AccountsInv, NEW r \in Reqs, DeleteBuyerOrg(r)
    PROVE  AccountsInv'
<1>1. account \in AccountRow /\ org \in OrgRow /\ TypeOK /\ account.id # 0
  BY DEF AccountsInv, OverlapInv, TypeOK, DeleteBuyerOrg, Reviews
<1> DEFINE work == [Plain EXCEPT !.put.org.deleted = TRUE, !.put.account.deleted = TRUE]
           a == [account EXCEPT !.deleted = TRUE]
           o == [org EXCEPT !.deleted = TRUE]
<1>2. CASE Begin(r, work)
  <2>1. OnlyPuts(work, a, o)
    BY <1>1 DEF OnlyPuts, Plain, Work, TypeOK, OrgRow, AccountRow
  <2>2. /\ a \in AccountRow /\ a.id = account.id /\ a.verified = account.verified
        /\ a.deleted
    BY <1>1 DEF AccountRow
  <2>3. o \in OrgRow /\ o.deleted /\ o.verified = org.verified /\ o.status = org.status
    BY <1>1 DEF OrgRow
  <2>4. OrgIsGood => (o.verified <=> o.status = "APPROVED")
    BY <2>3 DEF OrgIsGood
  <2> HIDE DEF work, a, o
  <2> QED
    BY <1>1, <1>2, <2>1, <2>2, <2>3, <2>4, AfterPut
<1>3. CASE Begin(r, [op |-> "deleting", purges |-> account.id])
  BY <1>3, AfterPurge
<1> QED
  BY <1>2, <1>3 DEF DeleteBuyerOrg, Reviews

(* The links.                                                              *)
LEMMA AfterMail ==
    ASSUME AccountsInv, NEW r \in Reqs, RequestReset(r) \/ ResendActivation(r)
    PROVE  AccountsInv'
<1>1. TypeOK /\ account.id # 0 /\ Pending("reset") \in SUBSET Nat
  BY DEF AccountsInv, OverlapInv, TypeOK, RequestReset, ResendActivation, Present, Pending
<1>2. ASSUME NEW work \in Work, Begin(r, work),
             work.seen.account = account, work.seen.org = org, work.resets = resets,
             work.put.account = account, work.put.org = org, work.opens = FALSE,
             work.revokes = {}, work.from = 0, work.takes = 0,
             work.ends = IF work.mails = "reset" THEN Pending("reset") ELSE {}
      PROVE  AccountsInv'
  <2>1. OrgIsGood => PutAgrees(work)
    BY <1>1, <1>2 DEF OrgIsGood, PutAgrees, Present
  <2>2. TokensInHand(work)
    BY <1>2 DEF TokensInHand
  <2> QED
    BY <1>1, <1>2, <2>1, <2>2, AfterWork
<1>3. CASE RequestReset(r)
  <2> DEFINE work == [Plain EXCEPT !.mails = "reset", !.ends = Pending("reset")]
  <2>1. Begin(r, work)
    BY <1>3 DEF RequestReset
  <2>2. /\ work \in Work /\ work.seen.account = account /\ work.seen.org = org
        /\ work.resets = resets /\ work.put.account = account /\ work.put.org = org
        /\ work.opens = FALSE /\ work.revokes = {} /\ work.from = 0 /\ work.takes = 0
        /\ work.mails = "reset" /\ work.ends = Pending("reset")
    BY <1>1, PlainType DEF Work
  <2> HIDE DEF work
  <2> QED
    BY <1>2, <2>1, <2>2
<1>4. CASE ResendActivation(r)
  <2> DEFINE work == [Plain EXCEPT !.mails = "activation"]
  <2>1. Begin(r, work)
    BY <1>4 DEF ResendActivation
  <2>2. /\ work \in Work /\ work.seen.account = account /\ work.seen.org = org
        /\ work.resets = resets /\ work.put.account = account /\ work.put.org = org
        /\ work.opens = FALSE /\ work.revokes = {} /\ work.from = 0 /\ work.takes = 0
        /\ work.mails = "activation" /\ work.ends = {}
    BY <1>1, PlainType DEF Work
  <2> HIDE DEF work
  <2> QED
    BY <1>2, <2>1, <2>2
<1> QED
  BY <1>3, <1>4

LEMMA AfterReset ==
    ASSUME AccountsInv, NEW r \in Reqs, ResetPassword(r)
    PROVE  AccountsInv'
<1>1. PICK l \in Pending("reset") :
        /\ account.id # 0
        /\ Begin(r, [Plain EXCEPT !.op = "resetting", !.takes = l,
                                  !.put.account.mustChange = FALSE])
  BY DEF ResetPassword, Present
<1> DEFINE work == [Plain EXCEPT !.op = "resetting", !.takes = l,
                                 !.put.account.mustChange = FALSE]
           a == [account EXCEPT !.mustChange = FALSE]
<1>2. TypeOK /\ account \in AccountRow /\ l \in Nat
  BY DEF AccountsInv, OverlapInv, TypeOK, Pending
<1>3. Begin(r, work)
  BY <1>1
<1>4. a \in AccountRow /\ a.id = account.id /\ a.verified = account.verified
      /\ a.deleted = account.deleted
  BY <1>2 DEF AccountRow
<1>5. /\ work.op = "resetting"
      /\ work.seen.account = account /\ work.seen.org = org
      /\ work.resets = resets /\ work.put.account = a /\ work.put.org = org
      /\ work.opens = FALSE /\ work.revokes = {} /\ work.from = 0 /\ work.takes = l
      /\ work.mails = "none" /\ work.ends = {}
  BY DEF Plain
<1>6. work \in Work
  BY <1>2, <1>4 DEF Plain, Work, TypeOK
<1> HIDE DEF work, a
<1>7. OrgIsGood => PutAgrees(work)
  BY <1>1, <1>4, <1>5 DEF OrgIsGood, PutAgrees, Present
<1>8. TokensInHand(work)
  BY <1>5 DEF TokensInHand, Pending
<1> QED
  BY <1>1, <1>3, <1>4, <1>5, <1>6, <1>7, <1>8, AfterWork

LEMMA AfterActivate ==
    ASSUME AccountsInv, NEW r \in Reqs, Activate(r)
    PROVE  AccountsInv'
<1>1. PICK l \in Pending("activation") :
        /\ account.id # 0
        /\ Begin(r, [Plain EXCEPT !.put.account.verified = TRUE, !.put.org = Approved(@),
                                  !.takes = l, !.opens = TRUE])
  BY DEF Activate, Present
<1> DEFINE work == [Plain EXCEPT !.put.account.verified = TRUE, !.put.org = Approved(@),
                                 !.takes = l, !.opens = TRUE]
           a == [account EXCEPT !.verified = TRUE]
<1>2. TypeOK /\ account \in AccountRow /\ org \in OrgRow /\ l \in Nat
  BY DEF AccountsInv, OverlapInv, TypeOK, Pending
<1>3. Begin(r, work)
  BY <1>1
<1>4. a \in AccountRow /\ a.id = account.id /\ a.verified /\ a.deleted = account.deleted
  BY <1>2 DEF AccountRow
<1>5. /\ Approved(org) \in OrgRow /\ Approved(org).deleted = org.deleted
      /\ (org.verified <=> org.status = "APPROVED") =>
            (Approved(org).verified <=> Approved(org).status = "APPROVED")
  BY <1>2 DEF Approved, OrgRow, VerificationStatus
<1>6. /\ work.op = "work"
      /\ work.seen.account = account /\ work.seen.org = org
      /\ work.resets = resets /\ work.put.account = a /\ work.put.org = Approved(org)
      /\ work.opens = TRUE /\ work.revokes = {} /\ work.from = 0 /\ work.takes = l
      /\ work.mails = "none" /\ work.ends = {}
  BY DEF Plain
<1>7. work \in Work
  BY <1>2, <1>4, <1>5 DEF Plain, Work, TypeOK
<1> HIDE DEF work, a
<1>8. OrgIsGood => PutAgrees(work)
  BY <1>1, <1>4, <1>5, <1>6 DEF OrgIsGood, PutAgrees, Present
<1>9. TokensInHand(work)
  BY <1>6 DEF TokensInHand, Pending
<1> QED
  BY <1>1, <1>3, <1>4, <1>6, <1>7, <1>8, <1>9, AfterWork

(* The second query of a reset.                                            *)
LEMMA AfterListSessions ==
    ASSUME AccountsInv, NEW r \in Reqs, ListSessions(r)
    PROVE  AccountsInv'
<1> DEFINE live == {s \in DOMAIN sessions : /\ sessions[s].of = tx[r].seen.account.id
                                            /\ sessions[s].status = "live"}
           work == [tx[r] EXCEPT !.op = "work", !.revokes = live]
<1>1. /\ realm' = realm /\ account' = account /\ org' = org
      /\ sessions' = sessions /\ links' = links /\ accounts' = accounts /\ resets' = resets
      /\ requests' = requests /\ overlapped' = overlapped
      /\ tx[r].op = "resetting"
  BY DEF ListSessions, rows
<1>2. tx[r] \in Work /\ live \in SUBSET Nat
  BY <1>1, WorkInHand DEF AccountsInv, OverlapInv, TypeOK
<1>3. /\ work \in Work /\ work.op = "work" /\ work.revokes = live
      /\ work.seen = tx[r].seen /\ work.put = tx[r].put /\ work.resets = tx[r].resets
      /\ work.opens = tx[r].opens /\ work.from = tx[r].from /\ work.takes = tx[r].takes
      /\ work.ends = tx[r].ends /\ work.mails = tx[r].mails
  BY <1>2 DEF Work
<1>4. tx' = [tx EXCEPT ![r] = work]
  BY DEF ListSessions
<1> HIDE DEF work
<1>5. \A o \in Reqs : tx'[o] = IF o = r THEN work ELSE tx[o]
  BY <1>4, SlotAfter DEF AccountsInv, OverlapInv
<1>6. OverlapInv'
  <2>1. TypeOK'
    BY <1>1, <1>3, <1>4 DEF AccountsInv, OverlapInv, TypeOK, Tx
  <2>2. NumbersAreSpent'
    BY <1>1 DEF AccountsInv, OverlapInv, NumbersAreSpent
  <2>3. AllSound'
    BY <1>1, <1>3, <1>5 DEF AccountsInv, OverlapInv, AllSound, Sound, Fits, Buyers
  <2>4. OnlyVerifiedBuyersEnter'
    BY <1>1 DEF AccountsInv, OverlapInv, OnlyVerifiedBuyersEnter, LiveSessions
  <2> QED
    BY <2>1, <2>2, <2>3, <2>4 DEF OverlapInv
<1>7. ASSUME ~overlapped' PROVE SerialInv'
  <2>1. SerialInv
    BY <1>1, <1>7 DEF AccountsInv
  <2>2. Alone'
    BY <1>1, <1>3, <1>5, <2>1 DEF SerialInv, Alone, Busy
  <2>3. Fresh(tx[r]) /\ PutAgrees(tx[r]) /\ TokensInHand(tx[r]) /\ live = LiveSessions
    BY <1>1, <2>1 DEF SerialInv, AllFresh, Fresh, LiveSessions
  <2>4. PutAgrees(work) /\ TokensInHand(work)
    BY <1>3, <2>3 DEF PutAgrees, TokensInHand, LiveSessions
  <2>5. Fresh(work)
    BY <1>1, <1>3, <2>3, <2>4 DEF Fresh
  <2>6. AllFresh'
    BY <1>1, <1>5, <2>1, <2>5 DEF SerialInv, AllFresh, Fresh, PutAgrees, TokensInHand,
                                  LiveSessions, Pending, Buyers
  <2>7. SessionsAreGood' /\ LinksAreGood' /\ OrgIsGood'
    BY <1>1, <2>1 DEF SerialInv, SessionsAreGood, LinksAreGood, OrgIsGood,
                      LiveSessions, Pending, Present, Buyers
  <2> QED
    BY <2>2, <2>6, <2>7 DEF SerialInv
<1> QED
  BY <1>6, <1>7 DEF AccountsInv

(***************************************************************************)
(* The requests that insert an account in one step.                        *)
(***************************************************************************)
LEMMA Inserted ==
    ASSUME TypeOK, NEW mustChange \in BOOLEAN, NEW verified \in BOOLEAN,
           NewAccount(mustChange, verified)
    PROVE  /\ account' \in AccountRow /\ account'.id = accounts + 1
           /\ account'.verified = verified /\ ~account'.deleted
           /\ accounts' = accounts + 1 /\ accounts' \in Nat /\ resets' = 0
  BY DEF TypeOK, NewAccount, AccountRow

LEMMA AfterInsert ==
    ASSUME AccountsInv, NEW r \in Reqs, ~Buyers,
           NEW mustChange \in BOOLEAN, NEW verified \in BOOLEAN, NEW opens \in BOOLEAN,
           InsertAccount(r, mustChange, verified, opens)
    PROVE  AccountsInv'
<1>1. /\ TypeOK /\ account.id = 0 /\ Starts(r)
      /\ realm' = realm /\ org' = org /\ links' = links /\ tx' = tx
  BY DEF AccountsInv, OverlapInv, InsertAccount
<1>2. /\ account' \in AccountRow /\ account'.id = accounts + 1 /\ accounts \in Nat
      /\ accounts' = accounts + 1 /\ accounts' \in Nat /\ resets' = 0
  BY <1>1, Inserted DEF InsertAccount, TypeOK
<1>3. /\ sessions' \in Seq(SessionRow) /\ DOMAIN sessions' \subseteq {1}
      /\ \A s \in DOMAIN sessions' :
            /\ sessions'[s].of = accounts + 1 /\ sessions'[s].from = 0
            /\ sessions'[s].resets = 0
  <2>1. NewSession(accounts + 1, 0, 0) \in SessionRow
    BY <1>2 DEF NewSession, SessionRow
  <2>2. CASE opens
    <3>1. sessions' = <<NewSession(accounts + 1, 0, 0)>>
      BY <2>2 DEF InsertAccount
    <3> QED
      BY <2>1, <3>1 DEF NewSession
  <2>3. CASE ~opens
    BY <2>3 DEF InsertAccount
  <2> QED
    BY <2>2, <2>3
<1>4. OverlapInv'
  <2>1. TypeOK'
    BY <1>1, <1>2, <1>3 DEF TypeOK, Starts
  <2>2. NumbersAreSpent'
    BY <1>1, <1>2, <1>3 DEF AccountsInv, OverlapInv, NumbersAreSpent
  <2>3. AllSound'
    BY <1>1, <1>2 DEF AccountsInv, OverlapInv, AllSound, Sound, Buyers
  <2>4. OnlyVerifiedBuyersEnter'
    BY <1>1 DEF OnlyVerifiedBuyersEnter, Buyers
  <2> QED
    BY <2>1, <2>2, <2>3, <2>4 DEF OverlapInv
<1>5. ASSUME ~overlapped' PROVE SerialInv'
  <2>1. SerialInv /\ \A o \in Reqs : ~Busy(o)
    BY <1>1, <1>5 DEF AccountsInv, Starts
  <2>2. Alone' /\ AllFresh'
    BY <1>1, <2>1 DEF Alone, AllFresh, Busy, Fresh
  <2>3. SessionsAreGood'
    BY <1>2, <1>3 DEF SessionsAreGood, LiveSessions
  <2>4. LinksAreGood'
    <3>1. \A l \in DOMAIN links : links[l].of \in 1..accounts /\ links[l].status = "purged"
      BY <1>1, <2>1 DEF AccountsInv, OverlapInv, NumbersAreSpent, SerialInv, LinksAreGood
    <3> QED
      BY <1>1, <1>2, <2>1, <3>1 DEF SerialInv, LinksAreGood, Pending
  <2>5. OrgIsGood'
    BY <1>1, <2>1 DEF SerialInv, OrgIsGood, Buyers
  <2> QED
    BY <2>2, <2>3, <2>4, <2>5 DEF SerialInv
<1> QED
  BY <1>4, <1>5 DEF AccountsInv

(***************************************************************************)
(* The requests end.                                                       *)
(***************************************************************************)
LEMMA AfterEnd ==
    ASSUME AccountsInv, NEW r \in Reqs, Busy(r), End(r)
    PROVE  /\ tx' \in [Reqs -> Tx]
           /\ realm' = realm /\ requests' \in Nat /\ overlapped' = overlapped
           /\ \A o \in Reqs : tx'[o] = IF o = r THEN Idle ELSE tx[o]
           /\ ~overlapped => \A o \in Reqs : tx'[o] = Idle
           /\ ~overlapped => Alone' /\ AllFresh'
<1>1. /\ tx' \in [Reqs -> Tx] /\ realm' = realm /\ requests' \in Nat
      /\ overlapped' = overlapped
      /\ \A o \in Reqs : tx'[o] = IF o = r THEN Idle ELSE tx[o]
  BY EndType DEF AccountsInv, OverlapInv
<1>2. ASSUME ~overlapped PROVE \A o \in Reqs : tx'[o] = Idle
  <2>1. Alone /\ \A o \in Reqs : tx[o].op = "idle" => tx[o] = Idle
    BY <1>2 DEF AccountsInv, OverlapInv, TypeOK, Tx, Work, Idle, SerialInv
  <2> QED
    BY <1>1, <2>1 DEF Alone, Busy
<1>3. ~overlapped => Alone' /\ AllFresh'
  BY <1>2 DEF Alone, AllFresh, Busy, Fresh, Idle
<1> QED
  BY <1>1, <1>2, <1>3

LEMMA AfterRollback ==
    ASSUME AccountsInv, NEW r \in Reqs, Rollback(r)
    PROVE  AccountsInv'
<1>1. /\ Busy(r) /\ End(r) /\ account' = account /\ org' = org /\ sessions' = sessions
      /\ links' = links /\ accounts' = accounts /\ resets' = resets
  BY DEF Rollback, rows
<1>2. /\ tx' \in [Reqs -> Tx]
      /\ realm' = realm /\ requests' \in Nat /\ overlapped' = overlapped
      /\ \A o \in Reqs : tx'[o] = IF o = r THEN Idle ELSE tx[o]
      /\ ~overlapped => Alone' /\ AllFresh'
  BY <1>1, AfterEnd
<1>3. OverlapInv'
  BY <1>1, <1>2 DEF AccountsInv, OverlapInv, TypeOK, NumbersAreSpent, AllSound, Sound, Fits,
                    Buyers, OnlyVerifiedBuyersEnter, LiveSessions, Idle
<1>4. ~overlapped' => SerialInv'
  BY <1>1, <1>2 DEF AccountsInv, SerialInv, SessionsAreGood, LinksAreGood, OrgIsGood,
                    LiveSessions, Pending, Present, Buyers
<1> QED
  BY <1>3, <1>4 DEF AccountsInv

(* A registration: what is left of an account is purged, and an account    *)
(* that no unit of work is about takes its address.                        *)
LEMMA AfterCommitRegister ==
    ASSUME AccountsInv, NEW r \in Reqs, CommitRegister(r)
    PROVE  AccountsInv'
<1> DEFINE a == tx[r].purges
           n == Len(links) + 1
           left == Without(links, a)
<1>1. /\ TypeOK /\ Busy(r) /\ End(r) /\ a \in Nat /\ accounts \in Nat
  BY PurgeInHand DEF AccountsInv, OverlapInv, CommitRegister, Busy, TypeOK
<1>2. /\ tx' \in [Reqs -> Tx]
      /\ realm' = realm /\ requests' \in Nat /\ overlapped' = overlapped
      /\ \A o \in Reqs : tx'[o] = IF o = r THEN Idle ELSE tx[o]
      /\ ~overlapped => Alone' /\ AllFresh'
  BY <1>1, AfterEnd
<1>3. /\ account' \in AccountRow /\ account'.id = accounts + 1 /\ ~account'.deleted
      /\ accounts' = accounts + 1 /\ accounts' \in Nat /\ resets' = 0
  BY <1>1, Inserted DEF CommitRegister
<1>4. org' = [status |-> "DRAFT", verified |-> FALSE, deleted |-> FALSE]
  BY DEF CommitRegister
<1>5. /\ sessions' \in Seq(SessionRow) /\ DOMAIN sessions' = DOMAIN sessions
      /\ \A s \in DOMAIN sessions :
            /\ sessions'[s].of = sessions[s].of
            /\ sessions'[s].from = sessions[s].from
            /\ sessions'[s].status =
                  IF sessions[s].of = a THEN "purged" ELSE sessions[s].status
  BY <1>1, WithoutSessions DEF CommitRegister
<1>6. /\ left \in Seq(LinkRow) /\ DOMAIN left = DOMAIN links /\ Len(left) = Len(links)
      /\ \A l \in DOMAIN links :
            /\ left[l].of = links[l].of /\ left[l].kind = links[l].kind
            /\ left[l].taken = links[l].taken
            /\ left[l].status = IF links[l].of = a THEN "purged" ELSE links[l].status
  BY <1>1, WithoutLinks DEF TypeOK
<1>7. /\ links' \in Seq(LinkRow) /\ n \notin DOMAIN links
      /\ DOMAIN links' = DOMAIN links \cup {n}
      /\ links'[n] = NewLink(accounts + 1, "activation")
      /\ \A l \in DOMAIN links : links'[l] = left[l]
  <2> DEFINE row == NewLink(accounts + 1, "activation")
  <2>1. row \in LinkRow
    BY <1>1, NewRows
  <2>2. links' = Append(left, row)
    BY DEF CommitRegister
  <2> HIDE DEF row, left
  <2>3. /\ links' \in Seq(LinkRow)
        /\ Len(left) + 1 \notin DOMAIN left
        /\ DOMAIN links' = DOMAIN left \cup {Len(left) + 1}
        /\ links'[Len(left) + 1] = row
        /\ \A l \in DOMAIN left : links'[l] = left[l]
    BY <1>6, <2>1, <2>2, TableLonger
  <2> QED
    BY <1>6, <2>3 DEF row
<1> HIDE DEF left, n
<1>8. OverlapInv'
  <2>1. org' \in OrgRow
    BY <1>4 DEF OrgRow, VerificationStatus
  <2>2. TypeOK'
    BY <1>1, <1>2, <1>3, <1>5, <1>7, <2>1 DEF TypeOK
  <2>3. NumbersAreSpent'
    <3>1. \A s \in DOMAIN sessions' : sessions'[s].of \in 1..accounts + 1
      BY <1>1, <1>5 DEF AccountsInv, OverlapInv, NumbersAreSpent
    <3>2. links'[n].of = accounts + 1
      BY <1>7 DEF NewLink
    <3>3. \A l \in DOMAIN links' : links'[l].of \in 1..accounts + 1
      BY <1>1, <1>6, <1>7, <3>2 DEF AccountsInv, OverlapInv, NumbersAreSpent
    <3> QED
      BY <1>1, <1>3, <3>1, <3>3 DEF NumbersAreSpent
  <2>4. AllSound'
    BY <1>1, <1>2, <1>3 DEF AccountsInv, OverlapInv, AllSound, Sound, Fits, Buyers, Idle
  <2>5. OnlyVerifiedBuyersEnter'
    BY <1>1, <1>3, <1>5 DEF AccountsInv, OverlapInv, NumbersAreSpent, OnlyVerifiedBuyersEnter,
                            LiveSessions
  <2> QED
    BY <2>2, <2>3, <2>4, <2>5 DEF OverlapInv
<1>9. ASSUME ~overlapped' PROVE SerialInv'
  <2>1. SerialInv /\ NumbersAreSpent /\ a = account.id
    <3>1. tx[r].op = "registering"
      BY DEF CommitRegister
    <3> QED
      BY <1>2, <1>9, <3>1 DEF AccountsInv, OverlapInv, SerialInv, AllFresh, Fresh
  <2>2. /\ \A s \in DOMAIN sessions' : sessions'[s].status = "purged"
        /\ \A l \in DOMAIN links : links'[l].status = "purged"
    BY <1>5, <1>6, <1>7, <2>1 DEF SerialInv, SessionsAreGood, LinksAreGood
  <2>3. SessionsAreGood'
    BY <1>5, <2>1, <2>2 DEF SerialInv, SessionsAreGood, LiveSessions
  <2>4. LinksAreGood'
    BY <1>3, <1>6, <1>7, <2>1, <2>2 DEF SerialInv, LinksAreGood, Pending, NewLink
  <2>5. OrgIsGood'
    BY <1>1, <1>3, <1>4 DEF OrgIsGood, Present
  <2> QED
    BY <1>2, <1>9, <2>3, <2>4, <2>5 DEF SerialInv
<1> QED
  BY <1>8, <1>9 DEF AccountsInv

LEMMA AfterCommitDelete ==
    ASSUME AccountsInv, NEW r \in Reqs, CommitDelete(r)
    PROVE  AccountsInv'
<1> DEFINE a == tx[r].purges
<1>1. /\ TypeOK /\ Busy(r) /\ End(r) /\ a \in Nat /\ accounts \in Nat
      /\ accounts' = accounts /\ resets' = resets
  BY PurgeInHand DEF AccountsInv, OverlapInv, CommitDelete, Busy, TypeOK
<1>2. /\ tx' \in [Reqs -> Tx]
      /\ realm' = realm /\ requests' \in Nat /\ overlapped' = overlapped
      /\ \A o \in Reqs : tx'[o] = IF o = r THEN Idle ELSE tx[o]
      /\ ~overlapped => Alone' /\ AllFresh'
  BY <1>1, AfterEnd
<1>3. IF account.id = a
      THEN account' = NoAccount /\ org' = NoOrg
      ELSE account' = account /\ org' = org
  BY DEF CommitDelete
<1>4. /\ sessions' \in Seq(SessionRow) /\ DOMAIN sessions' = DOMAIN sessions
      /\ \A s \in DOMAIN sessions :
            /\ sessions'[s].of = sessions[s].of
            /\ sessions'[s].from = sessions[s].from
            /\ sessions'[s].resets = sessions[s].resets
            /\ sessions'[s].status =
                  IF sessions[s].of = a THEN "purged" ELSE sessions[s].status
  BY <1>1, WithoutSessions DEF CommitDelete
<1>5. /\ links' \in Seq(LinkRow) /\ DOMAIN links' = DOMAIN links
      /\ \A l \in DOMAIN links :
            /\ links'[l].of = links[l].of /\ links'[l].kind = links[l].kind
            /\ links'[l].taken = links[l].taken
            /\ links'[l].status = IF links[l].of = a THEN "purged" ELSE links[l].status
  BY <1>1, WithoutLinks DEF CommitDelete
<1>6. /\ account' \in AccountRow /\ org' \in OrgRow /\ account'.id \in {0, account.id}
      /\ account'.id # 0 => account' = account
  <2>1. NoAccount \in AccountRow /\ NoOrg \in OrgRow /\ NoAccount.id = 0
    BY DEF NoAccount, NoOrg, AccountRow, OrgRow, VerificationStatus
  <2> QED
    BY <1>1, <1>3, <2>1 DEF TypeOK
<1>7. OverlapInv'
  <2>1. TypeOK'
    BY <1>1, <1>2, <1>4, <1>5, <1>6 DEF TypeOK
  <2>2. NumbersAreSpent'
    <3>1. account'.id \in 0..accounts
      BY <1>1, <1>6 DEF AccountsInv, OverlapInv, NumbersAreSpent
    <3> QED
      BY <1>1, <1>4, <1>5, <3>1 DEF AccountsInv, OverlapInv, NumbersAreSpent
  <2>3. AllSound'
    <3>1. \A o \in Reqs : tx[o].op \in {"work", "resetting"} => tx[o].seen.account.id # 0
      BY DEF AccountsInv, OverlapInv, AllSound, Sound
    <3> QED
      BY <1>1, <1>2, <1>6, <3>1 DEF AccountsInv, OverlapInv, AllSound, Sound, Fits, Buyers, Idle
  <2>4. OnlyVerifiedBuyersEnter'
    <3>1. \A s \in DOMAIN sessions : sessions[s].of # 0
      BY <1>1 DEF AccountsInv, OverlapInv, NumbersAreSpent
    <3> QED
      BY <1>2, <1>4, <1>6, <3>1 DEF AccountsInv, OverlapInv, OnlyVerifiedBuyersEnter,
                                    LiveSessions
  <2> QED
    BY <2>1, <2>2, <2>3, <2>4 DEF OverlapInv
<1>8. ASSUME ~overlapped' PROVE SerialInv'
  <2>1. SerialInv /\ a = account.id
    <3>1. tx[r].op = "deleting"
      BY DEF CommitDelete
    <3> QED
      BY <1>2, <1>8, <3>1 DEF AccountsInv, SerialInv, AllFresh, Fresh
  <2>2. /\ \A s \in DOMAIN sessions : sessions'[s].status = "purged"
        /\ \A l \in DOMAIN links : links'[l].status = "purged"
    BY <1>4, <1>5, <2>1 DEF SerialInv, SessionsAreGood, LinksAreGood
  <2>3. SessionsAreGood'
    BY <1>4, <2>1, <2>2 DEF SerialInv, SessionsAreGood, LiveSessions
  <2>4. LinksAreGood'
    BY <1>5, <2>1, <2>2 DEF SerialInv, LinksAreGood, Pending
  <2>5. OrgIsGood'
    BY <1>3, <2>1 DEF OrgIsGood, Present, NoAccount, NoOrg
  <2> QED
    BY <1>2, <1>8, <2>3, <2>4, <2>5 DEF SerialInv
<1> QED
  BY <1>7, <1>8 DEF AccountsInv

LEMMA AfterOrphan ==
    ASSUME AccountsInv, NEW r \in Reqs, CommitOrphan(r)
    PROVE  AccountsInv'
<1> DEFINE w == tx[r]
           n == Len(links) + 1
           row == NewLink(w.seen.account.id, w.mails)
<1>1. /\ TypeOK /\ Busy(r) /\ End(r) /\ w \in Work /\ w.op = "work" /\ ~Fits(w)
      /\ w.mails \in {"reset", "activation"}
      /\ account' = account /\ org' = org /\ sessions' = sessions
      /\ accounts' = accounts /\ resets' = resets /\ accounts \in Nat
      /\ w.seen.account.id \in 1..accounts
  BY WorkInHand DEF AccountsInv, OverlapInv, AllSound, Sound, CommitOrphan, Busy, TypeOK, Work
<1>2. /\ tx' \in [Reqs -> Tx]
      /\ realm' = realm /\ requests' \in Nat /\ overlapped' = overlapped
      /\ \A o \in Reqs : tx'[o] = IF o = r THEN Idle ELSE tx[o]
  BY <1>1, AfterEnd
<1>3. /\ links' \in Seq(LinkRow)
      /\ DOMAIN links' = DOMAIN links \cup {n}
      /\ links'[n] = row /\ \A l \in DOMAIN links : links'[l] = links[l]
  <2>1. row \in LinkRow /\ links \in Seq(LinkRow)
    BY <1>1, NewRows DEF TypeOK
  <2>2. links' = Append(links, row)
    BY DEF CommitOrphan, Mailed
  <2> HIDE DEF row
  <2> QED
    BY <2>1, <2>2, TableLonger
<1>4. OverlapInv'
  <2>1. TypeOK'
    BY <1>1, <1>2, <1>3 DEF TypeOK
  <2>2. NumbersAreSpent'
    BY <1>1, <1>3 DEF AccountsInv, OverlapInv, NumbersAreSpent, NewLink
  <2>3. AllSound'
    BY <1>1, <1>2 DEF AccountsInv, OverlapInv, AllSound, Sound, Fits, Buyers, Idle
  <2>4. OnlyVerifiedBuyersEnter'
    BY <1>1, <1>2 DEF AccountsInv, OverlapInv, OnlyVerifiedBuyersEnter, LiveSessions
  <2> QED
    BY <2>1, <2>2, <2>3, <2>4 DEF OverlapInv
<1>5. overlapped
  BY <1>1 DEF AccountsInv, SerialInv, AllFresh, Fresh, Fits
<1> QED
  BY <1>2, <1>4, <1>5 DEF AccountsInv

(* What a commit does to the rows, whatever committed before it.           *)
LEMMA Committed ==
    ASSUME AccountsInv, NEW r \in Reqs, Commit(r)
    PROVE  LET w == tx[r]
               k == Len(sessions) + 1
               n == Len(links) + 1
           IN  /\ w \in Work /\ w.op = "work" /\ Fits(w) /\ Busy(r) /\ End(r)
               /\ accounts' = accounts
               /\ account' \in AccountRow /\ account'.id = account.id
               /\ account'.verified = IF w.put.account.verified = w.seen.account.verified
                                      THEN account.verified ELSE w.put.account.verified
               /\ w.seen.account = account => account' = w.put.account
               /\ org' \in OrgRow /\ (w.seen.org = org => org' = w.put.org)
               /\ sessions' \in Seq(SessionRow) /\ k \notin DOMAIN sessions
               /\ DOMAIN sessions' = IF w.opens THEN DOMAIN sessions \cup {k} ELSE DOMAIN sessions
               /\ \A s \in DOMAIN sessions : sessions'[s] = Revoked(w)[s]
               /\ w.opens => sessions'[k] = NewSession(account.id, w.resets, w.from)
               /\ links' \in Seq(LinkRow) /\ n \notin DOMAIN links
               /\ DOMAIN links' = IF w.mails # "none" THEN DOMAIN links \cup {n} ELSE DOMAIN links
               /\ \A l \in DOMAIN links : links'[l] = Taken(w)[l]
               /\ w.mails # "none" => links'[n] = NewLink(account.id, w.mails)
<1> DEFINE w == tx[r]
           k == Len(sessions) + 1
           n == Len(links) + 1
<1>1. /\ TypeOK /\ w \in Work /\ w.op = "work" /\ Fits(w) /\ Busy(r) /\ End(r)
      /\ accounts' = accounts
  BY WorkInHand DEF AccountsInv, OverlapInv, Commit, Busy
<1>2. /\ w.seen.account \in AccountRow /\ w.put.account \in AccountRow
      /\ w.seen.org \in OrgRow /\ w.put.org \in OrgRow
      /\ account \in AccountRow /\ org \in OrgRow
      /\ w.put.account.id = w.seen.account.id
      /\ w.resets \in Nat /\ w.from \in Nat /\ account.id \in Nat
      /\ w.mails \in {"none", "reset", "activation"} /\ w.opens \in BOOLEAN
  BY <1>1 DEF AccountsInv, OverlapInv, AllSound, Sound, Work, TypeOK, AccountRow
<1>3. /\ account' = Flushed(account, w.seen.account, w.put.account)
      /\ org' = Flushed(org, w.seen.org, w.put.org)
      /\ sessions' = Revoked(w) \o
            (IF w.opens THEN <<NewSession(account.id, w.resets, w.from)>> ELSE <<>>)
      /\ links' = Mailed(w, Taken(w))
  BY DEF Commit
<1>4. /\ account' \in AccountRow /\ account'.id = account.id
      /\ account'.verified = IF w.put.account.verified = w.seen.account.verified
                             THEN account.verified ELSE w.put.account.verified
      /\ w.seen.account = account => account' = w.put.account
  BY <1>2, <1>3, FlushedAccount
<1>5. org' \in OrgRow /\ (w.seen.org = org => org' = w.put.org)
  BY <1>2, <1>3, FlushedOrg
<1>6. /\ sessions' \in Seq(SessionRow) /\ k \notin DOMAIN sessions
      /\ DOMAIN sessions' = IF w.opens THEN DOMAIN sessions \cup {k} ELSE DOMAIN sessions
      /\ \A s \in DOMAIN sessions : sessions'[s] = Revoked(w)[s]
      /\ w.opens => sessions'[k] = NewSession(account.id, w.resets, w.from)
  <2> DEFINE kept == Revoked(w)
             row == NewSession(account.id, w.resets, w.from)
  <2>1. /\ kept \in Seq(SessionRow) /\ DOMAIN kept = DOMAIN sessions
        /\ Len(kept) = Len(sessions) /\ sessions \in Seq(SessionRow)
    BY <1>1, RevokedRows DEF TypeOK
  <2>2. row \in SessionRow
    BY <1>2 DEF NewSession, SessionRow
  <2>3. sessions' = kept \o (IF w.opens THEN <<row>> ELSE <<>>)
    BY <1>3
  <2> HIDE DEF kept, row
  <2>4. CASE ~w.opens
    <3>1. sessions' = kept
      BY <2>1, <2>3, <2>4
    <3> QED
      BY <2>1, <2>4, <3>1 DEF kept
  <2>5. CASE w.opens
    <3>1. sessions' = Append(kept, row)
      BY <2>1, <2>2, <2>3, <2>5
    <3> QED
      BY <2>1, <2>2, <2>5, <3>1, TableLonger DEF kept, row
  <2> QED
    BY <1>2, <2>4, <2>5
<1>7. /\ links' \in Seq(LinkRow) /\ n \notin DOMAIN links
      /\ DOMAIN links' = IF w.mails # "none" THEN DOMAIN links \cup {n} ELSE DOMAIN links
      /\ \A l \in DOMAIN links : links'[l] = Taken(w)[l]
      /\ w.mails # "none" => links'[n] = NewLink(account.id, w.mails)
  <2> DEFINE kept == Taken(w)
             row == NewLink(account.id, w.mails)
  <2>1. /\ kept \in Seq(LinkRow) /\ DOMAIN kept = DOMAIN links
        /\ Len(kept) = Len(links) /\ links \in Seq(LinkRow)
    BY <1>1, TakenRows DEF TypeOK
  <2>2. links' = IF w.mails = "none" THEN kept ELSE Append(kept, row)
    BY <1>1, <1>3 DEF Mailed, Fits
  <2>3. w.mails # "none" => row \in LinkRow
    BY <1>2 DEF NewLink, LinkRow
  <2> HIDE DEF kept, row
  <2>4. CASE w.mails = "none"
    BY <2>1, <2>2, <2>4 DEF kept
  <2>5. CASE w.mails # "none"
    BY <2>1, <2>2, <2>3, <2>5, TableLonger DEF kept, row
  <2> QED
    BY <2>4, <2>5
<1> QED
  BY <1>1, <1>4, <1>5, <1>6, <1>7

LEMMA OverlapAfterCommit ==
    ASSUME AccountsInv, NEW r \in Reqs, Commit(r)
    PROVE  OverlapInv'
<1> DEFINE w == tx[r]
           k == Len(sessions) + 1
           n == Len(links) + 1
<1>1. /\ TypeOK /\ w \in Work /\ w.op = "work" /\ Fits(w) /\ Busy(r) /\ End(r)
      /\ accounts' = accounts /\ accounts \in Nat
      /\ account' \in AccountRow /\ account'.id = account.id
      /\ account'.verified = IF w.put.account.verified = w.seen.account.verified
                             THEN account.verified ELSE w.put.account.verified
      /\ org' \in OrgRow
  BY Committed DEF AccountsInv, OverlapInv, TypeOK
<1>2. /\ sessions' \in Seq(SessionRow)
      /\ DOMAIN sessions' = IF w.opens THEN DOMAIN sessions \cup {k} ELSE DOMAIN sessions
      /\ \A s \in DOMAIN sessions :
            /\ sessions'[s].of = sessions[s].of
            /\ sessions'[s].status \in {"revoked", sessions[s].status}
      /\ w.opens => sessions'[k] = NewSession(account.id, w.resets, w.from)
  <2>1. /\ sessions' \in Seq(SessionRow)
        /\ DOMAIN sessions' = IF w.opens THEN DOMAIN sessions \cup {k} ELSE DOMAIN sessions
        /\ \A s \in DOMAIN sessions : sessions'[s] = Revoked(w)[s]
        /\ w.opens => sessions'[k] = NewSession(account.id, w.resets, w.from)
    BY Committed
  <2>2. \A s \in DOMAIN sessions :
           /\ Revoked(w)[s].of = sessions[s].of
           /\ Revoked(w)[s].status = IF s \in w.revokes THEN "revoked" ELSE sessions[s].status
    BY <1>1, RevokedRows
  <2> HIDE DEF k
  <2> QED
    BY <2>1, <2>2
<1>3. /\ links' \in Seq(LinkRow)
      /\ DOMAIN links' = IF w.mails # "none" THEN DOMAIN links \cup {n} ELSE DOMAIN links
      /\ \A l \in DOMAIN links : links'[l].of = links[l].of
      /\ w.mails # "none" => links'[n] = NewLink(account.id, w.mails)
  <2>1. /\ links' \in Seq(LinkRow)
        /\ DOMAIN links' = IF w.mails # "none" THEN DOMAIN links \cup {n} ELSE DOMAIN links
        /\ \A l \in DOMAIN links : links'[l] = Taken(w)[l]
        /\ w.mails # "none" => links'[n] = NewLink(account.id, w.mails)
    BY Committed
  <2>2. \A l \in DOMAIN links : Taken(w)[l].of = links[l].of
    BY <1>1, TakenRows
  <2> HIDE DEF n
  <2> QED
    BY <2>1, <2>2
<1>4. /\ tx' \in [Reqs -> Tx]
      /\ realm' = realm /\ requests' \in Nat /\ overlapped' = overlapped
      /\ \A o \in Reqs : tx'[o] = IF o = r THEN Idle ELSE tx[o]
  BY <1>1, AfterEnd
<1>5. /\ account.id \in 1..accounts
      /\ Buyers => /\ w.seen.account.verified \/ w.opens => w.put.account.verified
                   /\ w.seen.account.verified => account.verified
  BY <1>1 DEF AccountsInv, OverlapInv, AllSound, Sound, Fits
<1> HIDE DEF k, n
<1>6. /\ Buyers /\ account.verified => account'.verified
      /\ Buyers /\ w.opens => account'.verified
  <2>1. /\ w.seen.account.verified \in BOOLEAN /\ w.put.account.verified \in BOOLEAN
        /\ account.verified \in BOOLEAN /\ account'.verified \in BOOLEAN
    BY <1>1 DEF TypeOK, Work, AccountRow
  <2> QED
    BY <1>1, <1>5, <2>1
<1>7. TypeOK'
  <2>1. resets' \in Nat
    BY <1>1 DEF Commit, TypeOK
  <2> QED
    BY <1>1, <1>2, <1>3, <1>4, <2>1 DEF TypeOK
<1>8. NumbersAreSpent'
  <2>1. \A s \in DOMAIN sessions' : sessions'[s].of \in 1..accounts
    BY <1>1, <1>2, <1>5 DEF AccountsInv, OverlapInv, NumbersAreSpent, NewSession
  <2>2. \A l \in DOMAIN links' : links'[l].of \in 1..accounts
    BY <1>1, <1>3, <1>5 DEF AccountsInv, OverlapInv, NumbersAreSpent, NewLink
  <2> QED
    BY <1>1, <1>5, <2>1, <2>2 DEF NumbersAreSpent
<1>9. AllSound'
  BY <1>1, <1>4, <1>6 DEF AccountsInv, OverlapInv, AllSound, Sound, Fits, Buyers, Idle
<1>10. OnlyVerifiedBuyersEnter'
  BY <1>1, <1>2, <1>4, <1>6 DEF AccountsInv, OverlapInv, OnlyVerifiedBuyersEnter,
                                LiveSessions, Buyers
<1> QED
  BY <1>7, <1>8, <1>9, <1>10 DEF OverlapInv

LEMMA SerialAfterCommit ==
    ASSUME AccountsInv, NEW r \in Reqs, Commit(r), ~overlapped
    PROVE  SessionsAreGood' /\ LinksAreGood' /\ OrgIsGood'
<1> DEFINE w == tx[r]
           k == Len(sessions) + 1
           n == Len(links) + 1
<1>1. /\ TypeOK /\ w \in Work /\ w.op = "work" /\ Busy(r) /\ End(r)
      /\ account'.id = account.id
      /\ w.seen.account = account => account' = w.put.account
      /\ w.seen.org = org => org' = w.put.org
  BY Committed DEF AccountsInv, OverlapInv
<1>2. /\ SessionsAreGood /\ LinksAreGood /\ OrgIsGood
      /\ PutAgrees(w) /\ TokensInHand(w)
      /\ w.resets = resets /\ w.seen.account = account /\ w.seen.org = org
      /\ account.id # 0
  BY <1>1 DEF AccountsInv, OverlapInv, AllSound, Sound, SerialInv, AllFresh, Fresh
<1>3. /\ k \notin DOMAIN sessions
      /\ DOMAIN sessions' = IF w.opens THEN DOMAIN sessions \cup {k} ELSE DOMAIN sessions
      /\ \A s \in DOMAIN sessions :
            /\ sessions'[s].of = sessions[s].of
            /\ sessions'[s].from = sessions[s].from
            /\ sessions'[s].resets = sessions[s].resets
            /\ sessions'[s].status = IF s \in w.revokes THEN "revoked" ELSE sessions[s].status
      /\ w.opens => /\ sessions'[k].of = account.id /\ sessions'[k].status = "live"
                    /\ sessions'[k].from = w.from /\ sessions'[k].resets = resets
  <2>1. /\ k \notin DOMAIN sessions
        /\ DOMAIN sessions' = IF w.opens THEN DOMAIN sessions \cup {k} ELSE DOMAIN sessions
        /\ \A s \in DOMAIN sessions : sessions'[s] = Revoked(w)[s]
        /\ w.opens => sessions'[k] = NewSession(account.id, w.resets, w.from)
    BY Committed
  <2>2. \A s \in DOMAIN sessions :
           /\ Revoked(w)[s].of = sessions[s].of
           /\ Revoked(w)[s].from = sessions[s].from
           /\ Revoked(w)[s].resets = sessions[s].resets
           /\ Revoked(w)[s].status = IF s \in w.revokes THEN "revoked" ELSE sessions[s].status
    BY <1>1, RevokedRows
  <2> HIDE DEF k
  <2> QED
    BY <1>2, <2>1, <2>2 DEF NewSession
<1>4. /\ n \notin DOMAIN links
      /\ DOMAIN links' = IF w.mails # "none" THEN DOMAIN links \cup {n} ELSE DOMAIN links
      /\ \A l \in DOMAIN links :
            /\ links'[l].of = links[l].of
            /\ links'[l].kind = links[l].kind
            /\ links'[l].status = IF l = w.takes \/ l \in w.ends THEN "used" ELSE links[l].status
            /\ links'[l].taken = IF l = w.takes THEN links[l].taken + 1 ELSE links[l].taken
      /\ w.mails # "none" => /\ links'[n].of = account.id /\ links'[n].kind = w.mails
                             /\ links'[n].status = "unused" /\ links'[n].taken = 0
  <2>1. /\ n \notin DOMAIN links
        /\ DOMAIN links' = IF w.mails # "none" THEN DOMAIN links \cup {n} ELSE DOMAIN links
        /\ \A l \in DOMAIN links : links'[l] = Taken(w)[l]
        /\ w.mails # "none" => links'[n] = NewLink(account.id, w.mails)
    BY Committed
  <2>2. \A l \in DOMAIN links :
           /\ Taken(w)[l].of = links[l].of
           /\ Taken(w)[l].kind = links[l].kind
           /\ Taken(w)[l].status =
                 IF l = w.takes \/ l \in w.ends THEN "used" ELSE links[l].status
           /\ Taken(w)[l].taken = IF l = w.takes THEN links[l].taken + 1 ELSE links[l].taken
    BY <1>1, TakenRows
  <2> HIDE DEF n
  <2> QED
    BY <2>1, <2>2 DEF NewLink
<1>5. resets' = IF w.takes # 0 /\ links[w.takes].kind = "reset" THEN resets + 1 ELSE resets
  BY DEF Commit
<1>6. \A l \in DOMAIN links : l # 0 /\ links[l].taken \in Nat
  <2>1. \A l \in DOMAIN links : l # 0 /\ links[l] \in LinkRow
    BY <1>1 DEF TypeOK
  <2> QED
    BY <2>1 DEF LinkRow
<1> HIDE DEF k, n
<1>7. SessionsAreGood'
  <2>1. \A s \in LiveSessions' : sessions'[s].resets = resets'
    <3>1. CASE w.takes # 0 /\ links[w.takes].kind = "reset"
      <4>1. ~w.opens /\ LiveSessions \subseteq w.revokes
        BY <1>1, <1>2, <3>1 DEF TokensInHand
      <4>2. LiveSessions' = {}
        BY <1>1, <1>3, <4>1 DEF LiveSessions
      <4> QED
        BY <4>2
    <3>2. CASE ~(w.takes # 0 /\ links[w.takes].kind = "reset")
      BY <1>1, <1>2, <1>3, <1>5, <3>2 DEF SessionsAreGood, LiveSessions
    <3> QED
      BY <3>1, <3>2
  <2>2. \A s \in DOMAIN sessions' : sessions'[s].from # 0 =>
          /\ sessions'[s].from \in DOMAIN sessions
          /\ sessions'[sessions'[s].from].status # "live"
    BY <1>2, <1>3 DEF SessionsAreGood, TokensInHand, LiveSessions
  <2>3. \A s \in DOMAIN sessions' : sessions'[s].from # 0 =>
          \A t \in DOMAIN sessions' : sessions'[t].from = sessions'[s].from => t = s
    <3>1. \A s \in DOMAIN sessions : sessions[s].from # 0 =>
             ~(w.opens /\ sessions[s].from = w.from)
      BY <1>2 DEF SessionsAreGood, TokensInHand, LiveSessions
    <3> QED
      BY <1>2, <1>3, <3>1 DEF SessionsAreGood
  <2>4. \A s \in DOMAIN sessions' : sessions'[s].status # "purged" => sessions'[s].of = account'.id
    BY <1>1, <1>2, <1>3 DEF SessionsAreGood, TokensInHand
  <2> QED
    BY <1>3, <2>1, <2>2, <2>3, <2>4 DEF SessionsAreGood
<1>8. LinksAreGood'
  <2>1. \A l, m \in Pending("reset")' : l = m
    BY <1>1, <1>2, <1>4 DEF LinksAreGood, Pending, TokensInHand
  <2>2. \A l \in DOMAIN links' :
          /\ links'[l].taken <= 1
          /\ links'[l].status = "unused" => links'[l].taken = 0
          /\ links'[l].status # "purged" => links'[l].of = account'.id
    <3> SUFFICES ASSUME NEW l \in DOMAIN links'
                 PROVE  /\ links'[l].taken <= 1
                        /\ links'[l].status = "unused" => links'[l].taken = 0
                        /\ links'[l].status # "purged" => links'[l].of = account'.id
      OBVIOUS
    <3>1. CASE l \in DOMAIN links /\ l = w.takes
      BY <1>1, <1>2, <1>4, <1>6, <3>1 DEF LinksAreGood, TokensInHand
    <3>2. CASE l \in DOMAIN links /\ l # w.takes
      BY <1>1, <1>2, <1>4, <1>6, <3>2 DEF LinksAreGood, TokensInHand, Pending
    <3>3. CASE l \notin DOMAIN links
      BY <1>1, <1>4, <3>3
    <3> QED
      BY <3>1, <3>2, <3>3
  <2> QED
    BY <2>1, <2>2 DEF LinksAreGood
<1>9. OrgIsGood'
  <2>1. account' = w.put.account /\ org' = w.put.org /\ realm' = realm
    BY <1>1, <1>2 DEF End
  <2> QED
    BY <1>1, <1>2, <2>1 DEF OrgIsGood, PutAgrees, Present, Buyers
<1> QED
  BY <1>7, <1>8, <1>9

LEMMA AfterCommit ==
    ASSUME AccountsInv, NEW r \in Reqs, Commit(r)
    PROVE  AccountsInv'
<1>1. Busy(r) /\ End(r)
  BY DEF Commit, Busy
<1>2. overlapped' = overlapped /\ (~overlapped => Alone' /\ AllFresh')
  BY <1>1, AfterEnd
<1> QED
  BY <1>2, OverlapAfterCommit, SerialAfterCommit DEF AccountsInv, SerialInv

(***************************************************************************)
(* Every step.                                                             *)
(***************************************************************************)
LEMMA AfterRegister ==
    ASSUME AccountsInv, NEW r \in Reqs,
           RegisterSupplier(r) \/ RegisterCustomer(r) \/ Invite(r) \/ CreateVendor(r)
    PROVE  AccountsInv'
  BY AfterInsert DEF RegisterSupplier, RegisterCustomer, Invite, CreateVendor, Buyers

LEMMA NextInv == AccountsInv /\ [Next]_vars => AccountsInv'
<1> SUFFICES ASSUME AccountsInv, [Next]_vars PROVE AccountsInv'
  OBVIOUS
<1>1. CASE UNCHANGED vars
  <2>1. /\ realm' = realm /\ account' = account /\ org' = org /\ sessions' = sessions
        /\ links' = links /\ accounts' = accounts /\ requests' = requests
        /\ resets' = resets /\ overlapped' = overlapped /\ tx' = tx
    BY <1>1 DEF vars, rows
  <2>2. OverlapInv'
    BY <2>1 DEF AccountsInv, OverlapInv, TypeOK, NumbersAreSpent, AllSound, Sound, Fits,
                Buyers, OnlyVerifiedBuyersEnter, LiveSessions
  <2>3. SerialInv => Alone' /\ AllFresh'
    BY ZenonT(60), <2>1 DEF SerialInv, Alone, Busy, AllFresh, Fresh, PutAgrees, TokensInHand,
                LiveSessions, Pending, Buyers
  <2>4. SerialInv => SessionsAreGood' /\ LinksAreGood' /\ OrgIsGood'
    BY <2>1 DEF SerialInv, SessionsAreGood, LinksAreGood, OrgIsGood, LiveSessions, Pending,
                Present, Buyers
  <2> QED
    BY <2>1, <2>2, <2>3, <2>4 DEF AccountsInv, SerialInv
<1>2. ASSUME NEW r \in Reqs,
             \/ BuyerAuth(r) \/ SupplierAuth(r) \/ AdminAuth(r)
             \/ ShopAuth(r) \/ ShopPasswords(r)
      PROVE  AccountsInv'
  <2>1. CASE \/ Login(r) \/ ActivateAgain(r) \/ Refresh(r) \/ Logout(r)
             \/ Activate(r) \/ RequestReset(r) \/ ResendActivation(r) \/ ResetPassword(r)
             \/ ListSessions(r) \/ ChangePassword(r)
    BY <2>1, AfterLogin, AfterRefresh, AfterLogout, AfterActivate, AfterMail, AfterReset,
       AfterListSessions, AfterAccountPut
  <2>2. CASE RegisterBuyer(r)
    BY <2>2, AfterPurge DEF RegisterBuyer
  <2>3. CASE RegisterSupplier(r) \/ RegisterCustomer(r) \/ Invite(r)
    BY <2>3, AfterRegister
  <2> QED
    BY <1>2, <2>1, <2>2, <2>3
       DEF BuyerAuth, SupplierAuth, AdminAuth, ShopAuth, ShopPasswords, BuyerAuthService,
           SupplierAuthService, AdminAuthService, EcommerceCustomerAuthService,
           EcommerceSellerAuthService, EcommerceAdminAuthService, PasswordResetService,
           EcommercePasswordResetService
<1>3. ASSUME NEW r \in Reqs, ShopVendors(r) \/ RequireOnboardedBuyer(r) \/ BuyerAdmin(r)
      PROVE  AccountsInv'
  BY <1>3, AfterRegister, AfterAccountPut, AfterOnboarded, AfterReview, AfterDeleteOrg
     DEF ShopVendors, BuyerAdmin
<1> QED
  BY <1>1, <1>2, <1>3, AfterCommitRegister, AfterCommitDelete, AfterCommit, AfterOrphan,
     AfterRollback DEF Next

LEMMA InvAlways == Spec => []AccountsInv
  BY InitInv, NextInv, PTL DEF Spec

(***************************************************************************)
(* The theorems.                                                           *)
(***************************************************************************)

(* A live session of a buyer's account is one of an account that was       *)
(* activated, however registrations, purges and logins overlap.            *)
THEOREM BuyersAreVerified == Spec => []OnlyVerifiedBuyersEnter
<1>1. AccountsInv => OnlyVerifiedBuyersEnter
  BY DEF AccountsInv, OverlapInv
<1> QED
  BY <1>1, InvAlways, PTL

(* Until two requests overlap, a reset ends every session there was.       *)
THEOREM ResetsEndSessions == Spec => []SessionsEndWithReset
<1>1. AccountsInv => SessionsEndWithReset
  BY DEF AccountsInv, SerialInv, SessionsAreGood, SessionsEndWithReset
<1> QED
  BY <1>1, InvAlways, PTL

(* Until two requests overlap, a session is refreshed once, a link is taken*)
(* once, and of the reset links mailed only the last one is good.          *)
THEOREM TokensAreUsedOnce == Spec => []EachTokenOnce
<1>1. AccountsInv => EachTokenOnce
  BY DEF AccountsInv, SerialInv, SessionsAreGood, LinksAreGood, EachTokenOnce, OneSuccessor,
         OneLiveLink, LinkTakenOnce
<1> QED
  BY <1>1, InvAlways, PTL

(* Until two requests overlap, a purge leaves no session and no link.      *)
THEOREM PurgesAreComplete == Spec => []NothingOutlivesAPurge
<1>1. AccountsInv => NothingOutlivesAPurge
  BY DEF AccountsInv, SerialInv, SessionsAreGood, LinksAreGood, NothingOutlivesAPurge
<1> QED
  BY <1>1, InvAlways, PTL

(* The rows are of their types; until two requests overlap, the columns    *)
(* that approve a buyer agree, and so do account and organisation.         *)
THEOREM AccountRowsAgree == Spec => []RowsAgree
<1>1. AccountsInv => RowsAgree
  BY DEF AccountsInv, OverlapInv, SerialInv, OrgIsGood, RowsAgree, VerifiedAgrees,
         DeletedTogether, Buyers
<1> QED
  BY <1>1, InvAlways, PTL
=============================================================================
