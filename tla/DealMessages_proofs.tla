------------------------- MODULE DealMessages_proofs -------------------------
(***************************************************************************)
(* Proofs about DealMessages.  The first part holds however the requests   *)
(* overlap, the second until two of them do.                               *)
(***************************************************************************)
EXTENDS DealMessages, TLAPS

(***************************************************************************)
(* What a request has in hand.                                             *)
(***************************************************************************)
LEMMA SlotAfter ==
    ASSUME TypeOK, NEW r \in Reqs, NEW work, tx' = [tx EXCEPT ![r] = work]
    PROVE  \A o \in Reqs : tx'[o] = IF o = r THEN work ELSE tx[o]
  BY DEF TypeOK

LEMMA MessageInHand ==
    ASSUME TypeOK, NEW r \in Reqs, tx[r].op \in {"send", "review"}
    PROVE  tx[r].message \in RfqMessage
  BY DEF TypeOK, Tx, Idle

LEMMA ReviewInHand ==
    ASSUME TypeOK, NEW r \in Reqs, tx[r].op = "review"
    PROVE  tx[r].message \in RfqMessage /\ tx[r].status \in {"ROUTED", "REVERTED"}
  BY DEF TypeOK, Tx, Idle

LEMMA ListInHand ==
    ASSUME TypeOK, NEW r \in Reqs, tx[r].op = "list"
    PROVE  tx[r].viewer \in Viewers /\ tx[r].visible \in SUBSET Nat /\ tx[r].now \in Nat
  BY DEF TypeOK, Tx, Idle

LEMMA NewMessageType ==
    ASSUME TypeOK, NEW role \in SenderRole
    PROVE  /\ NewMessage(role) \in RfqMessage
           /\ NewMessage(role).sent_at = requests + 1
           /\ NewMessage(role).sender_role = role
           /\ role \in Viewers => NewMessage(role).review_status = "PENDING"
  BY DEF TypeOK, NewMessage, RfqMessage, MessageReviewStatus

(* A review changes the status of one message, and no key and no sender.   *)
LEMMA Reviewed ==
    ASSUME TypeOK, NEW r \in Reqs, CommitReview(r)
    PROVE  /\ messages' \subseteq RfqMessage
           /\ \A n \in messages' : \E m \in messages :
                 /\ n.sent_at = m.sent_at /\ n.sender_role = m.sender_role
                 /\ IF m.sent_at = tx[r].message.sent_at
                    THEN n = [m EXCEPT !.review_status = tx[r].status] ELSE n = m
           /\ \A m \in messages :
                 /\ m.sent_at # tx[r].message.sent_at => m \in messages'
                 /\ \E n \in messages' : n.sent_at = m.sent_at /\ n.sender_role = m.sender_role
<1> DEFINE key == tx[r].message.sent_at
           After(m) == IF m.sent_at = key
                       THEN [m EXCEPT !.review_status = tx[r].status] ELSE m
<1>1. messages' = {After(m) : m \in messages}
  BY DEF CommitReview
<1>2. \A m \in messages : /\ After(m) \in RfqMessage
                          /\ After(m).sent_at = m.sent_at
                          /\ After(m).sender_role = m.sender_role
  BY ReviewInHand DEF CommitReview, TypeOK, RfqMessage, MessageReviewStatus
<1> QED
  BY <1>1, <1>2

(***************************************************************************)
(* Whatever overlaps.  The time of a request is the key of what it sends,  *)
(* no other request has it; a message under review stays where it is; and  *)
(* whoever will have a message delivered by a request in flight has its    *)
(* e-mail already.                                                         *)
(***************************************************************************)
Keys(table) == {m.sent_at : m \in table}

KeysAreSpent ==
    /\ \A m \in messages : m.sent_at <= requests
    /\ \A r \in Reqs : tx[r].op = "send" =>
          tx[r].message.sent_at <= requests /\ tx[r].message.sent_at \notin Keys(messages)
    /\ \A r, s \in Reqs : tx[r].op = "send" /\ tx[s].op = "send"
          /\ tx[r].message.sent_at = tx[s].message.sent_at => r = s
    /\ \A r \in Reqs : tx[r].op = "list" => tx[r].now \in 1..requests

UnderReview ==
    \A r \in Reqs : tx[r].op = "review" =>
        \E m \in messages : /\ m.sent_at = tx[r].message.sent_at
                            /\ m.sender_role = tx[r].message.sender_role

Told(message) ==
    \A v \in Viewers \ {message.sender_role} : message.sent_at \in told[v]

MailsAreOut ==
    \A r \in Reqs :
        /\ tx[r].op = "send" /\ tx[r].message.review_status = "ROUTED" => Told(tx[r].message)
        /\ tx[r].op = "review" /\ tx[r].status = "ROUTED" => Told(tx[r].message)

ToldInv == TypeOK /\ KeysAreSpent /\ UnderReview /\ MailsAreOut /\ DeliveredWereTold

LEMMA BeginType ==
    ASSUME TypeOK, NEW r \in Reqs, NEW work \in Tx, NEW to \in SUBSET Viewers,
           NEW n \in Nat, Begin(r, work, to, n)
    PROVE  /\ TypeOK'
           /\ requests' = requests + 1 /\ messages' = messages
           /\ \A v \in Viewers : told[v] \subseteq told'[v]
           /\ \A v \in to : n \in told'[v]
           /\ \A o \in Reqs : tx'[o] = IF o = r THEN work ELSE tx[o]
<1>1. tx' \in [Reqs -> Tx]
  BY DEF TypeOK, Begin
<1>2. told' \in [Viewers -> SUBSET Nat]
  BY DEF TypeOK, Begin
<1>3. read_at' \in [Viewers -> 0..requests']
  BY DEF TypeOK, Begin
<1>4. overlapped' \in BOOLEAN
  BY DEF TypeOK, Begin
<1>5. TypeOK'
  BY <1>1, <1>2, <1>3, <1>4 DEF TypeOK, Begin
<1> QED
  BY <1>5, SlotAfter DEF TypeOK, Begin

LEMMA EndType ==
    ASSUME TypeOK, NEW r \in Reqs, End(r)
    PROVE  /\ tx' \in [Reqs -> Tx] /\ requests' \in Nat
           /\ \A o \in Reqs : tx'[o] = IF o = r THEN Idle ELSE tx[o]
<1>1. Idle \in Tx
  BY DEF Tx
<1> QED
  BY <1>1, SlotAfter DEF TypeOK, End

LEMMA InitTold == Init => ToldInv
<1> SUFFICES ASSUME Init PROVE ToldInv
  OBVIOUS
<1>1. TypeOK
  <2>1. tx \in [Reqs -> Tx]
    BY DEF Init, Tx
  <2>2. messages \subseteq RfqMessage
    BY DEF Init, RfqMessage, SenderRole, Viewers, MessageReviewStatus
  <2>3. \A m, n \in messages : m.sent_at = n.sent_at => m = n
    BY DEF Init
  <2>4. read_at \in [Viewers -> 0..requests] /\ requests \in Nat
    <3>1. requests = 0 /\ 0 \in 0..0 /\ 0 \in Nat
      BY DEF Init
    <3>2. read_at = [v \in Viewers |-> 0]
      BY DEF Init
    <3> QED
      BY <3>1, <3>2
  <2>5. /\ shown \in [Viewers -> SUBSET Nat] /\ told \in [Viewers -> SUBSET Nat]
        /\ overlapped \in BOOLEAN
    BY DEF Init
  <2> QED
    BY <2>1, <2>2, <2>3, <2>4, <2>5 DEF TypeOK
<1>2. KeysAreSpent /\ UnderReview /\ MailsAreOut
  BY DEF Init, KeysAreSpent, UnderReview, MailsAreOut, Idle
<1>3. DeliveredWereTold
  BY DEF Init, DeliveredWereTold
<1> QED
  BY <1>1, <1>2, <1>3 DEF ToldInv

(* A request that has nothing to send and no message to review.            *)
LEMMA ToldAfterBegin ==
    ASSUME ToldInv, NEW r \in Reqs, NEW work \in Tx, NEW to \in SUBSET Viewers,
           NEW n \in Nat, Begin(r, work, to, n),
           work.op = "send" =>
               /\ work.message.sent_at = requests + 1
               /\ work.message.review_status = "ROUTED" => Viewers \subseteq to /\ n = requests + 1,
           work.op = "review" =>
               /\ work.message \in messages
               /\ work.status = "ROUTED" =>
                     to = Viewers \ {work.message.sender_role} /\ n = work.message.sent_at,
           work.op = "list" => work.now = requests + 1
    PROVE  ToldInv'
<1>1. TypeOK' /\ requests' = requests + 1 /\ messages' = messages
  BY BeginType DEF ToldInv
<1>2. /\ \A v \in Viewers : told[v] \subseteq told'[v]
      /\ \A v \in to : n \in told'[v]
  BY BeginType DEF ToldInv
<1>3. \A o \in Reqs : tx'[o] = IF o = r THEN work ELSE tx[o]
  BY BeginType DEF ToldInv
<1>4. requests \in Nat /\ \A m \in messages : m.sent_at \in Nat
  BY DEF ToldInv, TypeOK, RfqMessage
<1>5. \A o \in Reqs : tx[o].op = "send" => tx[o].message.sent_at \in Nat
  BY MessageInHand DEF ToldInv, RfqMessage
<1>6. KeysAreSpent'
  <2>1. \A m \in messages' : m.sent_at <= requests'
    BY <1>1, <1>4 DEF ToldInv, KeysAreSpent
  <2>2. \A o \in Reqs : tx'[o].op = "send" =>
          tx'[o].message.sent_at <= requests' /\ tx'[o].message.sent_at \notin Keys(messages')
    BY <1>1, <1>3, <1>4, <1>5 DEF ToldInv, KeysAreSpent, Keys
  <2>3. \A o, s \in Reqs : tx'[o].op = "send" /\ tx'[s].op = "send"
          /\ tx'[o].message.sent_at = tx'[s].message.sent_at => o = s
    BY <1>3, <1>4, <1>5 DEF ToldInv, KeysAreSpent
  <2>4. \A o \in Reqs : tx'[o].op = "list" => tx'[o].now \in 1..requests'
    BY <1>1, <1>3, <1>4 DEF ToldInv, KeysAreSpent
  <2> QED
    BY <2>1, <2>2, <2>3, <2>4 DEF KeysAreSpent
<1>7. UnderReview'
  BY <1>1, <1>3 DEF ToldInv, UnderReview
<1>8. MailsAreOut'
  <2> DEFINE IsTold(message) ==
               \A v \in Viewers \ {message.sender_role} : message.sent_at \in told'[v]
  <2> SUFFICES ASSUME NEW o \in Reqs
               PROVE  /\ tx'[o].op = "send" /\ tx'[o].message.review_status = "ROUTED"
                            => IsTold(tx'[o].message)
                      /\ tx'[o].op = "review" /\ tx'[o].status = "ROUTED"
                            => IsTold(tx'[o].message)
    BY DEF MailsAreOut, Told
  <2>1. CASE o = r
    BY <2>1, <1>2, <1>3 DEF Told
  <2>2. CASE o # r
    BY <2>2, <1>2, <1>3 DEF ToldInv, MailsAreOut, Told
  <2> QED
    BY <2>1, <2>2
<1>9. DeliveredWereTold'
  BY <1>1, <1>2 DEF ToldInv, DeliveredWereTold
<1> QED
  BY <1>1, <1>6, <1>7, <1>8, <1>9 DEF ToldInv
LEMMA ToldAfterEnd ==
    ASSUME ToldInv, NEW r \in Reqs, CommitSend(r) \/ CommitList(r) \/ Rollback(r)
    PROVE  ToldInv'
<1>1. End(r) /\ requests' = requests /\ told' = told
  BY DEF CommitSend, CommitList, Rollback, End
<1>2. \A o \in Reqs : tx'[o] = IF o = r THEN Idle ELSE tx[o]
  BY <1>1, EndType DEF ToldInv
<1>3. TypeOK'
  <2>1. tx' \in [Reqs -> Tx] /\ overlapped' = overlapped
    BY <1>1, EndType DEF ToldInv, End
  <2>2. CASE CommitSend(r)
    <3>1. messages' = messages \cup {tx[r].message} /\ tx[r].message \in RfqMessage
      BY <2>2, MessageInHand DEF CommitSend, ToldInv
    <3>2. \A m \in messages : m.sent_at # tx[r].message.sent_at
      BY <2>2 DEF CommitSend, ToldInv, KeysAreSpent, Keys
    <3>3. \A m, n \in messages' : m.sent_at = n.sent_at => m = n
      BY <3>1, <3>2 DEF ToldInv, TypeOK
    <3> QED
      BY <1>1, <2>1, <2>2, <3>1, <3>3 DEF CommitSend, ToldInv, TypeOK
  <2>3. CASE CommitList(r)
    <3>1. /\ tx[r].viewer \in Viewers /\ tx[r].visible \in SUBSET Nat
          /\ tx[r].now \in 0..requests
      BY <2>3, ListInHand DEF CommitList, ToldInv, KeysAreSpent, TypeOK
    <3> QED
      BY <1>1, <2>1, <2>3, <3>1 DEF CommitList, ToldInv, TypeOK
  <2>4. CASE Rollback(r)
    BY <1>1, <2>1, <2>4 DEF Rollback, ToldInv, TypeOK
  <2> QED
    BY <2>2, <2>3, <2>4
<1>4. \A m \in messages' :
        m \in messages \/ (tx[r].op = "send" /\ m = tx[r].message /\ Busy(r))
  BY DEF CommitSend, CommitList, Rollback, Busy
<1>5. KeysAreSpent'
  BY <1>1, <1>2, <1>4 DEF ToldInv, KeysAreSpent, Keys, Idle
<1>6. UnderReview'
  <2>1. messages \subseteq messages'
    BY DEF CommitSend, CommitList, Rollback
  <2> QED
    BY <1>2, <2>1 DEF ToldInv, UnderReview, Idle
<1>7. MailsAreOut'
  BY <1>1, <1>2 DEF ToldInv, MailsAreOut, Told, Idle
<1>8. DeliveredWereTold'
  BY <1>1, <1>4 DEF ToldInv, DeliveredWereTold, MailsAreOut, Told
<1> QED
  BY <1>3, <1>5, <1>6, <1>7, <1>8 DEF ToldInv

LEMMA ToldAfterReview ==
    ASSUME ToldInv, NEW r \in Reqs, CommitReview(r)
    PROVE  ToldInv'
<1> DEFINE key == tx[r].message.sent_at
<1>1. /\ End(r) /\ requests' = requests /\ told' = told
      /\ tx[r].op = "review" /\ read_at' = read_at /\ shown' = shown
  BY DEF CommitReview, End
<1>2. \A o \in Reqs : tx'[o] = IF o = r THEN Idle ELSE tx[o]
  BY <1>1, EndType DEF ToldInv
<1>3. /\ messages' \subseteq RfqMessage
      /\ \A n \in messages' : \E m \in messages :
            /\ n.sent_at = m.sent_at /\ n.sender_role = m.sender_role
            /\ IF m.sent_at = key
               THEN n = [m EXCEPT !.review_status = tx[r].status] ELSE n = m
      /\ \A m \in messages : \E n \in messages' :
            n.sent_at = m.sent_at /\ n.sender_role = m.sender_role
  BY Reviewed DEF ToldInv
<1>4. \A m, n \in messages : m.sent_at = n.sent_at => m = n
  BY DEF ToldInv, TypeOK
<1>5. TypeOK'
  <2>1. \A m, n \in messages' : m.sent_at = n.sent_at => m = n
    <3> SUFFICES ASSUME NEW m \in messages', NEW n \in messages', m.sent_at = n.sent_at
                 PROVE  m = n
      OBVIOUS
    <3>1. PICK k \in messages :
            /\ m.sent_at = k.sent_at
            /\ IF k.sent_at = key
               THEN m = [k EXCEPT !.review_status = tx[r].status] ELSE m = k
      BY <1>3
    <3>2. PICK l \in messages :
            /\ n.sent_at = l.sent_at
            /\ IF l.sent_at = key
               THEN n = [l EXCEPT !.review_status = tx[r].status] ELSE n = l
      BY <1>3
    <3>3. k = l
      BY <3>1, <3>2, <1>4
    <3> QED
      BY <3>1, <3>2, <3>3
  <2>2. tx' \in [Reqs -> Tx] /\ overlapped' = overlapped
    BY <1>1, EndType DEF ToldInv, End
  <2> QED
    BY <1>1, <1>3, <2>1, <2>2 DEF ToldInv, TypeOK
<1>6. KeysAreSpent'
  <2>1. Keys(messages') = Keys(messages)
    BY <1>3 DEF Keys
  <2> QED
    BY <1>1, <1>2, <1>3, <2>1 DEF ToldInv, KeysAreSpent, Idle
<1>7. UnderReview'
  <2> SUFFICES ASSUME NEW o \in Reqs, tx'[o].op = "review"
               PROVE  \E n \in messages' : /\ n.sent_at = tx'[o].message.sent_at
                                           /\ n.sender_role = tx'[o].message.sender_role
    BY DEF UnderReview
  <2>1. tx'[o] = tx[o]
    BY <1>2 DEF Idle
  <2> QED
    BY <1>3, <2>1 DEF ToldInv, UnderReview
<1>8. MailsAreOut'
  BY <1>1, <1>2 DEF ToldInv, MailsAreOut, Told, Idle
<1>9. DeliveredWereTold'
  <2> SUFFICES ASSUME NEW n \in messages', n.review_status = "ROUTED",
                      NEW v \in Viewers \ {n.sender_role}
               PROVE  n.sent_at \in told[v]
    BY <1>1 DEF DeliveredWereTold
  <2>1. PICK m \in messages :
          /\ n.sent_at = m.sent_at /\ n.sender_role = m.sender_role
          /\ IF m.sent_at = key
             THEN n = [m EXCEPT !.review_status = tx[r].status] ELSE n = m
    BY <1>3
  <2>2. CASE m.sent_at = key
    <3>1. tx[r].status = "ROUTED"
      BY <2>1, <2>2 DEF ToldInv, TypeOK, RfqMessage
    <3>2. tx[r].message.sender_role = m.sender_role
      BY <1>1, <1>4, <2>2 DEF ToldInv, UnderReview
    <3> QED
      BY <1>1, <2>1, <2>2, <3>1, <3>2 DEF ToldInv, MailsAreOut, Told
  <2>3. CASE m.sent_at # key
    BY <2>1, <2>3 DEF ToldInv, DeliveredWereTold
  <2> QED
    BY <2>2, <2>3
<1> QED
  BY <1>5, <1>6, <1>7, <1>8, <1>9 DEF ToldInv

(* The requests, each with what it begins with.                            *)
LEMMA ToldAfterSend ==
    ASSUME ToldInv, NEW r \in Reqs,
           SendRelayMessage(r) \/ \E role \in SenderRole : AddMessage(r, role)
    PROVE  ToldInv'
<1>1. \A role \in SenderRole : [op |-> "send", message |-> NewMessage(role)] \in Tx
  BY NewMessageType DEF ToldInv, Tx
<1>2. requests + 1 \in Nat /\ 0 \in Nat
  BY DEF ToldInv, TypeOK
<1>3. ASSUME NEW role \in SenderRole, AddMessage(r, role) PROVE ToldInv'
  <2> DEFINE work == [op |-> "send", message |-> NewMessage(role)]
  <2>1. role \in Viewers /\ Begin(r, work, {}, 0)
    BY <1>3 DEF AddMessage
  <2>2. /\ work \in Tx /\ work.op = "send"
        /\ work.message.sent_at = requests + 1
        /\ work.message.review_status # "ROUTED"
    BY <1>1, <2>1, NewMessageType DEF ToldInv
  <2> HIDE DEF work
  <2> QED
    BY <1>2, <2>1, <2>2, ToldAfterBegin
<1>4. CASE SendRelayMessage(r)
  <2> DEFINE work == [op |-> "send", message |-> NewMessage("admin")]
  <2>1. Begin(r, work, Viewers, requests + 1)
    BY <1>4 DEF SendRelayMessage
  <2>2. work \in Tx /\ work.op = "send" /\ work.message.sent_at = requests + 1
    BY <1>1, NewMessageType DEF ToldInv, SenderRole
  <2> HIDE DEF work
  <2> QED
    BY <1>2, <2>1, <2>2, ToldAfterBegin
<1> QED
  BY <1>3, <1>4

LEMMA ToldAfterList ==
    ASSUME ToldInv, NEW r \in Reqs, NEW viewer \in Viewers, ListMessages(r, viewer)
    PROVE  ToldInv'
<1> DEFINE work == [op |-> "list", viewer |-> viewer, now |-> requests + 1,
                    visible |-> {m.sent_at : m \in Visible(viewer)}]
<1>1. Begin(r, work, {}, 0)
  BY DEF ListMessages
<1>2. {m.sent_at : m \in Visible(viewer)} \in SUBSET Nat /\ requests + 1 \in Nat
  BY DEF ToldInv, TypeOK, Visible, RfqMessage
<1>3. work \in Tx /\ work.op = "list" /\ work.now = requests + 1
  BY <1>2 DEF Tx
<1> HIDE DEF work
<1> QED
  BY <1>1, <1>3, ToldAfterBegin

LEMMA ToldAfterBeginReview ==
    ASSUME ToldInv, NEW r \in Reqs, NEW m \in messages,
           RouteMessage(r, m) \/ RevertMessage(r, m)
    PROVE  ToldInv'
<1>1. m \in RfqMessage /\ m.sent_at \in Nat /\ 0 \in Nat
  BY DEF ToldInv, TypeOK, RfqMessage
<1>2. \A status \in {"ROUTED", "REVERTED"} :
        [op |-> "review", message |-> m, status |-> status] \in Tx
  BY <1>1 DEF Tx
<1>3. CASE RouteMessage(r, m)
  <2> DEFINE work == [op |-> "review", message |-> m, status |-> "ROUTED"]
  <2>1. Begin(r, work, Viewers \ {m.sender_role}, m.sent_at)
    BY <1>3 DEF RouteMessage
  <2>2. work \in Tx /\ work.op = "review" /\ work.message = m
    BY <1>2
  <2> HIDE DEF work
  <2> QED
    BY <1>1, <2>1, <2>2, ToldAfterBegin
<1>4. CASE RevertMessage(r, m)
  <2> DEFINE work == [op |-> "review", message |-> m, status |-> "REVERTED"]
  <2>1. Begin(r, work, {}, 0)
    BY <1>4 DEF RevertMessage
  <2>2. work \in Tx /\ work.op = "review" /\ work.message = m /\ work.status # "ROUTED"
    BY <1>2
  <2> HIDE DEF work
  <2> QED
    BY <1>1, <2>1, <2>2, ToldAfterBegin
<1> QED
  BY <1>3, <1>4

LEMMA NextTold == ToldInv /\ [Next]_vars => ToldInv'
<1> SUFFICES ASSUME ToldInv, [Next]_vars PROVE ToldInv'
  OBVIOUS
<1>1. CASE UNCHANGED vars
  <2>1. TypeOK'
    BY <1>1 DEF ToldInv, TypeOK, vars
  <2>2. KeysAreSpent' /\ UnderReview' /\ MailsAreOut' /\ DeliveredWereTold'
    BY <1>1 DEF ToldInv, KeysAreSpent, Keys, UnderReview, MailsAreOut, Told,
                DeliveredWereTold, vars
  <2> QED
    BY <2>1, <2>2 DEF ToldInv
<1>2. ASSUME NEW r \in Reqs,
             BuyerMessages(r) \/ SupplierMessages(r) \/ AdminMessages(r)
      PROVE  ToldInv'
  <2>1. "buyer" \in Viewers /\ "supplier" \in Viewers /\ Viewers \subseteq SenderRole
    BY DEF Viewers, SenderRole
  <2> QED
    BY <1>2, <2>1, ToldAfterSend, ToldAfterList, ToldAfterBeginReview
    DEF BuyerMessages, SupplierMessages, AdminMessages
<1>3. ASSUME NEW r \in Reqs, CommitSend(r) \/ CommitList(r) \/ CommitReview(r) \/ Rollback(r)
      PROVE  ToldInv'
  BY <1>3, ToldAfterEnd, ToldAfterReview
<1> QED
  BY <1>1, <1>2, <1>3 DEF Next

LEMMA ToldInvAlways == Spec => []ToldInv
  BY InitTold, NextTold, PTL DEF Spec

(* Rows, readings and what requests have in hand keep their types, and no  *)
(* two messages have one key, whatever overlaps.                           *)
THEOREM TypeCorrect == Spec => []TypeOK
<1>1. ToldInv => TypeOK
  BY DEF ToldInv
<1> QED
  BY <1>1, ToldInvAlways, PTL

(* Whoever has a message delivered was sent an e-mail of it, whatever      *)
(* overlaps and whichever requests fail.                                   *)
THEOREM DeliveriesAreTold == Spec => []DeliveredWereTold
<1>1. ToldInv => DeliveredWereTold
  BY DEF ToldInv
<1> QED
  BY <1>1, ToldInvAlways, PTL

(***************************************************************************)
(* Until two requests overlap.  The one in flight has in hand what is      *)
(* there, and what a viewer was shown is older than his last reading.      *)
(***************************************************************************)
Alone == \A r, s \in Reqs : Busy(r) /\ Busy(s) => r = s

Fresh ==
    \A r \in Reqs :
        /\ tx[r].op = "review" => tx[r].message \in messages /\ Reviewable(tx[r].message)
        /\ tx[r].op = "list" =>
              /\ tx[r].now = requests
              /\ tx[r].visible = {m.sent_at : m \in Visible(tx[r].viewer)}
              /\ \A k \in tx[r].visible : k < tx[r].now

ShownAreRead ==
    \A v \in Viewers : \A k \in shown[v] : k \in Keys(messages) /\ k < read_at[v]

ShownAreDelivered ==
    \A v \in Viewers, m \in messages :
        m.sent_at \in shown[v] => m.sender_role = v \/ m.review_status = "ROUTED"

SerialInv ==
    /\ ToldInv
    /\ ~overlapped => Alone /\ Fresh /\ ShownAreRead /\ ShownAreDelivered

LEMMA InitSerial == Init => SerialInv
<1> SUFFICES ASSUME Init PROVE SerialInv
  OBVIOUS
<1>1. Alone /\ Fresh
  BY DEF Init, Alone, Fresh, Busy, Idle
<1>2. ShownAreRead /\ ShownAreDelivered
  BY DEF Init, ShownAreRead, ShownAreDelivered
<1> QED
  BY <1>1, <1>2, InitTold DEF SerialInv

(* Whoever begins while requests take turns finds nobody in flight.        *)
LEMMA SerialAfterBegin ==
    ASSUME SerialInv, ToldInv', NEW r \in Reqs, NEW work \in Tx, NEW to, NEW n,
           Begin(r, work, to, n), work.op # "idle",
           work.op = "review" => work.message \in messages /\ Reviewable(work.message),
           work.op = "list" =>
               /\ work.now = requests + 1
               /\ work.visible = {m.sent_at : m \in Visible(work.viewer)}
    PROVE  SerialInv'
<1> SUFFICES ASSUME ~overlapped'
             PROVE  Alone' /\ Fresh' /\ ShownAreRead' /\ ShownAreDelivered'
  BY DEF SerialInv
<1>1. /\ ~overlapped /\ \A o \in Reqs : ~Busy(o)
      /\ messages' = messages /\ read_at' = read_at /\ shown' = shown
      /\ requests' = requests + 1
  BY DEF Begin
<1>2. \A o \in Reqs : tx'[o] = IF o = r THEN work ELSE tx[o]
  BY ZenonT(60), SlotAfter DEF Begin, SerialInv, ToldInv
<1>3. Alone'
  BY <1>1, <1>2 DEF Alone, Busy
<1>4. Fresh'
  <2>1. \A o \in Reqs : tx'[o].op \in {"review", "list"} => o = r
    BY <1>1, <1>2 DEF Busy
  <2>2. Visible(work.viewer)' = Visible(work.viewer)
    BY <1>1 DEF Visible
  <2>3. work.op = "list" => \A k \in work.visible : k < work.now
    <3>1. \A m \in messages : m.sent_at \in Nat /\ m.sent_at < requests + 1
      BY DEF SerialInv, ToldInv, KeysAreSpent, TypeOK, RfqMessage
    <3> QED
      BY <3>1 DEF Visible
  <2>4. tx'[r] = work
    BY <1>2
  <2>5. work.op = "review" => work.message \in messages' /\ Reviewable(work.message)
    BY <1>1
  <2>6. work.op = "list" => /\ work.now = requests'
                            /\ work.visible = {m.sent_at : m \in Visible(work.viewer)'}
    BY <1>1, <2>2
  <2> QED
    BY <1>1, <2>1, <2>3, <2>4, <2>5, <2>6 DEF Fresh, Reviewable, Visible
<1>5. ShownAreRead' /\ ShownAreDelivered'
  BY <1>1 DEF SerialInv, ShownAreRead, ShownAreDelivered
<1> QED
  BY <1>3, <1>4, <1>5

(* When the only request in flight ends, none is.                          *)
LEMMA AloneAfterEnd ==
    ASSUME SerialInv, ~overlapped, NEW r \in Reqs, Busy(r), End(r)
    PROVE  Alone' /\ Fresh'
<1>1. \A o \in Reqs : tx'[o].op = "idle"
  <2>1. \A o \in Reqs : tx'[o] = IF o = r THEN Idle ELSE tx[o]
    BY EndType DEF SerialInv, ToldInv
  <2> QED
    BY <2>1 DEF SerialInv, Alone, Busy, Idle
<1> QED
  BY <1>1 DEF Alone, Busy, Fresh

LEMMA SerialAfterSend ==
    ASSUME SerialInv, NEW r \in Reqs, CommitSend(r)
    PROVE  SerialInv'
<1>1. ToldInv'
  BY ToldAfterEnd DEF SerialInv
<1> SUFFICES ASSUME ~overlapped'
             PROVE  Alone' /\ Fresh' /\ ShownAreRead' /\ ShownAreDelivered'
  BY <1>1 DEF SerialInv
<1>2. /\ ~overlapped /\ Busy(r) /\ tx[r].op = "send"
      /\ messages' = messages \cup {tx[r].message}
      /\ read_at' = read_at /\ shown' = shown
  BY DEF CommitSend, End, Busy
<1>3. Alone' /\ Fresh'
  BY <1>2, AloneAfterEnd DEF CommitSend
<1>4. ShownAreRead'
  BY <1>2 DEF SerialInv, ShownAreRead, Keys
<1>5. ShownAreDelivered'
  <2>1. tx[r].message.sent_at \notin Keys(messages)
    BY <1>2 DEF SerialInv, ToldInv, KeysAreSpent
  <2>2. \A v \in Viewers : tx[r].message.sent_at \notin shown[v]
    BY <1>2, <2>1 DEF SerialInv, ShownAreRead
  <2> QED
    BY <1>2, <2>2 DEF SerialInv, ShownAreDelivered
<1> QED
  BY <1>3, <1>4, <1>5

LEMMA SerialAfterList ==
    ASSUME SerialInv, NEW r \in Reqs, CommitList(r)
    PROVE  SerialInv'
<1>1. ToldInv'
  BY ToldAfterEnd DEF SerialInv
<1> SUFFICES ASSUME ~overlapped'
             PROVE  Alone' /\ Fresh' /\ ShownAreRead' /\ ShownAreDelivered'
  BY <1>1 DEF SerialInv
<1> DEFINE w == tx[r]
<1>2. /\ ~overlapped /\ Busy(r) /\ w.op = "list" /\ messages' = messages
      /\ read_at' = [read_at EXCEPT ![w.viewer] = w.now]
      /\ shown' = [shown EXCEPT ![w.viewer] = shown[w.viewer] \cup w.visible]
  BY DEF CommitList, End, Busy
<1>3. Alone' /\ Fresh'
  BY <1>2, AloneAfterEnd DEF CommitList
<1>4. /\ w.viewer \in Viewers /\ w.now = requests
      /\ w.visible = {m.sent_at : m \in Visible(w.viewer)}
      /\ \A k \in w.visible : k < w.now
  BY <1>2, ListInHand DEF SerialInv, Fresh, ToldInv
<1>5. /\ read_at \in [Viewers -> 0..requests] /\ requests \in Nat
      /\ shown \in [Viewers -> SUBSET Nat]
  BY DEF SerialInv, ToldInv, TypeOK
<1>6. /\ \A v \in Viewers : read_at'[v] = IF v = w.viewer THEN w.now ELSE read_at[v]
      /\ \A v \in Viewers : shown'[v] = IF v = w.viewer THEN shown[v] \cup w.visible ELSE shown[v]
  BY <1>2, <1>5
<1>7. ShownAreRead'
  <2> SUFFICES ASSUME NEW v \in Viewers, NEW k \in shown'[v]
               PROVE  k \in Keys(messages) /\ k < read_at'[v]
    BY <1>2 DEF ShownAreRead, Keys
  <2>1. CASE k \in shown[v]
    <3>1. k \in Keys(messages) /\ k < read_at[v] /\ read_at[v] <= requests /\ k \in Nat
      BY <1>2, <1>5, <2>1 DEF SerialInv, ShownAreRead
    <3> QED
      BY <1>4, <1>5, <1>6, <3>1
  <2>2. CASE v = w.viewer /\ k \in w.visible
    BY <1>4, <1>6, <2>2 DEF Keys, Visible
  <2> QED
    BY <1>6, <2>1, <2>2
<1>8. ShownAreDelivered'
  <2> SUFFICES ASSUME NEW v \in Viewers, NEW m \in messages, m.sent_at \in shown'[v]
               PROVE  m.sender_role = v \/ m.review_status = "ROUTED"
    BY <1>2 DEF ShownAreDelivered
  <2>1. CASE m.sent_at \in shown[v]
    BY <1>2, <2>1 DEF SerialInv, ShownAreDelivered
  <2>2. CASE v = w.viewer /\ m.sent_at \in w.visible
    <3>1. m \in Visible(v)
      BY <1>4, <2>2 DEF SerialInv, ToldInv, TypeOK, Visible
    <3> QED
      BY <3>1 DEF Visible
  <2> QED
    BY <1>6, <2>1, <2>2
<1> QED
  BY <1>3, <1>7, <1>8

LEMMA SerialAfterReview ==
    ASSUME SerialInv, NEW r \in Reqs, CommitReview(r)
    PROVE  SerialInv'
<1>1. ToldInv'
  BY ToldAfterReview DEF SerialInv
<1> SUFFICES ASSUME ~overlapped'
             PROVE  Alone' /\ Fresh' /\ ShownAreRead' /\ ShownAreDelivered'
  BY <1>1 DEF SerialInv
<1>2. /\ ~overlapped /\ Busy(r) /\ tx[r].op = "review"
      /\ read_at' = read_at /\ shown' = shown
  BY DEF CommitReview, End, Busy
<1>3. Alone' /\ Fresh'
  BY <1>2, AloneAfterEnd DEF CommitReview
<1>4. /\ \A n \in messages' : \E m \in messages :
            /\ n.sent_at = m.sent_at /\ n.sender_role = m.sender_role
            /\ IF m.sent_at = tx[r].message.sent_at
               THEN n = [m EXCEPT !.review_status = tx[r].status] ELSE n = m
      /\ \A m \in messages : \E n \in messages' :
            n.sent_at = m.sent_at /\ n.sender_role = m.sender_role
  BY Reviewed DEF SerialInv, ToldInv
<1>5. ShownAreRead'
  BY <1>2, <1>4 DEF SerialInv, ShownAreRead, Keys
<1>6. ShownAreDelivered'
  <2> SUFFICES ASSUME NEW v \in Viewers, NEW n \in messages', n.sent_at \in shown[v]
               PROVE  n.sender_role = v \/ n.review_status = "ROUTED"
    BY <1>2 DEF ShownAreDelivered
  <2>1. PICK m \in messages :
          /\ n.sent_at = m.sent_at /\ n.sender_role = m.sender_role
          /\ IF m.sent_at = tx[r].message.sent_at
             THEN n = [m EXCEPT !.review_status = tx[r].status] ELSE n = m
    BY <1>4
  <2>2. m.sender_role = v \/ m.review_status = "ROUTED"
    BY <1>2, <2>1 DEF SerialInv, ShownAreDelivered
  <2>3. m.sent_at = tx[r].message.sent_at => m.review_status = "PENDING"
    BY <1>2 DEF SerialInv, Fresh, ToldInv, TypeOK, Reviewable
  <2> QED
    BY <2>1, <2>2, <2>3
<1> QED
  BY <1>3, <1>5, <1>6

LEMMA SerialAfterRollback ==
    ASSUME SerialInv, NEW r \in Reqs, Rollback(r)
    PROVE  SerialInv'
<1>1. ToldInv'
  BY ToldAfterEnd DEF SerialInv
<1>2. /\ Busy(r) /\ overlapped' = overlapped /\ messages' = messages
      /\ read_at' = read_at /\ shown' = shown
  BY DEF Rollback, End
<1>3. ~overlapped => Alone' /\ Fresh'
  BY <1>2, AloneAfterEnd DEF Rollback
<1> QED
  BY <1>1, <1>2, <1>3 DEF SerialInv, ShownAreRead, ShownAreDelivered, Keys

LEMMA SerialAfterRequest ==
    ASSUME SerialInv, ToldInv', NEW r \in Reqs,
           BuyerMessages(r) \/ SupplierMessages(r) \/ AdminMessages(r)
    PROVE  SerialInv'
<1>1. ASSUME NEW role \in SenderRole, NEW to, NEW n,
             Begin(r, [op |-> "send", message |-> NewMessage(role)], to, n)
      PROVE  SerialInv'
  <2> DEFINE work == [op |-> "send", message |-> NewMessage(role)]
  <2>1. work \in Tx /\ work.op = "send"
    BY NewMessageType DEF SerialInv, ToldInv, Tx
  <2>2. Begin(r, work, to, n)
    BY <1>1
  <2> HIDE DEF work
  <2> QED
    BY <2>1, <2>2, SerialAfterBegin
<1>2. ASSUME NEW viewer \in Viewers, ListMessages(r, viewer) PROVE SerialInv'
  <2> DEFINE work == [op |-> "list", viewer |-> viewer, now |-> requests + 1,
                      visible |-> {m.sent_at : m \in Visible(viewer)}]
  <2>1. Begin(r, work, {}, 0)
    BY <1>2 DEF ListMessages
  <2>2. {m.sent_at : m \in Visible(viewer)} \in SUBSET Nat /\ requests + 1 \in Nat
    BY DEF SerialInv, ToldInv, TypeOK, Visible, RfqMessage
  <2>3. /\ work \in Tx /\ work.op = "list" /\ work.now = requests + 1
        /\ work.viewer = viewer
        /\ work.visible = {m.sent_at : m \in Visible(viewer)}
    BY <2>2 DEF Tx
  <2> HIDE DEF work
  <2> QED
    BY <2>1, <2>3, SerialAfterBegin
<1>3. ASSUME NEW m \in messages, NEW status \in {"ROUTED", "REVERTED"}, NEW to, NEW n,
             Reviewable(m), Begin(r, [op |-> "review", message |-> m, status |-> status], to, n)
      PROVE  SerialInv'
  <2> DEFINE work == [op |-> "review", message |-> m, status |-> status]
  <2>1. work \in Tx /\ work.op = "review" /\ work.message = m
    BY DEF SerialInv, ToldInv, TypeOK, Tx
  <2>2. Begin(r, work, to, n)
    BY <1>3
  <2> HIDE DEF work
  <2> QED
    BY <1>3, <2>1, <2>2, SerialAfterBegin
<1>4. "buyer" \in Viewers /\ "supplier" \in Viewers /\ Viewers \subseteq SenderRole
      /\ "admin" \in SenderRole
  BY DEF Viewers, SenderRole
<1>5. CASE BuyerMessages(r) \/ SupplierMessages(r)
  BY <1>1, <1>2, <1>4, <1>5 DEF BuyerMessages, SupplierMessages, AddMessage
<1>6. CASE AdminMessages(r)
  BY <1>1, <1>3, <1>4, <1>6 DEF AdminMessages, SendRelayMessage, RouteMessage, RevertMessage
<1> QED
  BY <1>5, <1>6

LEMMA NextSerial == SerialInv /\ [Next]_vars => SerialInv'
<1> SUFFICES ASSUME SerialInv, [Next]_vars PROVE SerialInv'
  OBVIOUS
<1>1. ToldInv'
  BY NextTold DEF SerialInv
<1>2. CASE UNCHANGED vars
  BY <1>1, <1>2 DEF SerialInv, Alone, Busy, Fresh, Reviewable, Visible, ShownAreRead,
                    ShownAreDelivered, Keys, vars
<1>3. CASE Next
  BY <1>1, <1>3, SerialAfterRequest, SerialAfterSend, SerialAfterList, SerialAfterReview,
     SerialAfterRollback DEF Next
<1> QED
  BY <1>2, <1>3

LEMMA SerialInvAlways == Spec => []SerialInv
  BY InitSerial, NextSerial, PTL DEF Spec

(* Until two requests overlap, what MIU has sent back or not reviewed was  *)
(* never shown to the other party.                                         *)
THEOREM OnlyDeliveriesAreShown == Spec => []ShownWasDelivered
<1>1. SerialInv => ShownWasDelivered
  BY DEF SerialInv, ShownAreDelivered, ShownWasDelivered
<1> QED
  BY <1>1, SerialInvAlways, PTL

(* Until two requests overlap, a message is reviewed once.                 *)
THEOREM ReviewsAreFinal == Spec => ReviewIsFinal
<1>1. ASSUME SerialInv, [Next]_vars, ~overlapped', NEW m \in messages,
             m.review_status # "PENDING"
      PROVE  m \in messages'
  <2>1. CASE messages \subseteq messages'
    BY <2>1
  <2>2. ASSUME NEW r \in Reqs, CommitReview(r) PROVE m \in messages'
    <3>1. ~overlapped /\ tx[r].op = "review"
      BY <1>1, <2>2 DEF CommitReview, End
    <3>2. m.sent_at # tx[r].message.sent_at
      BY <1>1, <3>1 DEF SerialInv, Fresh, Reviewable, ToldInv, TypeOK
    <3> QED
      BY <1>1, <2>2, <3>2, Reviewed DEF SerialInv, ToldInv
  <2>3. (\E r \in Reqs : CommitReview(r)) \/ messages \subseteq messages'
    BY <1>1 DEF Next, BuyerMessages, SupplierMessages, AdminMessages, AddMessage,
                SendRelayMessage, ListMessages, RouteMessage, RevertMessage, Begin,
                CommitSend, CommitList, Rollback, vars
  <2> QED
    BY <2>1, <2>2, <2>3
<1>2. SerialInv /\ [Next]_vars =>
        [~overlapped' => \A m \in messages :
            m.review_status # "PENDING" => m \in messages']_vars
  BY <1>1
<1> QED
  BY <1>2, SerialInvAlways, PTL DEF Spec, ReviewIsFinal

(* A badge is for a message the viewer was never shown.                    *)
THEOREM BadgesAreForTheUnseen == Spec => []BadgeMeansUnseen
<1>1. SerialInv => BadgeMeansUnseen
  <2> SUFFICES ASSUME SerialInv, ~overlapped, NEW v \in Viewers, ThreadNeedsReply(v),
                      Last.sent_at \in shown[v]
               PROVE  FALSE
    BY DEF BadgeMeansUnseen
  <2>1. Last.sent_at < read_at[v]
    BY DEF SerialInv, ShownAreRead
  <2>2. Last.sent_at \in Nat /\ read_at[v] \in Nat
    BY DEF SerialInv, ToldInv, TypeOK
  <2> QED
    BY <2>1, <2>2 DEF ThreadNeedsReply
<1> QED
  BY <1>1, SerialInvAlways, PTL

(* Mails and badges go with what each viewer has of the thread.            *)
THEOREM ViewersAreKeptUp == Spec => []ViewersKeepUp
<1>1. TypeOK /\ DeliveredWereTold /\ BadgeMeansUnseen => ViewersKeepUp
  BY DEF ViewersKeepUp
<1> QED
  BY <1>1, TypeCorrect, DeliveriesAreTold, BadgesAreForTheUnseen, PTL

=============================================================================
