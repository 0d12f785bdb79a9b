----------------------------- MODULE DealMessages -----------------------------
(***************************************************************************)
(* The thread of one deal: the buyer and the supplier write to each other  *)
(* through MIU, whose admins deliver each message, send it back, or write  *)
(* themselves; and the badges that tell the two of unread messages.        *)
(*                                                                         *)
(* A handler reads its rows, and COMMITS in a later step; no row is locked.*)
(* An e-mail goes out before the commit, and is not taken back when the    *)
(* request fails.  The time of a request is its number: a message has the  *)
(* time it was sent, a viewer the time the thread was last opened.         *)
(* History: `shown' and `told' are the messages each viewer was shown, or  *)
(* was sent an e-mail of; `overlapped' says whether two requests ever did. *)
(***************************************************************************)
EXTENDS Integers, FiniteSets

CONSTANTS
    Reqs,           \* request slots
    MaxRequests     \* bound: requests that ever begin

ASSUME BoundsAssumption == MaxRequests \in Nat

VARIABLES
    messages,   \* the rows of rfq_messages
    read_at,    \* supplier_messages_read_at and buyer_messages_read_at
    requests,   \* how many requests ever began
    shown, told, overlapped, \* history
    tx          \* the unit of work of the request in each slot

vars == <<messages, read_at, requests, shown, told, overlapped, tx>>

-----------------------------------------------------------------------------
Viewers == {"buyer", "supplier"}

SenderRole == Viewers \cup {"admin"}

MessageReviewStatus == {"PENDING", "ROUTED", "REVERTED"}

RfqMessage == [sent_at : Nat, sender_role : SenderRole, review_status : MessageReviewStatus]

Idle == [op |-> "idle"]

(* A message to insert; one to update, with the status it gets; or what a  *)
(* viewer is shown, and when.                                              *)
Tx == {Idle}
    \cup [op : {"send"}, message : RfqMessage]
    \cup [op : {"review"}, message : RfqMessage, status : {"ROUTED", "REVERTED"}]
    \cup [op : {"list"}, viewer : Viewers, visible : SUBSET Nat, now : Nat]

(* The type invariant; the time of a message is its key.                   *)
TypeOK ==
    /\ messages \subseteq RfqMessage
    /\ \A m, n \in messages : m.sent_at = n.sent_at => m = n
    /\ read_at \in [Viewers -> 0..requests]
    /\ requests \in Nat
    /\ shown \in [Viewers -> SUBSET Nat] /\ told \in [Viewers -> SUBSET Nat]
    /\ overlapped \in BOOLEAN
    /\ tx \in [Reqs -> Tx]

-----------------------------------------------------------------------------
Busy(r) == tx[r].op # "idle"

Begin(r, work, recipients, message) ==
    /\ ~Busy(r) /\ requests < MaxRequests
    /\ requests' = requests + 1
    /\ overlapped' = (overlapped \/ \E o \in Reqs : Busy(o))
    /\ tx' = [tx EXCEPT ![r] = work]
    /\ told' = [v \in Viewers |->
                   IF v \in recipients THEN told[v] \cup {message} ELSE told[v]]
    /\ UNCHANGED <<messages, read_at, shown>>

End(r) ==
    /\ tx' = [tx EXCEPT ![r] = Idle]
    /\ UNCHANGED <<requests, told, overlapped>>

(* A new RFQ may open the thread with a message of the buyer.              *)
Init ==
    /\ messages \in {{}, {[sent_at |-> 0, sender_role |-> "buyer", review_status |-> "PENDING"]}}
    /\ read_at = [v \in Viewers |-> 0]
    /\ requests = 0
    /\ shown = [v \in Viewers |-> {}] /\ told = [v \in Viewers |-> {}]
    /\ overlapped = FALSE
    /\ tx = [r \in Reqs |-> Idle]

-----------------------------------------------------------------------------
(* What the buyer and the supplier write is to be reviewed; what an admin  *)
(* writes is not.                                                          *)
NewMessage(role) ==
    [sent_at |-> requests + 1, sender_role |-> role,
     review_status |-> IF role \in Viewers THEN "PENDING" ELSE "ROUTED"]

AddMessage(r, role) ==
    /\ role \in Viewers
    /\ Begin(r, [op |-> "send", message |-> NewMessage(role)], {}, 0)

(* An admin's message reaches both parties, and both get an e-mail.        *)
SendRelayMessage(r) ==
    Begin(r, [op |-> "send", message |-> NewMessage("admin")], Viewers, requests + 1)

CommitSend(r) ==
    /\ tx[r].op = "send"
    /\ messages' = messages \cup {tx[r].message}
    /\ End(r)
    /\ UNCHANGED <<read_at, shown>>

\* mutant: a viewer is shown what waits for a review, too
Visible_Pending(viewer) ==
    {m \in messages : m.sender_role = viewer \/ m.review_status \in {"ROUTED", "PENDING"}}

Visible(viewer) ==
    {m \in messages : m.sender_role = viewer \/ m.review_status = "ROUTED"}

ListMessages(r, viewer) ==
    Begin(r, [op |-> "list", viewer |-> viewer, now |-> requests + 1,
              visible |-> {m.sent_at : m \in Visible(viewer)}], {}, 0)

(* Opening the thread marks it read for the viewer.                        *)
CommitList(r) == LET w == tx[r] IN
    /\ w.op = "list"
    /\ read_at' = [read_at EXCEPT ![w.viewer] = w.now]
    /\ shown' = [shown EXCEPT ![w.viewer] = @ \cup w.visible]
    /\ End(r)
    /\ UNCHANGED messages

(* What is pending may be reviewed.                                        *)
Reviewable(m) == m.review_status = "PENDING"

\* mutant: the sender gets the e-mail
RouteMessage_TellsSender(r, m) ==
    /\ Reviewable(m)
    /\ Begin(r, [op |-> "review", message |-> m, status |-> "ROUTED"],
             {m.sender_role}, m.sent_at)

(* The other party gets an e-mail.                                         *)
RouteMessage(r, m) ==
    /\ Reviewable(m)
    /\ Begin(r, [op |-> "review", message |-> m, status |-> "ROUTED"],
             Viewers \ {m.sender_role}, m.sent_at)

\* mutant: what was delivered may be sent back
RevertMessage_Late(r, m) ==
    /\ m.sender_role \in Viewers
    /\ Begin(r, [op |-> "review", message |-> m, status |-> "REVERTED"], {}, 0)

RevertMessage(r, m) ==
    /\ Reviewable(m)
    /\ Begin(r, [op |-> "review", message |-> m, status |-> "REVERTED"], {}, 0)

(* The status is written over whatever another admin made it meanwhile.    *)
CommitReview(r) == LET w == tx[r] IN
    /\ w.op = "review"
    /\ messages' = {IF m.sent_at = w.message.sent_at
                    THEN [m EXCEPT !.review_status = w.status] ELSE m : m \in messages}
    /\ End(r)
    /\ UNCHANGED <<read_at, shown>>

(* An exception, a worker that dies.                                       *)
Rollback(r) == Busy(r) /\ End(r) /\ UNCHANGED <<messages, read_at, shown>>

-----------------------------------------------------------------------------
(* The badges.                                                             *)

Last == CHOOSE m \in messages : \A n \in messages : n.sent_at <= m.sent_at

(* A viewer has a badge for the last message of the thread, if it is from  *)
(* another, was delivered, and was sent after the thread was last opened.  *)
ThreadNeedsReply(viewer) ==
    /\ messages # {}
    /\ Last.review_status = "ROUTED"
    /\ Last.sender_role # viewer
    /\ read_at[viewer] < Last.sent_at \/ read_at[viewer] = 0

-----------------------------------------------------------------------------
BuyerMessages(r) == AddMessage(r, "buyer") \/ ListMessages(r, "buyer")

SupplierMessages(r) == AddMessage(r, "supplier") \/ ListMessages(r, "supplier")

AdminMessages(r) ==
    \/ SendRelayMessage(r)
    \/ \E m \in messages : RouteMessage(r, m) \/ RevertMessage(r, m)

Next == \E r \in Reqs :
    \/ BuyerMessages(r) \/ SupplierMessages(r) \/ AdminMessages(r)
    \/ CommitSend(r) \/ CommitList(r) \/ CommitReview(r) \/ Rollback(r)

Spec == Init /\ [][Next]_vars

-----------------------------------------------------------------------------
(* PROPERTIES.  Those that start with ~overlapped hold until two requests  *)
(* overlap, for no message is locked when it is reviewed.                  *)

(* A message that MIU sends back, or has not reviewed, was never shown to  *)
(* the other party: what a viewer was shown is its own or delivered.       *)
ShownWasDelivered ==
    ~overlapped => \A v \in Viewers, m \in messages :
        m.sent_at \in shown[v] => m.sender_role = v \/ m.review_status = "ROUTED"

(* A message is reviewed once: its status is final.                        *)
ReviewIsFinal ==
    [][~overlapped' => \A m \in messages :
          m.review_status # "PENDING" => m \in messages']_vars

(* Whoever has a message delivered was sent an e-mail of it, whatever      *)
(* overlaps and whichever requests fail.                                   *)
DeliveredWereTold ==
    \A m \in messages : m.review_status = "ROUTED" =>
        \A v \in Viewers \ {m.sender_role} : m.sent_at \in told[v]

(* A badge is for a message the viewer was never shown: opening the thread *)
(* clears it.                                                              *)
BadgeMeansUnseen ==
    ~overlapped => \A v \in Viewers :
        ThreadNeedsReply(v) => Last.sent_at \notin shown[v]

(* The rows are of their types, and mails and badges go with what each     *)
(* viewer has of the thread.                                               *)
ViewersKeepUp ==
    /\ TypeOK
    /\ DeliveredWereTold
    /\ BadgeMeansUnseen
=============================================================================
