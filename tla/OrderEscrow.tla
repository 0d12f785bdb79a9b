---------------------------- MODULE OrderEscrow ----------------------------
(***************************************************************************)
(* One order of the export hub after accept_rfq created it: where it       *)
(* stands in the seven-stage pipeline (orders.status, and the rows of      *)
(* order_milestones every role reads), its trade-assurance escrow with the *)
(* upfront and balance milestones, the buyer's payment link, and the       *)
(* proofs of payment MIU Admin records.                                    *)
(*                                                                         *)
(* No handler here locks a row.  As in QuoteDeal a request begins by       *)
(* loading rows and checking its guards and commits by writing them, and   *)
(* the ORM writes a column only when the new value differs from the loaded *)
(* one (Written).  The first UPDATE of a handler, which autoflush emits    *)
(* before the handler's next SELECT, takes the row lock it keeps until it  *)
(* commits: what a handler reads after that UPDATE is current, and a       *)
(* commit is one step.                                                     *)
(*                                                                         *)
(* The requests in Solo do not overlap each other.  `resaved' is history:  *)
(* some request has saved the very stage it had loaded.                    *)
(***************************************************************************)
EXTENDS Integers, Sequences, FiniteSets

CONSTANTS
    BuyerReqs,      \* request slots of the buyer organisation's members
    GatewayReqs,    \* request slots of Pesapal's redirects to the callback
    PartnerReqs,    \* request slots of the supplier organisation's members
    AdminReqs,      \* request slots of the MIU admins
    Solo,           \* the slots whose requests do not overlap each other
    PesapalEnabled, \* settings.pesapal_enabled
    MaxProofs       \* bound: rows of order_payment_proofs

Reqs == BuyerReqs \cup GatewayReqs \cup PartnerReqs \cup AdminReqs

ASSUME ModeAssumption == PesapalEnabled \in BOOLEAN
ASSUME BoundAssumption == MaxProofs \in Nat

VARIABLES
    stage,      \* orders.status, as its index in ORDER_PIPELINE
    shown,      \* the index of the CURRENT row of order_milestones
    escrow,     \* payment_escrows.status
    upfront,    \* payment_milestones.status of the upfront leg
    balance,    \* payment_milestones.status of the balance leg
    link,       \* payment_links: paid_at is set, expires_at has passed
    proofs,     \* the rows of order_payment_proofs
    secured,    \* rows of order_activity "Trade assurance payment secured."
    released,   \* rows of admin_action_logs with action release_escrow
    resaved,    \* history
    tx          \* what the request in each slot has loaded

order == <<stage, shown, resaved>>
money == <<escrow, upfront, balance, link, proofs, secured, released>>
vars == <<order, money, tx>>

-----------------------------------------------------------------------------
(* ORDER_PIPELINE, by index.                                               *)
Confirmed       == 0
PaymentSecured  == 1
InProduction    == 2
ReadyToDispatch == 3
Fulfilled       == 6

Stages == Confirmed .. Fulfilled

EscrowStatus == {"PENDING", "UPFRONT_RECEIVED", "BALANCE_RELEASED"}

MilestoneStatus == {"PENDING", "RECEIVED", "RELEASED"}

(* `other', like a progress payment or a refund, settles no leg: left out. *)
ProofType == {"DOWN_PAYMENT", "PROGRESS_PAYMENT", "FINAL_PAYMENT", "REFUND"}

ProofRow == [type : ProofType, reference : Nat, deleted : BOOLEAN]

Idle == [op |-> "idle"]

Tx == [op : {"idle"}]
      \cup [op : {"stage"}, stage : Stages, target : Stages, override : BOOLEAN]
      \cup [op : {"pay"}, stage : Stages, escrow : EscrowStatus]
      \cup [op : {"release"}, escrow : EscrowStatus]
      \cup [op : {"proof"}, type : ProofType, reference : Nat,
            escrow : EscrowStatus, upfront : MilestoneStatus,
            balance : MilestoneStatus]

(* The type invariant: rows, and the rows a request has in hand, are rows. *)
TypeOK ==
    /\ stage \in Stages /\ shown \in Stages
    /\ escrow \in EscrowStatus
    /\ upfront \in MilestoneStatus /\ balance \in MilestoneStatus
    /\ link \in [paid : BOOLEAN, expired : BOOLEAN]
    /\ proofs \in Seq(ProofRow)
    /\ secured \in Nat /\ released \in Nat
    /\ resaved \in BOOLEAN
    /\ tx \in [Reqs -> Tx]

-----------------------------------------------------------------------------
Busy(r) == tx[r].op # "idle"

MayStart(r) ==
    /\ ~Busy(r)
    /\ r \in Solo => \A o \in Solo : ~Busy(o)

Begin(r, load) ==
    /\ MayStart(r)
    /\ tx' = [tx EXCEPT ![r] = load]
    /\ UNCHANGED <<order, money>>

End(r) == tx' = [tx EXCEPT ![r] = Idle]

(* The column after a flush: untouched when the handler left it as loaded. *)
Written(loaded, new, current) == IF new = loaded THEN current ELSE new

(* What accept_rfq inserts.                                                *)
Init ==
    /\ stage = Confirmed /\ shown = Confirmed
    /\ escrow = "PENDING" /\ upfront = "PENDING" /\ balance = "PENDING"
    /\ link = [paid |-> FALSE, expired |-> FALSE]
    /\ proofs = <<>>
    /\ secured = 0 /\ released = 0
    /\ resaved = FALSE
    /\ tx = [r \in Reqs |-> Idle]

-----------------------------------------------------------------------------
(* The pipeline.  SaveStage is the assignment of order.status followed by  *)
(* sync_pipeline_milestones, whose SELECT flushes the order first.         *)

SaveStage(loaded, target) ==
    /\ stage' = Written(loaded, target, stage)
    /\ shown' = target
    /\ resaved' = (resaved \/ target = loaded)

StageLoad(target, override) ==
    [op |-> "stage", stage |-> stage, target |-> target, override |-> override]

(* AdminService.advance_order: one step, refused at the last stage.        *)
BeginAdvance(r) ==
    /\ r \in AdminReqs
    /\ stage < Fulfilled
    /\ Begin(r, StageLoad(stage + 1, FALSE))

(* AdminService.update_order_milestones: the loaded stage, the next one,   *)
(* or any with admin_override.                                             *)
BeginUpdate(r) ==
    /\ r \in AdminReqs
    /\ \E target \in Stages, override \in BOOLEAN :
          /\ ~override => target \in {stage, stage + 1}
          /\ Begin(r, StageLoad(target, override))

\* mutant: the supplier advances whatever stage the order is at
BeginDispatch_AnyStage(r) ==
    /\ r \in PartnerReqs
    /\ Begin(r, StageLoad(ReadyToDispatch, FALSE))

(* OrderService.advance_supplier_order: only out of In Production.         *)
BeginDispatch(r) ==
    /\ r \in PartnerReqs
    /\ stage = InProduction
    /\ Begin(r, StageLoad(ReadyToDispatch, FALSE))

\* mutant: the status is saved without sync_pipeline_milestones
CommitStage_NoSync(r) ==
    /\ tx[r].op = "stage"
    /\ stage' = Written(tx[r].stage, tx[r].target, stage)
    /\ End(r)
    /\ UNCHANGED <<shown, resaved, money>>

CommitStage(r) ==
    /\ tx[r].op = "stage"
    /\ SaveStage(tx[r].stage, tx[r].target)
    /\ End(r)
    /\ UNCHANGED money

-----------------------------------------------------------------------------
(* The upfront payment.                                                    *)

PayLoad == [op |-> "pay", stage |-> stage, escrow |-> escrow]

(* initiate_order_payment without a gateway: the payment is simulated.     *)
(* With one it only returns the address of the payment page.               *)
BeginPay(r) ==
    /\ r \in BuyerReqs
    /\ ~PesapalEnabled
    /\ ~link.expired
    /\ escrow = "PENDING"
    /\ Begin(r, PayLoad)

(* process_pesapal_callback, up to the call that asks Pesapal.             *)
BeginCallback(r) ==
    /\ r \in GatewayReqs
    /\ PesapalEnabled
    /\ escrow = "PENDING"
    /\ Begin(r, PayLoad)

\* mutant: the link is stamped paid but the upfront milestone is left pending
CommitPay_NoMilestone(r) ==
    /\ tx[r].op = "pay"
    /\ escrow' = Written(tx[r].escrow, "UPFRONT_RECEIVED", escrow)
    /\ SaveStage(tx[r].stage, PaymentSecured)
    /\ link' = [link EXCEPT !.paid = TRUE]
    /\ secured' = secured + 1
    /\ End(r)
    /\ UNCHANGED <<upfront, balance, proofs, released>>

(* _fulfill_upfront_payment, and the commit of its request: the escrow it  *)
(* loaded was PENDING, and neither it nor the order is read again.         *)
CommitPay(r) ==
    /\ tx[r].op = "pay"
    /\ escrow' = Written(tx[r].escrow, "UPFRONT_RECEIVED", escrow)
    /\ SaveStage(tx[r].stage, PaymentSecured)
    /\ upfront' = "RECEIVED"
    /\ link' = [link EXCEPT !.paid = TRUE]
    /\ secured' = secured + 1
    /\ End(r)
    /\ UNCHANGED <<balance, proofs, released>>

(* Seven days after the acceptance the link has expired.                   *)
Expire ==
    /\ ~link.expired
    /\ link' = [link EXCEPT !.expired = TRUE]
    /\ UNCHANGED <<order, escrow, upfront, balance, proofs, secured, released, tx>>

-----------------------------------------------------------------------------
(* AdminService.release_escrow: from PENDING as well as from               *)
(* UPFRONT_RECEIVED; a second release answers without writing.             *)

\* mutant: a second release is not recognised
BeginRelease_Again(r) ==
    /\ r \in AdminReqs
    /\ Begin(r, [op |-> "release", escrow |-> escrow])

BeginRelease(r) ==
    /\ r \in AdminReqs
    /\ escrow # "BALANCE_RELEASED"
    /\ Begin(r, [op |-> "release", escrow |-> escrow])

CommitRelease(r) ==
    /\ tx[r].op = "release"
    /\ escrow' = Written(tx[r].escrow, "BALANCE_RELEASED", escrow)
    /\ balance' = "RELEASED"
    /\ released' = released + 1
    /\ End(r)
    /\ UNCHANGED <<order, upfront, link, proofs, secured>>

-----------------------------------------------------------------------------
(* Proofs of payment.                                                      *)

(* _next_reference counts every row of the order, deleted ones included.   *)
NextReference == Len(proofs) + 1

(* create_proof, up to its first write.  The bound counts the proofs being *)
(* recorded.                                                               *)
BeginProof(r) ==
    /\ r \in AdminReqs
    /\ Len(proofs) + Cardinality({o \in Reqs : tx[o].op = "proof"}) < MaxProofs
    /\ \E type \in ProofType :
          Begin(r, [op |-> "proof", type |-> type, reference |-> NextReference,
                    escrow |-> escrow, upfront |-> upfront, balance |-> balance])

\* mutant: the leg is settled whatever its status
SettledFrom_Any(leg) == "RECEIVED"

(* _apply_escrow_effects on a leg.  The UPDATE of a pending escrow comes   *)
(* before the leg is read; with any other escrow the leg is the one loaded *)
(* without a lock.                                                         *)
SettledFrom(leg) == IF leg = "PENDING" THEN "RECEIVED" ELSE leg

Settled(load, loaded, current) ==
    IF load.escrow = "PENDING"
    THEN SettledFrom(current)
    ELSE Written(loaded, SettledFrom(loaded), current)

(* A pending escrow becomes UPFRONT_RECEIVED whatever the proof's type.    *)
EscrowAfterProof(load) ==
    IF load.escrow = "PENDING" THEN "UPFRONT_RECEIVED" ELSE escrow

CommitProof(r) ==
    /\ tx[r].op = "proof"
    /\ proofs' = Append(proofs, [type      |-> tx[r].type,
                                 reference |-> tx[r].reference,
                                 deleted   |-> FALSE])
    /\ escrow' = EscrowAfterProof(tx[r])
    /\ upfront' = IF tx[r].type = "DOWN_PAYMENT"
                  THEN Settled(tx[r], tx[r].upfront, upfront) ELSE upfront
    /\ balance' = IF tx[r].type = "FINAL_PAYMENT"
                  THEN Settled(tx[r], tx[r].balance, balance) ELSE balance
    /\ End(r)
    /\ UNCHANGED <<order, link, secured, released>>

(* PaymentProofService.delete: a soft delete; what the proof did to the    *)
(* escrow stays done.  The row is written by nothing else: one step.       *)
DeleteProof(r) ==
    /\ r \in AdminReqs
    /\ MayStart(r)
    /\ \E i \in DOMAIN proofs :
          /\ ~proofs[i].deleted
          /\ proofs' = [proofs EXCEPT ![i].deleted = TRUE]
    /\ UNCHANGED <<order, escrow, upfront, balance, link, secured, released, tx>>

-----------------------------------------------------------------------------
(* A request that ends without writing: an exception rolled it back, or    *)
(* Pesapal answered that the payment is not complete.                      *)
Abandon(r) ==
    /\ Busy(r)
    /\ End(r)
    /\ UNCHANGED <<order, money>>

Next ==
    \/ Expire
    \/ \E r \in Reqs :
          \/ BeginAdvance(r)
          \/ BeginUpdate(r)
          \/ BeginDispatch(r)
          \/ CommitStage(r)
          \/ BeginPay(r)
          \/ BeginCallback(r)
          \/ CommitPay(r)
          \/ BeginRelease(r)
          \/ CommitRelease(r)
          \/ BeginProof(r)
          \/ CommitProof(r)
          \/ DeleteProof(r)
          \/ Abandon(r)

Spec == Init /\ [][Next]_vars

-----------------------------------------------------------------------------
(* Whatever overlaps.                                                      *)

(* While the buyer is shown "payment pending" (get_buyer_order_detail      *)
(* reads escrow.status = PENDING) nothing has been paid: the link is not   *)
(* stamped, the upfront leg is pending, no proof is on record, no payment  *)
(* was secured and nothing was released.                                   *)
PendingMeansUnpaid ==
    escrow = "PENDING" =>
        /\ ~link.paid /\ secured = 0
        /\ upfront = "PENDING"
        /\ proofs = <<>>
        /\ released = 0

(* A link stamped paid has its upfront leg received and keeps it: no late  *)
(* proof, release or second payment takes it back.                         *)
PaidLinkIsReceived == link.paid => upfront = "RECEIVED" /\ secured > 0

(* The pipeline the roles read and the status the handlers test differ     *)
(* only after a request saved the stage it had loaded: sync runs on the    *)
(* rows of the moment, the status column is skipped when it looks the same.*)
AgreeUnlessResaved == ~resaved => shown = stage

(* When all the requests on an order take turns.                           *)
TakeTurns == Reqs \subseteq Solo

(* One payment is secured and one release is logged, at most, however the  *)
(* callback, the buyer and the admins retry.                               *)
MoneyMovesOnce == secured <= 1 /\ released <= 1

(* The balance leg and the escrow agree on whether the money was released: *)
(* a final-payment proof recorded later does not turn the leg back.        *)
ReleaseAgrees == escrow = "BALANCE_RELEASED" <=> balance = "RELEASED"

Rank(status) ==
    CASE status = "PENDING" -> 0
      [] status \in {"UPFRONT_RECEIVED", "RECEIVED"} -> 1
      [] OTHER -> 2

(* The escrow and its two legs only move forward.                          *)
MoneyMovesForward ==
    [][/\ Rank(escrow') >= Rank(escrow)
       /\ Rank(upfront') >= Rank(upfront)
       /\ Rank(balance') >= Rank(balance)]_vars

(* An order moves back only when an admin overrides the pipeline or when   *)
(* its upfront payment arrives after MIU had advanced it by hand; it skips *)
(* a stage only in the first case.                                         *)
StageMovesInOrder ==
    [][\/ stage' \in {stage, stage + 1}
       \/ stage' = PaymentSecured /\ secured' > secured
       \/ \E r \in Reqs : tx[r].op = "stage" /\ tx[r].override]_vars

(* References of proofs (POP-...-nn) are never reused, not even after one  *)
(* was deleted.                                                            *)
ReferencesDistinct ==
    \A i, j \in DOMAIN proofs :
        proofs[i].reference = proofs[j].reference => i = j

-----------------------------------------------------------------------------
(* What the documentation says, and overlapping requests contradict.       *)

(* order_service.py: "every role reads/writes the same `order_milestones`  *)
(* rows and never disagrees about where an order stands".  Admins and      *)
(* suppliers are guarded by the status, buyers are shown the milestones.   *)
AllRolesAgree == shown = stage

(* The named parts together: what the runs check.                          *)

(* No payment is half done: pending means unpaid, and paid stays paid.     *)
PaymentSound ==
    /\ PendingMeansUnpaid
    /\ PaidLinkIsReceived

(* The rows of an order are of their types and agree with each other: the  *)
(* escrow with its legs, the status with the milestones, and no two proofs *)
(* have one reference.                                                     *)
RowsAgree ==
    /\ TypeOK
    /\ ReleaseAgrees
    /\ AllRolesAgree
    /\ ReferencesDistinct
=============================================================================
