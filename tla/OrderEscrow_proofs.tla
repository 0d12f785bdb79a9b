------------------------- MODULE OrderEscrow_proofs -------------------------
(***************************************************************************)
(* Proofs about OrderEscrow.  The first part holds however the requests    *)
(* overlap; the second assumes that the requests on an order take turns.   *)
(***************************************************************************)
EXTENDS OrderEscrow, TLAPS

(***************************************************************************)
(* What the helpers return.                                                *)
(***************************************************************************)
LEMMA WrittenType ==
    ASSUME NEW S, NEW loaded, NEW new \in S, NEW current \in S
    PROVE  Written(loaded, new, current) \in S
  BY DEF Written

LEMMA SettledType ==
    ASSUME NEW load, NEW loaded \in MilestoneStatus, NEW current \in MilestoneStatus
    PROVE  Settled(load, loaded, current) \in MilestoneStatus
  BY DEF Settled, SettledFrom, Written, MilestoneStatus

LEMMA BeginType ==
    ASSUME TypeOK, NEW r \in Reqs, NEW load \in Tx, Begin(r, load)
    PROVE  TypeOK'
  BY DEF TypeOK, Begin, order, money

LEMMA EndType ==
    ASSUME TypeOK, NEW r \in Reqs, End(r)
    PROVE  tx' \in [Reqs -> Tx]
  <1>1. Idle \in Tx
    BY DEF Idle, Tx
  <1> QED
    BY <1>1 DEF TypeOK, End

LEMMA StageLoadType ==
    ASSUME TypeOK, NEW target \in Stages, NEW override \in BOOLEAN
    PROVE  StageLoad(target, override) \in Tx
  BY DEF TypeOK, StageLoad, Tx

LEMMA SaveStageType ==
    ASSUME TypeOK, NEW loaded \in Stages, NEW target \in Stages,
           SaveStage(loaded, target)
    PROVE  stage' \in Stages /\ shown' \in Stages /\ resaved' \in BOOLEAN
  BY DEF TypeOK, SaveStage, Written

LEMMA StageRow ==
    ASSUME TypeOK, NEW r \in Reqs, tx[r].op = "stage"
    PROVE  tx[r].stage \in Stages /\ tx[r].target \in Stages
  BY DEF TypeOK, Tx

LEMMA PayRow ==
    ASSUME TypeOK, NEW r \in Reqs, tx[r].op = "pay"
    PROVE  tx[r].stage \in Stages /\ tx[r].escrow \in EscrowStatus
  BY DEF TypeOK, Tx

LEMMA ProofRowInHand ==
    ASSUME TypeOK, NEW r \in Reqs, tx[r].op = "proof"
    PROVE  /\ tx[r].type \in ProofType /\ tx[r].reference \in Nat
           /\ tx[r].escrow \in EscrowStatus
           /\ tx[r].upfront \in MilestoneStatus /\ tx[r].balance \in MilestoneStatus
  BY DEF TypeOK, Tx

-----------------------------------------------------------------------------
(* Type correctness: the rows of one order, and what every request has     *)
(* loaded of them, stay rows of the schema.                                *)
THEOREM TypeCorrect == Spec => []TypeOK
<1>1. Init => TypeOK
  <2> SUFFICES ASSUME Init PROVE TypeOK
    OBVIOUS
  <2>1. Idle \in Tx
    BY DEF Idle, Tx
  <2>2. tx \in [Reqs -> Tx]
    BY <2>1 DEF Init
  <2>3. proofs \in Seq(ProofRow)
    BY DEF Init
  <2>4. link \in [paid : BOOLEAN, expired : BOOLEAN]
    BY DEF Init
  <2>5. stage \in Stages /\ shown \in Stages
    BY DEF Init, Stages, Confirmed, Fulfilled
  <2>6. escrow \in EscrowStatus
    BY DEF Init, EscrowStatus
  <2>7. upfront \in MilestoneStatus /\ balance \in MilestoneStatus
    BY DEF Init, MilestoneStatus
  <2>8. secured \in Nat /\ released \in Nat /\ resaved \in BOOLEAN
    BY DEF Init
  <2> QED
    BY <2>2, <2>3, <2>4, <2>5, <2>6, <2>7, <2>8 DEF TypeOK
<1>2. ASSUME TypeOK, [Next]_vars
      PROVE  TypeOK'
  <2>1. CASE Expire
    BY <1>2, <2>1 DEF Expire, TypeOK, order
  <2>2. ASSUME NEW r \in Reqs, BeginAdvance(r)
        PROVE  TypeOK'
    <3>1. stage + 1 \in Stages
      BY <1>2, <2>2 DEF BeginAdvance, TypeOK, Stages, Confirmed, Fulfilled
    <3> QED
      BY <1>2, <2>2, <3>1, StageLoadType, BeginType DEF BeginAdvance
  <2>3. ASSUME NEW r \in Reqs, BeginUpdate(r)
        PROVE  TypeOK'
    BY <1>2, <2>3, StageLoadType, BeginType DEF BeginUpdate
  <2>4. ASSUME NEW r \in Reqs, BeginDispatch(r)
        PROVE  TypeOK'
    <3>1. ReadyToDispatch \in Stages
      BY DEF ReadyToDispatch, Stages, Confirmed, Fulfilled
    <3> QED
      BY <1>2, <2>4, <3>1, StageLoadType, BeginType DEF BeginDispatch
  <2>5. ASSUME NEW r \in Reqs, CommitStage(r)
        PROVE  TypeOK'
    <3>1. tx[r].stage \in Stages /\ tx[r].target \in Stages
      BY <1>2, <2>5, StageRow DEF CommitStage
    <3>2. stage' \in Stages /\ shown' \in Stages /\ resaved' \in BOOLEAN
      BY <1>2, <2>5, <3>1, SaveStageType DEF CommitStage
    <3>3. tx' \in [Reqs -> Tx]
      BY <1>2, <2>5, EndType DEF CommitStage
    <3> QED
      BY <1>2, <2>5, <3>2, <3>3 DEF CommitStage, TypeOK, money
  <2>6. ASSUME NEW r \in Reqs, BeginPay(r) \/ BeginCallback(r)
        PROVE  TypeOK'
    <3>1. PayLoad \in Tx
      BY <1>2 DEF TypeOK, PayLoad, Tx
    <3> QED
      BY <1>2, <2>6, <3>1, BeginType DEF BeginPay, BeginCallback
  <2>7. ASSUME NEW r \in Reqs, CommitPay(r)
        PROVE  TypeOK'
    <3>1. tx[r].stage \in Stages /\ PaymentSecured \in Stages
      BY <1>2, <2>7, PayRow
         DEF CommitPay, PaymentSecured, Stages, Confirmed, Fulfilled
    <3>2. stage' \in Stages /\ shown' \in Stages /\ resaved' \in BOOLEAN
      BY <1>2, <2>7, <3>1, SaveStageType DEF CommitPay
    <3>3. tx' \in [Reqs -> Tx]
      BY <1>2, <2>7, EndType DEF CommitPay
    <3>4. escrow' \in EscrowStatus
      BY <1>2, <2>7 DEF CommitPay, TypeOK, Written, EscrowStatus
    <3>5. link' \in [paid : BOOLEAN, expired : BOOLEAN]
      BY <1>2, <2>7 DEF CommitPay, TypeOK
    <3> QED
      BY <1>2, <2>7, <3>2, <3>3, <3>4, <3>5
         DEF CommitPay, TypeOK, MilestoneStatus
  <2>8. ASSUME NEW r \in Reqs, BeginRelease(r)
        PROVE  TypeOK'
    <3>1. [op |-> "release", escrow |-> escrow] \in Tx
      BY <1>2 DEF TypeOK, Tx
    <3> QED
      BY <1>2, <2>8, <3>1, BeginType DEF BeginRelease
  <2>9. ASSUME NEW r \in Reqs, CommitRelease(r)
        PROVE  TypeOK'
    <3>1. tx' \in [Reqs -> Tx]
      BY <1>2, <2>9, EndType DEF CommitRelease
    <3>2. escrow' \in EscrowStatus /\ balance' \in MilestoneStatus
      BY <1>2, <2>9
         DEF CommitRelease, TypeOK, Written, EscrowStatus, MilestoneStatus
    <3> QED
      BY <1>2, <2>9, <3>1, <3>2 DEF CommitRelease, TypeOK, order
  <2>10. ASSUME NEW r \in Reqs, BeginProof(r)
         PROVE  TypeOK'
    <3>1. PICK type \in ProofType :
             Begin(r, [op |-> "proof", type |-> type, reference |-> NextReference,
                       escrow |-> escrow, upfront |-> upfront, balance |-> balance])
      BY <2>10 DEF BeginProof
    <3>2. NextReference \in Nat
      BY <1>2 DEF TypeOK, NextReference
    <3>3. [op |-> "proof", type |-> type, reference |-> NextReference,
           escrow |-> escrow, upfront |-> upfront, balance |-> balance] \in Tx
      BY <1>2, <3>2 DEF TypeOK, Tx
    <3> QED
      BY <1>2, <3>1, <3>3, BeginType
  <2>11. ASSUME NEW r \in Reqs, CommitProof(r)
         PROVE  TypeOK'
    <3>1. tx' \in [Reqs -> Tx]
      BY <1>2, <2>11, EndType DEF CommitProof
    <3>2. [type |-> tx[r].type, reference |-> tx[r].reference,
           deleted |-> FALSE] \in ProofRow
      BY <1>2, <2>11, ProofRowInHand DEF CommitProof, ProofRow
    <3>3. proofs' \in Seq(ProofRow)
      BY <1>2, <2>11, <3>2 DEF CommitProof, TypeOK
    <3>4. escrow' \in EscrowStatus
      BY <1>2, <2>11 DEF CommitProof, TypeOK, EscrowAfterProof, EscrowStatus
    <3>5. upfront' \in MilestoneStatus /\ balance' \in MilestoneStatus
      BY <1>2, <2>11, ProofRowInHand, SettledType DEF CommitProof, TypeOK
    <3> QED
      BY <1>2, <2>11, <3>1, <3>3, <3>4, <3>5 DEF CommitProof, TypeOK, order
  <2>12. ASSUME NEW r \in Reqs, DeleteProof(r)
         PROVE  TypeOK'
    <3>1. PICK i \in DOMAIN proofs :
             proofs' = [proofs EXCEPT ![i].deleted = TRUE]
      BY <2>12 DEF DeleteProof
    <3>2. [proofs[i] EXCEPT !.deleted = TRUE] \in ProofRow
      <4>1. proofs[i] \in ProofRow
        BY <1>2 DEF TypeOK
      <4> QED
        BY <4>1 DEF ProofRow
    <3>3. proofs' = [proofs EXCEPT ![i] = [proofs[i] EXCEPT !.deleted = TRUE]]
      BY <3>1
    <3>4. proofs' \in Seq(ProofRow)
      BY <1>2, <3>2, <3>3 DEF TypeOK
    <3> QED
      BY <1>2, <2>12, <3>4 DEF DeleteProof, TypeOK, order
  <2>13. ASSUME NEW r \in Reqs, Abandon(r)
         PROVE  TypeOK'
    <3>1. tx' \in [Reqs -> Tx]
      BY <1>2, <2>13, EndType DEF Abandon
    <3> QED
      BY <1>2, <2>13, <3>1 DEF Abandon, TypeOK, order, money
  <2>14. CASE UNCHANGED vars
    BY <1>2, <2>14 DEF TypeOK, vars, order, money
  <2> QED
    BY <1>2, <2>1, <2>2, <2>3, <2>4, <2>5, <2>6, <2>7, <2>8, <2>9, <2>10,
       <2>11, <2>12, <2>13, <2>14 DEF Next
<1> QED
  BY <1>1, <1>2, PTL DEF Spec

-----------------------------------------------------------------------------
(* Whatever overlaps.  No request in flight can bring a pending escrow      *)
(* back, or leave one pending: a payment loaded it PENDING and writes       *)
(* UPFRONT_RECEIVED, a release writes BALANCE_RELEASED over what it loaded, *)
(* and a proof that leaves the escrow alone loaded it after it had moved.   *)
InFlight ==
    \A r \in Reqs :
        /\ tx[r].op = "pay" => tx[r].escrow = "PENDING"
        /\ tx[r].op = "release" => tx[r].escrow # "BALANCE_RELEASED"
        /\ tx[r].op = "proof" /\ tx[r].escrow # "PENDING" => escrow # "PENDING"

MoneyInv == TypeOK /\ InFlight /\ PendingMeansUnpaid /\ PaidLinkIsReceived

LEMMA BeginFlight ==
    ASSUME MoneyInv, NEW r \in Reqs, NEW load, Begin(r, load),
           load.op = "pay" => load.escrow = "PENDING",
           load.op = "release" => load.escrow # "BALANCE_RELEASED",
           load.op = "proof" => load.escrow = escrow
    PROVE  InFlight' /\ PendingMeansUnpaid' /\ PaidLinkIsReceived'
  <1>1. InFlight'
    BY DEF MoneyInv, TypeOK, InFlight, Begin, money
  <1> QED
    BY <1>1 DEF MoneyInv, Begin, money, PendingMeansUnpaid, PaidLinkIsReceived

LEMMA EndFlight ==
    ASSUME MoneyInv, NEW r \in Reqs, End(r),
           escrow # "PENDING" => escrow' # "PENDING"
    PROVE  InFlight'
  <1>1. \A o \in Reqs : tx'[o] = IF o = r THEN Idle ELSE tx[o]
    BY DEF MoneyInv, TypeOK, End
  <1> QED
    BY <1>1 DEF MoneyInv, InFlight, Idle

LEMMA MoneyStep ==
    ASSUME MoneyInv, [Next]_vars
    PROVE  InFlight' /\ PendingMeansUnpaid' /\ PaidLinkIsReceived'
<1> USE DEF PendingMeansUnpaid, PaidLinkIsReceived
<1>1. CASE Expire
  BY <1>1 DEF Expire, MoneyInv, InFlight
<1>2. ASSUME NEW r \in Reqs,
             BeginAdvance(r) \/ BeginUpdate(r) \/ BeginDispatch(r)
      PROVE  InFlight' /\ PendingMeansUnpaid' /\ PaidLinkIsReceived'
  <2>1. PICK target, override : Begin(r, StageLoad(target, override))
    BY <1>2 DEF BeginAdvance, BeginUpdate, BeginDispatch
  <2>2. StageLoad(target, override).op = "stage"
    BY DEF StageLoad
  <2> QED
    BY <2>1, <2>2, BeginFlight
<1>3. ASSUME NEW r \in Reqs, CommitStage(r)
      PROVE  InFlight' /\ PendingMeansUnpaid' /\ PaidLinkIsReceived'
  BY <1>3, EndFlight DEF CommitStage, money, MoneyInv
<1>4. ASSUME NEW r \in Reqs, BeginPay(r) \/ BeginCallback(r)
      PROVE  InFlight' /\ PendingMeansUnpaid' /\ PaidLinkIsReceived'
  <2>1. escrow = "PENDING" /\ Begin(r, PayLoad)
    BY <1>4 DEF BeginPay, BeginCallback
  <2>2. PayLoad.op = "pay" /\ PayLoad.escrow = escrow
    BY DEF PayLoad
  <2> QED
    BY <2>1, <2>2, BeginFlight
<1>5. ASSUME NEW r \in Reqs, CommitPay(r)
      PROVE  InFlight' /\ PendingMeansUnpaid' /\ PaidLinkIsReceived'
  <2>1. escrow' = "UPFRONT_RECEIVED"
    BY <1>5 DEF CommitPay, MoneyInv, InFlight, Written
  <2>2. InFlight'
    BY <1>5, <2>1, EndFlight DEF CommitPay
  <2>3. secured' > 0
    BY <1>5 DEF CommitPay, MoneyInv, TypeOK
  <2> QED
    BY <1>5, <2>1, <2>2, <2>3 DEF CommitPay
<1>6. ASSUME NEW r \in Reqs, BeginRelease(r)
      PROVE  InFlight' /\ PendingMeansUnpaid' /\ PaidLinkIsReceived'
  <2> DEFINE load == [op |-> "release", escrow |-> escrow]
  <2>1. load.op = "release" /\ load.escrow # "BALANCE_RELEASED"
    BY <1>6 DEF BeginRelease
  <2>2. Begin(r, load)
    BY <1>6 DEF BeginRelease
  <2> HIDE DEF load
  <2> QED
    BY <2>1, <2>2, BeginFlight
<1>7. ASSUME NEW r \in Reqs, CommitRelease(r)
      PROVE  InFlight' /\ PendingMeansUnpaid' /\ PaidLinkIsReceived'
  <2>1. escrow' = "BALANCE_RELEASED"
    BY <1>7 DEF CommitRelease, MoneyInv, InFlight, Written
  <2>2. InFlight'
    BY <1>7, <2>1, EndFlight DEF CommitRelease
  <2> QED
    BY <1>7, <2>1, <2>2 DEF CommitRelease, MoneyInv
<1>8. ASSUME NEW r \in Reqs, BeginProof(r)
      PROVE  InFlight' /\ PendingMeansUnpaid' /\ PaidLinkIsReceived'
  <2>1. PICK type :
           Begin(r, [op |-> "proof", type |-> type, reference |-> NextReference,
                     escrow |-> escrow, upfront |-> upfront, balance |-> balance])
    BY <1>8 DEF BeginProof
  <2> DEFINE load ==
        [op |-> "proof", type |-> type, reference |-> NextReference,
         escrow |-> escrow, upfront |-> upfront, balance |-> balance]
  <2>2. load.op = "proof" /\ load.escrow = escrow /\ Begin(r, load)
    BY <2>1
  <2> HIDE DEF load
  <2> QED
    BY <2>2, BeginFlight
<1>9. ASSUME NEW r \in Reqs, CommitProof(r)
      PROVE  InFlight' /\ PendingMeansUnpaid' /\ PaidLinkIsReceived'
  <2>1. escrow' # "PENDING"
    BY <1>9 DEF CommitProof, EscrowAfterProof, MoneyInv, InFlight
  <2>2. InFlight'
    BY <1>9, <2>1, EndFlight DEF CommitProof
  <2>3. upfront = "RECEIVED" => upfront' = "RECEIVED"
    BY <1>9 DEF CommitProof, Settled, SettledFrom, Written
  <2> QED
    BY <1>9, <2>1, <2>2, <2>3 DEF CommitProof, MoneyInv
<1>10. ASSUME NEW r \in Reqs, DeleteProof(r)
       PROVE  InFlight' /\ PendingMeansUnpaid' /\ PaidLinkIsReceived'
  <2>1. proofs # <<>>
    BY <1>10 DEF DeleteProof
  <2> QED
    BY <1>10, <2>1 DEF DeleteProof, MoneyInv, InFlight
<1>11. ASSUME NEW r \in Reqs, Abandon(r)
       PROVE  InFlight' /\ PendingMeansUnpaid' /\ PaidLinkIsReceived'
  BY <1>11, EndFlight DEF Abandon, money, MoneyInv
<1>12. CASE UNCHANGED vars
  BY <1>12 DEF vars, money, MoneyInv, InFlight
<1> QED
  BY <1>1, <1>2, <1>3, <1>4, <1>5, <1>6, <1>7, <1>8, <1>9, <1>10, <1>11,
     <1>12 DEF Next

LEMMA MoneyInvariant == Spec => []MoneyInv
<1>1. Init => InFlight /\ PendingMeansUnpaid /\ PaidLinkIsReceived
  BY DEF Init, InFlight, Idle, PendingMeansUnpaid, PaidLinkIsReceived
<1> QED
  <2> DEFINE Flight == InFlight /\ PendingMeansUnpaid /\ PaidLinkIsReceived
  <2>1. MoneyInv <=> TypeOK /\ Flight
    BY DEF MoneyInv
  <2>2. TypeOK /\ Flight /\ [Next]_vars => Flight'
    BY <2>1, MoneyStep
  <2>3. Init => Flight
    BY <1>1
  <2> HIDE DEF Flight
  <2> QED
    BY <2>1, <2>2, <2>3, TypeCorrect, PTL DEF Spec

(* While the escrow is pending nothing was paid, recorded or released,     *)
(* however payments, callbacks, proofs and releases overlap.               *)
THEOREM PendingIsUnpaid == Spec => []PendingMeansUnpaid
<1>1. MoneyInv => PendingMeansUnpaid
  BY DEF MoneyInv
<1> QED
  BY <1>1, MoneyInvariant, PTL

(* A paid link keeps its upfront leg received, whatever overlaps.          *)
THEOREM PaidStaysReceived == Spec => []PaidLinkIsReceived
<1>1. MoneyInv => PaidLinkIsReceived
  BY DEF MoneyInv
<1> QED
  BY <1>1, MoneyInvariant, PTL

(* The milestones disagree with the status only after a request saved the  *)
(* stage it had loaded.                                                    *)
THEOREM OnlyResavesDisagree == Spec => []AgreeUnlessResaved
<1>1. Init => AgreeUnlessResaved
  BY DEF Init, AgreeUnlessResaved
<1>2. AgreeUnlessResaved /\ [Next]_vars => AgreeUnlessResaved'
  <2> SUFFICES ASSUME AgreeUnlessResaved, [Next]_vars
               PROVE  AgreeUnlessResaved'
    OBVIOUS
  <2>1. ASSUME NEW loaded, NEW target, SaveStage(loaded, target)
        PROVE  AgreeUnlessResaved'
    BY <2>1 DEF SaveStage, Written, AgreeUnlessResaved
  <2>2. ASSUME NEW r \in Reqs, CommitStage(r) \/ CommitPay(r)
        PROVE  AgreeUnlessResaved'
    BY <2>1, <2>2 DEF CommitStage, CommitPay
  <2>3. CASE UNCHANGED order
    BY <2>3 DEF order, AgreeUnlessResaved
  <2> QED
    BY <2>2, <2>3 DEF Next, vars, Expire, Begin, BeginAdvance, BeginUpdate,
       BeginDispatch, BeginPay, BeginCallback, BeginRelease, CommitRelease,
       BeginProof, CommitProof, DeleteProof, Abandon
<1> QED
  BY <1>1, <1>2, PTL DEF Spec

-----------------------------------------------------------------------------
(* When the requests on an order take turns, one request at most is in      *)
(* flight and what it has loaded is still what the rows hold.               *)
Alone == \A r, o \in Reqs : Busy(r) /\ Busy(o) => r = o

FreshLoad(load) ==
    /\ load.op = "stage" =>
          /\ load.stage = stage
          /\ ~load.override => load.target \in {stage, stage + 1}
    /\ load.op = "pay" => load.stage = stage /\ load.escrow = escrow
    /\ load.op = "release" => load.escrow = escrow
    /\ load.op = "proof" =>
          /\ load.escrow = escrow
          /\ load.upfront = upfront /\ load.balance = balance
          /\ load.reference = NextReference

Fresh == \A r \in Reqs : FreshLoad(tx[r])

Numbered == \A i \in DOMAIN proofs : proofs[i].reference = i

NoReleaseYet == escrow # "BALANCE_RELEASED" => released = 0

Books ==
    /\ Numbered
    /\ NoReleaseYet
    /\ MoneyMovesOnce
    /\ ReleaseAgrees
    /\ AllRolesAgree

TurnsInv == MoneyInv /\ Alone /\ Fresh /\ Books

LEMMA BeginAlone ==
    ASSUME TakeTurns, TurnsInv, NEW r \in Reqs, NEW load, Begin(r, load),
           FreshLoad(load)
    PROVE  Alone' /\ Fresh' /\ Books'
  <1>1. \A o \in Reqs : ~Busy(o)
    BY DEF TakeTurns, Begin, MayStart
  <1>2. \A o \in Reqs : tx'[o] = IF o = r THEN load ELSE tx[o]
    BY DEF TurnsInv, MoneyInv, TypeOK, Begin
  <1>3. UNCHANGED <<order, money>>
    BY DEF Begin
  <1>4. Alone'
    BY <1>1, <1>2 DEF Alone, Busy
  <1>5. Fresh'
    <2>1. \A o \in Reqs : FreshLoad(tx'[o])
      BY <1>2 DEF TurnsInv, Fresh
    <2> QED
      BY <2>1, <1>3 DEF Fresh, FreshLoad, NextReference, order, money
  <1>6. Books'
    BY <1>3 DEF TurnsInv, Books, Numbered, NoReleaseYet, MoneyMovesOnce,
       ReleaseAgrees, AllRolesAgree, order, money
  <1> QED
    BY <1>4, <1>5, <1>6

LEMMA EndAlone ==
    ASSUME TurnsInv, NEW r \in Reqs, Busy(r), End(r)
    PROVE  Alone' /\ Fresh'
  <1>1. \A o \in Reqs : tx'[o].op = "idle"
    <2>1. \A o \in Reqs : tx'[o] = IF o = r THEN Idle ELSE tx[o]
      BY DEF TurnsInv, MoneyInv, TypeOK, End
    <2> QED
      BY <2>1 DEF TurnsInv, Alone, Busy, Idle
  <1> QED
    BY <1>1 DEF Alone, Fresh, FreshLoad, Busy

LEMMA PayMovesOn ==
    ASSUME TurnsInv, NEW r \in Reqs, CommitPay(r)
    PROVE  /\ escrow = "PENDING" /\ escrow' = "UPFRONT_RECEIVED"
           /\ upfront = "PENDING" /\ balance # "RELEASED"
           /\ secured = 0 /\ released = 0
           /\ stage' = PaymentSecured /\ shown' = PaymentSecured
  <1>1. tx[r].op = "pay" /\ tx[r].escrow = escrow /\ tx[r].stage = stage
    BY DEF CommitPay, TurnsInv, Fresh, FreshLoad
  <1>2. escrow = "PENDING"
    BY <1>1 DEF TurnsInv, MoneyInv, InFlight
  <1> QED
    BY <1>1, <1>2 DEF CommitPay, SaveStage, Written, TurnsInv, MoneyInv,
       PendingMeansUnpaid, Books, ReleaseAgrees

LEMMA ReleaseMovesOn ==
    ASSUME TurnsInv, NEW r \in Reqs, CommitRelease(r)
    PROVE  /\ escrow # "BALANCE_RELEASED" /\ escrow' = "BALANCE_RELEASED"
           /\ balance' = "RELEASED" /\ released = 0
  <1>1. tx[r].op = "release" /\ tx[r].escrow # "BALANCE_RELEASED"
        /\ tx[r].escrow = escrow
    BY DEF CommitRelease, TurnsInv, Fresh, FreshLoad, MoneyInv, InFlight
  <1> QED
    BY <1>1 DEF CommitRelease, Written, TurnsInv, Books, NoReleaseYet

LEMMA ProofMovesOn ==
    ASSUME TurnsInv, NEW r \in Reqs, CommitProof(r)
    PROVE  /\ escrow' = IF escrow = "PENDING" THEN "UPFRONT_RECEIVED" ELSE escrow
           /\ upfront' = upfront \/ upfront' = SettledFrom(upfront)
           /\ balance' = balance \/ balance' = SettledFrom(balance)
           /\ tx[r].reference = Len(proofs) + 1
  <1>1. /\ tx[r].op = "proof" /\ tx[r].escrow = escrow
        /\ tx[r].upfront = upfront /\ tx[r].balance = balance
        /\ tx[r].reference = NextReference
    BY DEF CommitProof, TurnsInv, Fresh, FreshLoad
  <1> QED
    BY <1>1 DEF CommitProof, EscrowAfterProof, Settled, SettledFrom, Written,
       NextReference

LEMMA TurnsStep ==
    ASSUME TakeTurns, TurnsInv, [Next]_vars
    PROVE  Alone' /\ Fresh' /\ Books'
<1>1. CASE Expire
  <2>1. UNCHANGED <<order, escrow, upfront, balance, proofs, secured, released, tx>>
    BY <1>1 DEF Expire
  <2>2. Alone' /\ Fresh'
    BY <2>1 DEF TurnsInv, Alone, Busy, Fresh, FreshLoad, NextReference, order
  <2> QED
    BY <2>1, <2>2 DEF TurnsInv, Books, Numbered, NoReleaseYet,
       MoneyMovesOnce, ReleaseAgrees, AllRolesAgree, order
<1>2. ASSUME NEW r \in Reqs, BeginAdvance(r)
      PROVE  Alone' /\ Fresh' /\ Books'
  <2>1. Begin(r, StageLoad(stage + 1, FALSE))
    BY <1>2 DEF BeginAdvance
  <2>2. FreshLoad(StageLoad(stage + 1, FALSE))
    BY DEF StageLoad, FreshLoad
  <2> QED
    BY <2>1, <2>2, BeginAlone
<1>3. ASSUME NEW r \in Reqs, BeginUpdate(r)
      PROVE  Alone' /\ Fresh' /\ Books'
  <2>1. PICK target \in Stages, override \in BOOLEAN :
           /\ ~override => target \in {stage, stage + 1}
           /\ Begin(r, StageLoad(target, override))
    BY <1>3 DEF BeginUpdate
  <2>2. FreshLoad(StageLoad(target, override))
    BY <2>1 DEF StageLoad, FreshLoad
  <2> QED
    BY <2>1, <2>2, BeginAlone
<1>4. ASSUME NEW r \in Reqs, BeginDispatch(r)
      PROVE  Alone' /\ Fresh' /\ Books'
  <2>1. Begin(r, StageLoad(ReadyToDispatch, FALSE)) /\ stage = InProduction
    BY <1>4 DEF BeginDispatch
  <2>2. FreshLoad(StageLoad(ReadyToDispatch, FALSE))
    BY <2>1 DEF StageLoad, FreshLoad, InProduction, ReadyToDispatch
  <2> QED
    BY <2>1, <2>2, BeginAlone
<1>5. ASSUME NEW r \in Reqs, CommitStage(r)
      PROVE  Alone' /\ Fresh' /\ Books'
  <2>1. tx[r].stage = stage
    BY <1>5 DEF CommitStage, TurnsInv, Fresh, FreshLoad
  <2>2. stage' = shown'
    BY <1>5, <2>1 DEF CommitStage, SaveStage, Written
  <2>3. Alone' /\ Fresh'
    BY <1>5, EndAlone DEF CommitStage, Busy
  <2> QED
    BY <1>5, <2>2, <2>3 DEF CommitStage, TurnsInv, Books, Numbered,
       NoReleaseYet, MoneyMovesOnce, ReleaseAgrees, AllRolesAgree, money
<1>6. ASSUME NEW r \in Reqs, BeginPay(r) \/ BeginCallback(r)
      PROVE  Alone' /\ Fresh' /\ Books'
  <2>1. Begin(r, PayLoad)
    BY <1>6 DEF BeginPay, BeginCallback
  <2>2. FreshLoad(PayLoad)
    BY DEF PayLoad, FreshLoad
  <2> QED
    BY <2>1, <2>2, BeginAlone
<1>7. ASSUME NEW r \in Reqs, CommitPay(r)
      PROVE  Alone' /\ Fresh' /\ Books'
  <2>1. Alone' /\ Fresh'
    BY <1>7, EndAlone DEF CommitPay, Busy
  <2>2. secured' = 1 /\ UNCHANGED <<balance, proofs, released>>
    BY <1>7, PayMovesOn DEF CommitPay
  <2> QED
    BY <1>7, <2>1, <2>2, PayMovesOn DEF TurnsInv, Books, Numbered,
       NoReleaseYet, MoneyMovesOnce, ReleaseAgrees, AllRolesAgree
<1>8. ASSUME NEW r \in Reqs, BeginRelease(r)
      PROVE  Alone' /\ Fresh' /\ Books'
  <2> DEFINE load == [op |-> "release", escrow |-> escrow]
  <2>1. Begin(r, load)
    BY <1>8 DEF BeginRelease
  <2>2. FreshLoad(load)
    BY DEF FreshLoad
  <2> HIDE DEF load
  <2> QED
    BY <2>1, <2>2, BeginAlone
<1>9. ASSUME NEW r \in Reqs, CommitRelease(r)
      PROVE  Alone' /\ Fresh' /\ Books'
  <2>1. Alone' /\ Fresh'
    BY <1>9, EndAlone DEF CommitRelease, Busy
  <2>2. released' = 1 /\ UNCHANGED <<order, proofs, secured>>
    BY <1>9, ReleaseMovesOn DEF CommitRelease
  <2> QED
    BY <1>9, <2>1, <2>2, ReleaseMovesOn DEF TurnsInv, Books, Numbered,
       NoReleaseYet, MoneyMovesOnce, ReleaseAgrees, AllRolesAgree, order
<1>10. ASSUME NEW r \in Reqs, BeginProof(r)
       PROVE  Alone' /\ Fresh' /\ Books'
  <2>1. PICK type \in ProofType :
           Begin(r, [op |-> "proof", type |-> type, reference |-> NextReference,
                     escrow |-> escrow, upfront |-> upfront, balance |-> balance])
    BY <1>10 DEF BeginProof
  <2> DEFINE load ==
        [op |-> "proof", type |-> type, reference |-> NextReference,
         escrow |-> escrow, upfront |-> upfront, balance |-> balance]
  <2>2. Begin(r, load)
    BY <2>1
  <2>3. FreshLoad(load)
    BY DEF FreshLoad
  <2> HIDE DEF load
  <2> QED
    BY <2>2, <2>3, BeginAlone
<1>11. ASSUME NEW r \in Reqs, CommitProof(r)
       PROVE  Alone' /\ Fresh' /\ Books'
  <2>1. Alone' /\ Fresh'
    BY <1>11, EndAlone DEF CommitProof, Busy
  <2> DEFINE row == [type |-> tx[r].type, reference |-> tx[r].reference,
                     deleted |-> FALSE]
  <2>2. proofs' = Append(proofs, row) /\ proofs \in Seq(ProofRow)
    BY <1>11 DEF CommitProof, TurnsInv, MoneyInv, TypeOK
  <2>3. row.reference = Len(proofs) + 1
    BY <1>11, ProofMovesOn
  <2> HIDE DEF row
  <2>4. Numbered'
    BY <2>2, <2>3 DEF TurnsInv, Books, Numbered
  <2>5. NoReleaseYet' /\ MoneyMovesOnce' /\ AllRolesAgree'
    BY <1>11, ProofMovesOn DEF CommitProof, TurnsInv, Books, NoReleaseYet,
       MoneyMovesOnce, AllRolesAgree, order
  <2>6. ReleaseAgrees'
    BY <1>11, ProofMovesOn DEF TurnsInv, Books, ReleaseAgrees, SettledFrom
  <2> QED
    BY <2>1, <2>4, <2>5, <2>6 DEF Books
<1>12. ASSUME NEW r \in Reqs, DeleteProof(r)
       PROVE  Alone' /\ Fresh' /\ Books'
  <2>1. \A o \in Reqs : ~Busy(o)
    BY <1>12 DEF TakeTurns, DeleteProof, MayStart
  <2>2. UNCHANGED <<order, escrow, upfront, balance, secured, released, tx>>
    BY <1>12 DEF DeleteProof
  <2>3. Alone' /\ Fresh'
    BY <2>1, <2>2 DEF Alone, Fresh, FreshLoad, Busy
  <2>4. PICK i \in DOMAIN proofs :
           proofs' = [proofs EXCEPT ![i].deleted = TRUE]
    BY <1>12 DEF DeleteProof
  <2>5. DOMAIN proofs' = DOMAIN proofs
    BY <2>4
  <2>6. \A j \in DOMAIN proofs : proofs'[j].reference = proofs[j].reference
    <3>1. ASSUME NEW j \in DOMAIN proofs
          PROVE  proofs'[j].reference = proofs[j].reference
      <4>1. proofs[j] \in ProofRow
        BY DEF TurnsInv, MoneyInv, TypeOK
      <4>2. proofs'[j] = IF j = i THEN [proofs[i] EXCEPT !.deleted = TRUE]
                                  ELSE proofs[j]
        BY <2>4
      <4> QED
        BY <4>1, <4>2 DEF ProofRow
    <3> QED
      BY <3>1
  <2>7. Numbered'
    BY <2>5, <2>6 DEF TurnsInv, Books, Numbered
  <2> QED
    BY <2>2, <2>3, <2>7 DEF TurnsInv, Books, NoReleaseYet, MoneyMovesOnce,
       ReleaseAgrees, AllRolesAgree, order
<1>13. ASSUME NEW r \in Reqs, Abandon(r)
       PROVE  Alone' /\ Fresh' /\ Books'
  <2>1. Alone' /\ Fresh'
    BY <1>13, EndAlone DEF Abandon
  <2> QED
    BY <1>13, <2>1 DEF Abandon, TurnsInv, Books, Numbered, NoReleaseYet,
       MoneyMovesOnce, ReleaseAgrees, AllRolesAgree, order, money
<1>14. CASE UNCHANGED vars
  BY <1>14 DEF vars, order, money, TurnsInv, Alone, Busy, Fresh, FreshLoad,
     NextReference, Books, Numbered, NoReleaseYet, MoneyMovesOnce,
     ReleaseAgrees, AllRolesAgree
<1> QED
  BY <1>1, <1>2, <1>3, <1>4, <1>5, <1>6, <1>7, <1>8, <1>9, <1>10, <1>11,
     <1>12, <1>13, <1>14 DEF Next

LEMMA TurnsInvariant == ASSUME TakeTurns PROVE Spec => []TurnsInv
<1> DEFINE Turns == Alone /\ Fresh /\ Books
<1>1. Init => Turns
  BY DEF Init, Alone, Busy, Fresh, FreshLoad, Idle, Books, Numbered,
     NoReleaseYet, MoneyMovesOnce, ReleaseAgrees, AllRolesAgree
<1>2. TurnsInv <=> MoneyInv /\ Turns
  BY DEF TurnsInv
<1>3. MoneyInv /\ Turns /\ [Next]_vars => Turns'
  BY <1>2, TurnsStep
<1> HIDE DEF Turns
<1> QED
  BY <1>1, <1>2, <1>3, MoneyInvariant, PTL DEF Spec

(* One payment secured and one release logged, at most.                    *)
THEOREM PaidOnceReleasedOnce ==
    ASSUME TakeTurns PROVE Spec => []MoneyMovesOnce
<1>1. TurnsInv => MoneyMovesOnce
  BY DEF TurnsInv, Books
<1> QED
  BY <1>1, TurnsInvariant, PTL

(* The balance leg is RELEASED exactly when the escrow is.                 *)
THEOREM ReleaseIsConsistent ==
    ASSUME TakeTurns PROVE Spec => []ReleaseAgrees
<1>1. TurnsInv => ReleaseAgrees
  BY DEF TurnsInv, Books
<1> QED
  BY <1>1, TurnsInvariant, PTL

(* The milestones and the status agree.                                    *)
THEOREM RolesAgreeInTurn ==
    ASSUME TakeTurns PROVE Spec => []AllRolesAgree
<1>1. TurnsInv => AllRolesAgree
  BY DEF TurnsInv, Books
<1> QED
  BY <1>1, TurnsInvariant, PTL

(* No reference of a proof of payment is used twice.                       *)
THEOREM ReferencesAreDistinct ==
    ASSUME TakeTurns PROVE Spec => []ReferencesDistinct
<1>1. TurnsInv => ReferencesDistinct
  BY DEF TurnsInv, Books, Numbered, ReferencesDistinct
<1> QED
  BY <1>1, TurnsInvariant, PTL

(* The escrow and its legs only move forward.                              *)
THEOREM MoneyNeverMovesBack ==
    ASSUME TakeTurns PROVE Spec => MoneyMovesForward
<1>1. ASSUME TurnsInv, [Next]_vars
      PROVE  [/\ Rank(escrow') >= Rank(escrow)
              /\ Rank(upfront') >= Rank(upfront)
              /\ Rank(balance') >= Rank(balance)]_vars
  <2> DEFINE Forward == /\ Rank(escrow') >= Rank(escrow)
                        /\ Rank(upfront') >= Rank(upfront)
                        /\ Rank(balance') >= Rank(balance)
  <2>1. \A x : Rank(x) \in {0, 1, 2}
    BY DEF Rank
  <2>2. ASSUME NEW x PROVE Rank(SettledFrom(x)) >= Rank(x)
    BY DEF Rank, SettledFrom
  <2>3. CASE UNCHANGED <<escrow, upfront, balance>>
    BY <2>1, <2>3
  <2>4. ASSUME NEW r \in Reqs, CommitPay(r)
        PROVE  Forward
    <3>1. upfront' = "RECEIVED" /\ balance' = balance
      BY <2>4 DEF CommitPay
    <3> QED
      BY <1>1, <2>1, <2>4, <3>1, PayMovesOn DEF Rank
  <2>5. ASSUME NEW r \in Reqs, CommitRelease(r)
        PROVE  Forward
    <3>1. upfront' = upfront
      BY <2>5 DEF CommitRelease
    <3>2. Rank("BALANCE_RELEASED") = 2 /\ Rank("RELEASED") = 2
      BY DEF Rank
    <3> QED
      BY <1>1, <2>1, <2>5, <3>1, <3>2, ReleaseMovesOn
  <2>6. ASSUME NEW r \in Reqs, CommitProof(r)
        PROVE  Forward
    <3>1. Rank(escrow') >= Rank(escrow)
      BY <1>1, <2>1, <2>6, ProofMovesOn DEF Rank
    <3> QED
      BY <1>1, <2>1, <2>2, <2>6, <3>1, ProofMovesOn
  <2> QED
    BY <1>1, <2>3, <2>4, <2>5, <2>6 DEF Next, vars, money, Expire, Begin,
       BeginAdvance, BeginUpdate, BeginDispatch, CommitStage, BeginPay,
       BeginCallback, BeginRelease, BeginProof, DeleteProof, Abandon
<1> QED
  BY <1>1, TurnsInvariant, PTL DEF Spec, MoneyMovesForward

(* The order moves one stage on, or by an override, or to Payment Secured  *)
(* with its payment.                                                       *)
THEOREM StagesInOrder ==
    ASSUME TakeTurns PROVE Spec => StageMovesInOrder
<1> DEFINE Step == \/ stage' \in {stage, stage + 1}
                   \/ stage' = PaymentSecured /\ secured' > secured
                   \/ \E r \in Reqs : tx[r].op = "stage" /\ tx[r].override
<1>1. ASSUME TurnsInv, [Next]_vars
      PROVE  [Step]_vars
  <2>1. CASE UNCHANGED stage
    BY <2>1
  <2>2. ASSUME NEW r \in Reqs, CommitStage(r)
        PROVE  Step
    <3>1. /\ tx[r].op = "stage" /\ tx[r].stage = stage
          /\ ~tx[r].override => tx[r].target \in {stage, stage + 1}
      BY <1>1, <2>2 DEF CommitStage, TurnsInv, Fresh, FreshLoad
    <3>2. stage' = tx[r].target
      BY <2>2, <3>1 DEF CommitStage, SaveStage, Written
    <3>3. CASE tx[r].override
      BY <3>1, <3>3
    <3>4. CASE ~tx[r].override
      BY <3>1, <3>2, <3>4
    <3> QED
      BY <3>3, <3>4
  <2>3. ASSUME NEW r \in Reqs, CommitPay(r)
        PROVE  Step
    <3>1. secured' > secured
      BY <1>1, <2>3 DEF CommitPay, TurnsInv, MoneyInv, TypeOK
    <3> QED
      BY <1>1, <2>3, <3>1, PayMovesOn
  <2> QED
    BY <1>1, <2>1, <2>2, <2>3 DEF Next, vars, order, Expire, Begin,
       BeginAdvance, BeginUpdate, BeginDispatch, BeginPay, BeginCallback,
       BeginRelease, CommitRelease, BeginProof, CommitProof, DeleteProof, Abandon
<1> QED
  BY <1>1, TurnsInvariant, PTL DEF Spec, StageMovesInOrder

(* Whatever overlaps, pending means unpaid and paid stays paid.            *)
THEOREM PaymentIsSound == Spec => []PaymentSound
<1>1. PendingMeansUnpaid /\ PaidLinkIsReceived => PaymentSound
  BY DEF PaymentSound
<1> QED
  BY <1>1, PendingIsUnpaid, PaidStaysReceived, PTL

(* When requests take turns the rows of an order agree.                    *)
THEOREM TheRowsAgree ==
    ASSUME TakeTurns PROVE Spec => []RowsAgree
<1>1. TypeOK /\ ReleaseAgrees /\ AllRolesAgree /\ ReferencesDistinct => RowsAgree
  BY DEF RowsAgree
<1> QED
  BY <1>1, TypeCorrect, ReleaseIsConsistent, RolesAgreeInTurn, ReferencesAreDistinct, PTL
=============================================================================
