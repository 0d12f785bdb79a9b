------------------------------ MODULE QuoteDeal ------------------------------
(***************************************************************************)
(* One RFQ of the export hub from the buyer's request to the order: the    *)
(* row of `rfqs`, its rows of `rfq_quotes`, and the `orders` created from  *)
(* it.  A buyer organisation asks, a supplier quotes, MIU Admin relays or  *)
(* returns the quote, the buyer accepts or declines.                       *)
(*                                                                         *)
(* Every HTTP request is one database transaction (get_db commits after    *)
(* the endpoint, rolls back on an exception) at READ COMMITTED.  A handler *)
(* is two steps: it BEGINS by loading rows and checking its guards, and it *)
(* COMMITS by writing them.  Between the two other requests may commit.    *)
(* The ORM writes a column only when the handler gave it a value that      *)
(* differs from the one it loaded (Written).  accept_rfq and               *)
(* decline_buyer_rfq load their rows FOR UPDATE and keep them locked until *)
(* they commit.  A handler's loads are taken at one instant.               *)
(*                                                                         *)
(* The requests in Solo are taken one at a time, though any other request  *)
(* may overlap them: an assumption about the staff of the supplier and of  *)
(* MIU working on one deal, not something the code enforces.               *)
(* The field `released' of a quote is history: the prices an admin's relay *)
(* released.                                                               *)
(***************************************************************************)
EXTENDS Integers, Sequences, FiniteSets

CONSTANTS
    BuyerReqs,      \* request slots of the buyer organisation's members
    PartnerReqs,    \* request slots of the supplier organisations' members
    AdminReqs,      \* request slots of the MIU admins
    Solo,           \* the slots whose requests do not overlap each other
    Suppliers,      \* supplier organisations
    Prices,         \* unit prices, compared for equality only
    NoOffer,        \* not a price: what the buyer is offered before any relay
    MaxQuotes,      \* bound: rows of rfq_quotes
    MaxOrders       \* bound: rows of orders

Reqs == BuyerReqs \cup PartnerReqs \cup AdminReqs

ASSUME SlotsAssumption ==
    /\ BuyerReqs \cap PartnerReqs = {}
    /\ BuyerReqs \cap AdminReqs = {}
    /\ PartnerReqs \cap AdminReqs = {}
    /\ Solo \subseteq Reqs

ASSUME PriceAssumption == NoOffer \notin Prices

ASSUME BoundsAssumption == MaxQuotes \in Nat /\ MaxOrders \in Nat

VARIABLES
    rfq,        \* the row of rfqs: status and supplier_org_id
    quotes,     \* the rows of rfq_quotes, in the order they were committed
    orders,     \* the rows of orders whose rfq_id is this RFQ
    tx          \* what the request in each slot has loaded

vars == <<rfq, quotes, orders, tx>>

-----------------------------------------------------------------------------
(* No handler writes the other statuses: cancelled and expired of an RFQ,  *)
(* draft of a quote.  NONE: the RFQ is not created yet.                    *)
RfqStatus == {"NONE", "AWAITING", "RESPONDED", "ACCEPTED", "DECLINED"}

QuoteStatus == {"PENDING_REVIEW", "RETURNED", "SENT", "ACCEPTED", "DECLINED"}

\* mutant: the buyer's query does not filter out quotes under review
BuyerVisible_Unfiltered == {"PENDING_REVIEW", "SENT", "ACCEPTED", "DECLINED"}

BuyerVisible == {"SENT", "ACCEPTED", "DECLINED"}

Reopenable == {"PENDING_REVIEW", "RETURNED"}

Answered == {"ACCEPTED", "DECLINED"}

RfqRow == [status : RfqStatus, supplier : Suppliers]

QuoteRow == [supplier : Suppliers, price : Prices, status : QuoteStatus,
             born : Nat, released : SUBSET Prices]

OrderRow == [quote : Nat, supplier : Suppliers, price : Prices]

QuoteLoad == [price : Prices, status : QuoteStatus]

Idle == [op |-> "idle"]

Tx == [op : {"idle"}]
      \cup [op : {"turnDown", "withdraw"}, rfq : RfqRow]
      \cup [op : {"assign"}, rfq : RfqRow, supplier : Suppliers]
      \cup [op : {"insert"}, row : QuoteRow]
      \cup [op : {"submit"}, q : Nat, quote : QuoteLoad, price : Prices]
      \cup [op : {"relay", "return", "accept", "decline"},
            rfq : RfqRow, q : Nat, quote : QuoteLoad]

(* The type invariant: rows, and the rows a request has in hand, are rows. *)
TypeOK ==
    /\ rfq \in RfqRow
    /\ quotes \in Seq(QuoteRow)
    /\ orders \in Seq(OrderRow)
    /\ tx \in [Reqs -> Tx]

-----------------------------------------------------------------------------
(* Requests in flight, and the row locks of SELECT ... FOR UPDATE.         *)

Busy(r) == tx[r].op # "idle"

MayStart(r) ==
    /\ ~Busy(r)
    /\ r \in Solo => \A o \in Solo : ~Busy(o)

LoadsForUpdate == {"accept", "decline", "withdraw"}

\* mutant: the rows are loaded without FOR UPDATE
RfqUnlocked_NoLock(r) == TRUE

RfqUnlocked(r) == \A o \in Reqs \ {r} : tx[o].op \notin LoadsForUpdate

QuoteUnlocked(r, q) ==
    \A o \in Reqs \ {r} : tx[o].op \in {"accept", "decline"} => tx[o].q # q

(* The column after a flush: untouched when the handler left it as loaded. *)
Written(loaded, new, current) == IF new = loaded THEN current ELSE new

RfqAfter(load, new) ==
    [status   |-> Written(load.status, new.status, rfq.status),
     supplier |-> Written(load.supplier, new.supplier, rfq.supplier)]

Load(q) == [price |-> quotes[q].price, status |-> quotes[q].status]

WriteQuote(q, load, price, status) ==
    [quotes EXCEPT
        ![q].price  = Written(load.price, price, @),
        ![q].status = Written(load.status, status, @)]

(* created_at is now(), the start of the inserting transaction.            *)
Births == {quotes[i].born : i \in DOMAIN quotes}
          \cup {tx[r].row.born : r \in {o \in Reqs : tx[o].op = "insert"}}

IsNextBirth(n) ==
    /\ \A b \in Births : b < n
    /\ \A m \in 1 .. n - 1 : \E b \in Births : m <= b

(* latest_quote: ORDER BY created_at DESC LIMIT 1.                         *)
IsLatest(q) ==
    /\ q \in DOMAIN quotes
    /\ \A j \in DOMAIN quotes : quotes[j].born <= quotes[q].born

Open == rfq.status \in {"AWAITING", "RESPONDED"}

Begin(r, load) == tx' = [tx EXCEPT ![r] = load]

End(r) == tx' = [tx EXCEPT ![r] = Idle]

-----------------------------------------------------------------------------
Init ==
    /\ rfq \in [status : {"NONE"}, supplier : Suppliers]
    /\ quotes = << >>
    /\ orders = << >>
    /\ tx = [r \in Reqs |-> Idle]

(* create_rfq: one INSERT; the supplier is the product's, or one named.    *)
CreateRfq(s) ==
    /\ rfq.status = "NONE"
    /\ rfq' = [status |-> "AWAITING", supplier |-> s]
    /\ UNCHANGED <<quotes, orders, tx>>

(* The supplier's requests.                                                *)

(* submit_quote with no quote yet, or after a declined one: a new row.     *)
BeginInsert(r, p, n) ==
    /\ MayStart(r)
    /\ Open
    /\ quotes = << >> \/ \E q \in DOMAIN quotes : IsLatest(q) /\ quotes[q].status = "DECLINED"
    /\ n <= MaxQuotes
    /\ IsNextBirth(n)
    /\ Begin(r, [op |-> "insert",
                 row |-> [supplier |-> rfq.supplier, price |-> p,
                          status |-> "PENDING_REVIEW", born |-> n,
                          released |-> {}]])
    /\ UNCHANGED <<rfq, quotes, orders>>

CommitInsert(r) ==
    /\ tx[r].op = "insert"
    /\ quotes' = Append(quotes, tx[r].row)
    /\ End(r)
    /\ UNCHANGED <<rfq, orders>>

(* submit_quote over a quote the buyer has not been shown: the same row.   *)
BeginSubmit(r, q, p) ==
    /\ MayStart(r)
    /\ Open
    /\ IsLatest(q)
    /\ quotes[q].status \in Reopenable
    /\ Begin(r, [op |-> "submit", q |-> q, quote |-> Load(q), price |-> p])
    /\ UNCHANGED <<rfq, quotes, orders>>

CommitSubmit(r) ==
    /\ tx[r].op = "submit"
    /\ QuoteUnlocked(r, tx[r].q)
    /\ quotes' = WriteQuote(tx[r].q, tx[r].quote, tx[r].price, "PENDING_REVIEW")
    /\ End(r)
    /\ UNCHANGED <<rfq, orders>>

(* supplier_decline_rfq: whatever the status, and the quotes stay.         *)
BeginTurnDown(r) ==
    /\ MayStart(r)
    /\ rfq.status # "NONE"
    /\ Begin(r, [op |-> "turnDown", rfq |-> rfq])
    /\ UNCHANGED <<rfq, quotes, orders>>

CommitTurnDown(r) ==
    /\ tx[r].op = "turnDown"
    /\ RfqUnlocked(r)
    /\ rfq' = RfqAfter(tx[r].rfq, [tx[r].rfq EXCEPT !.status = "DECLINED"])
    /\ End(r)
    /\ UNCHANGED <<quotes, orders>>

(* The admin's requests.                                                   *)

BeginAssign(r, s) ==
    /\ MayStart(r)
    /\ Open
    /\ Begin(r, [op |-> "assign", rfq |-> rfq, supplier |-> s])
    /\ UNCHANGED <<rfq, quotes, orders>>

CommitAssign(r) ==
    /\ tx[r].op = "assign"
    /\ RfqUnlocked(r)
    /\ rfq' = RfqAfter(tx[r].rfq, [tx[r].rfq EXCEPT !.supplier = tx[r].supplier])
    /\ End(r)
    /\ UNCHANGED <<quotes, orders>>

(* relay_quote: any quote of the RFQ by its id, a returned one included.   *)
BeginRelay(r, q) ==
    /\ MayStart(r)
    /\ quotes[q].status \notin Answered \cup {"SENT"}
    /\ Begin(r, [op |-> "relay", rfq |-> rfq, q |-> q, quote |-> Load(q)])
    /\ UNCHANGED <<rfq, quotes, orders>>

CommitRelay(r) ==
    LET t == tx[r] IN
    /\ t.op = "relay"
    /\ RfqUnlocked(r)
    /\ QuoteUnlocked(r, t.q)
    /\ quotes' = [WriteQuote(t.q, t.quote, t.quote.price, "SENT") EXCEPT
                    ![t.q].released = @ \cup {t.quote.price}]
    /\ rfq' = RfqAfter(t.rfq, [t.rfq EXCEPT !.status = "RESPONDED"])
    /\ End(r)
    /\ UNCHANGED orders

\* mutant: return_quote only refuses answered quotes
BeginReturn_Sent(r, q) ==
    /\ MayStart(r)
    /\ quotes[q].status \notin Answered
    /\ Begin(r, [op |-> "return", rfq |-> rfq, q |-> q, quote |-> Load(q)])
    /\ UNCHANGED <<rfq, quotes, orders>>

BeginReturn(r, q) ==
    /\ MayStart(r)
    /\ quotes[q].status = "PENDING_REVIEW"
    /\ Begin(r, [op |-> "return", rfq |-> rfq, q |-> q, quote |-> Load(q)])
    /\ UNCHANGED <<rfq, quotes, orders>>

CommitReturn(r) ==
    LET t == tx[r] IN
    /\ t.op = "return"
    /\ QuoteUnlocked(r, t.q)
    /\ quotes' = WriteQuote(t.q, t.quote, t.quote.price, "RETURNED")
    /\ End(r)
    /\ UNCHANGED <<rfq, orders>>

(* The buyer's requests: their loads lock the rows.                        *)

(* accept_rfq: any quote that is SENT (LIMIT 1, no order).                 *)
BeginAccept(r, q) ==
    /\ MayStart(r)
    /\ RfqUnlocked(r)
    /\ Open
    /\ quotes[q].status = "SENT"
    /\ Len(orders) < MaxOrders
    /\ Begin(r, [op |-> "accept", rfq |-> rfq, q |-> q, quote |-> Load(q)])
    /\ UNCHANGED <<rfq, quotes, orders>>

\* mutant: to write the order it waits for whoever is at work on the RFQ
CommitAccept_Waiting(r) ==
    LET t == tx[r] IN
    /\ t.op = "accept"
    /\ \A o \in Reqs \ {r} : ~Busy(o)
    /\ orders' = Append(orders, [quote |-> t.q, supplier |-> t.rfq.supplier,
                                 price |-> t.quote.price])
    /\ rfq' = RfqAfter(t.rfq, [t.rfq EXCEPT !.status = "ACCEPTED"])
    /\ quotes' = WriteQuote(t.q, t.quote, t.quote.price, "ACCEPTED")
    /\ End(r)

CommitAccept(r) ==
    LET t == tx[r] IN
    /\ t.op = "accept"
    /\ orders' = Append(orders, [quote |-> t.q, supplier |-> t.rfq.supplier,
                                 price |-> t.quote.price])
    /\ rfq' = RfqAfter(t.rfq, [t.rfq EXCEPT !.status = "ACCEPTED"])
    /\ quotes' = WriteQuote(t.q, t.quote, t.quote.price, "ACCEPTED")
    /\ End(r)

(* decline_buyer_rfq: the latest quote, only when it is SENT.              *)
BeginDecline(r, q) ==
    /\ MayStart(r)
    /\ RfqUnlocked(r)
    /\ Open
    /\ IsLatest(q)
    /\ quotes[q].status = "SENT"
    /\ Begin(r, [op |-> "decline", rfq |-> rfq, q |-> q, quote |-> Load(q)])
    /\ UNCHANGED <<rfq, quotes, orders>>

CommitDecline(r) ==
    LET t == tx[r] IN
    /\ t.op = "decline"
    /\ rfq' = RfqAfter(t.rfq, [t.rfq EXCEPT !.status = "DECLINED"])
    /\ quotes' = WriteQuote(t.q, t.quote, t.quote.price, "DECLINED")
    /\ End(r)
    /\ UNCHANGED orders

(* decline_buyer_rfq before any quote: the buyer withdraws the request.    *)
BeginWithdraw(r) ==
    /\ MayStart(r)
    /\ RfqUnlocked(r)
    /\ rfq.status = "AWAITING"
    /\ quotes = << >>
    /\ Begin(r, [op |-> "withdraw", rfq |-> rfq])
    /\ UNCHANGED <<rfq, quotes, orders>>

CommitWithdraw(r) ==
    /\ tx[r].op = "withdraw"
    /\ rfq' = RfqAfter(tx[r].rfq, [tx[r].rfq EXCEPT !.status = "DECLINED"])
    /\ End(r)
    /\ UNCHANGED <<quotes, orders>>

(* get_db: an exception, a lost connection or a killed worker rolls back.  *)
Rollback(r) ==
    /\ Busy(r)
    /\ End(r)
    /\ UNCHANGED <<rfq, quotes, orders>>

PartnerStep(r) ==
    \/ \E p \in Prices, n \in 1 .. MaxQuotes : BeginInsert(r, p, n)
    \/ \E p \in Prices, q \in DOMAIN quotes : BeginSubmit(r, q, p)
    \/ BeginTurnDown(r)
    \/ CommitInsert(r)
    \/ CommitSubmit(r)
    \/ CommitTurnDown(r)

AdminStep(r) ==
    \/ \E s \in Suppliers : BeginAssign(r, s)
    \/ \E q \in DOMAIN quotes : BeginRelay(r, q) \/ BeginReturn(r, q)
    \/ CommitAssign(r)
    \/ CommitRelay(r)
    \/ CommitReturn(r)

BuyerStep(r) ==
    \/ \E q \in DOMAIN quotes : BeginAccept(r, q) \/ BeginDecline(r, q)
    \/ BeginWithdraw(r)
    \/ CommitAccept(r)
    \/ CommitDecline(r)
    \/ CommitWithdraw(r)

Next ==
    \/ \E s \in Suppliers : CreateRfq(s)
    \/ \E r \in PartnerReqs : PartnerStep(r)
    \/ \E r \in AdminReqs : AdminStep(r)
    \/ \E r \in BuyerReqs : BuyerStep(r)
    \/ \E r \in Reqs : Rollback(r)

Spec == Init /\ [][Next]_vars

(* No handler loops or waits for anything but row locks, and PostgreSQL    *)
(* grants a lock in the order of asking: a request that can commit again   *)
(* and again does.  Nobody need send a request, or be rolled back.         *)
Commits(r) ==
    \/ CommitInsert(r) \/ CommitSubmit(r) \/ CommitTurnDown(r)
    \/ CommitAssign(r) \/ CommitRelay(r) \/ CommitReturn(r)
    \/ CommitAccept(r) \/ CommitDecline(r) \/ CommitWithdraw(r)

FairSpec == Spec /\ \A r \in Reqs : SF_vars(Commits(r))

-----------------------------------------------------------------------------
(* Properties that hold whatever overlaps.                                 *)

(* rfq_service.py:42, the buyer is shown no quote that no admin relayed:   *)
(* a quote in a status buyer_visible_quote selects, and so every quote an  *)
(* order was made from, was relayed at least once.                         *)
VisibleWasRelayed ==
    /\ \A q \in DOMAIN quotes :
          quotes[q].status \in BuyerVisible => quotes[q].released # {}
    /\ \A i \in DOMAIN orders : quotes[orders[i].quote].released # {}

(* Properties that need the staff's requests to run one at a time          *)
(* (StaffTakesTurns); the buyer's overlap each other and the staff's.      *)

StaffTakesTurns == PartnerReqs \cup AdminReqs \subseteq Solo

(* The buyer answers once: over the whole life of the RFQ at most one      *)
(* order is created or one quote declined, however many members of the     *)
(* buyer organisation press accept and decline at the same time.           *)
OneAnswer ==
    Len(orders) + Cardinality({q \in DOMAIN quotes : quotes[q].status = "DECLINED"}) <= 1

(* An answered quote is closed: relay_quote, return_quote and submit_quote *)
(* never reopen or reprice a quote the buyer accepted or declined.         *)
AnswersFinal ==
    [][\A q \in DOMAIN quotes :
         quotes[q].status \in Answered =>
             /\ quotes'[q].status = quotes[q].status
             /\ quotes'[q].price = quotes[q].price]_vars

(* An RFQ shown as `responded' carries a quote the buyer can answer        *)
(* (rfq_service.py:168, _serialize_buyer_listing guards against the        *)
(* contrary in rows of older releases).                                    *)
OfferAnswerable ==
    rfq.status = "RESPONDED" => \E q \in DOMAIN quotes : quotes[q].status = "SENT"

(* What the buyer is shown, and what an order is made of, is the price the *)
(* admin's relay released, not a price the supplier put there afterwards.  *)
BuyerSeesRelayedPrice ==
    /\ \A q \in DOMAIN quotes :
          quotes[q].status \in BuyerVisible => quotes[q].price \in quotes[q].released
    /\ \A i \in DOMAIN orders : orders[i].price \in quotes[orders[i].quote].released

(* The deal as DealContract promises it to the buyer: one offer, one       *)
(* answer, an order at the price offered, and no way back.  The quotes     *)
(* buyer_visible_quote selects are the offer.                              *)
Shown == {q \in DOMAIN quotes : quotes[q].status \in BuyerVisible}

Contract == INSTANCE DealContract WITH
    offer   <- IF Shown = {} THEN NoOffer ELSE quotes[CHOOSE q \in Shown : TRUE].price,
    bought  <- [i \in DOMAIN orders |-> orders[i].price],
    refused <- \E q \in DOMAIN quotes : quotes[q].status = "DECLINED"

KeepsContract == Contract!Spec

(* Nobody waits for ever: a request that waits for the rows accept_rfq or  *)
(* decline_buyer_rfq holds FOR UPDATE gets them, whoever comes in between, *)
(* for no request waits while it holds what another one waits for.         *)
EveryRequestEnds == \A r \in Reqs : Busy(r) ~> ~Busy(r)

(* The rows of an RFQ are of their types and agree: every quote shown was  *)
(* relayed, one answer at most was given, and `responded' can be answered. *)
RfqSound ==
    /\ TypeOK
    /\ VisibleWasRelayed
    /\ OneAnswer
    /\ OfferAnswerable
=============================================================================
