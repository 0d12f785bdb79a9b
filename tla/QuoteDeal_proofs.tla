--------------------------- MODULE QuoteDeal_proofs ---------------------------
(***************************************************************************)
(* Proofs about QuoteDeal for every set of requests, suppliers and prices  *)
(* and every bound:                                                        *)
(*   - type correctness, and VisibleWasRelayed, whatever overlaps;         *)
(*   - OneAnswer, OfferAnswerable, BuyerSeesRelayedPrice, AnswersFinal and *)
(*     the refinement of DealContract while the staff takes turns, from    *)
(*     the inductive invariant Orderly.                                    *)
(***************************************************************************)
EXTENDS QuoteDeal, FiniteSetTheorems, TLAPS

-----------------------------------------------------------------------------
(* The inductive invariant behind VisibleWasRelayed: a request in flight   *)
(* holds a row that exists, and the row of an answer was relayed.          *)
OnQuote == {"submit", "relay", "return", "accept", "decline"}

RelayedInv ==
    /\ TypeOK
    /\ \A r \in Reqs : tx[r].op \in OnQuote => tx[r].q \in DOMAIN quotes
    /\ \A r \in Reqs : tx[r].op \in {"accept", "decline"} => quotes[tx[r].q].released # {}
    /\ \A r \in Reqs : tx[r].op = "insert" => tx[r].row.status = "PENDING_REVIEW"
    /\ \A i \in DOMAIN orders : orders[i].quote \in DOMAIN quotes
    /\ VisibleWasRelayed

-----------------------------------------------------------------------------
(* The inductive invariant of a deal whose staff takes turns.              *)

OneAtATime == \A r, o \in Solo : Busy(r) /\ Busy(o) => r = o

OneLock ==
    \A r, o \in Reqs :
        tx[r].op \in LoadsForUpdate /\ tx[o].op \in LoadsForUpdate => r = o

RightHands ==
    \A r \in Reqs : Busy(r) /\ tx[r].op \notin LoadsForUpdate => r \in Solo

(* One row of rfq_quotes, ever; an insert in flight is the first.          *)
OneQuote ==
    /\ Len(quotes) <= 1
    /\ \A r \in Reqs : tx[r].op = "insert" => quotes = << >>

(* What a request in flight loaded of its quote is what the row holds.     *)
FreshLoads ==
    \A r \in Reqs :
        tx[r].op \in OnQuote =>
            /\ tx[r].q \in DOMAIN quotes
            /\ tx[r].quote = Load(tx[r].q)

LoadedStatus ==
    \A r \in Reqs :
        /\ tx[r].op \in {"submit", "relay", "return"} => tx[r].quote.status \in Reopenable
        /\ tx[r].op \in {"accept", "decline"} =>
              tx[r].quote.status = "SENT" /\ tx[r].rfq.status \in {"AWAITING", "RESPONDED"}

(* An answered quote belongs to a closed RFQ, an order to an accepted one. *)
Closed ==
    /\ \A q \in DOMAIN quotes :
          quotes[q].status \in Answered => rfq.status \in {"ACCEPTED", "DECLINED"}
    /\ orders # << >> =>
          /\ Len(orders) = 1
          /\ Len(quotes) = 1
          /\ quotes[1].status = "ACCEPTED"
          /\ orders[1].quote = 1
          /\ orders[1].price = quotes[1].price

Orderly ==
    /\ RelayedInv
    /\ OneAtATime
    /\ OneLock
    /\ RightHands
    /\ OneQuote
    /\ FreshLoads
    /\ LoadedStatus
    /\ Closed
    /\ OfferAnswerable
    /\ BuyerSeesRelayedPrice

-----------------------------------------------------------------------------
(* A request in flight holds what its handler loaded: the shapes of Tx.    *)
LEMMA TxShape ==
    ASSUME TypeOK, NEW r \in Reqs
    PROVE  /\ tx[r] \in Tx
           /\ tx[r].op \in {"turnDown", "withdraw", "assign", "relay", "return",
                            "accept", "decline"} => tx[r].rfq \in RfqRow
           /\ tx[r].op = "assign" => tx[r].supplier \in Suppliers
           /\ tx[r].op = "insert" => tx[r].row \in QuoteRow
           /\ tx[r].op = "submit" => tx[r].price \in Prices
           /\ tx[r].op \in OnQuote => tx[r].q \in Nat /\ tx[r].quote \in QuoteLoad
  BY DEF TypeOK, Tx, OnQuote

(* A commit of the RFQ's row writes each column or leaves it.              *)
LEMMA RfqAfterType ==
    ASSUME TypeOK, NEW load \in RfqRow, NEW new \in RfqRow
    PROVE  /\ RfqAfter(load, new) \in RfqRow
           /\ RfqAfter(load, new).status \in {rfq.status, new.status}
           /\ new.status # load.status => RfqAfter(load, new).status = new.status
           /\ new.status = load.status => RfqAfter(load, new).status = rfq.status
  BY DEF TypeOK, RfqRow, RfqAfter, Written

(* A commit of a quote touches the price and the status of its own row.    *)
LEMMA WriteQuoteType ==
    ASSUME TypeOK, NEW q \in DOMAIN quotes, NEW load \in QuoteLoad,
           NEW price \in Prices, NEW status \in QuoteStatus
    PROVE  LET new == WriteQuote(q, load, price, status) IN
           /\ new \in Seq(QuoteRow)
           /\ DOMAIN new = DOMAIN quotes
           /\ Len(new) = Len(quotes)
           /\ \A i \in DOMAIN quotes : i # q => new[i] = quotes[i]
           /\ new[q].price = Written(load.price, price, quotes[q].price)
           /\ new[q].status = Written(load.status, status, quotes[q].status)
           /\ new[q].supplier = quotes[q].supplier
           /\ new[q].born = quotes[q].born
           /\ new[q].released = quotes[q].released
  <1> DEFINE new == WriteQuote(q, load, price, status)
  <1>1. /\ quotes \in Seq(QuoteRow) /\ quotes[q] \in QuoteRow
        /\ \A i \in DOMAIN quotes : quotes[i] \in QuoteRow
    BY DEF TypeOK
  <1>2. /\ DOMAIN new = DOMAIN quotes
        /\ \A i \in DOMAIN quotes : i # q => new[i] = quotes[i]
        /\ new[q] = [quotes[q] EXCEPT
                       !.price = Written(load.price, price, quotes[q].price),
                       !.status = Written(load.status, status, quotes[q].status)]
    BY <1>1 DEF WriteQuote, QuoteRow
  <1>3. new[q] \in QuoteRow
    BY <1>1, <1>2 DEF QuoteRow, QuoteLoad, Written
  <1>4. new \in Seq(QuoteRow) /\ Len(new) = Len(quotes)
    <2>1. quotes \in [1 .. Len(quotes) -> QuoteRow] /\ Len(quotes) \in Nat
      BY <1>1
    <2>2. new = [quotes EXCEPT ![q] = new[q]]
      BY <1>1 DEF WriteQuote
    <2>3. new \in [1 .. Len(quotes) -> QuoteRow]
      BY <1>3, <2>1, <2>2
    <2> QED BY <2>1, <2>3
  <1> QED BY <1>1, <1>2, <1>3, <1>4 DEF QuoteRow
(* A release adds a price to the history of one quote.                     *)
LEMMA ReleaseType ==
    ASSUME NEW rows \in Seq(QuoteRow), NEW q \in DOMAIN rows, NEW price \in Prices
    PROVE  LET new == [rows EXCEPT ![q].released = @ \cup {price}] IN
           /\ new \in Seq(QuoteRow)
           /\ DOMAIN new = DOMAIN rows
           /\ Len(new) = Len(rows)
           /\ \A i \in DOMAIN rows : i # q => new[i] = rows[i]
           /\ new[q].released = rows[q].released \cup {price}
           /\ new[q].status = rows[q].status
           /\ new[q].price = rows[q].price
  <1> DEFINE new == [rows EXCEPT ![q].released = @ \cup {price}]
  <1>1. rows[q] \in QuoteRow /\ rows \in [1 .. Len(rows) -> QuoteRow] /\ Len(rows) \in Nat
    OBVIOUS
  <1>2. /\ DOMAIN new = DOMAIN rows
        /\ \A i \in DOMAIN rows : i # q => new[i] = rows[i]
        /\ new[q] = [rows[q] EXCEPT !.released = rows[q].released \cup {price}]
    BY <1>1 DEF QuoteRow
  <1>3. new[q] \in QuoteRow
    BY <1>1, <1>2 DEF QuoteRow
  <1>4. new = [rows EXCEPT ![q] = new[q]]
    BY <1>1
  <1>5. new \in [1 .. Len(rows) -> QuoteRow]
    BY <1>1, <1>3, <1>4
  <1>6. new \in Seq(QuoteRow) /\ Len(new) = Len(rows)
    BY <1>1, <1>5
  <1> QED BY <1>1, <1>2, <1>6 DEF QuoteRow

-----------------------------------------------------------------------------
(* Loading a row keeps RelayedInv when the row exists.                     *)
LEMMA BeginKeepsRelayed ==
    ASSUME RelayedInv, NEW r \in Reqs, NEW load \in Tx,
           Begin(r, load), UNCHANGED <<rfq, quotes, orders>>,
           load.op \in OnQuote => load.q \in DOMAIN quotes,
           load.op \in {"accept", "decline"} => quotes[load.q].released # {},
           load.op = "insert" => load.row.status = "PENDING_REVIEW"
    PROVE  RelayedInv'
  <1>1. tx' \in [Reqs -> Tx] /\ \A o \in Reqs : tx'[o] = IF o = r THEN load ELSE tx[o]
    BY DEF RelayedInv, TypeOK, Begin
  <1>2. TypeOK' /\ VisibleWasRelayed'
    BY <1>1 DEF RelayedInv, TypeOK, VisibleWasRelayed
  <1>3. \A o \in Reqs : tx'[o].op \in OnQuote => tx'[o].q \in DOMAIN quotes'
    BY <1>1 DEF RelayedInv
  <1>4. \A o \in Reqs : tx'[o].op \in {"accept", "decline"} => quotes'[tx'[o].q].released # {}
    BY <1>1 DEF RelayedInv
  <1>5. \A o \in Reqs : tx'[o].op = "insert" => tx'[o].row.status = "PENDING_REVIEW"
    BY <1>1 DEF RelayedInv
  <1> QED BY <1>2, <1>3, <1>4, <1>5 DEF RelayedInv

(* So does a commit or a rollback that loses no row and no release.        *)
LEMMA EndKeepsRelayed ==
    ASSUME RelayedInv, NEW r \in Reqs, End(r),
           rfq' \in RfqRow, quotes' \in Seq(QuoteRow), orders' \in Seq(OrderRow),
           DOMAIN quotes \subseteq DOMAIN quotes',
           \A q \in DOMAIN quotes : quotes[q].released # {} => quotes'[q].released # {},
           \A q \in DOMAIN quotes' :
               quotes'[q].status \in BuyerVisible => quotes'[q].released # {},
           \A i \in DOMAIN orders' :
               /\ orders'[i].quote \in DOMAIN quotes'
               /\ quotes'[orders'[i].quote].released # {}
    PROVE  RelayedInv'
  <1>1. tx' \in [Reqs -> Tx] /\ \A o \in Reqs : tx'[o] = IF o = r THEN Idle ELSE tx[o]
    BY DEF RelayedInv, TypeOK, End, Idle, Tx
  <1>2. TypeOK' /\ VisibleWasRelayed'
    BY <1>1 DEF TypeOK, VisibleWasRelayed
  <1>3. \A o \in Reqs : tx'[o].op \in OnQuote => tx'[o].q \in DOMAIN quotes'
    BY <1>1 DEF RelayedInv, Idle, OnQuote
  <1>4. \A o \in Reqs : tx'[o].op \in {"accept", "decline"} => quotes'[tx'[o].q].released # {}
    <2> SUFFICES ASSUME NEW o \in Reqs, tx'[o].op \in {"accept", "decline"}
                 PROVE  quotes'[tx'[o].q].released # {}
      OBVIOUS
    <2>1. tx'[o] = tx[o] /\ tx[o].op \in {"accept", "decline"}
      BY <1>1 DEF Idle
    <2> QED BY <2>1 DEF RelayedInv, OnQuote
  <1>5. \A o \in Reqs : tx'[o].op = "insert" => tx'[o].row.status = "PENDING_REVIEW"
    BY <1>1 DEF RelayedInv, Idle
  <1> QED BY <1>2, <1>3, <1>4, <1>5 DEF RelayedInv

LEMMA InitRelayed == Init => RelayedInv
  <1> SUFFICES ASSUME Init PROVE RelayedInv
    OBVIOUS
  <1>1. rfq \in RfqRow /\ quotes = << >> /\ orders = << >>
    BY DEF Init, RfqRow, RfqStatus
  <1>2. tx \in [Reqs -> Tx] /\ \A r \in Reqs : tx[r].op = "idle"
    BY DEF Init, Tx, Idle
  <1>3. TypeOK /\ VisibleWasRelayed
    BY <1>1, <1>2 DEF TypeOK, VisibleWasRelayed
  <1> QED BY <1>1, <1>2, <1>3 DEF RelayedInv, OnQuote

LEMMA NextRelayed == RelayedInv /\ [Next]_vars => RelayedInv'
  <1> SUFFICES ASSUME RelayedInv, [Next]_vars PROVE RelayedInv'
    OBVIOUS
  <1> USE DEF RelayedInv
  <1>0. /\ TypeOK /\ rfq \in RfqRow /\ quotes \in Seq(QuoteRow) /\ orders \in Seq(OrderRow)
        /\ \A q \in DOMAIN quotes : quotes[q] \in QuoteRow /\ q \in Nat
        /\ \A i \in DOMAIN orders : orders[i] \in OrderRow
        /\ PartnerReqs \subseteq Reqs /\ AdminReqs \subseteq Reqs /\ BuyerReqs \subseteq Reqs
    BY DEF TypeOK, Reqs
  <1>L. \A q \in DOMAIN quotes : Load(q) \in QuoteLoad
    BY <1>0 DEF Load, QuoteLoad, QuoteRow
  <1>V. /\ \A q \in DOMAIN quotes : quotes[q].status \in BuyerVisible => quotes[q].released # {}
        /\ \A i \in DOMAIN orders : /\ orders[i].quote \in DOMAIN quotes
                                    /\ quotes[orders[i].quote].released # {}
    BY DEF VisibleWasRelayed
  \* A handler that begins.
  <1>1. ASSUME NEW r \in PartnerReqs, NEW p \in Prices, NEW n \in 1 .. MaxQuotes, BeginInsert(r, p, n)
        PROVE  RelayedInv'
    <2> DEFINE load == [op |-> "insert",
                        row |-> [supplier |-> rfq.supplier, price |-> p,
                                 status |-> "PENDING_REVIEW", born |-> n,
                                 released |-> {}]]
    <2>1. load.row \in QuoteRow
      BY <1>0, <1>1, BoundsAssumption DEF QuoteRow, QuoteStatus, RfqRow
    <2>2. load \in Tx /\ load.op = "insert" /\ load.row.status = "PENDING_REVIEW"
      BY <2>1 DEF Tx
    <2>3. Begin(r, load) /\ UNCHANGED <<rfq, quotes, orders>>
      BY <1>1 DEF BeginInsert
    <2> HIDE DEF load
    <2> QED BY <1>0, <2>2, <2>3, BeginKeepsRelayed DEF OnQuote
  <1>2. ASSUME NEW r \in PartnerReqs, NEW p \in Prices, NEW q \in DOMAIN quotes, BeginSubmit(r, q, p)
        PROVE  RelayedInv'
    <2> DEFINE load == [op |-> "submit", q |-> q, quote |-> Load(q), price |-> p]
    <2>1. load \in Tx /\ load.op = "submit" /\ load.q = q
      BY <1>0, <1>L DEF Tx
    <2>2. Begin(r, load) /\ UNCHANGED <<rfq, quotes, orders>>
      BY <1>2 DEF BeginSubmit
    <2> HIDE DEF load
    <2> QED BY <1>0, <2>1, <2>2, BeginKeepsRelayed DEF OnQuote
  <1>3. ASSUME NEW r \in PartnerReqs, BeginTurnDown(r)
        PROVE  RelayedInv'
    <2> DEFINE load == [op |-> "turnDown", rfq |-> rfq]
    <2>1. load \in Tx /\ load.op = "turnDown"
      BY <1>0 DEF Tx
    <2>2. Begin(r, load) /\ UNCHANGED <<rfq, quotes, orders>>
      BY <1>3 DEF BeginTurnDown
    <2> HIDE DEF load
    <2> QED BY <1>0, <2>1, <2>2, BeginKeepsRelayed DEF OnQuote
  <1>4. ASSUME NEW r \in AdminReqs, NEW s \in Suppliers, BeginAssign(r, s)
        PROVE  RelayedInv'
    <2> DEFINE load == [op |-> "assign", rfq |-> rfq, supplier |-> s]
    <2>1. load \in Tx /\ load.op = "assign"
      BY <1>0 DEF Tx
    <2>2. Begin(r, load) /\ UNCHANGED <<rfq, quotes, orders>>
      BY <1>4 DEF BeginAssign
    <2> HIDE DEF load
    <2> QED BY <1>0, <2>1, <2>2, BeginKeepsRelayed DEF OnQuote
  <1>5. ASSUME NEW r \in Reqs, NEW q \in DOMAIN quotes, NEW op \in {"relay", "return", "accept", "decline"},
               op \in {"accept", "decline"} => quotes[q].status = "SENT",
               Begin(r, [op |-> op, rfq |-> rfq, q |-> q, quote |-> Load(q)]),
               UNCHANGED <<rfq, quotes, orders>>
        PROVE  RelayedInv'
    <2> DEFINE load == [op |-> op, rfq |-> rfq, q |-> q, quote |-> Load(q)]
    <2>1. load \in Tx /\ load.op = op /\ load.q = q
      BY <1>0, <1>L DEF Tx
    <2>2. Begin(r, load) /\ UNCHANGED <<rfq, quotes, orders>>
      BY <1>5
    <2>3. op \in {"accept", "decline"} => quotes[q].released # {}
      BY <1>5, <1>V DEF BuyerVisible
    <2> HIDE DEF load
    <2> QED BY <1>0, <2>1, <2>2, <2>3, BeginKeepsRelayed DEF OnQuote
  <1>6. ASSUME NEW r \in BuyerReqs, BeginWithdraw(r)
        PROVE  RelayedInv'
    <2> DEFINE load == [op |-> "withdraw", rfq |-> rfq]
    <2>1. load \in Tx /\ load.op = "withdraw"
      BY <1>0 DEF Tx
    <2>2. Begin(r, load) /\ UNCHANGED <<rfq, quotes, orders>>
      BY <1>6 DEF BeginWithdraw
    <2> HIDE DEF load
    <2> QED BY <1>0, <2>1, <2>2, BeginKeepsRelayed DEF OnQuote
  \* A handler that commits.
  <1>7. ASSUME NEW r \in PartnerReqs, CommitInsert(r)
        PROVE  RelayedInv'
    <2>1. tx[r].op = "insert" /\ tx[r].row \in QuoteRow /\ tx[r].row.status = "PENDING_REVIEW"
      BY <1>0, <1>7, TxShape DEF CommitInsert
    <2>2. /\ quotes' \in Seq(QuoteRow)
          /\ DOMAIN quotes \subseteq DOMAIN quotes'
          /\ \A q \in DOMAIN quotes : quotes'[q] = quotes[q]
          /\ \A q \in DOMAIN quotes' : q \in DOMAIN quotes \/ quotes'[q] = tx[r].row
      BY <1>0, <1>7, <2>1 DEF CommitInsert
    <2>3. End(r) /\ rfq' = rfq /\ orders' = orders
      BY <1>7 DEF CommitInsert
    <2> QED BY <1>0, <1>V, <2>1, <2>2, <2>3, EndKeepsRelayed DEF BuyerVisible
  <1>8. ASSUME NEW r \in Reqs, tx[r].op \in OnQuote,
               NEW price \in Prices, NEW status \in QuoteStatus,
               status \in BuyerVisible => quotes[tx[r].q].released # {},
               quotes' = WriteQuote(tx[r].q, tx[r].quote, price, status),
               End(r), rfq' \in RfqRow, orders' \in Seq(OrderRow),
               \A i \in DOMAIN orders' : i \in DOMAIN orders \/ orders'[i].quote = tx[r].q,
               \A i \in DOMAIN orders : orders'[i] = orders[i],
               tx[r].op = "accept" \/ orders' = orders
        PROVE  RelayedInv'
    <2>1. tx[r].q \in DOMAIN quotes /\ tx[r].quote \in QuoteLoad
      BY <1>0, <1>8, TxShape
    <2>2. /\ quotes' \in Seq(QuoteRow) /\ DOMAIN quotes' = DOMAIN quotes
          /\ \A i \in DOMAIN quotes : i # tx[r].q => quotes'[i] = quotes[i]
          /\ quotes'[tx[r].q].status \in {status, quotes[tx[r].q].status}
          /\ quotes'[tx[r].q].released = quotes[tx[r].q].released
      BY <1>0, <1>8, <2>1, WriteQuoteType DEF Written
    <2>3. \A q \in DOMAIN quotes : quotes'[q].released = quotes[q].released
      BY <2>2
    <2>4. \A q \in DOMAIN quotes' :
             quotes'[q].status \in BuyerVisible => quotes'[q].released # {}
      BY <1>8, <1>V, <2>2, <2>3
    <2>5. \A i \in DOMAIN orders' : /\ orders'[i].quote \in DOMAIN quotes'
                                    /\ quotes'[orders'[i].quote].released # {}
      BY <1>8, <1>V, <2>1, <2>2, <2>3
    <2> QED BY <1>8, <2>2, <2>3, <2>4, <2>5, EndKeepsRelayed
  <1>9. ASSUME NEW r \in PartnerReqs, CommitSubmit(r)
        PROVE  RelayedInv'
    <2>1. tx[r].op = "submit" /\ tx[r].price \in Prices
      BY <1>0, <1>9, TxShape DEF CommitSubmit
    <2> QED BY <1>0, <1>8, <1>9, <2>1 DEF CommitSubmit, OnQuote, QuoteStatus, BuyerVisible
  <1>10. ASSUME NEW r \in Reqs, NEW new \in RfqRow, tx[r].op \in {"turnDown", "assign", "withdraw"},
                rfq' = RfqAfter(tx[r].rfq, new), End(r), UNCHANGED <<quotes, orders>>
         PROVE  RelayedInv'
    <2>1. rfq' \in RfqRow
      BY <1>0, <1>10, TxShape, RfqAfterType
    <2> QED BY <1>0, <1>10, <1>V, <2>1, EndKeepsRelayed
  <1>11. ASSUME NEW r \in PartnerReqs, CommitTurnDown(r)
         PROVE  RelayedInv'
    <2>1. [tx[r].rfq EXCEPT !.status = "DECLINED"] \in RfqRow
      BY <1>0, <1>11, TxShape DEF CommitTurnDown, RfqRow, RfqStatus
    <2> QED BY <1>0, <1>10, <1>11, <2>1 DEF CommitTurnDown
  <1>12. ASSUME NEW r \in AdminReqs, CommitAssign(r)
         PROVE  RelayedInv'
    <2>1. [tx[r].rfq EXCEPT !.supplier = tx[r].supplier] \in RfqRow
      BY <1>0, <1>12, TxShape DEF CommitAssign, RfqRow
    <2> QED BY <1>0, <1>10, <1>12, <2>1 DEF CommitAssign
  <1>13. ASSUME NEW r \in BuyerReqs, CommitWithdraw(r)
         PROVE  RelayedInv'
    <2>1. [tx[r].rfq EXCEPT !.status = "DECLINED"] \in RfqRow
      BY <1>0, <1>13, TxShape DEF CommitWithdraw, RfqRow, RfqStatus
    <2> QED BY <1>0, <1>10, <1>13, <2>1 DEF CommitWithdraw
  <1>14. ASSUME NEW r \in AdminReqs, CommitRelay(r)
         PROVE  RelayedInv'
    <2> DEFINE q == tx[r].q
               written == WriteQuote(q, tx[r].quote, tx[r].quote.price, "SENT")
    <2>1. /\ tx[r].op = "relay" /\ tx[r].rfq \in RfqRow /\ q \in DOMAIN quotes
          /\ tx[r].quote \in QuoteLoad /\ tx[r].quote.price \in Prices
          /\ [tx[r].rfq EXCEPT !.status = "RESPONDED"] \in RfqRow
      BY <1>0, <1>14, TxShape DEF CommitRelay, OnQuote, QuoteLoad, RfqRow, RfqStatus
    <2>2. rfq' \in RfqRow /\ orders' = orders /\ End(r)
          /\ quotes' = [written EXCEPT ![q].released = @ \cup {tx[r].quote.price}]
      BY <1>0, <1>14, <2>1, RfqAfterType DEF CommitRelay
    <2>3. /\ written \in Seq(QuoteRow) /\ DOMAIN written = DOMAIN quotes
          /\ \A i \in DOMAIN quotes : i # q => written[i] = quotes[i]
          /\ written[q].released = quotes[q].released
      BY <1>0, <2>1, WriteQuoteType DEF QuoteStatus
    <2> DEFINE price == tx[r].quote.price
    <2>a. /\ written \in Seq(QuoteRow) /\ q \in DOMAIN written /\ price \in Prices
          /\ quotes' = [written EXCEPT ![q].released = @ \cup {price}]
      BY <2>1, <2>2, <2>3
    <2> HIDE DEF written, price, q
    <2>b. /\ quotes' \in Seq(QuoteRow) /\ DOMAIN quotes' = DOMAIN written
          /\ \A i \in DOMAIN written : i # q => quotes'[i] = written[i]
          /\ quotes'[q].released = written[q].released \cup {price}
      BY <2>a, ReleaseType
    <2>4. /\ quotes' \in Seq(QuoteRow) /\ DOMAIN quotes' = DOMAIN quotes
          /\ \A i \in DOMAIN quotes : i # q => quotes'[i] = quotes[i]
          /\ quotes'[q].released # {}
      BY <2>3, <2>b
    <2> QED BY <1>0, <1>V, <2>1, <2>2, <2>4, EndKeepsRelayed
  <1>15. ASSUME NEW r \in AdminReqs, CommitReturn(r)
         PROVE  RelayedInv'
    <2>1. tx[r].op = "return" /\ tx[r].quote.price \in Prices
      BY <1>0, <1>15, TxShape DEF CommitReturn, OnQuote, QuoteLoad
    <2> QED BY <1>0, <1>8, <1>15, <2>1 DEF CommitReturn, OnQuote, QuoteStatus, BuyerVisible
  <1>16. ASSUME NEW r \in BuyerReqs, CommitAccept(r)
         PROVE  RelayedInv'
    <2>1. /\ tx[r].op = "accept" /\ tx[r].rfq \in RfqRow /\ tx[r].q \in Nat
          /\ tx[r].quote.price \in Prices
          /\ [tx[r].rfq EXCEPT !.status = "ACCEPTED"] \in RfqRow
          /\ quotes[tx[r].q].released # {}
      BY <1>0, <1>16, TxShape DEF CommitAccept, OnQuote, QuoteLoad, RfqRow, RfqStatus
    <2>2. rfq' \in RfqRow
      BY <1>0, <1>16, <2>1, RfqAfterType DEF CommitAccept
    <2> DEFINE o == [quote |-> tx[r].q, supplier |-> tx[r].rfq.supplier, price |-> tx[r].quote.price]
    <2>3. o \in OrderRow /\ o.quote = tx[r].q
      BY <2>1 DEF OrderRow, RfqRow
    <2>4. orders' = Append(orders, o)
      BY <1>16 DEF CommitAccept
    <2> HIDE DEF o
    <2>5. /\ orders' \in Seq(OrderRow)
          /\ \A i \in DOMAIN orders : orders'[i] = orders[i]
          /\ \A i \in DOMAIN orders' : i \in DOMAIN orders \/ orders'[i].quote = tx[r].q
      BY <1>0, <2>3, <2>4
    <2> QED BY <1>0, <1>8, <1>16, <2>1, <2>2, <2>5 DEF CommitAccept, OnQuote, QuoteStatus
  <1>17. ASSUME NEW r \in BuyerReqs, CommitDecline(r)
         PROVE  RelayedInv'
    <2>1. /\ tx[r].op = "decline" /\ tx[r].rfq \in RfqRow
          /\ tx[r].quote.price \in Prices
          /\ [tx[r].rfq EXCEPT !.status = "DECLINED"] \in RfqRow
          /\ quotes[tx[r].q].released # {}
      BY <1>0, <1>17, TxShape DEF CommitDecline, OnQuote, QuoteLoad, RfqRow, RfqStatus
    <2>2. rfq' \in RfqRow
      BY <1>0, <1>17, <2>1, RfqAfterType DEF CommitDecline
    <2> QED BY <1>0, <1>8, <1>17, <2>1, <2>2 DEF CommitDecline, OnQuote, QuoteStatus
  <1>18. ASSUME NEW r \in Reqs, Rollback(r)
         PROVE  RelayedInv'
    BY <1>0, <1>18, <1>V, EndKeepsRelayed DEF Rollback
  \* What no request does.
  <1>19. ASSUME NEW s \in Suppliers, CreateRfq(s)
         PROVE  RelayedInv'
    <2>1. rfq' \in RfqRow
      BY <1>19 DEF CreateRfq, RfqRow, RfqStatus
    <2> QED BY <1>19, <2>1 DEF CreateRfq, TypeOK, VisibleWasRelayed
  <1>21. CASE UNCHANGED vars
    BY <1>21 DEF vars, TypeOK, VisibleWasRelayed
  <1>22. ASSUME NEW r \in AdminReqs, NEW q \in DOMAIN quotes, BeginRelay(r, q) \/ BeginReturn(r, q)
         PROVE  RelayedInv'
    BY <1>0, <1>5, <1>22 DEF BeginRelay, BeginReturn
  <1>23. ASSUME NEW r \in BuyerReqs, NEW q \in DOMAIN quotes, BeginAccept(r, q) \/ BeginDecline(r, q)
         PROVE  RelayedInv'
    BY <1>0, <1>5, <1>23 DEF BeginAccept, BeginDecline
  <1> HIDE DEF RelayedInv
  <1>24. ASSUME NEW r \in PartnerReqs, PartnerStep(r)
         PROVE  RelayedInv'
    BY <1>24, <1>1, <1>2, <1>3, <1>7, <1>9, <1>11 DEF PartnerStep
  <1>25. ASSUME NEW r \in AdminReqs, AdminStep(r)
         PROVE  RelayedInv'
    BY <1>25, <1>4, <1>22, <1>12, <1>14, <1>15 DEF AdminStep
  <1>26. ASSUME NEW r \in BuyerReqs, BuyerStep(r)
         PROVE  RelayedInv'
    BY <1>26, <1>23, <1>6, <1>16, <1>17, <1>13 DEF BuyerStep
  <1> QED BY <1>18, <1>19, <1>21, <1>24, <1>25, <1>26 DEF Next

(* Type correctness, for every set of requests and whatever overlaps.      *)
THEOREM TypeCorrect == Spec => []TypeOK
  <1>1. RelayedInv => TypeOK
    BY DEF RelayedInv
  <1> QED BY <1>1, InitRelayed, NextRelayed, PTL DEF Spec

(* The buyer is shown, and orders are made of, relayed quotes only, for    *)
(* every set of requests and whatever overlaps.                            *)
THEOREM OnlyRelayedQuotesAreShown == Spec => []VisibleWasRelayed
  <1>1. RelayedInv => VisibleWasRelayed
    BY DEF RelayedInv
  <1> QED BY <1>1, InitRelayed, NextRelayed, PTL DEF Spec

-----------------------------------------------------------------------------
(* What one step does to the rows while the staff takes turns.             *)

NoneHeld == \A o \in Reqs : tx[o].op \notin OnQuote \cup {"insert"}

SameRows ==
    /\ orders' = orders
    /\ DOMAIN quotes' = DOMAIN quotes
    /\ \A q \in DOMAIN quotes :
          /\ quotes'[q].status = quotes[q].status
          /\ quotes'[q].price = quotes[q].price
          /\ quotes'[q].released = quotes[q].released
    /\ \/ rfq'.status \in {rfq.status, "DECLINED"}
       \/ rfq.status = "NONE" /\ rfq'.status = "AWAITING"

FirstQuote ==
    /\ quotes = << >> /\ DOMAIN quotes' = {1}
    /\ quotes'[1].status = "PENDING_REVIEW"
    /\ UNCHANGED <<rfq, orders>>
    /\ NoneHeld'

(* The row of the one quote goes from a status of `from' to `status'.      *)
QuoteGoes(from, status) ==
    /\ DOMAIN quotes = {1} /\ DOMAIN quotes' = {1}
    /\ quotes[1].status \in from
    /\ quotes'[1].status = status
    /\ quotes[1].released \subseteq quotes'[1].released
    /\ NoneHeld'

Reworked ==
    /\ \E status \in Reopenable : QuoteGoes(Reopenable, status)
    /\ UNCHANGED <<rfq, orders>>

OfferMade ==
    /\ QuoteGoes(Reopenable, "SENT")
    /\ quotes'[1].price \in quotes'[1].released
    /\ orders' = orders

OfferAccepted ==
    /\ QuoteGoes({"SENT"}, "ACCEPTED")
    /\ quotes'[1].price = quotes[1].price
    /\ \E o \in OrderRow :
          /\ o.quote = 1 /\ o.price = quotes[1].price
          /\ orders' = Append(orders, o)
    /\ rfq'.status = "ACCEPTED"

OfferDeclined ==
    /\ QuoteGoes({"SENT"}, "DECLINED")
    /\ quotes'[1].price = quotes[1].price
    /\ orders' = orders
    /\ rfq'.status = "DECLINED"

RowStep ==
    SameRows \/ FirstQuote \/ Reworked \/ OfferMade \/ OfferAccepted \/ OfferDeclined

(* What a handler may hold when it begins.                                 *)
LoadOK(r, load) ==
    /\ MayStart(r)
    /\ load.op # "idle"
    /\ load.op \in LoadsForUpdate => RfqUnlocked(r)
    /\ load.op \notin LoadsForUpdate => r \in Solo
    /\ load.op \in OnQuote => load.q \in DOMAIN quotes /\ load.quote = Load(load.q)
    /\ load.op \in {"submit", "relay", "return"} => load.quote.status \in Reopenable
    /\ load.op \in {"accept", "decline"} =>
          load.quote.status = "SENT" /\ load.rfq.status \in {"AWAITING", "RESPONDED"}
    /\ load.op = "insert" => quotes = << >>

TxStep ==
    \/ tx' = tx
    \/ \E r \in Reqs : End(r)
    \/ /\ UNCHANGED <<rfq, quotes, orders>>
       /\ \E r \in Reqs : \E load : LoadOK(r, load) /\ Begin(r, load)

(* There is at most one quote, and a request on a quote is on that one.    *)
LEMMA RowsInHand ==
    ASSUME Orderly
    PROVE  /\ quotes \in Seq(QuoteRow) /\ Len(quotes) \in {0, 1}
           /\ quotes = << >> \/ (DOMAIN quotes = {1} /\ Len(quotes) = 1)
           /\ \A r \in Reqs : tx[r].op \in OnQuote =>
                 /\ tx[r].q = 1 /\ DOMAIN quotes = {1} /\ Len(quotes) = 1
                 /\ tx[r].quote = Load(1)
           /\ \A r \in Reqs : tx[r].op = "insert" => DOMAIN quotes = {}
  <1>1. quotes \in Seq(QuoteRow) /\ Len(quotes) \in Nat /\ Len(quotes) <= 1
    BY DEF Orderly, RelayedInv, TypeOK, OneQuote
  <1>2. quotes = << >> \/ (DOMAIN quotes = {1} /\ Len(quotes) = 1)
    <2>1. CASE Len(quotes) = 0
      BY <1>1, <2>1
    <2>2. CASE Len(quotes) = 1
      <3>1. DOMAIN quotes = 1 .. 1
        BY <1>1, <2>2
      <3> QED BY <2>2, <3>1
    <2>3. Len(quotes) = 0 \/ Len(quotes) = 1
      <3>1. \A n \in Nat : n <= 1 => n = 0 \/ n = 1
        OBVIOUS
      <3> QED BY <1>1, <3>1
    <2> QED BY <2>1, <2>2, <2>3
  <1>3. DOMAIN << >> = {}
    OBVIOUS
  <1>4. \A r \in Reqs : tx[r].op \in OnQuote => tx[r].q \in DOMAIN quotes /\ tx[r].quote = Load(tx[r].q)
    BY DEF Orderly, FreshLoads
  <1>5. \A r \in Reqs : tx[r].op = "insert" => quotes = << >>
    BY DEF Orderly, OneQuote
  <1> QED BY <1>1, <1>2, <1>3, <1>4, <1>5

(* While one request holds the quote, no other does.                       *)
LEMMA LoneHolder ==
    ASSUME Orderly, NEW r \in Reqs, tx[r].op \in OnQuote \cup {"insert"}
    PROVE  \A o \in Reqs \ {r} : tx[o].op \notin OnQuote \cup {"insert"}
  <1> SUFFICES ASSUME NEW o \in Reqs \ {r}, tx[o].op \in OnQuote \cup {"insert"}
               PROVE  FALSE
    OBVIOUS
  <1>1. Busy(o) /\ Busy(r)
    BY DEF Busy, OnQuote
  <1>2. ~(tx[r].op \in LoadsForUpdate /\ tx[o].op \in LoadsForUpdate)
    BY DEF Orderly, OneLock
  <1>3. ~(tx[r].op \notin LoadsForUpdate /\ tx[o].op \notin LoadsForUpdate)
    BY <1>1 DEF Orderly, RightHands, OneAtATime
  <1>4. tx[r].op \in OnQuote /\ tx[o].op \in OnQuote
    BY <1>2, <1>3, RowsInHand DEF OnQuote, LoadsForUpdate
  <1>5. tx[r].quote = tx[o].quote
    BY <1>4, RowsInHand
  <1>6. \A x \in {r, o} : tx[x].quote.status = "SENT" <=> tx[x].op \in LoadsForUpdate
    BY <1>4 DEF Orderly, LoadedStatus, OnQuote, LoadsForUpdate, Reopenable
  <1> QED BY <1>2, <1>3, <1>5, <1>6

(* A commit of the one quote by the request that holds it writes what the  *)
(* handler set, and leaves nobody holding a quote.                         *)
LEMMA HolderCommits ==
    ASSUME Orderly, NEW r \in Reqs, tx[r].op \in OnQuote, End(r),
           NEW price \in Prices, NEW status \in QuoteStatus
    PROVE  LET new == WriteQuote(tx[r].q, tx[r].quote, price, status) IN
           /\ tx[r].q = 1 /\ DOMAIN quotes = {1} /\ tx[r].quote \in QuoteLoad
           /\ tx[r].quote.price = quotes[1].price
           /\ tx[r].quote.status = quotes[1].status
           /\ new \in Seq(QuoteRow) /\ DOMAIN new = {1} /\ Len(new) = 1
           /\ new[1].price = price /\ new[1].status = status
           /\ new[1].released = quotes[1].released
           /\ NoneHeld'
  <1>1. /\ tx[r].q = 1 /\ DOMAIN quotes = {1} /\ Len(quotes) = 1
        /\ tx[r].quote = Load(1) /\ TypeOK
    BY RowsInHand DEF Orderly, RelayedInv
  <1>2. /\ tx[r].quote \in QuoteLoad
        /\ tx[r].quote.price = quotes[1].price
        /\ tx[r].quote.status = quotes[1].status
    BY <1>1, TxShape DEF Load
  <1>3. NoneHeld'
    <2>1. \A o \in Reqs : tx'[o] = IF o = r THEN Idle ELSE tx[o]
      BY <1>1 DEF End, TypeOK
    <2> QED BY <2>1, LoneHolder DEF NoneHeld, Idle, OnQuote
  <1>4. 1 \in DOMAIN quotes
    BY <1>1
  <1> QED BY <1>1, <1>2, <1>3, <1>4, WriteQuoteType DEF Written

LEMMA NextRows ==
    ASSUME Orderly, [Next]_vars
    PROVE  RowStep
  <1>0. /\ TypeOK /\ rfq \in RfqRow /\ orders \in Seq(OrderRow)
        /\ PartnerReqs \subseteq Reqs /\ AdminReqs \subseteq Reqs /\ BuyerReqs \subseteq Reqs
    BY DEF Orderly, RelayedInv, TypeOK, Reqs
  <1>1. ASSUME UNCHANGED <<rfq, quotes, orders>>
        PROVE  RowStep
    BY <1>1 DEF RowStep, SameRows
  <1>2. ASSUME NEW r \in PartnerReqs, CommitInsert(r)
        PROVE  RowStep
    <2>1. /\ tx[r].op = "insert" /\ quotes' = Append(quotes, tx[r].row) /\ End(r)
          /\ UNCHANGED <<rfq, orders>> /\ r \in Reqs
      BY <1>0, <1>2 DEF CommitInsert
    <2>2. quotes = << >> /\ tx[r].row.status = "PENDING_REVIEW"
      BY <2>1 DEF Orderly, OneQuote, RelayedInv
    <2>3. DOMAIN quotes' = {1} /\ quotes'[1] = tx[r].row
      BY <2>1, <2>2
    <2>4. NoneHeld'
      <3>1. \A o \in Reqs : tx'[o] = IF o = r THEN Idle ELSE tx[o]
        BY <1>0, <2>1 DEF End, TypeOK
      <3> QED BY <2>1, <3>1, LoneHolder DEF NoneHeld, Idle, OnQuote
    <2> QED BY <2>1, <2>2, <2>3, <2>4 DEF RowStep, FirstQuote
  <1>3. ASSUME NEW r \in PartnerReqs, CommitSubmit(r)
        PROVE  RowStep
    <2>1. /\ tx[r].op = "submit" /\ tx[r].op \in OnQuote /\ tx[r].price \in Prices /\ End(r)
          /\ UNCHANGED <<rfq, orders>> /\ r \in Reqs
          /\ quotes' = WriteQuote(tx[r].q, tx[r].quote, tx[r].price, "PENDING_REVIEW")
      BY <1>0, <1>3, TxShape DEF CommitSubmit, OnQuote
    <2>2. tx[r].quote.status \in Reopenable
      BY <2>1 DEF Orderly, LoadedStatus
    <2>3. QuoteGoes(Reopenable, "PENDING_REVIEW")
      BY <2>1, <2>2, HolderCommits DEF QuoteGoes, QuoteStatus
    <2> QED BY <2>1, <2>3 DEF RowStep, Reworked, Reopenable
  <1>4. ASSUME NEW r \in AdminReqs, CommitReturn(r)
        PROVE  RowStep
    <2>1. /\ tx[r].op = "return" /\ tx[r].op \in OnQuote /\ tx[r].quote.price \in Prices /\ End(r)
          /\ UNCHANGED <<rfq, orders>> /\ r \in Reqs
          /\ quotes' = WriteQuote(tx[r].q, tx[r].quote, tx[r].quote.price, "RETURNED")
      BY <1>0, <1>4, TxShape DEF CommitReturn, OnQuote, QuoteLoad
    <2>2. tx[r].quote.status \in Reopenable
      BY <2>1 DEF Orderly, LoadedStatus
    <2>3. QuoteGoes(Reopenable, "RETURNED")
      BY <2>1, <2>2, HolderCommits DEF QuoteGoes, QuoteStatus
    <2> QED BY <2>1, <2>3 DEF RowStep, Reworked, Reopenable
  <1>5. ASSUME NEW r \in AdminReqs, CommitRelay(r)
        PROVE  RowStep
    <2> DEFINE price == tx[r].quote.price
               written == WriteQuote(tx[r].q, tx[r].quote, price, "SENT")
    <2>1. /\ tx[r].op = "relay" /\ tx[r].op \in OnQuote /\ price \in Prices /\ End(r)
          /\ orders' = orders /\ r \in Reqs
          /\ quotes' = [written EXCEPT ![tx[r].q].released = @ \cup {price}]
      BY <1>0, <1>5, TxShape DEF CommitRelay, OnQuote, QuoteLoad
    <2>2. tx[r].quote.status \in Reopenable
      BY <2>1 DEF Orderly, LoadedStatus
    <2>3. /\ tx[r].q = 1 /\ DOMAIN quotes = {1} /\ tx[r].quote.status = quotes[1].status
          /\ written \in Seq(QuoteRow) /\ DOMAIN written = {1}
          /\ written[1].price = price /\ written[1].status = "SENT"
          /\ written[1].released = quotes[1].released
          /\ NoneHeld'
      BY <2>1, HolderCommits DEF QuoteStatus
    <2> HIDE DEF written, price
    <2>4. /\ DOMAIN quotes' = {1}
          /\ quotes'[1].released = quotes[1].released \cup {price}
          /\ quotes'[1].status = "SENT" /\ quotes'[1].price = price
      <3>1. 1 \in DOMAIN written /\ price \in Prices
            /\ quotes' = [written EXCEPT ![1].released = @ \cup {price}]
        BY <2>1, <2>3
      <3> QED BY <2>3, <3>1, ReleaseType
    <2> QED BY <2>1, <2>2, <2>3, <2>4 DEF RowStep, OfferMade, QuoteGoes
  <1>6. ASSUME NEW r \in BuyerReqs, CommitAccept(r)
        PROVE  RowStep
    <2> DEFINE o == [quote |-> tx[r].q, supplier |-> tx[r].rfq.supplier, price |-> tx[r].quote.price]
    <2>1. /\ tx[r].op = "accept" /\ tx[r].op \in OnQuote /\ tx[r].quote.price \in Prices /\ End(r)
          /\ orders' = Append(orders, o) /\ r \in Reqs
          /\ quotes' = WriteQuote(tx[r].q, tx[r].quote, tx[r].quote.price, "ACCEPTED")
          /\ rfq' = RfqAfter(tx[r].rfq, [tx[r].rfq EXCEPT !.status = "ACCEPTED"])
          /\ tx[r].rfq \in RfqRow /\ tx[r].q \in Nat
      BY <1>0, <1>6, TxShape DEF CommitAccept, OnQuote, QuoteLoad
    <2>2. tx[r].quote.status = "SENT" /\ tx[r].rfq.status \in {"AWAITING", "RESPONDED"}
      BY <2>1 DEF Orderly, LoadedStatus
    <2>3. rfq'.status = "ACCEPTED"
      <3>1. [tx[r].rfq EXCEPT !.status = "ACCEPTED"] \in RfqRow
        BY <2>1 DEF RfqRow, RfqStatus
      <3>2. [tx[r].rfq EXCEPT !.status = "ACCEPTED"].status = "ACCEPTED"
        BY <2>1 DEF RfqRow
      <3> QED BY <1>0, <2>1, <2>2, <3>1, <3>2, RfqAfterType
    <2>4. QuoteGoes({"SENT"}, "ACCEPTED") /\ quotes'[1].price = quotes[1].price
      BY <2>1, <2>2, HolderCommits DEF QuoteGoes, QuoteStatus
    <2>5. o \in OrderRow /\ o.quote = 1 /\ o.price = quotes[1].price
      BY <2>1, HolderCommits DEF OrderRow, RfqRow, QuoteStatus
    <2> HIDE DEF o
    <2> QED BY <2>1, <2>3, <2>4, <2>5 DEF RowStep, OfferAccepted
  <1>7. ASSUME NEW r \in BuyerReqs, CommitDecline(r)
        PROVE  RowStep
    <2>1. /\ tx[r].op = "decline" /\ tx[r].op \in OnQuote /\ tx[r].quote.price \in Prices /\ End(r)
          /\ orders' = orders /\ r \in Reqs
          /\ quotes' = WriteQuote(tx[r].q, tx[r].quote, tx[r].quote.price, "DECLINED")
          /\ rfq' = RfqAfter(tx[r].rfq, [tx[r].rfq EXCEPT !.status = "DECLINED"])
          /\ tx[r].rfq \in RfqRow
      BY <1>0, <1>7, TxShape DEF CommitDecline, OnQuote, QuoteLoad
    <2>2. tx[r].quote.status = "SENT" /\ tx[r].rfq.status \in {"AWAITING", "RESPONDED"}
      BY <2>1 DEF Orderly, LoadedStatus
    <2>3. rfq'.status = "DECLINED"
      <3>1. [tx[r].rfq EXCEPT !.status = "DECLINED"] \in RfqRow
        BY <2>1 DEF RfqRow, RfqStatus
      <3>2. [tx[r].rfq EXCEPT !.status = "DECLINED"].status = "DECLINED"
        BY <2>1 DEF RfqRow
      <3> QED BY <1>0, <2>1, <2>2, <3>1, <3>2, RfqAfterType
    <2>4. QuoteGoes({"SENT"}, "DECLINED") /\ quotes'[1].price = quotes[1].price
      BY <2>1, <2>2, HolderCommits DEF QuoteGoes, QuoteStatus
    <2> QED BY <2>1, <2>3, <2>4 DEF RowStep, OfferDeclined
  <1>8. ASSUME NEW r \in Reqs, NEW new \in RfqRow, tx[r].op \in {"turnDown", "assign", "withdraw"},
               new.status \in {tx[r].rfq.status, "DECLINED"},
               rfq' = RfqAfter(tx[r].rfq, new), UNCHANGED <<quotes, orders>>
        PROVE  RowStep
    <2>1. rfq'.status \in {rfq.status, "DECLINED"}
      BY <1>0, <1>8, TxShape, RfqAfterType
    <2> QED BY <1>8, <2>1 DEF RowStep, SameRows
  <1>9. ASSUME NEW r \in Reqs, CommitTurnDown(r) \/ CommitWithdraw(r)
        PROVE  RowStep
    <2> DEFINE new == [tx[r].rfq EXCEPT !.status = "DECLINED"]
    <2>1. tx[r].op \in {"turnDown", "withdraw"} /\ tx[r].rfq \in RfqRow
      BY <1>0, <1>9, TxShape DEF CommitTurnDown, CommitWithdraw
    <2>2. new \in RfqRow /\ new.status = "DECLINED"
      BY <2>1 DEF RfqRow, RfqStatus
    <2>3. rfq' = RfqAfter(tx[r].rfq, new) /\ UNCHANGED <<quotes, orders>>
      BY <1>9 DEF CommitTurnDown, CommitWithdraw
    <2> HIDE DEF new
    <2> QED BY <1>8, <2>1, <2>2, <2>3
  <1>10. ASSUME NEW r \in AdminReqs, CommitAssign(r)
         PROVE  RowStep
    <2> DEFINE new == [tx[r].rfq EXCEPT !.supplier = tx[r].supplier]
    <2>1. tx[r].op = "assign" /\ tx[r].rfq \in RfqRow /\ tx[r].supplier \in Suppliers /\ r \in Reqs
      BY <1>0, <1>10, TxShape DEF CommitAssign
    <2>2. new \in RfqRow /\ new.status = tx[r].rfq.status
      BY <2>1 DEF RfqRow
    <2>3. rfq' = RfqAfter(tx[r].rfq, new) /\ UNCHANGED <<quotes, orders>>
      BY <1>10 DEF CommitAssign
    <2> HIDE DEF new
    <2> QED BY <1>8, <2>1, <2>2, <2>3
  <1>11. ASSUME NEW s \in Suppliers, CreateRfq(s)
         PROVE  RowStep
    BY <1>11 DEF CreateRfq, RowStep, SameRows
  <1>13. CASE UNCHANGED vars
    BY <1>1, <1>13 DEF vars
  <1>14. ASSUME NEW r \in Reqs, Rollback(r)
         PROVE  RowStep
    BY <1>1, <1>14 DEF Rollback
  <1>15. ASSUME NEW r \in PartnerReqs, PartnerStep(r)
         PROVE  RowStep
    BY <1>0, <1>1, <1>2, <1>3, <1>9, <1>15
       DEF PartnerStep, BeginInsert, BeginSubmit, BeginTurnDown
  <1>16. ASSUME NEW r \in AdminReqs, AdminStep(r)
         PROVE  RowStep
    BY <1>1, <1>4, <1>5, <1>10, <1>16 DEF AdminStep, BeginAssign, BeginRelay, BeginReturn
  <1>17. ASSUME NEW r \in BuyerReqs, BuyerStep(r)
         PROVE  RowStep
    BY <1>0, <1>1, <1>6, <1>7, <1>9, <1>17 DEF BuyerStep, BeginAccept, BeginDecline, BeginWithdraw
  <1> QED BY <1>11, <1>13, <1>14, <1>15, <1>16, <1>17 DEF Next

(* What one step does to the requests in flight.                           *)
LEMMA NextTx ==
    ASSUME Orderly, StaffTakesTurns, [Next]_vars
    PROVE  TxStep
  <1>0. /\ \A r \in PartnerReqs \cup AdminReqs : r \in Reqs /\ r \in Solo
        /\ \A r \in BuyerReqs : r \in Reqs
    BY DEF Reqs, StaffTakesTurns
  <1>1. ASSUME NEW r \in Reqs, NEW load, LoadOK(r, load), Begin(r, load),
               UNCHANGED <<rfq, quotes, orders>>
        PROVE  TxStep
    BY <1>1 DEF TxStep
  <1>2. ASSUME NEW r \in PartnerReqs, NEW p \in Prices, NEW n \in 1 .. MaxQuotes, BeginInsert(r, p, n)
        PROVE  TxStep
    <2>1. quotes = << >>
      BY <1>2 DEF BeginInsert, Orderly, Closed, Open, Answered
    <2> QED BY <1>0, <1>1, <1>2, <2>1 DEF BeginInsert, LoadOK, LoadsForUpdate, OnQuote
  <1>3. ASSUME NEW r \in PartnerReqs, NEW p \in Prices, NEW q \in DOMAIN quotes, BeginSubmit(r, q, p)
        PROVE  TxStep
    BY <1>0, <1>1, <1>3 DEF BeginSubmit, LoadOK, LoadsForUpdate, OnQuote, Load
  <1>4. ASSUME NEW r \in PartnerReqs, BeginTurnDown(r)
        PROVE  TxStep
    BY <1>0, <1>1, <1>4 DEF BeginTurnDown, LoadOK, LoadsForUpdate, OnQuote
  <1>5. ASSUME NEW r \in AdminReqs, NEW s \in Suppliers, BeginAssign(r, s)
        PROVE  TxStep
    BY <1>0, <1>1, <1>5 DEF BeginAssign, LoadOK, LoadsForUpdate, OnQuote
  <1>6. ASSUME NEW r \in AdminReqs, NEW q \in DOMAIN quotes, BeginRelay(r, q)
        PROVE  TxStep
    <2>1. quotes[q].status \in QuoteStatus
      <3>1. quotes[q] \in QuoteRow
        BY DEF Orderly, RelayedInv, TypeOK
      <3> QED BY <3>1 DEF QuoteRow
    <2>2. quotes[q].status \in Reopenable
      BY <1>6, <2>1 DEF BeginRelay, QuoteStatus, Answered, Reopenable
    <2> QED BY <1>0, <1>1, <1>6, <2>2 DEF BeginRelay, LoadOK, LoadsForUpdate, OnQuote, Load
  <1>7. ASSUME NEW r \in AdminReqs, NEW q \in DOMAIN quotes, BeginReturn(r, q)
        PROVE  TxStep
    BY <1>0, <1>1, <1>7 DEF BeginReturn, LoadOK, LoadsForUpdate, OnQuote, Load, Reopenable
  <1>8. ASSUME NEW r \in BuyerReqs, NEW q \in DOMAIN quotes, BeginAccept(r, q)
        PROVE  TxStep
    BY <1>0, <1>1, <1>8 DEF BeginAccept, LoadOK, LoadsForUpdate, OnQuote, Load, Open
  <1>9. ASSUME NEW r \in BuyerReqs, NEW q \in DOMAIN quotes, BeginDecline(r, q)
        PROVE  TxStep
    BY <1>0, <1>1, <1>9 DEF BeginDecline, LoadOK, LoadsForUpdate, OnQuote, Load, Open
  <1>10. ASSUME NEW r \in BuyerReqs, BeginWithdraw(r)
         PROVE  TxStep
    BY <1>0, <1>1, <1>10 DEF BeginWithdraw, LoadOK, LoadsForUpdate, OnQuote
  <1>11. ASSUME NEW r \in Reqs, End(r)
         PROVE  TxStep
    BY <1>11 DEF TxStep
  <1>12. ASSUME NEW r \in PartnerReqs, PartnerStep(r)
         PROVE  TxStep
    BY <1>0, <1>2, <1>3, <1>4, <1>11, <1>12
       DEF PartnerStep, CommitInsert, CommitSubmit, CommitTurnDown
  <1>13. ASSUME NEW r \in AdminReqs, AdminStep(r)
         PROVE  TxStep
    BY <1>0, <1>5, <1>6, <1>7, <1>11, <1>13 DEF AdminStep, CommitAssign, CommitRelay, CommitReturn
  <1>14. ASSUME NEW r \in BuyerReqs, BuyerStep(r)
         PROVE  TxStep
    BY <1>0, <1>8, <1>9, <1>10, <1>11, <1>14
       DEF BuyerStep, CommitAccept, CommitDecline, CommitWithdraw
  <1>15. CASE UNCHANGED vars \/ \E s \in Suppliers : CreateRfq(s)
    BY <1>15 DEF vars, CreateRfq, TxStep
  <1> QED BY <1>11, <1>12, <1>13, <1>14, <1>15 DEF Next, Rollback

(* A step keeps what is true of the requests in flight.                    *)
LEMMA TxKeepsOrder ==
    ASSUME Orderly, TxStep, RowStep, RelayedInv'
    PROVE  /\ OneAtATime' /\ OneLock' /\ RightHands'
           /\ FreshLoads' /\ LoadedStatus'
           /\ \A r \in Reqs : tx'[r].op = "insert" => quotes' = << >>
  <1> DEFINE Good == /\ OneAtATime' /\ OneLock' /\ RightHands'
                     /\ FreshLoads' /\ LoadedStatus'
                     /\ \A r \in Reqs : tx'[r].op = "insert" => quotes' = << >>
  <1>0. /\ tx \in [Reqs -> Tx] /\ Solo \subseteq Reqs /\ quotes' \in Seq(QuoteRow)
        /\ OneAtATime /\ OneLock /\ RightHands /\ FreshLoads /\ LoadedStatus
        /\ \A r \in Reqs : tx[r].op = "insert" => quotes = << >>
    BY SlotsAssumption DEF Orderly, RelayedInv, TypeOK, OneQuote
  <1>1. ASSUME NEW r \in Reqs, NEW load, LoadOK(r, load), Begin(r, load),
               UNCHANGED <<rfq, quotes, orders>>
        PROVE  Good
    <2>1. \A o \in Reqs : tx'[o] = IF o = r THEN load ELSE tx[o]
      BY <1>0, <1>1 DEF Begin
    <2>2. OneAtATime'
      BY <1>0, <1>1, <2>1 DEF OneAtATime, Busy, LoadOK, MayStart
    <2>3. OneLock'
      BY <1>0, <1>1, <2>1 DEF OneLock, LoadOK, RfqUnlocked
    <2>4. RightHands'
      BY <1>0, <1>1, <2>1 DEF RightHands, LoadOK, Busy
    <2>5. FreshLoads'
      BY <1>0, <1>1, <2>1 DEF FreshLoads, LoadOK, Load
    <2>6. LoadedStatus'
      BY <1>0, <1>1, <2>1 DEF LoadedStatus, LoadOK
    <2>7. \A o \in Reqs : tx'[o].op = "insert" => quotes' = << >>
      BY <1>0, <1>1, <2>1 DEF LoadOK
    <2> QED BY <2>2, <2>3, <2>4, <2>5, <2>6, <2>7
  <1>2. ASSUME \A o \in Reqs : tx'[o] = tx[o] \/ tx'[o] = Idle
        PROVE  Good
    <2>1. OneAtATime' /\ OneLock' /\ RightHands' /\ LoadedStatus'
      BY <1>0, <1>2 DEF OneAtATime, OneLock, RightHands, LoadedStatus, Busy, Idle, LoadsForUpdate
    <2>2. CASE SameRows
      <3>1. \A q \in DOMAIN quotes : q \in DOMAIN quotes' /\ Load(q)' = Load(q)
        BY <2>2 DEF SameRows, Load
      <3>2. FreshLoads'
        BY <1>0, <1>2, <3>1 DEF FreshLoads, Idle, OnQuote
      <3>3. quotes = << >> => quotes' = << >>
        <4>1. quotes = << >> => DOMAIN quotes' = {}
          BY <2>2 DEF SameRows
        <4> QED BY <1>0, <4>1
      <3>4. \A o \in Reqs : tx'[o].op = "insert" => quotes' = << >>
        BY <1>0, <1>2, <3>3 DEF Idle
      <3> QED BY <2>1, <3>2, <3>4
    <2>3. CASE NoneHeld'
      BY <2>1, <2>3 DEF NoneHeld, FreshLoads
    <2> QED BY <2>2, <2>3 DEF RowStep, FirstQuote, Reworked, OfferMade, OfferAccepted,
                              OfferDeclined, QuoteGoes
  <1>3. ASSUME NEW r \in Reqs, End(r)
        PROVE  \A o \in Reqs : tx'[o] = tx[o] \/ tx'[o] = Idle
    BY <1>0, <1>3 DEF End
  <1> QED BY <1>1, <1>2, <1>3 DEF TxStep

(* A step keeps what is true of the rows.                                  *)
LEMMA RowsKeepOrder ==
    ASSUME Orderly, RowStep, RelayedInv'
    PROVE  Len(quotes') <= 1 /\ Closed' /\ OfferAnswerable' /\ BuyerSeesRelayedPrice'
  <1>0. /\ quotes' \in Seq(QuoteRow) /\ orders' \in Seq(OrderRow) /\ orders \in Seq(OrderRow)
        /\ quotes \in Seq(QuoteRow) /\ Len(quotes) \in {0, 1}
        /\ quotes = << >> \/ (DOMAIN quotes = {1} /\ Len(quotes) = 1)
        /\ Closed /\ OfferAnswerable /\ BuyerSeesRelayedPrice
    BY RowsInHand DEF Orderly, RelayedInv, TypeOK
  <1>1. \A n \in Nat : 1 .. n = {1} => n = 1 /\ n <= 1
    OBVIOUS
  <1>2. DOMAIN quotes' = {1} => Len(quotes') = 1 /\ Len(quotes') <= 1
    <2> DEFINE n == Len(quotes')
    <2>1. n \in Nat /\ DOMAIN quotes' = 1 .. n
      BY <1>0
    <2> HIDE DEF n
    <2>2. DOMAIN quotes' = {1} => n = 1 /\ n <= 1
      BY <1>1, <2>1
    <2> QED BY <2>2 DEF n
  <1>3. CASE SameRows
    <2>1. CASE quotes = << >>
      <3>1. DOMAIN quotes' = {}
        BY <1>3, <2>1 DEF SameRows
      <3>2. quotes' = << >>
        BY <1>0, <3>1
      <3> QED BY <1>0, <1>3, <2>1, <3>2
              DEF SameRows, Closed, OfferAnswerable, BuyerSeesRelayedPrice
    <2>2. CASE DOMAIN quotes = {1} /\ Len(quotes) = 1
      <3>1. /\ Len(quotes') = 1 /\ DOMAIN quotes' = {1} /\ orders' = orders
            /\ quotes'[1].status = quotes[1].status
            /\ quotes'[1].price = quotes[1].price
            /\ quotes'[1].released = quotes[1].released
            /\ \/ rfq'.status \in {rfq.status, "DECLINED"}
               \/ rfq.status = "NONE" /\ rfq'.status = "AWAITING"
        BY <1>2, <1>3, <2>2 DEF SameRows
      <3>2. Closed'
        BY <1>0, <2>2, <3>1 DEF Closed
      <3>3. OfferAnswerable'
        BY <1>0, <2>2, <3>1 DEF OfferAnswerable
      <3>4. BuyerSeesRelayedPrice'
        <4>1. \A i \in DOMAIN orders : orders[i].quote \in DOMAIN quotes
          BY DEF Orderly, RelayedInv
        <4> QED BY <1>0, <2>2, <3>1, <4>1 DEF BuyerSeesRelayedPrice
      <3> QED BY <3>1, <3>2, <3>3, <3>4
    <2> QED BY <1>0, <2>1, <2>2
  <1>4. ASSUME DOMAIN quotes' = {1}, orders = << >>, orders' = orders,
               quotes'[1].status \in Answered => rfq'.status \in {"ACCEPTED", "DECLINED"},
               rfq'.status = "RESPONDED" => quotes'[1].status = "SENT",
               quotes'[1].status \in BuyerVisible => quotes'[1].price \in quotes'[1].released
        PROVE  Len(quotes') <= 1 /\ Closed' /\ OfferAnswerable' /\ BuyerSeesRelayedPrice'
    <2>1. Len(quotes') <= 1
      BY <1>2, <1>4
    <2>3. Closed'
      BY <1>4 DEF Closed
    <2>2. OfferAnswerable' /\ BuyerSeesRelayedPrice'
      BY <1>0, <1>4 DEF OfferAnswerable, BuyerSeesRelayedPrice
    <2> QED BY <2>1, <2>2, <2>3
  <1>5. ASSUME quotes = << >> \/ quotes[1].status # "ACCEPTED"
        PROVE  orders = << >>
    BY <1>0, <1>5 DEF Closed
  <1>6. CASE FirstQuote
    <2>1. rfq'.status # "RESPONDED"
      BY <1>0, <1>6 DEF FirstQuote, OfferAnswerable
    <2> QED BY <1>4, <1>5, <1>6, <2>1 DEF FirstQuote, Answered, BuyerVisible
  <1>7. CASE Reworked
    <2>1. rfq'.status # "RESPONDED" /\ orders = << >>
      BY <1>0, <1>5, <1>7 DEF Reworked, QuoteGoes, OfferAnswerable, Reopenable
    <2> QED BY <1>4, <1>7, <2>1 DEF Reworked, QuoteGoes, Answered, BuyerVisible, Reopenable
  <1>8. CASE OfferMade
    <2>1. orders = << >>
      BY <1>5, <1>8 DEF OfferMade, QuoteGoes, Reopenable
    <2> QED BY <1>4, <1>8, <2>1 DEF OfferMade, QuoteGoes, Answered
  <1>9. ASSUME QuoteGoes({"SENT"}, quotes'[1].status), quotes'[1].price = quotes[1].price
        PROVE  /\ orders = << >>
               /\ quotes'[1].price \in quotes'[1].released
               /\ DOMAIN quotes' = {1}
    BY <1>0, <1>5, <1>9 DEF QuoteGoes, BuyerSeesRelayedPrice, BuyerVisible
  <1>10. CASE OfferDeclined
    <2>1. QuoteGoes({"SENT"}, quotes'[1].status) /\ quotes'[1].status = "DECLINED"
      BY <1>10 DEF OfferDeclined, QuoteGoes
    <2> QED BY <1>4, <1>9, <1>10, <2>1 DEF OfferDeclined
  <1>11. CASE OfferAccepted
    <2>1. QuoteGoes({"SENT"}, quotes'[1].status) /\ quotes'[1].status = "ACCEPTED"
      BY <1>11 DEF OfferAccepted, QuoteGoes
    <2>2. /\ orders = << >> /\ DOMAIN quotes' = {1} /\ Len(quotes') = 1
          /\ quotes'[1].price \in quotes'[1].released
          /\ quotes'[1].price = quotes[1].price /\ rfq'.status = "ACCEPTED"
      BY <1>2, <1>9, <1>11, <2>1 DEF OfferAccepted
    <2>3. PICK o \in OrderRow : /\ o.quote = 1 /\ o.price = quotes[1].price
                               /\ orders' = Append(orders, o)
      BY <1>11 DEF OfferAccepted
    <2>4. orders' = <<o>> /\ Len(orders') = 1 /\ DOMAIN orders' = {1} /\ orders'[1] = o
      BY <2>2, <2>3
    <2>5. Closed' /\ OfferAnswerable'
      BY <2>1, <2>2, <2>3, <2>4 DEF Closed, OfferAnswerable
    <2>6. BuyerSeesRelayedPrice'
      BY <2>2, <2>3, <2>4 DEF BuyerSeesRelayedPrice
    <2> QED BY <2>2, <2>5, <2>6
  <1> QED BY <1>3, <1>6, <1>7, <1>8, <1>10, <1>11 DEF RowStep

LEMMA InitOrderly == Init => Orderly
  <1> SUFFICES ASSUME Init PROVE Orderly
    OBVIOUS
  <1>1. quotes = << >> /\ orders = << >> /\ rfq.status = "NONE" /\ RelayedInv
    BY InitRelayed DEF Init
  <1>2. \A r \in Reqs : tx[r].op = "idle"
    BY DEF Init, Idle
  <1>3. OneAtATime /\ OneLock /\ RightHands /\ FreshLoads /\ LoadedStatus
    BY <1>2, SlotsAssumption
       DEF OneAtATime, OneLock, RightHands, FreshLoads, LoadedStatus, Busy, LoadsForUpdate, OnQuote
  <1>4. OneQuote /\ Closed /\ OfferAnswerable /\ BuyerSeesRelayedPrice
    BY <1>1, <1>2 DEF OneQuote, Closed, OfferAnswerable, BuyerSeesRelayedPrice
  <1> QED BY <1>1, <1>3, <1>4 DEF Orderly

LEMMA NextOrderly ==
    ASSUME StaffTakesTurns
    PROVE  Orderly /\ [Next]_vars => Orderly'
  <1> SUFFICES ASSUME Orderly, [Next]_vars PROVE Orderly'
    OBVIOUS
  <1>1. RowStep /\ TxStep /\ RelayedInv'
    BY NextRows, NextTx, NextRelayed DEF Orderly
  <1> QED BY <1>1, TxKeepsOrder, RowsKeepOrder DEF Orderly, OneQuote

-----------------------------------------------------------------------------
(* While the staff takes turns, the buyer answers at most once, however    *)
(* many members of the buyer organisation accept and decline at once.      *)
THEOREM TheBuyerAnswersOnce ==
    ASSUME StaffTakesTurns
    PROVE  Spec => []OneAnswer
  <1>1. Orderly => OneAnswer
    <2> SUFFICES ASSUME Orderly PROVE OneAnswer
      OBVIOUS
    <2> DEFINE D == {q \in DOMAIN quotes : quotes[q].status = "DECLINED"}
    <2>1. quotes = << >> \/ DOMAIN quotes = {1}
      BY RowsInHand
    <2>2. D = {} \/ D = {1}
      BY <2>1
    <2>3. Cardinality(D) \in {0, 1} /\ (D = {} => Cardinality(D) = 0)
      BY <2>2, FS_EmptySet, FS_Singleton
    <2>4. Len(orders) \in {0, 1} /\ (Len(orders) = 1 => D = {})
      <3>1. orders \in Seq(OrderRow)
        BY DEF Orderly, RelayedInv, TypeOK
      <3>2. CASE orders = << >>
        BY <3>2
      <3>3. CASE orders # << >>
        BY <2>1, <3>3 DEF Orderly, Closed
      <3> QED BY <3>2, <3>3
    <2> HIDE DEF D
    <2>5. Len(orders) + Cardinality(D) <= 1
      <3>1. \A m, n \in {0, 1} : m = 0 \/ n = 0 => m + n <= 1
        OBVIOUS
      <3>2. Len(orders) = 0 \/ Cardinality(D) = 0
        BY <2>3, <2>4
      <3> QED BY <2>3, <2>4, <3>1, <3>2
    <2> QED BY <2>5 DEF OneAnswer, D
  <1> QED BY <1>1, InitOrderly, NextOrderly, PTL DEF Spec

(* An RFQ shown as responded carries a quote the buyer can answer.         *)
THEOREM RespondedIsAnswerable ==
    ASSUME StaffTakesTurns
    PROVE  Spec => []OfferAnswerable
  <1>1. Orderly => OfferAnswerable
    BY DEF Orderly
  <1> QED BY <1>1, InitOrderly, NextOrderly, PTL DEF Spec

(* The price shown and ordered is one that was released.                   *)
THEOREM PriceWasReleased ==
    ASSUME StaffTakesTurns
    PROVE  Spec => []BuyerSeesRelayedPrice
  <1>1. Orderly => BuyerSeesRelayedPrice
    BY DEF Orderly
  <1> QED BY <1>1, InitOrderly, NextOrderly, PTL DEF Spec

(* An answered quote is never reopened or repriced.                        *)
THEOREM AnswersAreFinal ==
    ASSUME StaffTakesTurns
    PROVE  Spec => AnswersFinal
  <1> DEFINE Final == \A q \in DOMAIN quotes :
                        quotes[q].status \in Answered =>
                            /\ quotes'[q].status = quotes[q].status
                            /\ quotes'[q].price = quotes[q].price
  <1>1. Orderly /\ [Next]_vars => [Final]_vars
    <2> SUFFICES ASSUME Orderly, [Next]_vars PROVE Final
      OBVIOUS
    <2>1. RowStep
      BY NextRows
    <2> QED BY <2>1 DEF RowStep, SameRows, FirstQuote, Reworked, OfferMade, OfferAccepted,
                       OfferDeclined, QuoteGoes, Answered, Reopenable
  <1> QED BY <1>1, InitOrderly, NextOrderly, PTL DEF Spec, AnswersFinal

-----------------------------------------------------------------------------
(* The deal as DealContract sees it.                                       *)
TheOffer == IF Shown = {} THEN NoOffer ELSE quotes[CHOOSE q \in Shown : TRUE].price

Bought == [i \in DOMAIN orders |-> orders[i].price]

Refused == \E q \in DOMAIN quotes : quotes[q].status = "DECLINED"

View ==
    /\ DOMAIN quotes = {1} /\ quotes[1].status \in BuyerVisible =>
          TheOffer = quotes[1].price /\ TheOffer \in Prices /\ TheOffer # NoOffer
    /\ DOMAIN quotes = {} \/ (DOMAIN quotes = {1} /\ quotes[1].status \notin BuyerVisible) =>
          TheOffer = NoOffer
    /\ DOMAIN quotes = {} => Refused = FALSE
    /\ DOMAIN quotes = {1} => Refused = (quotes[1].status = "DECLINED")
    /\ orders = << >> => Bought = << >>
    /\ \A o : orders = <<o>> => Bought = <<o.price>>
    /\ DOMAIN quotes \in {{}, {1}}

LEMMA ContractView == Orderly => View
  <1> SUFFICES ASSUME Orderly PROVE View
    OBVIOUS
  <1>1. ASSUME DOMAIN quotes = {1}, quotes[1].status \in BuyerVisible
        PROVE  TheOffer = quotes[1].price /\ TheOffer \in Prices /\ TheOffer # NoOffer
    <2>1. Shown = {1}
      BY <1>1 DEF Shown
    <2>2. (CHOOSE q \in Shown : TRUE) = 1
      BY <2>1
    <2>3. quotes[1].price \in Prices
      <3>1. quotes[1] \in QuoteRow
        BY <1>1 DEF Orderly, RelayedInv, TypeOK
      <3> QED BY <3>1 DEF QuoteRow
    <2> QED BY <2>1, <2>2, <2>3, PriceAssumption DEF TheOffer
  <1>2. ASSUME DOMAIN quotes = {} \/ (DOMAIN quotes = {1} /\ quotes[1].status \notin BuyerVisible)
        PROVE  TheOffer = NoOffer
    BY <1>2 DEF TheOffer, Shown
  <1>3. /\ DOMAIN quotes = {} => Refused = FALSE
        /\ DOMAIN quotes = {1} => Refused = (quotes[1].status = "DECLINED")
    BY DEF Refused
  <1>4. orders = << >> => Bought = << >>
    BY DEF Bought
  <1>5. ASSUME NEW o, orders = <<o>>
        PROVE  Bought = <<o.price>>
    <2>1. DOMAIN orders = {1} /\ orders[1] = o
      BY <1>5
    <2>2. Bought = [i \in {1} |-> o.price]
      BY <2>1 DEF Bought
    <2>3. <<o.price>> = [i \in {1} |-> o.price]
      OBVIOUS
    <2> QED BY <2>2, <2>3
  <1>6. DOMAIN quotes \in {{}, {1}}
    BY RowsInHand
  <1> QED BY <1>1, <1>2, <1>3, <1>4, <1>5, <1>6 DEF View

(* Every step of the deal is a step of the contract or changes nothing of  *)
(* what the buyer was promised.                                            *)
LEMMA ContractStep ==
    ASSUME Orderly, Orderly', RowStep
    PROVE  \/ TheOffer = NoOffer /\ TheOffer' \in Prices /\ Bought' = Bought /\ Refused' = Refused
           \/ /\ TheOffer # NoOffer /\ Bought = << >> /\ Refused = FALSE
              /\ Bought' = <<TheOffer>> /\ TheOffer' = TheOffer /\ Refused' = Refused
           \/ /\ TheOffer # NoOffer /\ Bought = << >> /\ Refused = FALSE
              /\ Refused' = TRUE /\ TheOffer' = TheOffer /\ Bought' = Bought
           \/ TheOffer' = TheOffer /\ Bought' = Bought /\ Refused' = Refused
  <1>0. View /\ View'
    <2>1. Orderly' => View'
      BY ContractView, PTL
    <2> QED BY <2>1, ContractView
  <1>1. orders' = orders => Bought' = Bought
    BY DEF Bought
  <1>2. ASSUME quotes = << >> \/ quotes[1].status # "ACCEPTED"
        PROVE  orders = << >> /\ Bought = << >>
    BY <1>0, <1>2 DEF Orderly, Closed, View
  <1>3. CASE SameRows
    <2>1. CASE DOMAIN quotes = {}
      BY <1>0, <1>1, <1>3, <2>1 DEF SameRows, View
    <2>2. CASE DOMAIN quotes = {1}
      BY <1>0, <1>1, <1>3, <2>2 DEF SameRows, View
    <2> QED BY <1>0, <2>1, <2>2 DEF View
  <1>4. CASE FirstQuote
    <2>1. DOMAIN quotes = {}
      BY <1>4 DEF FirstQuote
    <2> QED BY <1>0, <1>1, <1>4, <2>1 DEF FirstQuote, View, BuyerVisible
  <1>5. CASE Reworked
    BY <1>0, <1>1, <1>5 DEF Reworked, QuoteGoes, View, BuyerVisible, Reopenable
  <1>6. CASE OfferMade
    BY <1>0, <1>1, <1>6 DEF OfferMade, QuoteGoes, View, BuyerVisible, Reopenable
  <1>7. CASE OfferDeclined
    BY <1>0, <1>1, <1>2, <1>7 DEF OfferDeclined, QuoteGoes, View, BuyerVisible
  <1>8. CASE OfferAccepted
    <2>1. PICK o \in OrderRow : o.price = quotes[1].price /\ orders' = Append(orders, o)
      BY <1>8 DEF OfferAccepted
    <2>2. orders = << >> /\ Bought = << >>
      BY <1>2, <1>8 DEF OfferAccepted, QuoteGoes
    <2>3. orders' = <<o>>
      BY <2>1, <2>2
    <2>4. Bought' = <<quotes[1].price>>
      BY <1>0, <2>1, <2>3 DEF View
    <2> QED BY <1>0, <1>8, <2>2, <2>4 DEF OfferAccepted, QuoteGoes, View, BuyerVisible
  <1> QED BY <1>3, <1>4, <1>5, <1>6, <1>7, <1>8 DEF RowStep

(* While the staff takes turns the deal implements its contract.           *)
THEOREM TheDealKeepsItsContract ==
    ASSUME StaffTakesTurns
    PROVE  Spec => KeepsContract
  <1>1. Init => Contract!Init
    <2> SUFFICES ASSUME Init PROVE Contract!Init
      OBVIOUS
    <2>1. View /\ quotes = << >> /\ orders = << >>
      BY InitOrderly, ContractView DEF Init
    <2>2. DOMAIN quotes = {}
      BY <2>1
    <2>3. TheOffer = NoOffer /\ Bought = << >> /\ Refused = FALSE
      BY <2>1, <2>2 DEF View
    <2> QED BY <2>3 DEF Contract!Init, TheOffer, Bought, Refused
  <1>2. Orderly /\ Orderly' /\ [Next]_vars => [Contract!Next]_(Contract!vars)
    <2> SUFFICES ASSUME Orderly, Orderly', [Next]_vars
                 PROVE  [Contract!Next]_(Contract!vars)
      OBVIOUS
    <2>1. RowStep
      BY NextRows
    <2> QED BY <2>1, ContractStep
            DEF Contract!Next, Contract!vars, Contract!MakeOffer, Contract!Accept, Contract!Refuse,
                Contract!Unanswered, TheOffer, Bought, Refused
  <1> QED BY <1>1, <1>2, InitOrderly, NextOrderly, PTL DEF Spec, KeepsContract, Contract!Spec

(* While the staff takes turns the rows of an RFQ are sound.               *)
THEOREM TheRfqIsSound ==
    ASSUME StaffTakesTurns
    PROVE  Spec => []RfqSound
  <1>1. TypeOK /\ VisibleWasRelayed /\ OneAnswer /\ OfferAnswerable => RfqSound
    BY DEF RfqSound
  <1> QED BY <1>1, TypeCorrect, OnlyRelayedQuotesAreShown, TheBuyerAnswersOnce,
             RespondedIsAnswerable, PTL
=============================================================================
