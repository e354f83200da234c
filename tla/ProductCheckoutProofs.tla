------------------------ MODULE ProductCheckoutProofs ------------------------
(***************************************************************************)
(* Proofs about the product checkout, for any orders, requests, quotes,    *)
(* carts and set-points.                                                   *)
(*                                                                         *)
(* The database transactions come first: RowInv relates the rows of the    *)
(* order, its stock and its quote, and each transaction keeps it whatever  *)
(* process runs it.  PayInv and Knows then say what the processes may rely *)
(* on between two transactions: what a request or a cron run learnt before *)
(* an await is still so after it, because a paid order stays paid and a    *)
(* completed or cancelled payment stays as it is.                          *)
(***************************************************************************)
EXTENDS ProductCheckout, ProductStockProofs

RowsTyped ==
    /\ status \in [Orders -> {"none", "pending", "paid", "verification_failed", "cancelled"}]
    /\ oblig \in [Orders -> {"none", "pending", "paid", "cancelled"}]
    /\ manual \in [Orders -> {"none", "payment_pending", "paid_pending_dispatch",
                              "dispatched", "cancelled"}]
    /\ provider \in [Orders -> {"none", "APPROVED", "COMPLETED", "UNCOLLECTED"}]
    /\ quarantined \in [Orders -> BOOLEAN]
    /\ ledger \in [Orders -> {"none", "applied", "late"}]
    /\ refund \in [Orders -> {"none", "queued"}]
    /\ shipStatus \in [Quotes -> {"quoted", "payment_pending", "ready_for_staff",
                                  "purchase_pending", "label_ready", "in_transit",
                                  "manual_review", "abandoned"}]
    /\ shipOrder \in [Quotes -> Orders \cup {NoOrder}]

ProcessesTyped ==
    /\ pay \in [Orders -> {"none", "APPROVED", "COMPLETED", "CANCELED"}]
    /\ inflight \in [Orders -> BOOLEAN]
    /\ pc \in [Requests -> Phases]
    /\ leaseOver \in [Orders -> BOOLEAN]
    /\ sweep \in [Orders -> {"idle", "candidate", "unclaimed"}]
    /\ recon \in [Orders -> {"idle", "found", "APPROVED", "COMPLETED", "CANCELED"}]

(* Which rows exist, and what only a paid order has.                       *)
RowsAgree ==
    \A o \in Orders :
        /\ status[o] = "none" <=> oblig[o] = "none"
        /\ manual[o] = "dispatched" => status[o] = "paid"
        /\ provider[o] # "none" => status[o] = "paid"
        /\ quarantined[o] => status[o] = "paid"

QuoteBound ==
    \A q \in Quotes :
        shipOrder[q] # NoOrder => shipOrder[q] \in Automated /\ QuoteOf[shipOrder[q]] = q

RowInv ==
    /\ StockInv /\ RowsTyped
    /\ MoneyAgrees /\ RowsAgree
    /\ StockFollowsOrder
    /\ QuoteFollowsOrder /\ QuoteBound /\ UncollectedHeld

(* What no transaction takes back.                                         *)
RowsAdvance ==
    \A o \in Orders : /\ status[o] # "none" => status'[o] # "none"
                      /\ status[o] = "paid" => status'[o] = "paid"

LEMMA TypeSplit == TypeOK <=> StockTypeOK /\ RowsTyped /\ ProcessesTyped
BY DEF TypeOK, RowsTyped, ProcessesTyped

LEMMA AutomatedFact ==
    \A o \in Orders : /\ o \in Automated <=> o \notin Manual
                      /\ o \in Automated => QuoteOf[o] \in Quotes
                      /\ o # NoOrder
BY QuotesAssumption DEF Automated

-----------------------------------------------------------------------------
(* What the stock operations do to the movements of their order.           *)

LEMMA MovesType ==
    ASSUME StockInv
    PROVE  moves \in [Orders -> [Items -> SUBSET {"reserve", "commit", "release"}]]
BY DEF StockInv, StockTypeOK

LEMMA LinesInItems == ASSUME StockInv, NEW o \in Orders PROVE Lines(o) \in SUBSET Items
BY DEF StockInv, StockTypeOK, Lines

LEMMA ReserveMoves ==
    ASSUME StockInv, NEW o \in Orders, reserveProductStock(o), NEW p \in Orders, NEW k \in Items
    PROVE  /\ "reserve" \in moves'[p][k] <=> "reserve" \in moves[p][k] \/ (p = o /\ k \in Lines(o))
           /\ "commit" \in moves'[p][k] <=> "commit" \in moves[p][k]
           /\ "release" \in moves'[p][k] <=> "release" \in moves[p][k]
<1>1. moves' = Recorded(o, Lines(o), "reserve")
  BY DEF reserveProductStock
<1>2. StockTypeOK
  BY DEF StockInv
<1>3. \A x : x \in moves'[p][k] <=> x \in moves[p][k] \/ (p = o /\ k \in Lines(o) /\ x = "reserve")
  BY <1>1, <1>2, LinesInItems, RecordedAt
<1>. QED
  BY <1>3

LEMMA SettledMoves ==
    ASSUME StockInv, NEW o \in Orders, NEW kind \in {"commit", "release"},
           moves' = Recorded(o, Unsettled(o), kind), NEW p \in Orders, NEW k \in Items
    PROVE  /\ "reserve" \in moves'[p][k] <=> "reserve" \in moves[p][k]
           /\ "commit" \in moves'[p][k] <=>
                  "commit" \in moves[p][k] \/ (p = o /\ k \in Unsettled(o) /\ kind = "commit")
           /\ "release" \in moves'[p][k] <=>
                  "release" \in moves[p][k] \/ (p = o /\ k \in Unsettled(o) /\ kind = "release")
<1>1. Unsettled(o) \in SUBSET Items
  BY DEF Unsettled
<1>2. StockTypeOK
  BY DEF StockInv
<1>3. \A x : x \in moves'[p][k] <=> x \in moves[p][k] \/ (p = o /\ k \in Unsettled(o) /\ x = kind)
  BY <1>1, <1>2, RecordedAt
<1>. QED
  BY <1>3

LEMMA CommitMoves ==
    ASSUME StockInv, NEW o \in Orders, commitProductStock(o), NEW p \in Orders, NEW k \in Items
    PROVE  /\ "reserve" \in moves'[p][k] <=> "reserve" \in moves[p][k]
           /\ "commit" \in moves'[p][k] <=>
                  "commit" \in moves[p][k] \/ (p = o /\ k \in Unsettled(o))
           /\ "release" \in moves'[p][k] <=> "release" \in moves[p][k]
<1>1. moves' = Recorded(o, Unsettled(o), "commit")
  BY DEF commitProductStock
<1>. QED
  BY <1>1, SettledMoves

LEMMA ReleaseMoves ==
    ASSUME StockInv, NEW o \in Orders, releaseProductStock(o), NEW p \in Orders, NEW k \in Items
    PROVE  /\ "reserve" \in moves'[p][k] <=> "reserve" \in moves[p][k]
           /\ "commit" \in moves'[p][k] <=> "commit" \in moves[p][k]
           /\ "release" \in moves'[p][k] <=>
                  "release" \in moves[p][k] \/ (p = o /\ k \in Unsettled(o))
<1>1. moves' = Recorded(o, Unsettled(o), "release")
  BY DEF releaseProductStock
<1>. QED
  BY <1>1, SettledMoves

LEMMA SyncMoves ==
    ASSUME StockInv, NEW i \in Items, applyTargets(i), NEW p \in Orders, NEW k \in Items
    PROVE  moves'[p][k] = moves[p][k] \/ moves'[p][k] = {}
BY MovesType DEF applyTargets, Track, Restock, Untrack

(* StockFollowsOrder, read movement by movement.                           *)
Follows(o, k) ==
    "reserve" \in moves[o][k] =>
        /\ status[o] # "none"
        /\ status[o] = "pending" => /\ "commit" \notin moves[o][k]
                                    /\ "release" \notin moves[o][k]
        /\ status[o] = "paid" => "commit" \in moves[o][k]
        /\ status[o] = "verification_failed" => "release" \in moves[o][k]
        /\ status[o] = "cancelled" => "commit" \notin moves[o][k]

LEMMA FollowsIff ==
    ASSUME RowsTyped
    PROVE  StockFollowsOrder <=> \A o \in Orders, k \in Items : Follows(o, k)
BY DEF StockFollowsOrder, Follows, Unsettled, orderStockSettled, RowsTyped

LEMMA FollowsIffNext ==
    ASSUME RowsTyped'
    PROVE  StockFollowsOrder' <=> \A o \in Orders, k \in Items : Follows(o, k)'
BY DEF StockFollowsOrder, Follows, Unsettled, orderStockSettled, RowsTyped

(* An order that does not exist has moved nothing.                         *)
LEMMA NothingMoved ==
    ASSUME RowInv, NEW o \in Orders, status[o] = "none", NEW k \in Items
    PROVE  moves[o][k] = {}
BY FollowsIff DEF RowInv, Follows, StockInv, SettledOnce

(* Quotes, from the side of the order.                                     *)
LEMMA QuoteOfOpenOrder ==
    ASSUME RowInv, NEW o \in Automated
    PROVE  /\ status[o] \in {"pending", "paid"} => shipOrder[QuoteOf[o]] = o
           /\ status[o] = "pending" => shipStatus[QuoteOf[o]] = "payment_pending"
           /\ status[o] = "paid" => shipStatus[QuoteOf[o]] \notin {"quoted", "payment_pending", "abandoned"}
<1>1. o \in Orders /\ QuoteOf[o] \in Quotes /\ o # NoOrder
  BY AutomatedFact DEF Automated
<1>. QED
  BY <1>1 DEF RowInv, QuoteFollowsOrder, RowsTyped

-----------------------------------------------------------------------------
(* The transactions, one lemma each.                                       *)

(* Nothing of the rows changes.                                            *)
LEMMA RowsStutter ==
    ASSUME RowInv, UNCHANGED <<stockVars, rowVars, shipVars>>
    PROVE  RowInv' /\ RowsAdvance
<1>1. StockInv'
  BY StockStutters DEF RowInv
<1>2. RowsTyped' /\ MoneyAgrees' /\ RowsAgree' /\ QuoteBound' /\ UncollectedHeld'
  BY DEF RowInv, RowsTyped, MoneyAgrees, RowsAgree, QuoteBound, UncollectedHeld,
         rowVars, shipVars
<1>3. StockFollowsOrder' /\ QuoteFollowsOrder'
  BY DEF RowInv, StockFollowsOrder, QuoteFollowsOrder, Unsettled, orderStockSettled,
         stockVars, rowVars, shipVars
<1>4. RowsAdvance
  BY DEF RowsAdvance, rowVars
<1>. QED
  BY <1>1, <1>2, <1>3, <1>4 DEF RowInv

LEMMA CreateManualQuotes ==
    ASSUME RowInv, NEW o \in Orders, createInitializingManualProductOrder(o),
           \A p \in Orders : status'[p] = IF p = o THEN "pending" ELSE status[p],
           UNCHANGED quarantined
    PROVE  QuoteFollowsOrder' /\ QuoteBound' /\ UncollectedHeld'
<1>1. o \in Manual /\ shipStatus' = shipStatus /\ shipOrder' = shipOrder
  BY DEF createInitializingManualProductOrder, shipVars
<1>2. \A q \in Quotes : shipOrder[q] # NoOrder => shipOrder[q] \in Orders /\ shipOrder[q] # o
  BY <1>1, AutomatedFact DEF RowInv, QuoteBound, Automated
<1>3. QuoteFollowsOrder'
  BY <1>1, <1>2, AutomatedFact DEF RowInv, QuoteFollowsOrder, Automated
<1>. QED
  BY <1>1, <1>3 DEF RowInv, QuoteBound, UncollectedHeld

LEMMA CreateShippedQuotes ==
    ASSUME RowInv, NEW o \in Orders, createInitializingProductOrder(o),
           \A p \in Orders : status'[p] = IF p = o THEN "pending" ELSE status[p],
           UNCHANGED quarantined
    PROVE  /\ QuoteFollowsOrder' /\ QuoteBound' /\ UncollectedHeld'
           /\ shipStatus' \in [Quotes -> {"quoted", "payment_pending", "ready_for_staff",
                                  "purchase_pending", "label_ready", "in_transit",
                                  "manual_review", "abandoned"}]
           /\ shipOrder' \in [Quotes -> Orders \cup {NoOrder}]
<1>. DEFINE q0 == QuoteOf[o]
<1>1. /\ o \in Automated /\ q0 \in Quotes
      /\ status[o] = "none" /\ shipStatus[q0] = "quoted" /\ shipOrder[q0] = NoOrder
      /\ shipStatus' = [shipStatus EXCEPT ![q0] = "payment_pending"]
      /\ shipOrder' = [shipOrder EXCEPT ![q0] = o]
  BY AutomatedFact DEF createInitializingProductOrder
<1>2. /\ shipStatus' \in [Quotes -> {"quoted", "payment_pending", "ready_for_staff",
                                  "purchase_pending", "label_ready", "in_transit",
                                  "manual_review", "abandoned"}]
      /\ shipOrder' \in [Quotes -> Orders \cup {NoOrder}]
      /\ \A q \in Quotes : /\ shipStatus'[q] = IF q = q0 THEN "payment_pending" ELSE shipStatus[q]
                           /\ shipOrder'[q] = IF q = q0 THEN o ELSE shipOrder[q]
  BY <1>1 DEF RowInv, RowsTyped
<1>3. \A q \in Quotes : shipOrder[q] # NoOrder => shipOrder[q] \in Orders /\ shipOrder[q] # o
  <2>. SUFFICES ASSUME NEW q \in Quotes, shipOrder[q] # NoOrder
                PROVE  shipOrder[q] \in Orders /\ shipOrder[q] # o
    OBVIOUS
  <2>1. shipOrder[q] \in Automated /\ QuoteOf[shipOrder[q]] = q
    BY DEF RowInv, QuoteBound
  <2>2. q # q0
    BY <1>1
  <2>. QED
    BY <2>1, <2>2 DEF Automated
<1>4. \A p \in Automated : status[p] \in {"pending", "paid"} => QuoteOf[p] \in Quotes \ {q0}
  <2>. SUFFICES ASSUME NEW p \in Automated, status[p] \in {"pending", "paid"}
                PROVE  QuoteOf[p] \in Quotes \ {q0}
    OBVIOUS
  <2>1. p \in Orders /\ QuoteOf[p] \in Quotes /\ p # NoOrder /\ shipOrder[QuoteOf[p]] = p
    BY QuoteOfOpenOrder, AutomatedFact DEF Automated
  <2>. QED
    BY <2>1, <1>1
<1>5. QuoteFollowsOrder'
  <2>1. ASSUME NEW p \in Automated, status'[p] \in {"pending", "paid"}
        PROVE  shipOrder'[QuoteOf[p]] = p
    <3>1. CASE p = o
      BY <3>1, <1>1, <1>2
    <3>2. CASE p # o
      <4>1. status[p] \in {"pending", "paid"}
        BY <2>1, <3>2 DEF Automated
      <4>. QED
        BY <4>1, <1>2, <1>4, QuoteOfOpenOrder
    <3>. QED
      BY <3>1, <3>2
  <2>. DEFINE Bound(q, b) ==
         CASE shipStatus[q] = "quoted" -> b = NoOrder
           [] shipStatus[q] = "payment_pending" -> b # NoOrder /\ status[b] = "pending"
           [] shipStatus[q] = "abandoned" -> b # NoOrder /\ status[b] = "cancelled"
           [] OTHER -> b # NoOrder /\ status[b] = "paid"
  <2>2. ASSUME NEW q \in Quotes
        PROVE  Bound(q, shipOrder[q])'
    <3>1. CASE q = q0
      BY <3>1, <1>1, <1>2, AutomatedFact
    <3>2. CASE q # q0
      <4>1. Bound(q, shipOrder[q])
        BY DEF RowInv, QuoteFollowsOrder
      <4>2. shipStatus'[q] = shipStatus[q] /\ shipOrder'[q] = shipOrder[q]
        BY <3>2, <1>2
      <4>3. shipOrder[q] # NoOrder => status'[shipOrder[q]] = status[shipOrder[q]]
        BY <1>3
      <4>. QED
        BY <4>1, <4>2, <4>3
    <3>. QED
      BY <3>1, <3>2
  <2>. QED
    BY <2>1, <2>2 DEF QuoteFollowsOrder, Automated
<1>6. QuoteBound'
  BY <1>1, <1>2 DEF RowInv, QuoteBound
<1>7. UncollectedHeld'
  <2>. SUFFICES ASSUME NEW p \in Automated, quarantined[p]
                PROVE  shipStatus'[QuoteOf[p]] # "ready_for_staff"
    BY DEF UncollectedHeld, Automated
  <2>1. status[p] = "paid"
    BY DEF RowInv, RowsAgree, Automated
  <2>. QED
    BY <2>1, <1>2, <1>4 DEF RowInv, UncollectedHeld
<1>. QED
  BY <1>2, <1>5, <1>6, <1>7

LEMMA CreateKeeps ==
    ASSUME RowInv, NEW o \in Orders, createOrder(o)
    PROVE  RowInv' /\ RowsAdvance
<1>1. reserveProductStock(o) /\ status[o] = "none"
  BY DEF createOrder, createInitializingManualProductOrder, createInitializingProductOrder
<1>2. StockInv'
  BY <1>1, ReserveKeepsStock DEF RowInv
<1>3. /\ \A p \in Orders : status'[p] = IF p = o THEN "pending" ELSE status[p]
      /\ \A p \in Orders : oblig'[p] = IF p = o THEN "pending" ELSE oblig[p]
      /\ UNCHANGED <<provider, quarantined, ledger, refund>>
  BY DEF createOrder, RowInv, RowsTyped
<1>4. /\ QuoteFollowsOrder' /\ QuoteBound' /\ UncollectedHeld'
      /\ shipStatus' \in [Quotes -> {"quoted", "payment_pending", "ready_for_staff",
                                  "purchase_pending", "label_ready", "in_transit",
                                  "manual_review", "abandoned"}]
      /\ shipOrder' \in [Quotes -> Orders \cup {NoOrder}]
  <2>1. CASE createInitializingManualProductOrder(o)
    BY <2>1, <1>3, CreateManualQuotes
       DEF createInitializingManualProductOrder, shipVars, RowInv, RowsTyped
  <2>2. CASE createInitializingProductOrder(o)
    BY <2>2, <1>3, CreateShippedQuotes
  <2>. QED
    BY <2>1, <2>2 DEF createOrder
<1>5. /\ manual' \in [Orders -> {"none", "payment_pending", "paid_pending_dispatch",
                                 "dispatched", "cancelled"}]
      /\ \A p \in Orders : manual'[p] = "dispatched" => manual[p] = "dispatched"
  BY DEF createOrder, createInitializingManualProductOrder, createInitializingProductOrder,
         RowInv, RowsTyped
<1>6. RowsTyped'
  BY <1>4, <1>5 DEF createOrder, RowInv, RowsTyped
<1>7. MoneyAgrees' /\ RowsAgree' /\ RowsAdvance
  BY <1>1, <1>3, <1>5 DEF RowInv, MoneyAgrees, RowsAgree, RowsAdvance
<1>8. StockFollowsOrder'
  <2>. SUFFICES ASSUME NEW p \in Orders, NEW k \in Items
                PROVE  Follows(p, k)'
    BY <1>6, FollowsIffNext
  <2>1. Follows(p, k)
    BY FollowsIff DEF RowInv
  <2>2. p = o => moves[p][k] = {}
    BY <1>1, NothingMoved
  <2>. QED
    BY <1>1, <1>3, <2>1, <2>2, ReserveMoves DEF Follows, RowInv
<1>. QED
  BY <1>2, <1>4, <1>6, <1>7, <1>8 DEF RowInv

(* The order keeps its quote, whose status changes together with its own.  *)
(* The other quotes serve other orders.                                    *)
LEMMA OtherQuotes ==
    ASSUME RowInv, NEW o \in Orders, NEW q \in Quotes, shipOrder[q] # NoOrder
    PROVE  shipOrder[q] = o => o \in Automated /\ q = QuoteOf[o]
BY DEF RowInv, QuoteBound

(* A quote whose order did not change still follows it.                    *)
QuoteFollows(q) ==
    CASE shipStatus[q] = "quoted" -> shipOrder[q] = NoOrder
      [] shipStatus[q] = "payment_pending" ->
            shipOrder[q] # NoOrder /\ status[shipOrder[q]] = "pending"
      [] shipStatus[q] = "abandoned" ->
            shipOrder[q] # NoOrder /\ status[shipOrder[q]] = "cancelled"
      [] OTHER -> shipOrder[q] # NoOrder /\ status[shipOrder[q]] = "paid"

LEMMA QuotesFollow ==
    QuoteFollowsOrder <=>
        /\ \A q \in Quotes : QuoteFollows(q)
        /\ \A o \in Automated :
              status[o] \in {"pending", "paid"} => shipOrder[QuoteOf[o]] = o
BY DEF QuoteFollowsOrder, QuoteFollows

LEMMA QuotesFollowNext ==
    QuoteFollowsOrder' <=>
        /\ \A q \in Quotes : QuoteFollows(q)'
        /\ \A o \in Automated :
              status'[o] \in {"pending", "paid"} => shipOrder'[QuoteOf[o]] = o
BY DEF QuoteFollowsOrder, QuoteFollows, Automated

LEMMA QuoteUntouched ==
    ASSUME RowInv, NEW q \in Quotes,
           shipStatus'[q] = shipStatus[q], shipOrder'[q] = shipOrder[q],
           shipOrder[q] # NoOrder => status'[shipOrder[q]] = status[shipOrder[q]]
    PROVE  QuoteFollows(q)'
<1>1. QuoteFollows(q)
  BY QuotesFollow DEF RowInv
<1>. QED
  BY <1>1 DEF QuoteFollows

-----------------------------------------------------------------------------
(* A payment that failed.                                                  *)

LEMMA FailKeeps ==
    ASSUME RowInv, NEW o \in Orders, markOrderVerificationFailed(o), status[o] = "pending"
    PROVE  RowInv' /\ RowsAdvance
<1>1. /\ releaseProductStock(o)
      /\ status' = [status EXCEPT ![o] = "verification_failed"]
      /\ UNCHANGED <<oblig, manual, provider, quarantined, ledger, refund>>
  BY DEF markOrderVerificationFailed
<1>2. StockInv'
  BY <1>1, ReleaseKeepsStock DEF RowInv
<1>3. \A p \in Orders : status'[p] = IF p = o THEN "verification_failed" ELSE status[p]
  BY <1>1 DEF RowInv, RowsTyped
<1>4. MoneyAgrees' /\ RowsAgree' /\ RowsAdvance
  BY <1>1, <1>3 DEF RowInv, MoneyAgrees, RowsAgree, RowsAdvance
<1>5. /\ o \notin Automated => UNCHANGED shipVars
      /\ o \in Automated =>
           /\ shipStatus' = [shipStatus EXCEPT ![QuoteOf[o]] = "quoted"]
           /\ shipOrder' = [shipOrder EXCEPT ![QuoteOf[o]] = NoOrder]
  BY QuoteOfOpenOrder DEF markOrderVerificationFailed
<1>6. \A q \in Quotes :
         LET mine == o \in Automated /\ q = QuoteOf[o] IN
         /\ shipStatus'[q] = IF mine THEN "quoted" ELSE shipStatus[q]
         /\ shipOrder'[q] = IF mine THEN NoOrder ELSE shipOrder[q]
  BY <1>5, AutomatedFact DEF RowInv, RowsTyped, shipVars
<1>7. RowsTyped'
  BY <1>1, <1>5 DEF RowInv, RowsTyped, shipVars
<1>8. StockFollowsOrder'
  <2>. SUFFICES ASSUME NEW p \in Orders, NEW k \in Items
                PROVE  Follows(p, k)'
    BY <1>7, FollowsIffNext
  <2>1. Follows(p, k) /\ StockInv
    BY FollowsIff DEF RowInv
  <2>2. k \in Unsettled(o) <=> /\ "reserve" \in moves[o][k]
                               /\ "commit" \notin moves[o][k]
                               /\ "release" \notin moves[o][k]
    BY DEF Unsettled, orderStockSettled
  <2>. QED
    BY <1>1, <1>3, <2>1, <2>2, ReleaseMoves DEF Follows
<1>9. QuoteFollowsOrder'
  <2>1. ASSUME NEW q \in Quotes PROVE QuoteFollows(q)'
    <3>1. CASE o \in Automated /\ q = QuoteOf[o]
      BY <3>1, <1>6 DEF QuoteFollows
    <3>2. CASE ~(o \in Automated /\ q = QuoteOf[o])
      <4>1. shipOrder[q] # NoOrder => shipOrder[q] \in Orders /\ shipOrder[q] # o
        BY <3>2, OtherQuotes DEF RowInv, QuoteBound, Automated
      <4>. QED
        BY <3>2, <4>1, <1>3, <1>6, QuoteUntouched
    <3>. QED
      BY <3>1, <3>2
  <2>2. ASSUME NEW p \in Automated, status'[p] \in {"pending", "paid"}
        PROVE  shipOrder'[QuoteOf[p]] = p
    <3>1. p # o /\ status[p] \in {"pending", "paid"}
      BY <2>2, <1>3 DEF Automated
    <3>2. p \in Orders /\ QuoteOf[p] \in Quotes /\ shipOrder[QuoteOf[p]] = p
      BY <3>1, QuoteOfOpenOrder, AutomatedFact DEF Automated
    <3>3. ~(o \in Automated /\ QuoteOf[p] = QuoteOf[o])
      BY <3>1, <3>2, QuoteOfOpenOrder DEF markOrderVerificationFailed
    <3>. QED
      BY <3>2, <3>3, <1>6
  <2>. QED
    BY <2>1, <2>2, QuotesFollowNext
<1>10. QuoteBound' /\ UncollectedHeld'
  BY <1>1, <1>6, AutomatedFact DEF RowInv, QuoteBound, UncollectedHeld, Automated
<1>. QED
  BY <1>2, <1>4, <1>7, <1>8, <1>9, <1>10 DEF RowInv

LEMMA MarkFailedKeeps ==
    ASSUME RowInv, NEW o \in Orders, markOrderVerificationFailed(o)
    PROVE  RowInv' /\ RowsAdvance
<1>1. CASE status[o] = "pending"
  BY <1>1, FailKeeps
<1>2. CASE status[o] # "pending"
  BY <1>2, RowsStutter DEF markOrderVerificationFailed
<1>. QED
  BY <1>1, <1>2

-----------------------------------------------------------------------------
(* The finalizer.                                                          *)

(* A paid order's replay finds its shipment activated already.             *)
LEMMA ReplayTouchesNothing ==
    ASSUME RowInv, NEW o \in Orders, status[o] = "paid", activateShipmentForPaidOrder(o)
    PROVE  UNCHANGED shipVars
BY QuoteOfOpenOrder DEF activateShipmentForPaidOrder, shipVars

(* The finalizer's early returns, and the two transactions it may commit.  *)
LEMMA FinalizeCases ==
    ASSUME RowInv, NEW o \in Orders, NEW ps, finalizeSquareProductPayment(o, ps)
    PROVE  \/ /\ finalizeOutcome(o, ps) = "applied"
              /\ status[o] = "pending" /\ ~quarantined[o]
              /\ applyPayment(o, ps)
           \/ /\ finalizeOutcome(o, ps) = "late_capture_refunded"
              /\ ps = "COMPLETED"
              /\ status[o] = "cancelled" /\ ledger[o] = "none"
              /\ reserveLateCaptureRefund(o)
           \/ /\ finalizeOutcome(o, ps) \notin {"applied", "late_capture_refunded"}
              /\ UNCHANGED <<stockVars, rowVars, shipVars>>
<1>1. quarantined[o] \in BOOLEAN
  BY DEF RowInv, RowsTyped
<1>2. CASE finalizeOutcome(o, ps) = "applied"
  <2>1. applyPayment(o, ps)
    BY <1>2 DEF finalizeSquareProductPayment
  <2>2. status[o] = "pending" /\ ~quarantined[o]
    BY <1>1, <1>2 DEF finalizeOutcome
  <2>. QED
    BY <1>2, <2>1, <2>2
<1>3. CASE finalizeOutcome(o, ps) = "late_capture_refunded"
  <2>1. reserveLateCaptureRefund(o)
    BY <1>3 DEF finalizeSquareProductPayment
  <2>2. ledger[o] = "none" /\ ps = "COMPLETED" /\ isTerminalPrimaryLateCapture(o)
    BY <1>1, <1>3 DEF finalizeOutcome
  <2>3. status[o] = "cancelled"
    BY <2>2 DEF RowInv, MoneyAgrees, isTerminalPrimaryLateCapture
  <2>. QED
    BY <1>3, <2>1, <2>2, <2>3
<1>4. CASE finalizeOutcome(o, ps) \notin {"applied", "late_capture_refunded"}
  <2>1. CASE finalizeOutcome(o, ps) = "already_applied" /\ status[o] = "paid"
    <3>1. activateShipmentForPaidOrder(o) /\ UNCHANGED <<stockVars, rowVars>>
      BY <2>1 DEF finalizeSquareProductPayment
    <3>. QED
      BY <1>4, <2>1, <3>1, ReplayTouchesNothing
  <2>2. CASE ~(finalizeOutcome(o, ps) = "already_applied" /\ status[o] = "paid")
    BY <1>4, <2>2 DEF finalizeSquareProductPayment
  <2>. QED
    BY <2>1, <2>2
<1>. QED
  BY <1>2, <1>3, <1>4

LEMMA ApplyKeeps ==
    ASSUME RowInv, NEW o \in Orders, NEW ps \in {"APPROVED", "COMPLETED"},
           applyPayment(o, ps), status[o] = "pending", ~quarantined[o]
    PROVE  RowInv' /\ RowsAdvance
<1>1. StockInv'
  BY CommitKeepsStock DEF RowInv, applyPayment
<1>2. /\ \A p \in Orders : /\ status'[p] = IF p = o THEN "paid" ELSE status[p]
                           /\ oblig'[p] = IF p = o THEN "paid" ELSE oblig[p]
                           /\ ledger'[p] = IF p = o THEN "applied" ELSE ledger[p]
                           /\ provider'[p] = IF p = o THEN ps ELSE provider[p]
                           /\ p # o => manual'[p] = manual[p]
      /\ UNCHANGED <<quarantined, refund>>
  BY DEF applyPayment, RowInv, RowsTyped
<1>3. MoneyAgrees' /\ RowsAgree' /\ RowsAdvance
  BY <1>2 DEF RowInv, MoneyAgrees, RowsAgree, RowsAdvance
<1>4. /\ shipOrder' = shipOrder
      /\ shipStatus' = IF o \in Automated
                       THEN [shipStatus EXCEPT ![QuoteOf[o]] = "ready_for_staff"]
                       ELSE shipStatus
  BY QuoteOfOpenOrder DEF applyPayment, activateShipmentForPaidOrder
<1>5. \A q \in Quotes :
         shipStatus'[q] = IF o \in Automated /\ q = QuoteOf[o] THEN "ready_for_staff"
                                                              ELSE shipStatus[q]
  BY <1>4, AutomatedFact DEF RowInv, RowsTyped
<1>6. RowsTyped'
  BY <1>4 DEF RowInv, RowsTyped, applyPayment
<1>7. StockFollowsOrder'
  <2>. SUFFICES ASSUME NEW p \in Orders, NEW k \in Items
                PROVE  Follows(p, k)'
    BY <1>6, FollowsIffNext
  <2>1. Follows(p, k) /\ StockInv
    BY FollowsIff DEF RowInv
  <2>2. k \in Unsettled(o) <=> /\ "reserve" \in moves[o][k]
                               /\ "commit" \notin moves[o][k]
                               /\ "release" \notin moves[o][k]
    BY DEF Unsettled, orderStockSettled
  <2>3. commitProductStock(o)
    BY DEF applyPayment
  <2>. QED
    BY <1>2, <2>1, <2>2, <2>3, CommitMoves DEF Follows
<1>8. QuoteFollowsOrder'
  <2>1. ASSUME NEW q \in Quotes PROVE QuoteFollows(q)'
    <3>1. CASE o \in Automated /\ q = QuoteOf[o]
      <4>1. shipOrder[q] = o
        BY <3>1, QuoteOfOpenOrder
      <4>. QED
        BY <3>1, <4>1, <1>2, <1>4, <1>5, AutomatedFact DEF QuoteFollows
    <3>2. CASE ~(o \in Automated /\ q = QuoteOf[o])
      <4>1. shipOrder[q] # NoOrder => shipOrder[q] \in Orders /\ shipOrder[q] # o
        BY <3>2, OtherQuotes DEF RowInv, QuoteBound, Automated
      <4>. QED
        BY <3>2, <4>1, <1>2, <1>4, <1>5, QuoteUntouched
    <3>. QED
      BY <3>1, <3>2
  <2>2. ASSUME NEW p \in Automated, status'[p] \in {"pending", "paid"}
        PROVE  shipOrder'[QuoteOf[p]] = p
    <3>1. status[p] \in {"pending", "paid"}
      BY <2>2, <1>2 DEF Automated
    <3>. QED
      BY <3>1, <1>4, QuoteOfOpenOrder
  <2>. QED
    BY <2>1, <2>2, QuotesFollowNext
<1>9. QuoteBound'
  BY <1>4, AutomatedFact DEF RowInv, QuoteBound, Automated
<1>10. UncollectedHeld'
  <2>. SUFFICES ASSUME NEW p \in Automated, quarantined[p]
                PROVE  shipStatus'[QuoteOf[p]] # "ready_for_staff"
    BY <1>2 DEF UncollectedHeld, Automated
  <2>1. p \in Orders /\ p # o /\ status[p] = "paid" /\ QuoteOf[p] \in Quotes
    BY AutomatedFact DEF RowInv, RowsAgree, Automated
  <2>2. ~(o \in Automated /\ QuoteOf[p] = QuoteOf[o])
    BY <2>1, QuoteOfOpenOrder
  <2>. QED
    BY <2>1, <2>2, <1>5 DEF RowInv, UncollectedHeld
<1>. QED
  BY <1>1, <1>3, <1>6, <1>7, <1>8, <1>9, <1>10 DEF RowInv

LEMMA LateRefundKeeps ==
    ASSUME RowInv, NEW o \in Orders, reserveLateCaptureRefund(o),
           status[o] = "cancelled", ledger[o] = "none"
    PROVE  RowInv' /\ RowsAdvance
<1>1. /\ UNCHANGED <<stockVars, shipVars, status, oblig, manual, provider, quarantined>>
      /\ ledger' = [ledger EXCEPT ![o] = "late"]
      /\ refund' = [refund EXCEPT ![o] = "queued"]
  BY DEF reserveLateCaptureRefund
<1>2. StockInv'
  BY <1>1, StockStutters DEF RowInv
<1>3. RowsTyped' /\ MoneyAgrees' /\ RowsAgree' /\ RowsAdvance
  BY <1>1 DEF RowInv, RowsTyped, MoneyAgrees, RowsAgree, RowsAdvance, shipVars
<1>4. StockFollowsOrder' /\ QuoteFollowsOrder' /\ QuoteBound' /\ UncollectedHeld'
  BY <1>1 DEF RowInv, StockFollowsOrder, QuoteFollowsOrder, QuoteBound, UncollectedHeld,
              Unsettled, orderStockSettled, stockVars, shipVars
<1>. QED
  BY <1>2, <1>3, <1>4 DEF RowInv

LEMMA FinalizeKeeps ==
    ASSUME RowInv, NEW o \in Orders, NEW ps \in {"APPROVED", "COMPLETED"},
           finalizeSquareProductPayment(o, ps)
    PROVE  RowInv' /\ RowsAdvance
BY FinalizeCases, ApplyKeeps, LateRefundKeeps, RowsStutter

-----------------------------------------------------------------------------
(* The sweep's cancellation.                                               *)

LEMMA AbandonKeeps ==
    ASSUME RowInv, NEW o \in Orders, releaseAbandonedOrder(o),
           status[o] = "pending" /\ oblig[o] = "pending" /\ ledger[o] = "none"
    PROVE  RowInv' /\ RowsAdvance
<1>1. /\ releaseProductStock(o)
      /\ oblig' = [oblig EXCEPT ![o] = "cancelled"]
      /\ status' = [status EXCEPT ![o] = "cancelled"]
      /\ UNCHANGED <<manual, provider, quarantined, ledger, refund, shipOrder>>
  BY DEF releaseAbandonedOrder
<1>2. StockInv'
  BY <1>1, ReleaseKeepsStock DEF RowInv
<1>3. \A p \in Orders : /\ status'[p] = IF p = o THEN "cancelled" ELSE status[p]
                        /\ oblig'[p] = IF p = o THEN "cancelled" ELSE oblig[p]
  BY <1>1 DEF RowInv, RowsTyped
<1>4. MoneyAgrees' /\ RowsAgree' /\ RowsAdvance
  BY <1>1, <1>3 DEF RowInv, MoneyAgrees, RowsAgree, RowsAdvance
<1>5. shipStatus' = IF o \in Automated
                    THEN [shipStatus EXCEPT ![QuoteOf[o]] = "abandoned"]
                    ELSE shipStatus
  BY QuoteOfOpenOrder DEF releaseAbandonedOrder
<1>6. \A q \in Quotes :
         shipStatus'[q] = IF o \in Automated /\ q = QuoteOf[o] THEN "abandoned"
                                                              ELSE shipStatus[q]
  BY <1>5, AutomatedFact DEF RowInv, RowsTyped
<1>7. RowsTyped'
  BY <1>1, <1>5 DEF RowInv, RowsTyped
<1>8. StockFollowsOrder'
  <2>. SUFFICES ASSUME NEW p \in Orders, NEW k \in Items
                PROVE  Follows(p, k)'
    BY <1>7, FollowsIffNext
  <2>1. Follows(p, k) /\ StockInv
    BY FollowsIff DEF RowInv
  <2>. QED
    BY <1>1, <1>3, <2>1, ReleaseMoves DEF Follows
<1>9. QuoteFollowsOrder'
  <2>1. ASSUME NEW q \in Quotes PROVE QuoteFollows(q)'
    <3>1. CASE o \in Automated /\ q = QuoteOf[o]
      <4>1. shipOrder[q] = o
        BY <3>1, QuoteOfOpenOrder
      <4>. QED
        BY <3>1, <4>1, <1>1, <1>3, <1>6, AutomatedFact DEF QuoteFollows
    <3>2. CASE ~(o \in Automated /\ q = QuoteOf[o])
      <4>1. shipOrder[q] # NoOrder => shipOrder[q] \in Orders /\ shipOrder[q] # o
        BY <3>2, OtherQuotes DEF RowInv, QuoteBound, Automated
      <4>. QED
        BY <3>2, <4>1, <1>1, <1>3, <1>6, QuoteUntouched
    <3>. QED
      BY <3>1, <3>2
  <2>2. ASSUME NEW p \in Automated, status'[p] \in {"pending", "paid"}
        PROVE  shipOrder'[QuoteOf[p]] = p
    <3>1. status[p] \in {"pending", "paid"}
      BY <2>2, <1>3 DEF Automated
    <3>. QED
      BY <3>1, <1>1, QuoteOfOpenOrder
  <2>. QED
    BY <2>1, <2>2, QuotesFollowNext
<1>10. QuoteBound' /\ UncollectedHeld'
  BY <1>1, <1>6, AutomatedFact DEF RowInv, QuoteBound, UncollectedHeld, Automated
<1>. QED
  BY <1>2, <1>4, <1>7, <1>8, <1>9, <1>10 DEF RowInv

LEMMA SweepKeeps ==
    ASSUME RowInv, NEW o \in Orders, releaseAbandonedOrder(o)
    PROVE  RowInv' /\ RowsAdvance
<1>1. CASE status[o] = "pending" /\ oblig[o] = "pending" /\ ledger[o] = "none"
  BY <1>1, AbandonKeeps
<1>2. CASE ~(status[o] = "pending" /\ oblig[o] = "pending" /\ ledger[o] = "none")
  BY <1>2, RowsStutter DEF releaseAbandonedOrder, rowVars
<1>. QED
  BY <1>1, <1>2

-----------------------------------------------------------------------------
(* The marks on a paid order.                                              *)

(* Stock and quotes follow the status: what leaves it alone leaves them.   *)
LEMMA FollowersStay ==
    ASSUME RowInv, UNCHANGED <<stockVars, status, shipVars>>
    PROVE  StockInv' /\ StockFollowsOrder' /\ QuoteFollowsOrder' /\ QuoteBound'
<1>1. StockInv'
  BY StockStutters DEF RowInv
<1>2. StockFollowsOrder' /\ QuoteFollowsOrder' /\ QuoteBound'
  BY DEF RowInv, StockFollowsOrder, QuoteFollowsOrder, QuoteBound,
         Unsettled, orderStockSettled, stockVars, shipVars
<1>. QED
  BY <1>1, <1>2

LEMMA CapturedKeeps ==
    ASSUME RowInv, NEW o \in Orders, markSquareCommerceOrderCaptured(o),
           UNCHANGED <<stockVars, shipVars>>
    PROVE  RowInv' /\ RowsAdvance
<1>1. /\ UNCHANGED <<status, oblig, manual, quarantined, ledger, refund>>
      /\ provider' = IF status[o] = "paid" THEN [provider EXCEPT ![o] = "COMPLETED"]
                                           ELSE provider
  BY DEF markSquareCommerceOrderCaptured
<1>2. StockInv' /\ StockFollowsOrder' /\ QuoteFollowsOrder' /\ QuoteBound'
  BY <1>1, FollowersStay
<1>3. RowsTyped' /\ MoneyAgrees' /\ RowsAgree' /\ UncollectedHeld' /\ RowsAdvance
  BY <1>1 DEF RowInv, RowsTyped, MoneyAgrees, RowsAgree, UncollectedHeld, RowsAdvance, shipVars
<1>. QED
  BY <1>2, <1>3 DEF RowInv

LEMMA UncollectedKeeps ==
    ASSUME RowInv, NEW o \in Orders, markSquareCommerceOrderUncollected(o), UNCHANGED stockVars
    PROVE  RowInv' /\ RowsAdvance
<1>1. CASE status[o] # "paid"
  BY <1>1, RowsStutter DEF markSquareCommerceOrderUncollected
<1>2. CASE status[o] = "paid"
  <2>1. /\ UNCHANGED <<status, oblig, manual, ledger, refund, shipOrder>>
        /\ provider' = [provider EXCEPT ![o] = "UNCOLLECTED"]
        /\ quarantined' = [quarantined EXCEPT ![o] = TRUE]
    BY <1>2 DEF markSquareCommerceOrderUncollected
  <2>2. \A q \in Quotes :
          \/ shipStatus'[q] = shipStatus[q]
          \/ /\ o \in Automated /\ q = QuoteOf[o]
             /\ shipStatus[q] = "ready_for_staff" /\ shipStatus'[q] = "manual_review"
    BY <1>2, AutomatedFact, QuoteOfOpenOrder
       DEF markSquareCommerceOrderUncollected, RowInv, RowsTyped
  <2>3. o \in Automated => shipStatus'[QuoteOf[o]] # "ready_for_staff"
    BY <1>2, AutomatedFact
       DEF markSquareCommerceOrderUncollected, RowInv, RowsTyped, UncollectedHeld
  <2>4. RowsTyped'
    BY <1>2, <2>1 DEF markSquareCommerceOrderUncollected, RowInv, RowsTyped
  <2>5. MoneyAgrees' /\ RowsAgree' /\ RowsAdvance
    BY <1>2, <2>1 DEF RowInv, RowsTyped, MoneyAgrees, RowsAgree, RowsAdvance
  <2>6. StockInv' /\ StockFollowsOrder'
    <3>1. StockInv'
      BY StockStutters DEF RowInv
    <3>. QED
      BY <2>1, <3>1 DEF RowInv, StockFollowsOrder, Unsettled, orderStockSettled, stockVars
  <2>7. QuoteFollowsOrder' /\ QuoteBound'
    <3>1. ASSUME NEW q \in Quotes PROVE QuoteFollows(q)'
      <4>1. QuoteFollows(q)
        BY QuotesFollow DEF RowInv
      <4>. QED
        BY <2>1, <2>2, <4>1 DEF QuoteFollows
    <3>. QED
      BY <2>1, <3>1, QuotesFollow, QuotesFollowNext DEF RowInv, QuoteBound
  <2>8. UncollectedHeld'
    <3>. SUFFICES ASSUME NEW p \in Automated, quarantined'[p]
                  PROVE  shipStatus'[QuoteOf[p]] # "ready_for_staff"
      BY DEF UncollectedHeld, Automated
    <3>1. p \in Orders /\ QuoteOf[p] \in Quotes
      BY AutomatedFact DEF Automated
    <3>2. CASE p = o
      BY <3>2, <2>3
    <3>3. CASE p # o
      <4>1. quarantined[p]
        BY <3>1, <3>3, <2>1 DEF RowInv, RowsTyped
      <4>2. shipStatus[QuoteOf[p]] # "ready_for_staff"
        BY <4>1 DEF RowInv, UncollectedHeld
      <4>. QED
        BY <3>1, <4>2, <2>2
    <3>. QED
      BY <3>2, <3>3
  <2>. QED
    BY <2>4, <2>5, <2>6, <2>7, <2>8 DEF RowInv
<1>. QED
  BY <1>1, <1>2

-----------------------------------------------------------------------------
(* Staff, the shipping component, the inventory sync.                      *)

LEMMA PickupKeeps ==
    ASSUME RowInv, NEW o \in Orders, PickupComplete(o)
    PROVE  RowInv' /\ RowsAdvance
<1>1. /\ status[o] = "paid"
      /\ UNCHANGED <<stockVars, shipVars, status, provider, quarantined, ledger, refund>>
      /\ manual' = [manual EXCEPT ![o] = "dispatched"]
      /\ oblig' = [oblig EXCEPT ![o] = IF @ = "pending" THEN "cancelled" ELSE @]
  BY DEF PickupComplete
<1>2. StockInv' /\ StockFollowsOrder' /\ QuoteFollowsOrder' /\ QuoteBound'
  BY <1>1, FollowersStay
<1>3. oblig' = oblig
  BY <1>1 DEF RowInv, RowsTyped, MoneyAgrees
<1>4. RowsTyped' /\ MoneyAgrees' /\ RowsAgree' /\ UncollectedHeld' /\ RowsAdvance
  BY <1>1, <1>3
     DEF RowInv, RowsTyped, MoneyAgrees, RowsAgree, UncollectedHeld, RowsAdvance, shipVars
<1>. QED
  BY <1>2, <1>4 DEF RowInv

LEMMA CancelKeeps ==
    ASSUME RowInv, NEW o \in Orders, ApproveCancellation(o)
    PROVE  RowInv' /\ RowsAdvance
<1>1. /\ o \in Manual /\ status[o] # "none" /\ manual[o] \notin {"cancelled", "dispatched"}
      /\ UNCHANGED <<stockVars, shipVars, provider, quarantined, ledger>>
      /\ manual' = [manual EXCEPT ![o] = "cancelled"]
      /\ oblig' = [oblig EXCEPT ![o] = IF @ = "pending" THEN "cancelled" ELSE @]
  BY DEF ApproveCancellation, manualFulfillmentOpen
<1>2. CASE status[o] = "paid"
  <2>1. status' = status /\ refund' = [refund EXCEPT ![o] = "queued"]
    BY <1>2 DEF ApproveCancellation
  <2>2. StockInv' /\ StockFollowsOrder' /\ QuoteFollowsOrder' /\ QuoteBound'
    BY <1>1, <2>1, FollowersStay
  <2>3. oblig' = oblig
    BY <1>1, <1>2 DEF RowInv, RowsTyped, MoneyAgrees
  <2>4. RowsTyped' /\ MoneyAgrees' /\ RowsAgree' /\ UncollectedHeld' /\ RowsAdvance
    BY <1>1, <2>1, <2>3
       DEF RowInv, RowsTyped, MoneyAgrees, RowsAgree, UncollectedHeld, RowsAdvance, shipVars
  <2>. QED
    BY <2>2, <2>4 DEF RowInv
<1>3. CASE status[o] # "paid"
  <2>1. status' = [status EXCEPT ![o] = "cancelled"] /\ refund' = refund
    BY <1>3 DEF ApproveCancellation
  <2>2. \A p \in Orders : status'[p] = IF p = o THEN "cancelled" ELSE status[p]
    BY <2>1 DEF RowInv, RowsTyped
  <2>3. oblig[o] \in {"pending", "cancelled"}
    BY <1>1, <1>3 DEF RowInv, RowsTyped, MoneyAgrees, RowsAgree
  <2>4. \A p \in Orders : oblig'[p] = IF p = o THEN "cancelled" ELSE oblig[p]
    BY <1>1, <2>3 DEF RowInv, RowsTyped
  <2>5. RowsTyped'
    BY <1>1, <2>1, <2>4 DEF RowInv, RowsTyped, shipVars
  <2>6. MoneyAgrees' /\ RowsAgree' /\ RowsAdvance
    BY <1>1, <1>3, <2>1, <2>2, <2>4 DEF RowInv, RowsTyped, MoneyAgrees, RowsAgree, RowsAdvance
  <2>7. StockInv'
    BY <1>1, StockStutters DEF RowInv
  <2>8. StockFollowsOrder'
    <3>. SUFFICES ASSUME NEW p \in Orders, NEW k \in Items
                  PROVE  Follows(p, k)'
      BY <2>5, FollowsIffNext
    <3>1. Follows(p, k) /\ moves' = moves
      BY <1>1, FollowsIff DEF RowInv, stockVars
    <3>2. ~("commit" \in moves[p][k] /\ "release" \in moves[p][k])
      BY DEF RowInv, StockInv, SettledOnce
    <3>3. status[p] \in {"none", "pending", "paid", "verification_failed", "cancelled"}
      BY DEF RowInv, RowsTyped
    <3>. QED
      BY <1>3, <2>2, <3>1, <3>2, <3>3 DEF Follows
  <2>9. QuoteFollowsOrder' /\ QuoteBound'
    <3>1. ASSUME NEW q \in Quotes PROVE QuoteFollows(q)'
      <4>1. shipOrder[q] # NoOrder => shipOrder[q] \in Orders /\ shipOrder[q] # o
        BY <1>1, OtherQuotes, AutomatedFact DEF RowInv, QuoteBound, Automated
      <4>. QED
        BY <1>1, <2>2, <4>1, QuoteUntouched DEF shipVars
    <3>. QED
      BY <1>1, <2>2, <3>1, QuotesFollow, QuotesFollowNext, AutomatedFact
         DEF RowInv, QuoteBound, shipVars, Automated
  <2>10. UncollectedHeld'
    BY <1>1 DEF RowInv, UncollectedHeld, shipVars
  <2>. QED
    BY <2>5, <2>6, <2>7, <2>8, <2>9, <2>10 DEF RowInv
<1>. QED
  BY <1>2, <1>3

(* A shipment moves on, past the dispatch queue, for a paid order.         *)
LEMMA ShipmentMoves ==
    ASSUME RowInv, NEW q \in Quotes, NEW s \in {"purchase_pending", "label_ready", "in_transit",
                                               "manual_review"},
           shipStatus[q] \in {"ready_for_staff", "purchase_pending", "label_ready"},
           shipStatus' = [shipStatus EXCEPT ![q] = s],
           UNCHANGED <<stockVars, rowVars, shipOrder>>
    PROVE  RowInv' /\ RowsAdvance
<1>1. StockInv'
  BY StockStutters DEF RowInv
<1>2. RowsTyped' /\ MoneyAgrees' /\ RowsAgree' /\ RowsAdvance /\ QuoteBound'
  BY DEF RowInv, RowsTyped, MoneyAgrees, RowsAgree, RowsAdvance, QuoteBound, rowVars
<1>3. StockFollowsOrder'
  BY DEF RowInv, StockFollowsOrder, Unsettled, orderStockSettled, stockVars, rowVars
<1>4. \A p \in Quotes : shipStatus'[p] = IF p = q THEN s ELSE shipStatus[p]
  BY DEF RowInv, RowsTyped
<1>5. QuoteFollowsOrder'
  <2>1. ASSUME NEW p \in Quotes PROVE QuoteFollows(p)'
    <3>1. QuoteFollows(p)
      BY QuotesFollow DEF RowInv
    <3>. QED
      BY <3>1, <1>4 DEF QuoteFollows, rowVars
  <2>. QED
    BY <2>1, QuotesFollow, QuotesFollowNext DEF RowInv, rowVars
<1>6. UncollectedHeld'
  BY <1>4, AutomatedFact DEF RowInv, UncollectedHeld, rowVars, Automated
<1>. QED
  BY <1>1, <1>2, <1>3, <1>5, <1>6 DEF RowInv

LEMMA PurchaseKeeps ==
    ASSUME RowInv, NEW o \in Orders, enqueuePurchaseOperationForOrder(o)
    PROVE  RowInv' /\ RowsAdvance
BY ShipmentMoves, AutomatedFact DEF enqueuePurchaseOperationForOrder

LEMMA CarrierKeeps ==
    ASSUME RowInv, NEW q \in Quotes, ShipmentAdvances(q)
    PROVE  RowInv' /\ RowsAdvance
BY ShipmentMoves DEF ShipmentAdvances

LEMMA InventoryKeeps ==
    ASSUME RowInv, NEW i \in Items, InventorySync(i)
    PROVE  RowInv' /\ RowsAdvance
<1>1. applyTargets(i) /\ UNCHANGED <<rowVars, shipVars>>
  BY DEF InventorySync
<1>2. StockInv'
  BY <1>1, SyncKeepsStock DEF RowInv
<1>3. RowsTyped' /\ MoneyAgrees' /\ RowsAgree' /\ QuoteBound' /\ UncollectedHeld'
  BY <1>1 DEF RowInv, RowsTyped, MoneyAgrees, RowsAgree, QuoteBound, UncollectedHeld,
              rowVars, shipVars
<1>4. QuoteFollowsOrder' /\ RowsAdvance
  BY <1>1 DEF RowInv, QuoteFollowsOrder, RowsAdvance, rowVars, shipVars
<1>5. StockFollowsOrder'
  <2>. SUFFICES ASSUME NEW p \in Orders, NEW k \in Items
                PROVE  Follows(p, k)'
    BY <1>3, FollowsIffNext
  <2>1. Follows(p, k) /\ status' = status
    BY <1>1, FollowsIff DEF RowInv, rowVars
  <2>2. moves'[p][k] = moves[p][k] \/ moves'[p][k] = {}
    BY <1>1, SyncMoves DEF RowInv
  <2>. QED
    BY <2>1, <2>2 DEF Follows
<1>. QED
  BY <1>2, <1>3, <1>4, <1>5 DEF RowInv

-----------------------------------------------------------------------------
(* What a process learnt before an await still holds after it.             *)

(* A request in a phase knows this about its order.                        *)
Learnt(phase, o) ==
    /\ phase \notin {"idle", "rejected"} => status[o] # "none"
    /\ phase \in {"authorized", "capturing", "marking"} => pay[o] # "none"
    /\ phase \in {"capturing", "marking"} => status[o] = "paid"
    /\ phase = "marking" => pay[o] = "COMPLETED"

RequestsKnow == \A r \in Requests : Learnt(pc[r], OrderOf[r])

(* So does the reconciliation, and a call Square has not processed yet.    *)
CronKnows(o) ==
    /\ inflight[o] => status[o] # "none"
    /\ recon[o] # "idle" => status[o] = "paid"
    /\ recon[o] \in {"COMPLETED", "CANCELED"} => pay[o] = recon[o]

CronsKnow == \A o \in Orders : CronKnows(o)

Inv ==
    /\ RowInv /\ ProcessesTyped
    /\ ProviderTellsTruth
    /\ RequestsKnow /\ CronsKnow

(* A payment, once made, ends once.                                        *)
PayAdvances ==
    \A o \in Orders : /\ pay[o] # "none" => pay'[o] # "none"
                      /\ pay[o] \in {"COMPLETED", "CANCELED"} => pay'[o] = pay[o]

LEMMA PayStays == ASSUME UNCHANGED pay PROVE PayAdvances
BY DEF PayAdvances

LEMMA TruthStays ==
    ASSUME Inv, PayAdvances, UNCHANGED <<provider, quarantined>>
    PROVE  ProviderTellsTruth'
BY DEF Inv, ProviderTellsTruth, PayAdvances

LEMMA LearntStays ==
    ASSUME RowsAdvance, PayAdvances, NEW o \in Orders, NEW phase, Learnt(phase, o)
    PROVE  Learnt(phase, o)'
BY DEF Learnt, RowsAdvance, PayAdvances

LEMMA CronStays ==
    ASSUME Inv, RowsAdvance, PayAdvances, NEW o \in Orders,
           inflight'[o] => inflight[o] \/ status[o] # "none", recon'[o] = recon[o]
    PROVE  CronKnows(o)'
BY DEF Inv, CronsKnow, CronKnows, RowsAdvance, PayAdvances

(* A step of a request: the rows and the payment are accounted for, and    *)
(* the request learns what its next phase relies on.                       *)
LEMMA RequestMoves ==
    ASSUME Inv, NEW r \in Requests, NEW phase \in Phases, Goto(r, phase),
           RowInv', RowsAdvance, PayAdvances, ProviderTellsTruth',
           pay' \in [Orders -> {"none", "APPROVED", "COMPLETED", "CANCELED"}],
           inflight' \in [Orders -> BOOLEAN],
           \A o \in Orders : inflight'[o] => inflight[o] \/ status[o] # "none",
           Learnt(phase, OrderOf[r])',
           UNCHANGED background
    PROVE  Inv'
<1>1. pc' \in [Requests -> Phases] /\ \A s \in Requests : pc'[s] = IF s = r THEN phase ELSE pc[s]
  BY DEF Goto, Inv, ProcessesTyped
<1>2. ProcessesTyped'
  BY <1>1 DEF Inv, ProcessesTyped, background
<1>3. RequestsKnow'
  <2>. SUFFICES ASSUME NEW s \in Requests
                PROVE  Learnt(pc[s], OrderOf[s])'
    BY DEF RequestsKnow
  <2>1. OrderOf[s] \in Orders
    BY RequestsAssumption
  <2>2. CASE s = r
    BY <1>1, <2>2 DEF Learnt
  <2>3. CASE s # r
    <3>1. Learnt(pc[s], OrderOf[s])
      BY DEF Inv, RequestsKnow
    <3>2. pc'[s] = pc[s]
      BY <1>1, <2>3
    <3>. QED
      BY <2>1, <3>1, <3>2 DEF Learnt, RowsAdvance, PayAdvances
  <2>. QED
    BY <2>2, <2>3
<1>4. CronsKnow'
  BY CronStays DEF CronsKnow, background
<1>. QED
  BY <1>2, <1>3, <1>4 DEF Inv

(* A step on an order, by a cron run, Square or the staff.                 *)
LEMMA OrderMoves ==
    ASSUME Inv, NEW o \in Orders, RowInv', RowsAdvance, PayAdvances, ProviderTellsTruth',
           ProcessesTyped', UNCHANGED pc,
           \A p \in Orders : inflight'[p] => inflight[p],
           \A p \in Orders : p # o => recon'[p] = recon[p],
           CronKnows(o)'
    PROVE  Inv'
<1>1. RequestsKnow'
  BY RequestsAssumption DEF Inv, RequestsKnow, Learnt, RowsAdvance, PayAdvances
<1>2. CronsKnow'
  BY CronStays DEF CronsKnow
<1>. QED
  BY <1>1, <1>2 DEF Inv

-----------------------------------------------------------------------------
(* A request, step by step.                                                *)

LEMMA RequestOrder == \A r \in Requests : OrderOf[r] \in Orders
BY RequestsAssumption

LEMMA PhaseKnown ==
    ASSUME Inv, NEW r \in Requests
    PROVE  Learnt(pc[r], OrderOf[r])
BY DEF Inv, RequestsKnow

(* A step that only moves the request on, to a phase that relies on no     *)
(* more than that the order exists.                                        *)
LEMMA RequestDrifts ==
    ASSUME Inv, NEW r \in Requests, NEW phase \in Phases, Goto(r, phase),
           phase \in {"idle", "rejected"} \/ status[OrderOf[r]] # "none",
           phase \notin {"authorized", "capturing", "marking"},
           UNCHANGED <<stockVars, rowVars, shipVars, square, background>>
    PROVE  Inv'
<1>1. RowInv' /\ RowsAdvance
  BY RowsStutter DEF Inv
<1>2. UNCHANGED <<pay, inflight, status, provider, quarantined>>
  BY DEF square, rowVars
<1>3. PayAdvances /\ ProviderTellsTruth'
  BY <1>2, PayStays, TruthStays
<1>4. Learnt(phase, OrderOf[r])'
  BY <1>2 DEF Learnt
<1>. QED
  BY <1>1, <1>2, <1>3, <1>4, RequestMoves DEF Inv, ProcessesTyped

LEMMA ReserveStep == ASSUME Inv, NEW r \in Requests, ReserveOrder(r) PROVE Inv'
<1>. DEFINE o == OrderOf[r]
<1>1. o \in Orders /\ Goto(r, "reserved") /\ "reserved" \in Phases /\ UNCHANGED <<square, background>>
  BY RequestOrder DEF ReserveOrder, Phases
<1>2. CASE createOrder(o)
  <2>1. RowInv' /\ RowsAdvance
    BY <1>1, <1>2, CreateKeeps DEF Inv
  <2>2. UNCHANGED <<pay, inflight, provider, quarantined>> /\ status'[o] = "pending"
    BY <1>1, <1>2 DEF square, createOrder, Inv, RowInv, RowsTyped
  <2>3. PayAdvances /\ ProviderTellsTruth'
    BY <2>2, PayStays, TruthStays
  <2>4. Learnt("reserved", o)'
    BY <2>2 DEF Learnt
  <2>. QED
    BY <1>1, <2>1, <2>2, <2>3, <2>4, RequestMoves DEF Inv, ProcessesTyped
<1>3. CASE status[o] # "none" /\ UNCHANGED <<stockVars, rowVars, shipVars>>
  BY <1>1, <1>3, RequestDrifts
<1>. QED
  BY <1>2, <1>3 DEF ReserveOrder

LEMMA IdleSteps ==
    ASSUME Inv, NEW r \in Requests, RejectCheckout(r) \/ ChargeIneligible(r) \/ Crash(r)
    PROVE  Inv'
<1>1. Learnt(pc[r], OrderOf[r])
  BY PhaseKnown
<1>2. CASE RejectCheckout(r)
  BY <1>2, RequestDrifts DEF RejectCheckout, Phases, Over
<1>3. CASE ChargeIneligible(r)
  BY <1>1, <1>3, RequestDrifts DEF ChargeIneligible, Phases, Learnt
<1>4. CASE Crash(r)
  BY <1>1, <1>4, RequestDrifts DEF Crash, Phases, Over, Learnt
<1>. QED
  BY <1>2, <1>3, <1>4

(* Only the payment of the order changes.                                  *)
LEMMA RowsRest ==
    ASSUME Inv, UNCHANGED <<stockVars, rowVars, shipVars>>, PayAdvances
    PROVE  /\ RowInv' /\ RowsAdvance /\ ProviderTellsTruth'
           /\ UNCHANGED <<status, oblig, manual, provider, quarantined, ledger, refund>>
<1>1. RowInv' /\ RowsAdvance
  BY RowsStutter DEF Inv
<1>2. UNCHANGED <<status, oblig, manual, provider, quarantined, ledger, refund>>
  BY DEF rowVars
<1>. QED
  BY <1>1, <1>2, TruthStays

LEMMA AuthorizeSteps ==
    ASSUME Inv, NEW r \in Requests, AuthorizeReplied(r) \/ AuthorizeFailed(r)
    PROVE  Inv'
<1>. DEFINE o == OrderOf[r]
<1>1. /\ o \in Orders /\ status[o] # "none"
      /\ UNCHANGED <<stockVars, rowVars, shipVars, background>>
      /\ {"authorized", "voiding"} \subseteq Phases
  BY RequestOrder, PhaseKnown DEF AuthorizeReplied, AuthorizeFailed, Learnt, Phases
<1>2. CASE AuthorizeReplied(r)
  <2>1. /\ pay' = [pay EXCEPT ![o] = IF @ = "none" THEN "APPROVED" ELSE @]
        /\ inflight' = inflight
        /\ Goto(r, "authorized") \/ Goto(r, "voiding")
    BY <1>2 DEF AuthorizeReplied
  <2>2. /\ PayAdvances /\ pay'[o] # "none"
        /\ pay' \in [Orders -> {"none", "APPROVED", "COMPLETED", "CANCELED"}]
    BY <1>1, <2>1 DEF Inv, ProcessesTyped, PayAdvances
  <2>3. /\ RowInv' /\ RowsAdvance /\ ProviderTellsTruth'
        /\ status' = status
    BY <1>1, <2>2, RowsRest
  <2>4. Learnt("authorized", o)' /\ Learnt("voiding", o)'
    BY <1>1, <2>2, <2>3 DEF Learnt
  <2>. QED
    BY <1>1, <2>1, <2>2, <2>3, <2>4, RequestMoves DEF Inv, ProcessesTyped
<1>3. CASE AuthorizeFailed(r)
  <2>1. Goto(r, "voiding") /\ pay' = pay
    BY <1>3 DEF AuthorizeFailed
  <2>2. /\ inflight' \in [Orders -> BOOLEAN]
        /\ \A p \in Orders : inflight'[p] => inflight[p] \/ p = o
    BY <1>1, <1>3 DEF AuthorizeFailed, Inv, ProcessesTyped
  <2>3. PayAdvances
    BY <2>1, PayStays
  <2>4. /\ RowInv' /\ RowsAdvance /\ ProviderTellsTruth'
        /\ status' = status
    BY <1>1, <2>3, RowsRest
  <2>5. Learnt("voiding", o)'
    BY <1>1, <2>4 DEF Learnt
  <2>. QED
    BY <1>1, <2>1, <2>2, <2>3, <2>4, <2>5, RequestMoves DEF Inv, ProcessesTyped
<1>. QED
  BY <1>2, <1>3

(* The finalizer, whoever runs it.                                         *)
LEMMA FinalizeTruth ==
    ASSUME Inv, NEW o \in Orders, NEW ps \in {"APPROVED", "COMPLETED"},
           finalizeSquareProductPayment(o, ps), ps = "COMPLETED" => pay[o] = "COMPLETED",
           UNCHANGED pay
    PROVE  /\ RowInv' /\ RowsAdvance /\ PayAdvances /\ ProviderTellsTruth'
           /\ finalizeOutcome(o, ps) = "applied" => status'[o] = "paid"
<1>1. RowInv' /\ RowsAdvance /\ PayAdvances
  BY FinalizeKeeps, PayStays DEF Inv
<1>2. \/ /\ status[o] = "pending" /\ ~quarantined[o]
         /\ applyPayment(o, ps)
      \/ /\ finalizeOutcome(o, ps) # "applied"
         /\ UNCHANGED <<provider, quarantined>>
  BY FinalizeCases DEF Inv, reserveLateCaptureRefund, rowVars
<1>3. CASE status[o] = "pending" /\ ~quarantined[o] /\ applyPayment(o, ps)
  <2>1. /\ quarantined' = quarantined
        /\ \A p \in Orders : provider'[p] = IF p = o THEN ps ELSE provider[p]
        /\ status'[o] = "paid"
    BY <1>3 DEF applyPayment, Inv, RowInv, RowsTyped
  <2>. QED
    BY <1>1, <1>3, <2>1 DEF Inv, ProviderTellsTruth
<1>4. CASE finalizeOutcome(o, ps) # "applied" /\ UNCHANGED <<provider, quarantined>>
  BY <1>1, <1>4, TruthStays
<1>. QED
  BY <1>2, <1>3, <1>4

LEMMA FinalizeSteps ==
    ASSUME Inv, NEW r \in Requests, FinalizeCharge(r) \/ FinalizeUnanswered(r)
    PROVE  Inv'
<1>. DEFINE o == OrderOf[r]
            outcome == finalizeOutcome(o, "APPROVED")
<1>1. /\ o \in Orders /\ status[o] # "none" /\ pay[o] # "none"
      /\ UNCHANGED <<pay, inflight, background>>
      /\ {"capturing", "ok", "voiding"} \subseteq Phases
  BY RequestOrder, PhaseKnown
     DEF FinalizeCharge, FinalizeUnanswered, Learnt, Phases, Over, square
<1>2. CASE FinalizeCharge(r)
  <2>1. PICK phase \in {"capturing", "ok", "voiding"} :
           Goto(r, phase) /\ (phase = "capturing" => outcome = "applied")
    BY <1>2 DEF FinalizeCharge
  <2>2. /\ RowInv' /\ RowsAdvance /\ PayAdvances /\ ProviderTellsTruth'
        /\ outcome = "applied" => status'[o] = "paid"
    BY <1>1, <1>2, FinalizeTruth DEF FinalizeCharge
  <2>3. Learnt(phase, o)'
    BY <1>1, <2>1, <2>2 DEF Learnt, RowsAdvance
  <2>. QED
    BY <1>1, <2>1, <2>2, <2>3, RequestMoves DEF Inv, ProcessesTyped
<1>3. CASE FinalizeUnanswered(r)
  <2>1. /\ Goto(r, "voiding")
        /\ \/ finalizeSquareProductPayment(o, "APPROVED")
           \/ UNCHANGED <<stockVars, rowVars, shipVars>>
    BY <1>3 DEF FinalizeUnanswered
  <2>2. RowInv' /\ RowsAdvance /\ PayAdvances /\ ProviderTellsTruth'
    BY <1>1, <2>1, FinalizeTruth, RowsRest, PayStays
  <2>3. Learnt("voiding", o)'
    BY <1>1, <2>2 DEF Learnt, RowsAdvance
  <2>. QED
    BY <1>1, <2>1, <2>2, <2>3, RequestMoves DEF Inv, ProcessesTyped
<1>. QED
  BY <1>2, <1>3

(* A capture or a void: the payment ends, or stays as it is.               *)
LEMMA PaymentEnds ==
    ASSUME Inv, NEW o \in Orders, NEW end \in {"COMPLETED", "CANCELED"},
           pay[o] = "APPROVED" /\ pay' = [pay EXCEPT ![o] = end]
    PROVE  /\ PayAdvances /\ pay'[o] = end
           /\ pay' \in [Orders -> {"none", "APPROVED", "COMPLETED", "CANCELED"}]
BY DEF Inv, ProcessesTyped, PayAdvances

LEMMA PaymentRests ==
    ASSUME Inv, UNCHANGED pay
    PROVE  PayAdvances /\ pay' \in [Orders -> {"none", "APPROVED", "COMPLETED", "CANCELED"}]
BY PayStays DEF Inv, ProcessesTyped

LEMMA CaptureStep == ASSUME Inv, NEW r \in Requests, CaptureCharge(r) PROVE Inv'
<1>. DEFINE o == OrderOf[r]
<1>1. /\ o \in Orders /\ status[o] = "paid" /\ {"marking", "ok"} \subseteq Phases
      /\ UNCHANGED <<stockVars, rowVars, shipVars, inflight, background>>
  BY RequestOrder, PhaseKnown DEF CaptureCharge, Learnt, Phases, Over
<1>2. PICK phase \in {"marking", "ok"} :
         /\ Goto(r, phase)
         /\ \/ pay[o] = "APPROVED" /\ pay' = [pay EXCEPT ![o] = "COMPLETED"]
            \/ phase = "ok" /\ UNCHANGED pay
  BY DEF CaptureCharge
<1>3. /\ PayAdvances /\ (phase = "marking" => pay'[o] = "COMPLETED")
      /\ pay' \in [Orders -> {"none", "APPROVED", "COMPLETED", "CANCELED"}]
  BY <1>1, <1>2, PaymentEnds, PaymentRests
<1>4. RowInv' /\ RowsAdvance /\ ProviderTellsTruth' /\ status' = status
  BY <1>1, <1>3, RowsRest
<1>5. Learnt(phase, o)'
  BY <1>1, <1>3, <1>4 DEF Learnt
<1>. QED
  BY <1>1, <1>2, <1>3, <1>4, <1>5, RequestMoves DEF Inv, ProcessesTyped

(* Marking an order captured, for a payment that is completed.             *)
LEMMA MarkTruth ==
    ASSUME Inv, NEW o \in Orders, markSquareCommerceOrderCaptured(o), pay[o] = "COMPLETED",
           UNCHANGED <<stockVars, shipVars, pay>>
    PROVE  RowInv' /\ RowsAdvance /\ PayAdvances /\ ProviderTellsTruth' /\ status' = status
<1>1. RowInv' /\ RowsAdvance /\ PayAdvances
  BY CapturedKeeps, PayStays DEF Inv
<1>2. /\ UNCHANGED <<status, quarantined>>
      /\ \A p \in Orders : provider'[p] = IF p = o /\ status[o] = "paid" THEN "COMPLETED"
                                                                         ELSE provider[p]
  BY DEF markSquareCommerceOrderCaptured, Inv, RowInv, RowsTyped
<1>3. ProviderTellsTruth'
  BY <1>2 DEF Inv, ProviderTellsTruth
<1>. QED
  BY <1>1, <1>2, <1>3

LEMMA MarkStep == ASSUME Inv, NEW r \in Requests, MarkCaptured(r) PROVE Inv'
<1>. DEFINE o == OrderOf[r]
<1>1. /\ o \in Orders /\ status[o] = "paid" /\ pay[o] = "COMPLETED" /\ "ok" \in Phases
      /\ Goto(r, "ok") /\ UNCHANGED <<stockVars, shipVars, pay, inflight, background>>
  BY RequestOrder, PhaseKnown DEF MarkCaptured, Learnt, Phases, Over, square
<1>2. RowInv' /\ RowsAdvance /\ PayAdvances /\ ProviderTellsTruth' /\ status' = status
  BY <1>1, MarkTruth, RowsRest, PayStays DEF MarkCaptured
<1>3. Learnt("ok", o)'
  BY <1>1, <1>2 DEF Learnt
<1>. QED
  BY <1>1, <1>2, <1>3, RequestMoves DEF Inv, ProcessesTyped

LEMMA VoidStep == ASSUME Inv, NEW r \in Requests, VoidCharge(r) PROVE Inv'
<1>. DEFINE o == OrderOf[r]
<1>1. /\ o \in Orders /\ status[o] # "none" /\ "failing" \in Phases /\ Goto(r, "failing")
      /\ UNCHANGED <<stockVars, rowVars, shipVars, inflight, background>>
      /\ \/ pay[o] = "APPROVED" /\ pay' = [pay EXCEPT ![o] = "CANCELED"]
         \/ UNCHANGED pay
  BY RequestOrder, PhaseKnown DEF VoidCharge, Learnt, Phases
<1>2. /\ PayAdvances
      /\ pay' \in [Orders -> {"none", "APPROVED", "COMPLETED", "CANCELED"}]
  BY <1>1, PaymentEnds, PaymentRests
<1>3. RowInv' /\ RowsAdvance /\ ProviderTellsTruth' /\ status' = status
  BY <1>1, <1>2, RowsRest
<1>4. Learnt("failing", o)'
  BY <1>1, <1>3 DEF Learnt
<1>. QED
  BY <1>1, <1>2, <1>3, <1>4, RequestMoves DEF Inv, ProcessesTyped

LEMMA FailStep == ASSUME Inv, NEW r \in Requests, FailCheckout(r) PROVE Inv'
<1>. DEFINE o == OrderOf[r]
<1>1. /\ o \in Orders /\ status[o] # "none" /\ "failed" \in Phases /\ Goto(r, "failed")
      /\ UNCHANGED <<pay, inflight, background>>
  BY RequestOrder, PhaseKnown DEF FailCheckout, Learnt, Phases, Over, square
<1>2. RowInv' /\ RowsAdvance
  BY <1>1, MarkFailedKeeps, RowsStutter DEF FailCheckout, Inv
<1>3. UNCHANGED <<provider, quarantined>>
  BY DEF FailCheckout, markOrderVerificationFailed, rowVars
<1>4. PayAdvances /\ ProviderTellsTruth'
  BY <1>1, <1>3, PayStays, TruthStays
<1>5. Learnt("failed", o)'
  BY <1>1, <1>2 DEF Learnt, RowsAdvance
<1>. QED
  BY <1>1, <1>2, <1>4, <1>5, RequestMoves DEF Inv, ProcessesTyped

LEMMA RequestKeeps == ASSUME Inv, NEW r \in Requests, RequestStep(r) PROVE Inv'
BY ReserveStep, IdleSteps, AuthorizeSteps, FinalizeSteps, CaptureStep, MarkStep, VoidStep,
   FailStep DEF RequestStep

-----------------------------------------------------------------------------
(* Square, the crons, staff.                                               *)

LEMMA CronKnown ==
    ASSUME Inv, NEW o \in Orders
    PROVE  CronKnows(o)
BY DEF Inv, CronsKnow

LEMMA SquareSteps ==
    ASSUME Inv, NEW o \in Orders,
           LateAuthorization(o) \/ AuthorizationLapses(o) \/ SellerCompletes(o)
    PROVE  Inv'
<1>1. /\ UNCHANGED <<stockVars, rowVars, shipVars, pc, leaseOver, sweep, recon>>
      /\ inflight' \in [Orders -> BOOLEAN]
      /\ \A p \in Orders : inflight'[p] => inflight[p]
  BY DEF LateAuthorization, AuthorizationLapses, SellerCompletes, background,
         Inv, ProcessesTyped
<1>2. PayAdvances /\ pay' \in [Orders -> {"none", "APPROVED", "COMPLETED", "CANCELED"}]
  <2>1. CASE LateAuthorization(o)
    BY <2>1, PaymentRests DEF LateAuthorization, Inv, ProcessesTyped, PayAdvances
  <2>2. CASE AuthorizationLapses(o) \/ SellerCompletes(o)
    BY <2>2, PaymentEnds DEF AuthorizationLapses, SellerCompletes
  <2>. QED
    BY <2>1, <2>2
<1>3. RowInv' /\ RowsAdvance /\ ProviderTellsTruth'
  BY <1>1, <1>2, RowsRest
<1>4. ProcessesTyped'
  BY <1>1, <1>2 DEF Inv, ProcessesTyped
<1>5. CronKnows(o)'
  BY <1>1, <1>2, <1>3, CronStays
<1>. QED
  BY <1>1, <1>2, <1>3, <1>4, <1>5, OrderMoves

LEMMA WebhookStep == ASSUME Inv, NEW o \in Orders, WebhookCompleted(o) PROVE Inv'
<1>1. /\ finalizeSquareProductPayment(o, "COMPLETED") /\ pay[o] = "COMPLETED"
      /\ UNCHANGED <<pay, inflight, pc, leaseOver, sweep, recon>>
  BY DEF WebhookCompleted, square, background
<1>2. RowInv' /\ RowsAdvance /\ PayAdvances /\ ProviderTellsTruth'
  BY <1>1, FinalizeTruth
<1>3. ProcessesTyped'
  BY <1>1 DEF Inv, ProcessesTyped
<1>4. CronKnows(o)'
  BY <1>1, <1>2, CronStays
<1>. QED
  BY <1>1, <1>2, <1>3, <1>4, OrderMoves

(* A step that changes neither the payment nor what the order says of it.  *)
LEMMA RowsStep ==
    ASSUME Inv, NEW o \in Orders, RowInv', RowsAdvance,
           UNCHANGED <<provider, quarantined, pay, inflight, pc, recon>>,
           leaseOver' \in [Orders -> BOOLEAN],
           sweep' \in [Orders -> {"idle", "candidate", "unclaimed"}]
    PROVE  Inv'
<1>1. PayAdvances /\ ProviderTellsTruth'
  BY PayStays, TruthStays
<1>2. ProcessesTyped'
  BY DEF Inv, ProcessesTyped
<1>3. CronKnows(o)'
  BY <1>1, CronStays
<1>. QED
  BY <1>1, <1>2, <1>3, OrderMoves

LEMMA LeaseStep == ASSUME Inv, NEW o \in Orders, LeaseElapses(o) PROVE Inv'
<1>1. /\ UNCHANGED <<stockVars, rowVars, shipVars, pay, inflight, pc, sweep, recon>>
      /\ leaseOver' \in [Orders -> BOOLEAN]
      /\ sweep' \in [Orders -> {"idle", "candidate", "unclaimed"}]
  BY DEF LeaseElapses, square, Inv, ProcessesTyped
<1>2. RowInv' /\ RowsAdvance /\ UNCHANGED <<provider, quarantined>>
  BY <1>1, RowsStutter DEF Inv, rowVars
<1>. QED
  BY <1>1, <1>2, RowsStep

LEMMA SweepSteps == ASSUME Inv, NEW o \in Orders, SweepStep(o) PROVE Inv'
<1>1. /\ UNCHANGED <<pay, inflight, pc, leaseOver, recon>>
      /\ sweep' \in [Orders -> {"idle", "candidate", "unclaimed"}]
  BY DEF SweepStep, SweepScan, SweepVerify, SweepUnverified, SweepRelease, SweepAborts,
         SweepGoto, square, Inv, ProcessesTyped
<1>2. RowInv' /\ RowsAdvance /\ UNCHANGED <<provider, quarantined>>
  <2>1. CASE SweepRelease(o)
    BY <2>1, SweepKeeps DEF SweepRelease, releaseAbandonedOrder, Inv, rowVars
  <2>2. CASE UNCHANGED <<stockVars, rowVars, shipVars>>
    BY <2>2, RowsStutter DEF Inv, rowVars
  <2>. QED
    BY <2>1, <2>2 DEF SweepStep, SweepScan, SweepVerify, SweepUnverified, SweepAborts
<1>3. leaseOver' \in [Orders -> BOOLEAN]
  BY <1>1 DEF Inv, ProcessesTyped
<1>. QED
  BY <1>1, <1>2, <1>3, RowsStep

(* The reconciliation moves on to a phase it may be in.                    *)
LEMMA ReconMoves ==
    ASSUME Inv, NEW o \in Orders,
           NEW phase \in {"idle", "found", "APPROVED", "COMPLETED", "CANCELED"},
           ReconGoto(o, phase), RowInv', RowsAdvance, PayAdvances, ProviderTellsTruth',
           pay' \in [Orders -> {"none", "APPROVED", "COMPLETED", "CANCELED"}],
           phase # "idle" => status'[o] = "paid",
           phase \in {"COMPLETED", "CANCELED"} => pay'[o] = phase
    PROVE  Inv'
<1>1. /\ UNCHANGED <<inflight, pc, leaseOver, sweep>>
      /\ \A p \in Orders : recon'[p] = IF p = o THEN phase ELSE recon[p]
  BY DEF ReconGoto, Inv, ProcessesTyped
<1>2. ProcessesTyped'
  BY <1>1 DEF ReconGoto, Inv, ProcessesTyped
<1>3. CronKnows(o)
  BY CronKnown
<1>4. CronKnows(o)'
  BY <1>1, <1>3 DEF CronKnows, RowsAdvance
<1>. QED
  BY <1>1, <1>2, <1>4, OrderMoves

(* Holding an order whose authorisation is gone.                           *)
LEMMA UncollectedTruth ==
    ASSUME Inv, NEW o \in Orders, markSquareCommerceOrderUncollected(o), pay[o] = "CANCELED",
           UNCHANGED <<stockVars, pay>>
    PROVE  RowInv' /\ RowsAdvance /\ PayAdvances /\ ProviderTellsTruth'
<1>1. RowInv' /\ RowsAdvance /\ PayAdvances
  BY UncollectedKeeps, PayStays DEF Inv
<1>2. CASE status[o] # "paid"
  <2>1. UNCHANGED <<provider, quarantined>>
    BY <1>2 DEF markSquareCommerceOrderUncollected, rowVars
  <2>. QED
    BY <1>1, <2>1, TruthStays
<1>3. CASE status[o] = "paid"
  <2>1. \A p \in Orders :
          /\ provider'[p] = IF p = o THEN "UNCOLLECTED" ELSE provider[p]
          /\ quarantined'[p] = IF p = o THEN TRUE ELSE quarantined[p]
    BY <1>3 DEF markSquareCommerceOrderUncollected, Inv, RowInv, RowsTyped
  <2>. QED
    BY <1>1, <2>1 DEF Inv, ProviderTellsTruth
<1>. QED
  BY <1>2, <1>3

LEMMA ReconSteps == ASSUME Inv, NEW o \in Orders, ReconStep(o) PROVE Inv'
<1>1. CronKnows(o)
  BY CronKnown
<1>2. pay[o] \in {"none", "APPROVED", "COMPLETED", "CANCELED"}
  BY DEF Inv, ProcessesTyped
<1>3. CASE ReconScan(o)
  <2>1. /\ ReconGoto(o, "found") /\ status[o] = "paid"
        /\ UNCHANGED <<stockVars, rowVars, shipVars, pay>>
    BY <1>3 DEF ReconScan, findUncapturedSquareCommerceOrders
  <2>2. /\ RowInv' /\ RowsAdvance /\ PayAdvances /\ ProviderTellsTruth' /\ status' = status
        /\ pay' \in [Orders -> {"none", "APPROVED", "COMPLETED", "CANCELED"}]
    BY <2>1, RowsRest, PaymentRests
  <2>. QED
    BY <2>1, <2>2, ReconMoves
<1>4. CASE ReconRead(o)
  <2>1. /\ ReconGoto(o, pay[o]) /\ recon[o] = "found" /\ pay[o] # "none"
        /\ UNCHANGED <<stockVars, rowVars, shipVars, pay>>
    BY <1>4 DEF ReconRead
  <2>2. /\ RowInv' /\ RowsAdvance /\ PayAdvances /\ ProviderTellsTruth' /\ status' = status
        /\ pay' \in [Orders -> {"none", "APPROVED", "COMPLETED", "CANCELED"}]
    BY <2>1, RowsRest, PaymentRests
  <2>3. PICK phase \in {"APPROVED", "COMPLETED", "CANCELED"} : phase = pay[o]
    BY <1>2, <2>1
  <2>4. ReconGoto(o, phase) /\ status'[o] = "paid" /\ pay'[o] = phase
    BY <1>1, <2>1, <2>2, <2>3 DEF CronKnows
  <2>. QED
    BY <2>2, <2>4, ReconMoves
<1>5. CASE ReconComplete(o)
  <2>1. /\ recon[o] = "APPROVED" /\ pay[o] = "APPROVED"
        /\ pay' = [pay EXCEPT ![o] = "COMPLETED"]
        /\ ReconGoto(o, "COMPLETED") \/ ReconGoto(o, "idle")
        /\ UNCHANGED <<stockVars, rowVars, shipVars>>
    BY <1>5 DEF ReconComplete
  <2>2. /\ PayAdvances /\ pay'[o] = "COMPLETED"
        /\ pay' \in [Orders -> {"none", "APPROVED", "COMPLETED", "CANCELED"}]
    BY <2>1, PaymentEnds
  <2>3. RowInv' /\ RowsAdvance /\ ProviderTellsTruth' /\ status'[o] = "paid"
    BY <1>1, <2>1, <2>2, RowsRest DEF CronKnows
  <2>. QED
    BY <2>1, <2>2, <2>3, ReconMoves
<1>6. CASE ReconMark(o)
  <2>1. /\ recon[o] = "COMPLETED" /\ markSquareCommerceOrderCaptured(o)
        /\ ReconGoto(o, "idle") /\ UNCHANGED <<stockVars, shipVars, pay>>
    BY <1>6 DEF ReconMark
  <2>2. /\ RowInv' /\ RowsAdvance /\ PayAdvances /\ ProviderTellsTruth'
        /\ pay' \in [Orders -> {"none", "APPROVED", "COMPLETED", "CANCELED"}]
    BY <1>1, <2>1, MarkTruth, PaymentRests DEF CronKnows
  <2>. QED
    BY <2>1, <2>2, ReconMoves
<1>7. CASE ReconUncollected(o)
  <2>1. /\ recon[o] = "CANCELED" /\ markSquareCommerceOrderUncollected(o)
        /\ ReconGoto(o, "idle") /\ UNCHANGED <<stockVars, pay>>
    BY <1>7 DEF ReconUncollected
  <2>2. /\ RowInv' /\ RowsAdvance /\ PayAdvances /\ ProviderTellsTruth'
        /\ pay' \in [Orders -> {"none", "APPROVED", "COMPLETED", "CANCELED"}]
    BY <1>1, <2>1, UncollectedTruth, PaymentRests DEF CronKnows
  <2>. QED
    BY <2>1, <2>2, ReconMoves
<1>8. CASE ReconFails(o)
  <2>1. ReconGoto(o, "idle") /\ UNCHANGED <<stockVars, rowVars, shipVars, pay>>
    BY <1>8 DEF ReconFails
  <2>2. /\ RowInv' /\ RowsAdvance /\ PayAdvances /\ ProviderTellsTruth'
        /\ pay' \in [Orders -> {"none", "APPROVED", "COMPLETED", "CANCELED"}]
    BY <2>1, RowsRest, PaymentRests
  <2>. QED
    BY <2>1, <2>2, ReconMoves
<1>. QED
  BY <1>3, <1>4, <1>5, <1>6, <1>7, <1>8 DEF ReconStep

LEMMA StaffSteps ==
    ASSUME Inv, NEW o \in Orders,
           PickupComplete(o) \/ ApproveCancellation(o) \/ enqueuePurchaseOperationForOrder(o)
    PROVE  Inv'
<1>1. UNCHANGED <<provider, quarantined, pay, inflight, pc, leaseOver, sweep, recon>>
  BY DEF PickupComplete, ApproveCancellation, enqueuePurchaseOperationForOrder,
         staffUnchanged, square, background, rowVars
<1>2. RowInv' /\ RowsAdvance
  BY PickupKeeps, CancelKeeps, PurchaseKeeps DEF Inv
<1>. QED
  BY <1>1, <1>2, RowsStep DEF Inv, ProcessesTyped

LEMMA OrderKeeps == ASSUME Inv, NEW o \in Orders, OrderStep(o) PROVE Inv'
BY SquareSteps, WebhookStep, LeaseStep, SweepSteps, ReconSteps, StaffSteps DEF OrderStep

(* No order at hand: the steps below belong to a quote or an item.         *)
LEMMA RowsOnly ==
    ASSUME Inv, RowInv', RowsAdvance, UNCHANGED <<rowVars, staffUnchanged>>
    PROVE  Inv'
<1>1. UNCHANGED <<provider, quarantined, pay, inflight, pc, leaseOver, sweep, recon>>
  BY DEF staffUnchanged, square, background, rowVars
<1>2. PayAdvances /\ ProviderTellsTruth'
  BY <1>1, PayStays, TruthStays
<1>3. ProcessesTyped'
  BY <1>1 DEF Inv, ProcessesTyped
<1>4. CronsKnow'
  BY <1>1, <1>2, CronStays DEF CronsKnow
<1>5. RequestsKnow'
  BY <1>1, <1>2, RequestsAssumption DEF Inv, RequestsKnow, Learnt, RowsAdvance
<1>. QED
  BY <1>2, <1>3, <1>4, <1>5 DEF Inv

LEMMA CheckoutStutters == ASSUME Inv, UNCHANGED vars PROVE Inv'
<1>1. /\ UNCHANGED <<stockVars, rowVars, shipVars>>
      /\ UNCHANGED <<rowVars, staffUnchanged>>
  BY DEF vars, staffUnchanged, square, background
<1>2. RowInv' /\ RowsAdvance
  BY <1>1, RowsStutter DEF Inv
<1>. QED
  BY <1>1, <1>2, RowsOnly

LEMMA NextKeeps == ASSUME Inv, [Next]_vars PROVE Inv'
<1>1. ASSUME NEW r \in Requests, RequestStep(r) PROVE Inv'
  BY <1>1, RequestKeeps
<1>2. ASSUME NEW o \in Orders, OrderStep(o) PROVE Inv'
  BY <1>2, OrderKeeps
<1>3. ASSUME NEW q \in Quotes, ShipmentAdvances(q) PROVE Inv'
  <2>1. RowInv' /\ RowsAdvance /\ UNCHANGED <<rowVars, staffUnchanged>>
    BY <1>3, CarrierKeeps DEF Inv, ShipmentAdvances
  <2>. QED
    BY <2>1, RowsOnly
<1>4. ASSUME NEW k \in Items, InventorySync(k) PROVE Inv'
  <2>1. RowInv' /\ RowsAdvance /\ UNCHANGED <<rowVars, staffUnchanged>>
    BY <1>4, InventoryKeeps DEF Inv, InventorySync
  <2>. QED
    BY <2>1, RowsOnly
<1>5. CASE UNCHANGED vars
  BY <1>5, CheckoutStutters
<1>. QED
  BY <1>1, <1>2, <1>3, <1>4, <1>5 DEF Next

LEMMA InitHolds == ASSUME Init PROVE Inv
<1>1. StockInv
  BY StockInitHolds DEF Init
<1>2. RowsTyped /\ ProcessesTyped
  BY DEF Init, RowsTyped, ProcessesTyped, Phases
<1>3. MoneyAgrees /\ RowsAgree /\ ProviderTellsTruth
  BY DEF Init, MoneyAgrees, RowsAgree, ProviderTellsTruth
<1>4. StockFollowsOrder
  BY DEF Init, StockInit, StockFollowsOrder
<1>5. QuoteFollowsOrder /\ QuoteBound /\ UncollectedHeld
  BY AutomatedFact DEF Init, QuoteFollowsOrder, QuoteBound, UncollectedHeld, Automated
<1>6. RequestsKnow /\ CronsKnow
  BY RequestsAssumption DEF Init, RequestsKnow, Learnt, CronsKnow, CronKnows
<1>. QED
  BY <1>1, <1>2, <1>3, <1>4, <1>5, <1>6 DEF Inv, RowInv

-----------------------------------------------------------------------------
(* Whatever requests, cron runs, webhooks and staff do in whatever order,  *)
(* what each of them relies on holds.                                      *)
THEOREM CheckoutInvariant == Spec => []Inv
<1>1. Init => Inv
  BY InitHolds
<1>2. Inv /\ [Next]_vars => Inv'
  BY NextKeeps
<1>. QED
  BY <1>1, <1>2, PTL DEF Spec

(* Every table keeps its types, and no stock counter turns negative.       *)
THEOREM CheckoutTyped == Spec => []TypeOK
<1>1. Inv => TypeOK
  BY TypeSplit DEF Inv, RowInv, StockInv
<1>. QED
  BY <1>1, CheckoutInvariant, PTL

(* The stock counters stay the sum of the open holds when the operations   *)
(* run inside checkout transactions.                                       *)
THEOREM CheckoutStockNeverDrifts == Spec => []StockLedgerAgrees
<1>1. Inv => StockLedgerAgrees
  BY DEF Inv, RowInv, StockInv
<1>. QED
  BY <1>1, CheckoutInvariant, PTL

(* Held, sold or given back: the stock tells what became of the order.     *)
THEOREM StockAlwaysFollows == Spec => []StockFollowsOrder
<1>1. Inv => StockFollowsOrder
  BY DEF Inv, RowInv
<1>. QED
  BY <1>1, CheckoutInvariant, PTL

(* Order, obligation and money ledger never disagree, and money recorded   *)
(* late always carries its refund.                                         *)
THEOREM MoneyAlwaysAgrees == Spec => []MoneyAgrees
<1>1. Inv => MoneyAgrees
  BY DEF Inv, RowInv
<1>. QED
  BY <1>1, CheckoutInvariant, PTL

(* What the order says of its payment is so at Square.                     *)
THEOREM ProviderAlwaysTrue == Spec => []ProviderTellsTruth
<1>1. Inv => ProviderTellsTruth
  BY DEF Inv
<1>. QED
  BY <1>1, CheckoutInvariant, PTL

(* A shipping quote serves one order at a time.                            *)
THEOREM QuoteAlwaysFollows == Spec => []QuoteFollowsOrder
<1>1. Inv => QuoteFollowsOrder
  BY DEF Inv, RowInv
<1>. QED
  BY <1>1, CheckoutInvariant, PTL

(* A shipment whose money was lost stays out of the dispatch queue.        *)
THEOREM UncollectedAlwaysHeld == Spec => []UncollectedHeld
<1>1. Inv => UncollectedHeld
  BY DEF Inv, RowInv
<1>. QED
  BY <1>1, CheckoutInvariant, PTL
-----------------------------------------------------------------------------
(* The checkout as a user of the stock: whatever a transaction does to the *)
(* tables of the stock is one operation of ProductStock.                   *)

StockStep == [StockNext]_stockVars

LEMMA StockRests == ASSUME UNCHANGED stockVars PROVE StockStep
BY DEF StockStep

LEMMA OrderStock ==
    ASSUME NEW o \in Orders,
           reserveProductStock(o) \/ commitProductStock(o) \/ releaseProductStock(o)
    PROVE  StockStep
BY DEF StockStep, StockNext

LEMMA FinalizeStock ==
    ASSUME NEW o \in Orders, NEW ps, RowInv, finalizeSquareProductPayment(o, ps)
    PROVE  StockStep
BY FinalizeCases, OrderStock, StockRests DEF applyPayment, reserveLateCaptureRefund

LEMMA FailStock ==
    ASSUME NEW o \in Orders, markOrderVerificationFailed(o)
    PROVE  StockStep
BY OrderStock, StockRests DEF markOrderVerificationFailed

LEMMA RequestStock == ASSUME Inv, NEW r \in Requests, RequestStep(r) PROVE StockStep
<1>1. OrderOf[r] \in Orders
  BY RequestOrder
<1>2. CASE ReserveOrder(r)
  BY <1>1, <1>2, OrderStock, StockRests DEF ReserveOrder, createOrder
<1>3. CASE FinalizeCharge(r) \/ FinalizeUnanswered(r)
  BY <1>1, <1>3, FinalizeStock, StockRests DEF FinalizeCharge, FinalizeUnanswered, Inv
<1>4. CASE FailCheckout(r)
  BY <1>1, <1>4, FailStock, StockRests DEF FailCheckout
<1>5. CASE \/ RejectCheckout(r) \/ ChargeIneligible(r) \/ AuthorizeReplied(r)
           \/ AuthorizeFailed(r) \/ CaptureCharge(r) \/ MarkCaptured(r)
           \/ VoidCharge(r) \/ Crash(r)
  BY <1>5, StockRests DEF RejectCheckout, ChargeIneligible, AuthorizeReplied,
     AuthorizeFailed, CaptureCharge, MarkCaptured, VoidCharge, Crash
<1>. QED
  BY <1>2, <1>3, <1>4, <1>5 DEF RequestStep

LEMMA OrdersStock == ASSUME Inv, NEW o \in Orders, OrderStep(o) PROVE StockStep
<1>1. CASE WebhookCompleted(o)
  BY <1>1, FinalizeStock DEF WebhookCompleted, Inv
<1>2. CASE SweepStep(o)
  BY <1>2, OrderStock, StockRests DEF SweepStep, SweepScan, SweepVerify, SweepUnverified,
     SweepRelease, SweepAborts, releaseAbandonedOrder
<1>3. CASE ReconStep(o)
  BY <1>3, StockRests DEF ReconStep, ReconScan, ReconRead, ReconComplete, ReconMark,
     ReconUncollected, ReconFails
<1>4. CASE \/ LateAuthorization(o) \/ AuthorizationLapses(o) \/ SellerCompletes(o)
           \/ LeaseElapses(o) \/ PickupComplete(o) \/ ApproveCancellation(o)
           \/ enqueuePurchaseOperationForOrder(o)
  BY <1>4, StockRests DEF LateAuthorization, AuthorizationLapses, SellerCompletes,
     LeaseElapses, PickupComplete, ApproveCancellation, enqueuePurchaseOperationForOrder
<1>. QED
  BY <1>1, <1>2, <1>3, <1>4 DEF OrderStep

LEMMA CheckoutStockStep == ASSUME Inv, [Next]_vars PROVE StockStep
<1>1. ASSUME NEW q \in Quotes, ShipmentAdvances(q) PROVE StockStep
  BY <1>1, StockRests DEF ShipmentAdvances
<1>2. ASSUME NEW k \in Items, InventorySync(k) PROVE StockStep
  BY <1>2 DEF InventorySync, StockStep, StockNext
<1>3. CASE UNCHANGED vars
  BY <1>3, StockRests DEF vars
<1>. QED
  BY <1>1, <1>2, <1>3, RequestStock, OrdersStock DEF Next

(* The checkout drives the stock through its operations only: each         *)
(* behaviour of the whole is one of the ledger's specification.            *)
THEOREM CheckoutImplementsStock == Spec => StockSpec
<1>1. Init => StockInit
  BY DEF Init
<1>2. Inv /\ [Next]_vars => [StockNext]_stockVars
  BY CheckoutStockStep DEF StockStep
<1>. QED
  BY <1>1, <1>2, CheckoutInvariant, PTL DEF Spec, StockSpec

(* The guarded level update behind a settlement row applies in every       *)
(* transaction that settles: payment, failed checkout and sweep.           *)
THEOREM CheckoutSettlementsTakeEffect == Spec => SettlementTakesEffect
BY CheckoutImplementsStock, SettlementsTakeEffect
=============================================================================
