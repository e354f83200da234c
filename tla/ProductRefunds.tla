---------------------------- MODULE ProductRefunds ----------------------------
(***************************************************************************)
(* Returning the captured payment of one order: allocation of refund rows  *)
(* against it, the workers that drain them to Square, and the refund       *)
(* webhook that settles what a worker could not.                           *)
(*                                                                         *)
(* A transaction is one action, but for the one that ends a refund: under  *)
(* READ COMMITTED it decides from the rows committed so far whether all    *)
(* the money is back, and its own row becomes visible when it commits.     *)
(* Begin and commit are two actions; in between it locks its refund row.   *)
(* Square is external: one refund per row, named by the row, because the   *)
(* idempotency key of the row names it.                                    *)
(***************************************************************************)
EXTENDS Integers, FiniteSets

CONSTANTS
    Refunds,     \* rows of product_order_refunds, and their Square refunds
    Dashboard,   \* Square refunds staff issue outside the application
    Elsewhere,   \* amount of each of those
    Workers,     \* invocations of the drain
    Components,  \* merchandise, tax, outbound shipping
    Captured,    \* captured amount of each component
    Partials,    \* amounts staff or the label variance may ask for
    Webhook,
    None

Ids == Refunds \cup Dashboard
Live == {"queued", "processing", "outcome_unknown"}
Allocation == [component : Components, amount : Nat]
Settlement == [by : Workers \cup {Webhook}, refund : Ids, full : BOOLEAN]

ASSUME AmountsAssumption ==
    /\ Captured \in [Components -> Nat]
    /\ Partials \subseteq Nat \ {0}
    /\ Elsewhere \in [Dashboard -> Nat \ {0}]
ASSUME NamesAssumption ==
    /\ Refunds \cap Dashboard = {}
    /\ Webhook \notin Workers
    /\ None \notin Workers \cup Ids
    /\ None \notin Allocation /\ None \notin Settlement
ASSUME FiniteAssumption ==
    IsFiniteSet(Refunds) /\ IsFiniteSet(Dashboard) /\ IsFiniteSet(Components)

VARIABLES
    order,        \* checkout_orders.status
    quarantined,  \* checkout_orders.fulfillmentQuarantinedAt is set
    captured,     \* the payment has its row in order_payment_transactions
    oblig,        \* order_payment_obligations.status of the payment
    row,          \* component and amount of a refund row
    status,       \* product_order_refunds.status, "none" without a row
    providerId,   \* product_order_refunds.providerRefundId
    lease,        \* leaseOwner
    leaseOver,    \* leaseExpiresAt has passed
    settling,     \* the open transaction that ends the refund
    square,       \* the refund as Square holds it
    inflight,     \* a refund call Square has not processed yet
    webhook,      \* delivery of the refund's COMPLETED event
    at,           \* where each worker is
    job,          \* the row it works on
    answer        \* what Square told it

moneyVars == <<order, quarantined, captured, oblig>>
leaseVars == <<lease, leaseOver>>
rowsVars == <<row, status, providerId, leaseVars, settling>>
squareVars == <<square, inflight>>
workerVars == <<at, job, answer>>
vars == <<moneyVars, rowsVars, squareVars, webhook, workerVars>>

TypeOK ==
    /\ order \in {"paid", "cancelled", "refunded"}
    /\ quarantined \in BOOLEAN
    /\ captured \in BOOLEAN
    /\ oblig \in {"paid", "cancelled", "refunded"}
    /\ row \in [Refunds -> Allocation \cup {None}]
    /\ status \in [Refunds -> {"none", "succeeded", "manual_review"} \cup Live]
    /\ providerId \in [Refunds -> Ids \cup {None}]
    /\ lease \in [Refunds -> Workers \cup {None}]
    /\ leaseOver \in [Refunds -> BOOLEAN]
    /\ settling \in [Refunds -> Settlement \cup {None}]
    /\ square \in [Ids -> {"none", "PENDING", "COMPLETED", "FAILED"}]
    /\ inflight \in [Refunds -> BOOLEAN]
    /\ webhook \in [Ids -> {"none", "searching", "settling", "acknowledged"}]
    /\ at \in [Workers -> {"idle", "parking", "reaping", "claiming", "calling",
                           "completing", "committing"}]
    /\ job \in [Workers -> Refunds \cup {None}]
    /\ answer \in [Workers -> {"none", "PENDING", "COMPLETED", "refused", "unknown"}]

(* A paid order, or one cancelled before its payment was recorded.         *)
Init ==
    /\ \/ order = "paid" /\ oblig = "paid" /\ captured = TRUE
       \/ order = "cancelled" /\ oblig = "cancelled" /\ captured = FALSE
    /\ quarantined = FALSE
    /\ row = [r \in Refunds |-> None]
    /\ status = [r \in Refunds |-> "none"]
    /\ providerId = [r \in Refunds |-> None]
    /\ lease = [r \in Refunds |-> None]
    /\ leaseOver = [r \in Refunds |-> FALSE]
    /\ settling = [r \in Refunds |-> None]
    /\ square = [x \in Ids |-> "none"]
    /\ inflight = [r \in Refunds |-> FALSE]
    /\ webhook = [x \in Ids |-> "none"]
    /\ at = [w \in Workers |-> "idle"]
    /\ job = [w \in Workers |-> None]
    /\ answer = [w \in Workers |-> "none"]

-----------------------------------------------------------------------------
(* Allocation.  Every status a row can have counts as reserved.  Amounts   *)
(* are added up by counting cents.                                         *)

Sum(f, S) == Cardinality(UNION {{x} \X (1 .. f[x]) : x \in S})
Cents == [x \in Ids |-> IF x \in Refunds THEN row[x].amount ELSE Elsewhere[x]]

Rows == {r \in Refunds : status[r] # "none"}
Amount(rows) == Sum(Cents, rows)
RowsOf(k) == {r \in Rows : row[r].component = k}
Total == Sum(Captured, Components)

(* Mutant: a refund under review no longer counts against the payment.     *)
balanceWithoutReviewed(k) ==
    Captured[k] - Amount({r \in RowsOf(k) : status[r] # "manual_review"})

Balance(k) == Captured[k] - Amount(RowsOf(k))

(* The allocations become queued rows.                                     *)
Reserve(allocations) ==
    \E named \in [allocations -> Refunds \ Rows] :
        LET New == {named[a] : a \in allocations}
            Of(r) == CHOOSE a \in allocations : named[a] = r
        IN  /\ \A a, b \in allocations : named[a] = named[b] => a = b
            /\ row' = [r \in Refunds |-> IF r \in New THEN Of(r) ELSE row[r]]
            /\ status' = [r \in Refunds |-> IF r \in New THEN "queued" ELSE status[r]]
            /\ UNCHANGED <<providerId, leaseVars, settling>>

(* All that is left of the payment, by component.                          *)
Remaining == {[component |-> k, amount |-> Balance(k)] : k \in {j \in Components : Balance(j) > 0}}

(* The payment of a cancelled order arrives after all; it is recorded and  *)
(* its refund reserved with it.                                            *)
LateCapture ==
    /\ order = "cancelled" /\ ~captured
    /\ captured' = TRUE
    /\ Reserve(Remaining)
    /\ UNCHANGED <<order, quarantined, oblig, squareVars, webhook, workerVars>>

(* Staff, or a manual cancellation, ask for all that is left, or for a     *)
(* part of one component; the label worker for a part of the shipping.     *)
queueProductOrderRefundAllocations ==
    /\ captured /\ ~quarantined
    /\ \/ Reserve(Remaining)
       \/ \E k \in Components, n \in Partials :
             n <= Balance(k) /\ Reserve({[component |-> k, amount |-> n]})
    /\ UNCHANGED <<moneyVars, squareVars, webhook, workerVars>>

(* The reconciliation found the order's authorisation lapsed.              *)
OrderQuarantined ==
    /\ order = "paid" /\ ~quarantined
    /\ quarantined' = TRUE
    /\ UNCHANGED <<order, captured, oblig, rowsVars, squareVars, webhook, workerVars>>

-----------------------------------------------------------------------------
(* The transaction that ends a refund.                                     *)

(* Mutant: counts the rows still on their way.                             *)
seesReserved(r) == Rows

(* What the transaction can see: committed rows and its own.               *)
Sees(r) == {s \in Rows : status[s] = "succeeded"} \cup {r}

(* Mutant: no unique index on providerRefundId.                            *)
unindexed(r, x) == TRUE

(* The unique index on providerRefundId lets row r have x.                 *)
Unlinked(r, x) == \A s \in Refunds \ {r} : providerId[s] # x

BeginSettlement(r, x, by) ==
    /\ settling' = [settling EXCEPT ![r] =
                       [by |-> by, refund |-> x, full |-> Amount(Sees(r)) >= Total]]
    /\ UNCHANGED <<row, status, providerId, leaseVars>>

CommitSettlement(r) ==
    /\ status' = [status EXCEPT ![r] = "succeeded"]
    /\ providerId' = [providerId EXCEPT ![r] = settling[r].refund]
    /\ lease' = [lease EXCEPT ![r] = None]
    /\ oblig' = IF settling[r].full THEN "refunded" ELSE oblig
    /\ order' = IF settling[r].full /\ order = "paid" THEN "refunded" ELSE order
    /\ settling' = [settling EXCEPT ![r] = None]
    /\ UNCHANGED <<quarantined, captured, row, leaseOver>>

(* The refund leaves the workers' hands without being settled.             *)
Retire(rows, final) ==
    /\ status' = [r \in Refunds |-> IF r \in rows THEN final ELSE status[r]]
    /\ lease' = [r \in Refunds |-> IF r \in rows THEN None ELSE lease[r]]
    /\ UNCHANGED <<moneyVars, row, leaseOver, settling>>
-----------------------------------------------------------------------------
(* A worker, in the order of processProductOrderRefund.                    *)

Goto(w, place) ==
    /\ at' = [at EXCEPT ![w] = place]
    /\ job' = IF place = "idle" THEN [job EXCEPT ![w] = None] ELSE job
    /\ answer' = IF place = "idle" THEN [answer EXCEPT ![w] = "none"] ELSE answer

(* Mutant: the drain selects queued rows only.                             *)
pickQueuedOnly(w, r) ==
    /\ at[w] = "idle" /\ status[r] = "queued"
    /\ job' = [job EXCEPT ![w] = r]
    /\ at' = [at EXCEPT ![w] = IF quarantined THEN "parking" ELSE "claiming"]
    /\ UNCHANGED <<moneyVars, rowsVars, squareVars, webhook, answer>>

(* The drain selects a row and reads it; what it finds decides the branch. *)
DrainPick(w, r) ==
    /\ at[w] = "idle"
    /\ status[r] = "queued" \/ (status[r] = "processing" /\ leaseOver[r])
    /\ job' = [job EXCEPT ![w] = r]
    /\ \/ quarantined /\ at' = [at EXCEPT ![w] = "parking"]
       \/ ~quarantined /\ status[r] = "processing" /\ at' = [at EXCEPT ![w] = "reaping"]
       \/ ~quarantined /\ status[r] = "queued" /\ at' = [at EXCEPT ![w] = "claiming"]
    /\ UNCHANGED <<moneyVars, rowsVars, squareVars, webhook, answer>>

(* The order was quarantined: a human decides.                             *)
Park(w) ==
    LET r == job[w] IN
    /\ at[w] = "parking" /\ settling[r] = None
    /\ IF status[r] \in {"queued", "processing"}
       THEN Retire({r}, "manual_review") /\ UNCHANGED providerId
       ELSE UNCHANGED <<moneyVars, rowsVars>>
    /\ Goto(w, "idle")
    /\ UNCHANGED <<squareVars, webhook>>

(* Mutant: the refund of a dead worker is queued again.                    *)
ReapToQueue(w) ==
    LET r == job[w] IN
    /\ at[w] = "reaping" /\ settling[r] = None
    /\ IF status[r] = "processing" /\ leaseOver[r]
       THEN Retire({r}, "queued") /\ UNCHANGED providerId
       ELSE UNCHANGED <<moneyVars, rowsVars>>
    /\ Goto(w, "idle")
    /\ UNCHANGED <<squareVars, webhook>>

(* Its worker died, maybe after Square was called.                         *)
Reap(w) ==
    LET r == job[w] IN
    /\ at[w] = "reaping" /\ settling[r] = None
    /\ IF status[r] = "processing" /\ leaseOver[r]
       THEN Retire({r}, "outcome_unknown") /\ UNCHANGED providerId
       ELSE UNCHANGED <<moneyVars, rowsVars>>
    /\ Goto(w, "idle")
    /\ UNCHANGED <<squareVars, webhook>>

(* Another worker or the webhook may have been first.                      *)
Claim(w) ==
    LET r == job[w] IN
    /\ at[w] = "claiming" /\ settling[r] = None
    /\ IF status[r] = "queued"
       THEN /\ status' = [status EXCEPT ![r] = "processing"]
            /\ lease' = [lease EXCEPT ![r] = w]
            /\ leaseOver' = [leaseOver EXCEPT ![r] = FALSE]
            /\ UNCHANGED <<row, providerId, settling>>
            /\ Goto(w, "calling")
       ELSE UNCHANGED rowsVars /\ Goto(w, "idle")
    /\ UNCHANGED <<moneyVars, squareVars, webhook>>

Answered(w, reply) ==
    /\ answer' = [answer EXCEPT ![w] = reply]
    /\ at' = [at EXCEPT ![w] = "completing"]
    /\ UNCHANGED <<job, moneyVars, rowsVars, webhook>>

(* What Square may make of a call for row r: one refund per key, and never *)
(* more than the payment.                                                  *)
Returning == {x \in Ids : square[x] \in {"PENDING", "COMPLETED"}}
SquareRoom(x) == Cents[x] + Sum(Cents, Returning) <= Total
Verdicts(r) ==
    IF square[r] # "none" THEN {square[r]}
    ELSE {"FAILED"} \cup (IF SquareRoom(r) THEN {"PENDING", "COMPLETED"} ELSE {})

RefundAnswered(w) ==
    LET r == job[w] IN
    /\ at[w] = "calling"
    /\ \E verdict \in Verdicts(r) :
          /\ square' = [square EXCEPT ![r] = verdict]
          /\ Answered(w, IF verdict = "FAILED" THEN "refused" ELSE verdict)
    /\ UNCHANGED inflight

(* The answer is lost, or is one that decides nothing; Square may still    *)
(* process the call.                                                       *)
RefundUnanswered(w) ==
    LET r == job[w] IN
    /\ at[w] = "calling"
    /\ \E later \in BOOLEAN :
          inflight' = [inflight EXCEPT ![r] = later /\ square[r] = "none"]
    /\ Answered(w, "unknown")
    /\ UNCHANGED square

(* Mutant: does not look who owns the row.                                 *)
ownsAnyway(w) == TRUE

(* The worker still owns the row: nobody ended the refund meanwhile.       *)
Owns(w) == status[job[w]] = "processing" /\ lease[job[w]] = w

Ending(w) == IF answer[w] = "refused" THEN "manual_review" ELSE "outcome_unknown"

completeClaimedRefund(w) ==
    LET r == job[w] IN
    /\ at[w] = "completing" /\ settling[r] = None
    /\ \/ /\ ~Owns(w)
          /\ UNCHANGED <<moneyVars, rowsVars>>
          /\ Goto(w, "idle")
       \/ /\ Owns(w) /\ answer[w] = "COMPLETED" /\ Unlinked(r, r)
          /\ BeginSettlement(r, r, w) /\ UNCHANGED moneyVars
          /\ Goto(w, "committing")
       \/ /\ Owns(w) /\ answer[w] = "PENDING" /\ Unlinked(r, r)
          /\ Retire({r}, "outcome_unknown")
          /\ providerId' = [providerId EXCEPT ![r] = r]
          /\ Goto(w, "idle")
       \/ /\ Owns(w) /\ answer[w] \in {"refused", "unknown"}
          /\ Retire({r}, Ending(w))
          /\ UNCHANGED providerId
          /\ Goto(w, "idle")
    /\ UNCHANGED <<squareVars, webhook>>

SettlementCommits(w) ==
    /\ at[w] = "committing"
    /\ CommitSettlement(job[w])
    /\ Goto(w, "idle")
    /\ UNCHANGED <<squareVars, webhook>>

(* The worker dies, or its transaction fails: an open one is rolled back.  *)
WorkerStops(w) ==
    /\ at[w] # "idle"
    /\ settling' = [r \in Refunds |-> IF at[w] = "committing" /\ r = job[w]
                                      THEN None ELSE settling[r]]
    /\ Goto(w, "idle")
    /\ UNCHANGED <<moneyVars, row, status, providerId, leaseVars, squareVars, webhook>>

WorkerStep(w) ==
    \/ Park(w) \/ Reap(w) \/ Claim(w) \/ RefundAnswered(w) \/ RefundUnanswered(w)
    \/ completeClaimedRefund(w) \/ SettlementCommits(w) \/ WorkerStops(w)

LeaseExpires(r) ==
    /\ status[r] = "processing" /\ ~leaseOver[r]
    /\ leaseOver' = [leaseOver EXCEPT ![r] = TRUE]
    /\ UNCHANGED <<moneyVars, row, status, providerId, lease, settling, squareVars,
                   webhook, workerVars>>

-----------------------------------------------------------------------------
(* The refund.updated webhook, one delivery of an event at a time.  Its    *)
(* SELECT ... FOR UPDATE takes the payment's row as well, so one webhook   *)
(* waits for another; a worker takes its refund row alone.                 *)

NoWebhookOpen == {r \in Refunds : settling[r] # None /\ settling[r].by = Webhook} = {}
Delivery(x, state) == webhook' = [webhook EXCEPT ![x] = state]

(* Delivered, maybe again: a row that has the refund's id is settled.      *)
RefundUpdated(x) ==
    /\ square[x] = "COMPLETED" /\ webhook[x] \in {"none", "acknowledged"}
    /\ \/ /\ \A r \in Rows : providerId[r] # x
          /\ Delivery(x, "searching") /\ UNCHANGED rowsVars
       \/ \E r \in Rows :
             /\ providerId[r] = x /\ settling[r] = None /\ NoWebhookOpen
             /\ \/ status[r] \in Live /\ BeginSettlement(r, x, Webhook) /\ Delivery(x, "settling")
                \/ status[r] \notin Live /\ Delivery(x, "acknowledged") /\ UNCHANGED rowsVars
    /\ UNCHANGED <<moneyVars, squareVars, workerVars>>

(* Mutant: forgets the refunds whose outcome is unknown.                   *)
candidatesInHand(x) ==
    {r \in Rows : status[r] \in {"queued", "processing"} /\ row[r].amount = Cents[x] /\ ~quarantined}

(* The rows a refund without a known id may be for.                        *)
Candidates(x) == {r \in Rows : status[r] \in Live /\ row[r].amount = Cents[x] /\ ~quarantined}

(* No row has its id: the only row it can be for is settled, several are   *)
(* left to a human, and so is a refund that fits none.                     *)
SearchRow(x) ==
    LET found == Candidates(x) IN
    /\ webhook[x] = "searching"
    /\ found # {} => NoWebhookOpen
    /\ \A r \in found : settling[r] = None
    /\ \/ found = {} /\ Delivery(x, "acknowledged") /\ UNCHANGED <<moneyVars, rowsVars>>
       \/ \E r \in found :
             /\ found = {r} /\ UNCHANGED moneyVars
             /\ \/ Unlinked(r, x) /\ BeginSettlement(r, x, Webhook) /\ Delivery(x, "settling")
                \/ ~Unlinked(r, x) /\ Delivery(x, "none") /\ UNCHANGED rowsVars
       \/ /\ Cardinality(found) > 1
          /\ Retire(found, "manual_review") /\ UNCHANGED providerId
          /\ Delivery(x, "acknowledged")
    /\ UNCHANGED <<squareVars, workerVars>>

WebhookCommits(r) ==
    /\ settling[r] # None /\ settling[r].by = Webhook
    /\ CommitSettlement(r)
    /\ Delivery(settling[r].refund, "acknowledged")
    /\ UNCHANGED <<squareVars, workerVars>>

(* The delivery fails and is answered 503: Square will deliver again.      *)
WebhookFails(x) ==
    /\ webhook[x] \in {"searching", "settling"}
    /\ settling' = [r \in Refunds |->
                      IF settling[r] # None /\ settling[r].by = Webhook /\ settling[r].refund = x
                      THEN None ELSE settling[r]]
    /\ Delivery(x, "none")
    /\ UNCHANGED <<moneyVars, row, status, providerId, leaseVars, squareVars, workerVars>>

-----------------------------------------------------------------------------
(* Square, external.                                                       *)

LateRefund(r) ==
    /\ inflight[r]
    /\ inflight' = [inflight EXCEPT ![r] = FALSE]
    /\ \E verdict \in Verdicts(r) : square' = [square EXCEPT ![r] = verdict]
    /\ UNCHANGED <<moneyVars, rowsVars, webhook, workerVars>>

SquareSettles(x) ==
    /\ square[x] = "PENDING"
    /\ \E verdict \in {"COMPLETED", "FAILED"} : square' = [square EXCEPT ![x] = verdict]
    /\ UNCHANGED <<moneyVars, rowsVars, inflight, webhook, workerVars>>

DashboardRefund(x) ==
    /\ square[x] = "none" /\ SquareRoom(x)
    /\ square' = [square EXCEPT ![x] = "COMPLETED"]
    /\ UNCHANGED <<moneyVars, rowsVars, inflight, webhook, workerVars>>

Next ==
    \/ LateCapture \/ queueProductOrderRefundAllocations \/ OrderQuarantined
    \/ \E w \in Workers : WorkerStep(w) \/ \E r \in Refunds : DrainPick(w, r)
    \/ \E r \in Refunds : LeaseExpires(r) \/ WebhookCommits(r) \/ LateRefund(r)
    \/ \E x \in Ids : RefundUpdated(x) \/ SearchRow(x) \/ WebhookFails(x) \/ SquareSettles(x)
    \/ \E x \in Dashboard : DashboardRefund(x)

Spec == Init /\ [][Next]_vars

(* The cron runs every minute and not every run dies; leases run out;      *)
(* Square delivers an event until it is acknowledged, and not every        *)
(* delivery fails.                                                         *)
Fairness ==
    /\ \A w \in Workers : WF_vars(WorkerStep(w))
    /\ \A r \in Refunds :
          /\ SF_vars(\E w \in Workers : DrainPick(w, r))
          /\ SF_vars(\E w \in Workers : job[w] = r /\ (Claim(w) \/ Reap(w) \/ Park(w)))
          /\ WF_vars(LeaseExpires(r))
          /\ SF_vars(WebhookCommits(r))
    /\ \A x \in Ids :
          /\ WF_vars(RefundUpdated(x) /\ webhook[x] = "none")
          /\ SF_vars(SearchRow(x))

FairSpec == Spec /\ Fairness

-----------------------------------------------------------------------------
(* PROPERTIES                                                              *)

(* However refunds, reviews and webhooks interleave, the rows of a         *)
(* component never reserve more than was captured for it                   *)
(* (queueProductOrderRefundAllocationsInTransaction).                      *)
NeverOverReserved == \A k \in Components : Amount(RowsOf(k)) <= Captured[k]

(* A row that says succeeded stands for a refund Square completed, of its  *)
(* amount, and no two rows stand for the same one: the worker, the match   *)
(* by id and the match by amount agree (reconcileProductOrderRefund).      *)
SucceededWasRefunded ==
    \A r \in Rows : status[r] = "succeeded" =>
        /\ providerId[r] # None
        /\ square[providerId[r]] = "COMPLETED" /\ Cents[providerId[r]] = row[r].amount
        /\ \A s \in Rows \ {r} : providerId[s] # providerId[r]

(* The order says refunded only when Square has returned all its money     *)
(* (updateRefundedFinancialState).                                         *)
RefundedMeansReturned ==
    order = "refunded" \/ oblig = "refunded" =>
        Sum(Cents, {x \in Ids : square[x] = "COMPLETED"}) = Total

(* Square is asked once per row: a worker gets to call it only for a row   *)
(* Square never heard of and no other worker is calling for.               *)
NoResubmission ==
    [][\A w \in Workers : at[w] # "calling" /\ at'[w] = "calling" =>
          /\ square[job[w]] = "none" /\ ~inflight[job[w]]
          /\ \A v \in Workers : at[v] \in {"calling", "completing"} => job[v] # job[w]]_vars

(* What was settled, or left to a human, no late worker or webhook         *)
(* changes.                                                                *)
DecidedStays ==
    [][\A r \in Refunds : status[r] \in {"succeeded", "manual_review"} =>
          status'[r] = status[r] /\ providerId'[r] = providerId[r]]_vars

(* No reserved refund stays with the workers for ever.                     *)
RefundsEnd ==
    \A r \in Refunds : status[r] \in {"queued", "processing"} ~>
        status[r] \in {"succeeded", "outcome_unknown", "manual_review"}

(* A refund Square completed ends settled or before a human, whatever      *)
(* became of the worker that asked for it.                                 *)
ConfirmedSettles ==
    \A r \in Refunds : square[r] = "COMPLETED" ~>
        status[r] \in {"succeeded", "manual_review"} \/ quarantined

(* "let the refund.updated webhook settle it to succeeded"                 *)
(* (customer-refunds.ts, a PENDING refund): a pending row with its id      *)
(* whose refund Square completes ends succeeded.                           *)
PendingSettles ==
    \A r \in Refunds :
        status[r] = "outcome_unknown" /\ providerId[r] = r /\ square[r] = "COMPLETED"
            ~> status[r] = "succeeded" \/ quarantined

(* Once every capture is returned the order says so                        *)
(* (updateRefundedFinancialState).                                         *)
AllReturnedShows ==
    /\ order = "paid"
    /\ \A r \in Refunds : settling[r] = None
    => Amount({r \in Rows : status[r] = "succeeded"}) < Total
=============================================================================
