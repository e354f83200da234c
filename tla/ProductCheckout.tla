--------------------------- MODULE ProductCheckout ---------------------------
(***************************************************************************)
(* Product orders from reservation to payment: concurrent checkout         *)
(* requests, the charge core that authorises, records and captures the     *)
(* Square payment, the abandoned-order sweep, the capture reconciliation,  *)
(* the Square webhook, the staff actions on manually fulfilled orders, and *)
(* the stock ledger (ProductStock) and shipping quote they all touch.      *)
(*                                                                         *)
(* One database transaction is one action: it locks the order row FOR      *)
(* UPDATE before it reads what it decides on.  Everything a handler awaits *)
(* between two transactions or provider calls is a separate action, so     *)
(* every interleaving of two requests, a cron run and a webhook is there.  *)
(* Square is external: one payment per order, because the idempotency key  *)
(* square-primary/<orderId> names it.                                      *)
(***************************************************************************)
EXTENDS ProductStock

CONSTANTS
    Requests,   \* checkout POSTs
    OrderOf,    \* the order a request reserves: its own, or for a manual
                \* order the one its reservation key derives
    Manual,     \* orders fulfilled by hand (studio pickup)
    Quotes,     \* shipping quotes, rows of product_shipments
    QuoteOf,    \* the quote an automated order is placed against
    NoOrder,
    SellerCaptures  \* TRUE: the seller may complete an authorised payment
                    \* outside this program (Square Dashboard)

Automated == Orders \ Manual

ASSUME RequestsAssumption == OrderOf \in [Requests -> Orders]
ASSUME FreshOrderAssumption ==
    \A r, s \in Requests : r # s /\ OrderOf[r] = OrderOf[s] => OrderOf[r] \in Manual
ASSUME ManualAssumption == Manual \subseteq Orders
ASSUME QuotesAssumption == QuoteOf \in [Automated -> Quotes] /\ NoOrder \notin Orders
ASSUME SellerAssumption == SellerCaptures \in BOOLEAN

VARIABLES
    status,      \* checkout_orders.status, "none" before the row exists
    oblig,       \* status of the primary order_payment_obligations row
    manual,      \* checkout_orders.manualFulfillmentStatus
    provider,    \* checkout_orders.providerStatus
    quarantined, \* checkout_orders.fulfillmentQuarantinedAt is set
    ledger,      \* order_payment_transactions row for the payment of the order
    refund,      \* product_order_refunds reserved for the order
    shipStatus,  \* product_shipments.status
    shipOrder,   \* product_shipments.orderId
    pay,         \* the payment Square holds for the order
    inflight,    \* a create-payment call Square has not processed yet
    pc,          \* where each checkout request is
    leaseOver,   \* the obligation expired more than the grace ago
    sweep,       \* the abandoned-order sweep's progress on an order
    recon        \* the capture reconciliation's progress on an order

rowVars == <<status, oblig, manual, provider, quarantined, ledger, refund>>
shipVars == <<shipStatus, shipOrder>>
vars == <<stockVars, rowVars, shipVars, pay, inflight, pc, leaseOver, sweep, recon>>

Over == {"ok", "failed", "rejected", "crashed"}
Phases == {"idle", "reserved", "authorized", "voiding", "failing",
           "capturing", "marking"} \cup Over

TypeOK ==
    /\ StockTypeOK
    /\ status \in [Orders -> {"none", "pending", "paid", "verification_failed", "cancelled"}]
    /\ oblig \in [Orders -> {"none", "pending", "paid", "cancelled"}]
    /\ manual \in [Orders -> {"none", "payment_pending", "paid_pending_dispatch",
                              "dispatched", "cancelled"}]
    /\ provider \in [Orders -> {"none", "APPROVED", "COMPLETED", "UNCOLLECTED"}]
    /\ quarantined \in [Orders -> BOOLEAN]
    /\ ledger \in [Orders -> {"none", "applied", "late"}]
    /\ refund \in [Orders -> {"none", "queued"}]
    /\ shipStatus \in [Quotes -> {"quoted", "payment_pending", "ready_for_staff",
                                  "purchase_pending", "label_ready", "in_transit",
                                  "manual_review", "abandoned"}]
    /\ shipOrder \in [Quotes -> Orders \cup {NoOrder}]
    /\ pay \in [Orders -> {"none", "APPROVED", "COMPLETED", "CANCELED"}]
    /\ inflight \in [Orders -> BOOLEAN]
    /\ pc \in [Requests -> Phases]
    /\ leaseOver \in [Orders -> BOOLEAN]
    /\ sweep \in [Orders -> {"idle", "candidate", "unclaimed"}]
    /\ recon \in [Orders -> {"idle", "found", "APPROVED", "COMPLETED", "CANCELED"}]

Init ==
    /\ StockInit
    /\ status = [o \in Orders |-> "none"]
    /\ oblig = [o \in Orders |-> "none"]
    /\ manual = [o \in Orders |-> "none"]
    /\ provider = [o \in Orders |-> "none"]
    /\ quarantined = [o \in Orders |-> FALSE]
    /\ ledger = [o \in Orders |-> "none"]
    /\ refund = [o \in Orders |-> "none"]
    /\ shipStatus = [q \in Quotes |-> "quoted"]
    /\ shipOrder = [q \in Quotes |-> NoOrder]
    /\ pay = [o \in Orders |-> "none"]
    /\ inflight = [o \in Orders |-> FALSE]
    /\ pc = [r \in Requests |-> "idle"]
    /\ leaseOver = [o \in Orders |-> FALSE]
    /\ sweep = [o \in Orders |-> "idle"]
    /\ recon = [o \in Orders |-> "idle"]

-----------------------------------------------------------------------------
(* Transactions on an order, used by the processes below.                  *)

createInitializingManualProductOrder(o) ==
    /\ o \in Manual
    /\ status[o] = "none"
    /\ manual' = [manual EXCEPT ![o] = "payment_pending"]
    /\ UNCHANGED shipVars

(* Mutant: does not look whether the quote is spent already.               *)
createOrderOnSpentQuote(o) ==
    /\ o \in Automated
    /\ status[o] = "none"
    /\ shipStatus' = [shipStatus EXCEPT ![QuoteOf[o]] = "payment_pending"]
    /\ shipOrder' = [shipOrder EXCEPT ![QuoteOf[o]] = o]
    /\ UNCHANGED manual

(* The quote row must still be `quoted` and unbound.                       *)
createInitializingProductOrder(o) ==
    /\ o \in Automated
    /\ status[o] = "none"
    /\ shipStatus[QuoteOf[o]] = "quoted"
    /\ shipOrder[QuoteOf[o]] = NoOrder
    /\ shipStatus' = [shipStatus EXCEPT ![QuoteOf[o]] = "payment_pending"]
    /\ shipOrder' = [shipOrder EXCEPT ![QuoteOf[o]] = o]
    /\ UNCHANGED manual

createOrder(o) ==
    /\ createInitializingManualProductOrder(o) \/ createInitializingProductOrder(o)
    /\ reserveProductStock(o)
    /\ status' = [status EXCEPT ![o] = "pending"]
    /\ oblig' = [oblig EXCEPT ![o] = "pending"]
    /\ UNCHANGED <<provider, quarantined, ledger, refund>>

(* Mutant: fails an order in any state.                                    *)
markAnyOrderFailed(o) ==
    /\ status' = [status EXCEPT ![o] = "verification_failed"]
    /\ releaseProductStock(o)
    /\ UNCHANGED <<shipVars, oblig, manual, provider, quarantined, ledger, refund>>

(* Mutant: forgets the stock.                                              *)
markFailedKeepingStock(o) ==
    /\ status' = IF status[o] = "pending"
                 THEN [status EXCEPT ![o] = "verification_failed"] ELSE status
    /\ UNCHANGED <<stockVars, shipVars, oblig, manual, provider, quarantined, ledger, refund>>

(* Releases the hold and re-opens the quote; the obligation stays pending. *)
(* A no-op once the order left `pending`.                                  *)
markOrderVerificationFailed(o) ==
    IF status[o] = "pending"
    THEN /\ releaseProductStock(o)
         /\ status' = [status EXCEPT ![o] = "verification_failed"]
         /\ IF o \in Automated /\ shipOrder[QuoteOf[o]] = o
                 /\ shipStatus[QuoteOf[o]] = "payment_pending"
            THEN /\ shipStatus' = [shipStatus EXCEPT ![QuoteOf[o]] = "quoted"]
                 /\ shipOrder' = [shipOrder EXCEPT ![QuoteOf[o]] = NoOrder]
            ELSE UNCHANGED shipVars
         /\ UNCHANGED <<oblig, manual, provider, quarantined, ledger, refund>>
    ELSE UNCHANGED <<stockVars, rowVars, shipVars>>

-----------------------------------------------------------------------------
(* The money-ledger writer.                                                *)

isTerminalPrimaryLateCapture(o) == status[o] = "cancelled" \/ oblig[o] = "cancelled"

(* What activation accepts: a shipment bound to the order that is waiting  *)
(* for payment or, on a replay, in one of the listed later states.         *)
ActivationConverges(o) ==
    o \in Automated =>
        /\ shipOrder[QuoteOf[o]] = o
        /\ shipStatus[QuoteOf[o]] \in {"payment_pending", "ready_for_staff", "in_transit"}

activateShipmentForPaidOrder(o) ==
    /\ shipStatus' = IF o \in Automated /\ shipStatus[QuoteOf[o]] = "payment_pending"
                     THEN [shipStatus EXCEPT ![QuoteOf[o]] = "ready_for_staff"]
                     ELSE shipStatus
    /\ UNCHANGED shipOrder

finalizeOutcome(o, paymentStatus) ==
    CASE quarantined[o] -> "not_found"
      [] ~quarantined[o] /\ ledger[o] # "none" ->
            IF status[o] = "paid" /\ oblig[o] = "paid"
            THEN IF ActivationConverges(o) THEN "already_applied" ELSE "throws"
            ELSE IF isTerminalPrimaryLateCapture(o) THEN "already_applied"
                                                    ELSE "state_conflict"
      [] ~quarantined[o] /\ ledger[o] = "none" ->
            IF status[o] = "pending" /\ oblig[o] = "pending"
            THEN IF ActivationConverges(o) THEN "applied" ELSE "throws"
            ELSE IF paymentStatus = "COMPLETED" /\ isTerminalPrimaryLateCapture(o)
                 THEN "late_capture_refunded" ELSE "state_conflict"

applyPayment(o, paymentStatus) ==
    /\ ledger' = [ledger EXCEPT ![o] = "applied"]
    /\ oblig' = [oblig EXCEPT ![o] = "paid"]
    /\ status' = [status EXCEPT ![o] = "paid"]
    /\ provider' = [provider EXCEPT ![o] = paymentStatus]
    /\ manual' = [manual EXCEPT ![o] = IF @ = "payment_pending"
                                       THEN "paid_pending_dispatch" ELSE @]
    /\ commitProductStock(o)
    /\ activateShipmentForPaidOrder(o)
    /\ UNCHANGED <<quarantined, refund>>

(* Mutant: records the late money and reserves no refund.                  *)
recordLateCapture(o) ==
    /\ ledger' = [ledger EXCEPT ![o] = "late"]
    /\ UNCHANGED <<stockVars, shipVars, status, oblig, manual, provider, quarantined, refund>>

reserveLateCaptureRefund(o) ==
    /\ ledger' = [ledger EXCEPT ![o] = "late"]
    /\ refund' = [refund EXCEPT ![o] = "queued"]
    /\ UNCHANGED <<stockVars, shipVars, status, oblig, manual, provider, quarantined>>

finalizeSquareProductPayment(o, paymentStatus) ==
    CASE finalizeOutcome(o, paymentStatus) = "applied" -> applyPayment(o, paymentStatus)
      [] finalizeOutcome(o, paymentStatus) = "late_capture_refunded" ->
            reserveLateCaptureRefund(o)
      [] finalizeOutcome(o, paymentStatus) = "already_applied" /\ status[o] = "paid" ->
            activateShipmentForPaidOrder(o) /\ UNCHANGED <<stockVars, rowVars>>
      [] OTHER -> UNCHANGED <<stockVars, rowVars, shipVars>>

-----------------------------------------------------------------------------
(* A checkout request.                                                     *)

Goto(r, phase) == pc' = [pc EXCEPT ![r] = phase]

background == <<leaseOver, sweep, recon>>
square == <<pay, inflight>>

(* Reserve a fresh order, or reuse the one the reservation key names,      *)
(* whatever became of it.                                                  *)
ReserveOrder(r) ==
    /\ pc[r] = "idle"
    /\ Goto(r, "reserved")
    /\ \/ createOrder(OrderOf[r])
       \/ /\ OrderOf[r] \in Manual
          /\ status[OrderOf[r]] # "none"
          /\ UNCHANGED <<stockVars, rowVars, shipVars>>
    /\ UNCHANGED <<square, background>>

(* Validation, an expired quote or a shortfall: nothing was reserved.      *)
RejectCheckout(r) ==
    /\ pc[r] = "idle"
    /\ Goto(r, "rejected")
    /\ UNCHANGED <<stockVars, rowVars, shipVars, square, background>>

(* The charge is refused before Square is called (Afterpay eligibility).   *)
ChargeIneligible(r) ==
    /\ pc[r] = "reserved"
    /\ Goto(r, "failing")
    /\ UNCHANGED <<stockVars, rowVars, shipVars, square, background>>

(* Square answers the create-payment call.  A first call creates the hold; *)
(* a repeated key answers with the original authorisation or with the      *)
(* payment's present state.  A reply that is not APPROVED, or of the wrong *)
(* amount or method, goes to the void.                                     *)
AuthorizeReplied(r) ==
    LET o == OrderOf[r] IN
    /\ pc[r] = "reserved"
    /\ pay' = [pay EXCEPT ![o] = IF @ = "none" THEN "APPROVED" ELSE @]
    /\ Goto(r, "authorized") \/ Goto(r, "voiding")
    /\ UNCHANGED <<stockVars, rowVars, shipVars, inflight, background>>

(* The call fails: declined, refused, or lost - and then Square may still  *)
(* process it later.                                                       *)
AuthorizeFailed(r) ==
    LET o == OrderOf[r] IN
    /\ pc[r] = "reserved"
    /\ Goto(r, "voiding")
    /\ \E lost \in BOOLEAN :
          inflight' = [inflight EXCEPT ![o] = @ \/ (lost /\ pay[o] = "none")]
    /\ UNCHANGED <<stockVars, rowVars, shipVars, pay, background>>

(* Mutant: captures whatever the finalizer answered.                       *)
FinalizeIgnoringOutcome(r) ==
    /\ pc[r] = "authorized"
    /\ finalizeSquareProductPayment(OrderOf[r], "APPROVED")
    /\ Goto(r, "capturing")
    /\ UNCHANGED <<square, background>>

(* Record the money before capturing it.                                   *)
FinalizeCharge(r) ==
    LET o == OrderOf[r]
        outcome == finalizeOutcome(o, "APPROVED")
    IN
    /\ pc[r] = "authorized"
    /\ finalizeSquareProductPayment(o, "APPROVED")
    /\ Goto(r, CASE outcome = "applied" -> "capturing"
                 [] outcome = "already_applied" -> "ok"
                 [] OTHER -> "voiding")
    /\ UNCHANGED <<square, background>>

(* The transaction's outcome does not reach the handler: it throws, having *)
(* committed or not.                                                       *)
FinalizeUnanswered(r) ==
    /\ pc[r] = "authorized"
    /\ \/ finalizeSquareProductPayment(OrderOf[r], "APPROVED")
       \/ UNCHANGED <<stockVars, rowVars, shipVars>>
    /\ Goto(r, "voiding")
    /\ UNCHANGED <<square, background>>

(* Mutant: marks the order captured although the capture failed.           *)
CaptureMarkingFailures(r) ==
    LET o == OrderOf[r] IN
    /\ pc[r] = "capturing"
    /\ \/ pay[o] = "APPROVED" /\ pay' = [pay EXCEPT ![o] = "COMPLETED"]
       \/ UNCHANGED pay
    /\ Goto(r, "marking")
    /\ UNCHANGED <<stockVars, rowVars, shipVars, inflight, background>>

(* Only an authorised payment can be completed; the answer may be lost.    *)
CaptureCharge(r) ==
    LET o == OrderOf[r] IN
    /\ pc[r] = "capturing"
    /\ \/ /\ pay[o] = "APPROVED"
          /\ pay' = [pay EXCEPT ![o] = "COMPLETED"]
          /\ Goto(r, "marking") \/ Goto(r, "ok")
       \/ UNCHANGED pay /\ Goto(r, "ok")
    /\ UNCHANGED <<stockVars, rowVars, shipVars, inflight, background>>

markSquareCommerceOrderCaptured(o) ==
    /\ provider' = IF status[o] = "paid" THEN [provider EXCEPT ![o] = "COMPLETED"]
                                         ELSE provider
    /\ UNCHANGED <<status, oblig, manual, quarantined, ledger, refund>>

MarkCaptured(r) ==
    /\ pc[r] = "marking"
    /\ markSquareCommerceOrderCaptured(OrderOf[r]) \/ UNCHANGED rowVars
    /\ Goto(r, "ok")
    /\ UNCHANGED <<stockVars, shipVars, square, background>>

(* Void by payment id or by idempotency key; a failure is swallowed.       *)
VoidCharge(r) ==
    LET o == OrderOf[r] IN
    /\ pc[r] = "voiding"
    /\ \/ pay[o] = "APPROVED" /\ pay' = [pay EXCEPT ![o] = "CANCELED"]
       \/ UNCHANGED pay
    /\ Goto(r, "failing")
    /\ UNCHANGED <<stockVars, rowVars, shipVars, inflight, background>>

(* The handler unwinds the reservation; its own failure is swallowed.      *)
FailCheckout(r) ==
    /\ pc[r] = "failing"
    /\ \/ markOrderVerificationFailed(OrderOf[r])
       \/ UNCHANGED <<stockVars, rowVars, shipVars>>
    /\ Goto(r, "failed")
    /\ UNCHANGED <<square, background>>

(* The serverless function dies between two awaited steps.                 *)
Crash(r) ==
    /\ pc[r] \notin Over \cup {"idle"}
    /\ Goto(r, "crashed")
    /\ UNCHANGED <<stockVars, rowVars, shipVars, square, background>>

RequestStep(r) ==
    \/ ReserveOrder(r) \/ RejectCheckout(r) \/ ChargeIneligible(r)
    \/ AuthorizeReplied(r) \/ AuthorizeFailed(r)
    \/ FinalizeCharge(r) \/ FinalizeUnanswered(r)
    \/ CaptureCharge(r) \/ MarkCaptured(r)
    \/ VoidCharge(r) \/ FailCheckout(r) \/ Crash(r)

-----------------------------------------------------------------------------
(* Square, as the code meets it (external).                                *)

LateAuthorization(o) ==
    /\ inflight[o]
    /\ inflight' = [inflight EXCEPT ![o] = FALSE]
    /\ \/ pay[o] = "none" /\ pay' = [pay EXCEPT ![o] = "APPROVED"]
       \/ UNCHANGED pay
    /\ UNCHANGED <<stockVars, rowVars, shipVars, pc, background>>

(* An authorisation nobody captures is cancelled after its delay.          *)
AuthorizationLapses(o) ==
    /\ pay[o] = "APPROVED"
    /\ pay' = [pay EXCEPT ![o] = "CANCELED"]
    /\ UNCHANGED <<stockVars, rowVars, shipVars, inflight, pc, background>>

SellerCompletes(o) ==
    /\ SellerCaptures
    /\ pay[o] = "APPROVED"
    /\ pay' = [pay EXCEPT ![o] = "COMPLETED"]
    /\ UNCHANGED <<stockVars, rowVars, shipVars, inflight, pc, background>>

(* payment.updated for a completed payment: late, repeated or never.       *)
WebhookCompleted(o) ==
    /\ pay[o] = "COMPLETED"
    /\ finalizeSquareProductPayment(o, "COMPLETED")
    /\ UNCHANGED <<square, pc, background>>

-----------------------------------------------------------------------------
(* The abandoned-order sweep: scan, ask Square, then cancel under lock.    *)

LeaseElapses(o) ==
    /\ status[o] # "none" /\ ~leaseOver[o]
    /\ leaseOver' = [leaseOver EXCEPT ![o] = TRUE]
    /\ UNCHANGED <<stockVars, rowVars, shipVars, square, pc, sweep, recon>>

SweepGoto(o, phase) ==
    /\ sweep' = [sweep EXCEPT ![o] = phase]
    /\ UNCHANGED <<square, pc, leaseOver, recon>>

SweepScan(o) ==
    /\ sweep[o] = "idle"
    /\ status[o] = "pending" /\ oblig[o] = "pending" /\ leaseOver[o]
    /\ SweepGoto(o, "candidate")
    /\ UNCHANGED <<stockVars, rowVars, shipVars>>

(* Mutant: a cancelled payment still counts as a claim on the funds.       *)
verifyCountingCanceled(o) ==
    CASE pay[o] = "COMPLETED" -> "captured"
      [] pay[o] \in {"APPROVED", "CANCELED"} -> "authorized"
      [] OTHER -> "absent"

verifySquareCommercePayment(o) ==
    CASE pay[o] = "COMPLETED" -> "captured"
      [] pay[o] = "APPROVED" -> "authorized"
      [] OTHER -> "absent"

SweepVerify(o) ==
    /\ sweep[o] = "candidate"
    /\ SweepGoto(o, IF verifySquareCommercePayment(o) = "absent"
                    THEN "unclaimed" ELSE "idle")
    /\ UNCHANGED <<stockVars, rowVars, shipVars>>

(* A lookup that fails, or misses the payment, counts as absent.           *)
SweepUnverified(o) ==
    /\ sweep[o] = "candidate"
    /\ SweepGoto(o, "unclaimed")
    /\ UNCHANGED <<stockVars, rowVars, shipVars>>

(* Mutant: trusts the scan and does not look again under the lock.         *)
releaseScannedOrder(o) ==
    /\ releaseProductStock(o)
    /\ oblig' = [oblig EXCEPT ![o] = "cancelled"]
    /\ status' = [status EXCEPT ![o] = "cancelled"]
    /\ UNCHANGED <<manual, provider, quarantined, ledger, refund, shipVars>>

releaseAbandonedOrder(o) ==
    IF status[o] = "pending" /\ oblig[o] = "pending" /\ ledger[o] = "none"
    THEN /\ releaseProductStock(o)
         /\ oblig' = [oblig EXCEPT ![o] = "cancelled"]
         /\ status' = [status EXCEPT ![o] = "cancelled"]
         /\ shipStatus' =
               IF o \in Automated /\ shipOrder[QuoteOf[o]] = o
                    /\ shipStatus[QuoteOf[o]] = "payment_pending"
               THEN [shipStatus EXCEPT ![QuoteOf[o]] = "abandoned"]
               ELSE shipStatus
         /\ UNCHANGED <<manual, provider, quarantined, ledger, refund, shipOrder>>
    ELSE UNCHANGED <<stockVars, rowVars, shipVars>>

SweepRelease(o) ==
    /\ sweep[o] = "unclaimed"
    /\ releaseAbandonedOrder(o)
    /\ SweepGoto(o, "idle")

(* The transaction fails or the cron run dies: the next run starts over.   *)
SweepAborts(o) ==
    /\ sweep[o] # "idle"
    /\ SweepGoto(o, "idle")
    /\ UNCHANGED <<stockVars, rowVars, shipVars>>

SweepStep(o) ==
    \/ SweepScan(o) \/ SweepVerify(o) \/ SweepUnverified(o)
    \/ SweepRelease(o) \/ SweepAborts(o)

-----------------------------------------------------------------------------
(* The capture reconciliation: find, read the payment, complete or flag.   *)

ReconGoto(o, phase) ==
    /\ recon' = [recon EXCEPT ![o] = phase]
    /\ UNCHANGED <<inflight, pc, leaseOver, sweep>>

(* Mutant: passes over orders whose authorisation was recorded.            *)
findUnrecordedOrders ==
    {o \in Orders : status[o] = "paid" /\ provider[o] = "none"}

findUncapturedSquareCommerceOrders ==
    {o \in Orders : status[o] = "paid" /\ provider[o] \notin {"COMPLETED", "UNCOLLECTED"}}

ReconScan(o) ==
    /\ recon[o] = "idle"
    /\ o \in findUncapturedSquareCommerceOrders
    /\ ReconGoto(o, "found")
    /\ UNCHANGED <<stockVars, rowVars, shipVars, pay>>

ReconRead(o) ==
    /\ recon[o] = "found"
    /\ pay[o] # "none"
    /\ ReconGoto(o, pay[o])
    /\ UNCHANGED <<stockVars, rowVars, shipVars, pay>>

ReconComplete(o) ==
    /\ recon[o] = "APPROVED"
    /\ pay[o] = "APPROVED"
    /\ pay' = [pay EXCEPT ![o] = "COMPLETED"]
    /\ ReconGoto(o, "COMPLETED") \/ ReconGoto(o, "idle")
    /\ UNCHANGED <<stockVars, rowVars, shipVars>>

ReconMark(o) ==
    /\ recon[o] = "COMPLETED"
    /\ markSquareCommerceOrderCaptured(o)
    /\ ReconGoto(o, "idle")
    /\ UNCHANGED <<stockVars, shipVars, pay>>

(* Mutant: leaves the order open for fulfilment.                           *)
markUncollectedOnly(o) ==
    /\ provider' = IF status[o] = "paid" THEN [provider EXCEPT ![o] = "UNCOLLECTED"]
                                         ELSE provider
    /\ UNCHANGED <<shipVars, status, oblig, manual, quarantined, ledger, refund>>

(* Mutant: quarantines the order but not its shipment.                     *)
markUncollectedUnheld(o) ==
    /\ provider' = [provider EXCEPT ![o] = "UNCOLLECTED"]
    /\ quarantined' = [quarantined EXCEPT ![o] = TRUE]
    /\ UNCHANGED <<shipVars, status, oblig, manual, ledger, refund>>

(* Quarantine, hold a shipment that is not dispatched yet, alert staff.    *)
markSquareCommerceOrderUncollected(o) ==
    IF status[o] = "paid"
    THEN /\ provider' = [provider EXCEPT ![o] = "UNCOLLECTED"]
         /\ quarantined' = [quarantined EXCEPT ![o] = TRUE]
         /\ shipStatus' =
               IF /\ ~quarantined[o] /\ o \in Automated
                  /\ shipStatus[QuoteOf[o]] \in {"ready_for_staff", "payment_pending"}
               THEN [shipStatus EXCEPT ![QuoteOf[o]] = "manual_review"]
               ELSE shipStatus
         /\ UNCHANGED <<status, oblig, manual, ledger, refund, shipOrder>>
    ELSE UNCHANGED <<rowVars, shipVars>>

ReconUncollected(o) ==
    /\ recon[o] = "CANCELED"
    /\ markSquareCommerceOrderUncollected(o)
    /\ ReconGoto(o, "idle")
    /\ UNCHANGED <<stockVars, pay>>

ReconFails(o) ==
    /\ recon[o] # "idle"
    /\ ReconGoto(o, "idle")
    /\ UNCHANGED <<stockVars, rowVars, shipVars, pay>>

ReconStep(o) ==
    \/ ReconScan(o) \/ ReconRead(o) \/ ReconComplete(o)
    \/ ReconMark(o) \/ ReconUncollected(o) \/ ReconFails(o)

-----------------------------------------------------------------------------
(* Staff, and the part of the shipping component that moves a shipment on. *)

staffUnchanged == <<square, pc, background>>

manualFulfillmentOpen(o) ==
    o \in Manual /\ status[o] # "none" /\ manual[o] \notin {"cancelled", "dispatched"}

PickupComplete(o) ==
    /\ manualFulfillmentOpen(o)
    /\ status[o] = "paid"
    /\ manual' = [manual EXCEPT ![o] = "dispatched"]
    /\ oblig' = [oblig EXCEPT ![o] = IF @ = "pending" THEN "cancelled" ELSE @]
    /\ UNCHANGED <<stockVars, shipVars, staffUnchanged, status, provider, quarantined,
                   ledger, refund>>

(* A paid order keeps its status and gets its refund queued, which a       *)
(* quarantined order is refused; any other order is cancelled outright.    *)
ApproveCancellation(o) ==
    /\ manualFulfillmentOpen(o)
    /\ manual' = [manual EXCEPT ![o] = "cancelled"]
    /\ oblig' = [oblig EXCEPT ![o] = IF @ = "pending" THEN "cancelled" ELSE @]
    /\ \/ /\ status[o] = "paid" /\ ~quarantined[o]
          /\ refund' = [refund EXCEPT ![o] = "queued"]
          /\ UNCHANGED status
       \/ /\ status[o] # "paid"
          /\ status' = [status EXCEPT ![o] = "cancelled"]
          /\ UNCHANGED refund
    /\ UNCHANGED <<stockVars, shipVars, staffUnchanged, provider, quarantined, ledger>>

enqueuePurchaseOperationForOrder(o) ==
    /\ o \in Automated
    /\ status[o] = "paid" /\ ~quarantined[o]
    /\ shipOrder[QuoteOf[o]] = o
    /\ shipStatus[QuoteOf[o]] = "ready_for_staff"
    /\ shipStatus' = [shipStatus EXCEPT ![QuoteOf[o]] = "purchase_pending"]
    /\ UNCHANGED <<stockVars, rowVars, shipOrder, staffUnchanged>>

ShipmentAdvances(q) ==
    /\ \/ /\ shipStatus[q] = "purchase_pending"
          /\ \E s \in {"label_ready", "in_transit", "manual_review"} :
                shipStatus' = [shipStatus EXCEPT ![q] = s]
       \/ /\ shipStatus[q] = "label_ready"
          /\ \E s \in {"in_transit", "manual_review"} :
                shipStatus' = [shipStatus EXCEPT ![q] = s]
    /\ UNCHANGED <<stockVars, rowVars, shipOrder, staffUnchanged>>

InventorySync(k) ==
    /\ applyTargets(k)
    /\ UNCHANGED <<rowVars, shipVars, staffUnchanged>>

-----------------------------------------------------------------------------
OrderStep(o) ==
    \/ LateAuthorization(o) \/ AuthorizationLapses(o) \/ SellerCompletes(o)
    \/ WebhookCompleted(o) \/ LeaseElapses(o) \/ SweepStep(o) \/ ReconStep(o)
    \/ PickupComplete(o) \/ ApproveCancellation(o)
    \/ enqueuePurchaseOperationForOrder(o)

Next ==
    \/ \E r \in Requests : RequestStep(r)
    \/ \E o \in Orders : OrderStep(o)
    \/ \E q \in Quotes : ShipmentAdvances(q)
    \/ \E k \in Items : InventorySync(k)

Spec == Init /\ [][Next]_vars

(* Requests end (the platform kills one that does not), timers fire, cron  *)
(* runs start again every few minutes, and their calls to Square and the   *)
(* database do not fail for ever; Square repeats a webhook until one gets  *)
(* through.  Nobody is obliged to open a checkout or to act as staff.      *)
Fairness ==
    /\ \A r \in Requests : WF_vars(pc[r] # "idle" /\ RequestStep(r))
    /\ \A o \in Orders :
          /\ WF_vars(LateAuthorization(o)) /\ WF_vars(AuthorizationLapses(o))
          /\ WF_vars(WebhookCompleted(o)) /\ WF_vars(LeaseElapses(o))
          /\ WF_vars(SweepStep(o)) /\ SF_vars(SweepVerify(o)) /\ SF_vars(SweepRelease(o))
          /\ WF_vars(ReconStep(o)) /\ SF_vars(ReconRead(o)) /\ SF_vars(ReconComplete(o))
          /\ SF_vars(ReconMark(o)) /\ SF_vars(ReconUncollected(o))

FairSpec == Spec /\ Fairness

-----------------------------------------------------------------------------
(* Stock never drifts from the order it is held for: held while pending,   *)
(* sold once paid, returned once the payment failed or the sweep cancelled *)
(* it.  A cancelled order has sold nothing.                                *)
StockFollowsOrder ==
    \A o \in Orders, k \in Items :
        "reserve" \in moves[o][k] =>
            CASE status[o] = "pending" -> k \in Unsettled(o)
              [] status[o] = "paid" -> "commit" \in moves[o][k]
              [] status[o] = "verification_failed" -> "release" \in moves[o][k]
              [] status[o] = "cancelled" -> "commit" \notin moves[o][k]
              [] OTHER -> FALSE

(* Three tables tell one story of the money: an order is paid exactly when *)
(* its obligation is and its ledger row was applied; a ledger row written  *)
(* late belongs to a cancelled order, and carries its refund with it.      *)
MoneyAgrees ==
    \A o \in Orders :
        /\ status[o] = "paid" <=> oblig[o] = "paid"
        /\ status[o] = "paid" <=> ledger[o] = "applied"
        /\ status[o] = "cancelled" <=> oblig[o] = "cancelled"
        /\ ledger[o] = "late" => status[o] = "cancelled" /\ refund[o] = "queued"

(* The program captures money only for an order recorded as paid, whatever *)
(* requests, cron runs and retries share its one Square payment.           *)
OnlyPaidOrdersCaptured ==
    \A o \in Orders : pay[o] = "COMPLETED" => status[o] = "paid"

(* A customer told `paid` owns a paid order, also when another request, a  *)
(* retry or the sweep worked on the same order.                            *)
OkMeansPaid == \A r \in Requests : pc[r] = "ok" => status[OrderOf[r]] = "paid"

(* What the order says of its payment is what Square did: COMPLETED only   *)
(* for captured funds, UNCOLLECTED - with the quarantine - only for an     *)
(* authorisation that is gone.                                             *)
ProviderTellsTruth ==
    \A o \in Orders :
        /\ provider[o] = "COMPLETED" => pay[o] = "COMPLETED"
        /\ provider[o] = "UNCOLLECTED" => pay[o] = "CANCELED"
        /\ quarantined[o] <=> provider[o] = "UNCOLLECTED"

(* A shipping quote is spent on one order at a time: open again after a    *)
(* failed payment, waiting while its order is pending, dispatchable only   *)
(* for the paid order it is bound to.                                      *)
QuoteFollowsOrder ==
    /\ \A q \in Quotes :
          LET o == shipOrder[q] IN
          CASE shipStatus[q] = "quoted" -> o = NoOrder
            [] shipStatus[q] = "payment_pending" -> o # NoOrder /\ status[o] = "pending"
            [] shipStatus[q] = "abandoned" -> o # NoOrder /\ status[o] = "cancelled"
            [] OTHER -> o # NoOrder /\ status[o] = "paid"
    /\ \A o \in Automated :
          status[o] \in {"pending", "paid"} => shipOrder[QuoteOf[o]] = o

(* An order whose funds were lost is not in the dispatch queue.            *)
UncollectedHeld ==
    \A o \in Automated :
        quarantined[o] => shipStatus[QuoteOf[o]] # "ready_for_staff"

(* The checkout implements the sale the shop promises (ProductSale).       *)
saleOf(o) ==
    CASE status[o] = "none" -> "none"
      [] status[o] = "pending" -> "open"
      [] status[o] = "paid" -> "sold"
      [] OTHER -> "closed"

fundsOf(o) ==
    CASE pay[o] = "none" -> "none"
      [] pay[o] = "APPROVED" -> "held"
      [] pay[o] = "COMPLETED" -> "collected"
      [] OTHER -> "gone"

handedOver(o) ==
    IF o \in Manual THEN manual[o] = "dispatched"
                    ELSE shipOrder[QuoteOf[o]] = o /\ shipStatus[QuoteOf[o]] = "in_transit"

Sale == INSTANCE ProductSale
            WITH sale <- [o \in Orders |-> saleOf(o)],
                 funds <- [o \in Orders |-> fundsOf(o)],
                 handed <- [o \in Orders |-> handedOver(o)]

(* An order is decided once - no late failure, second request, sweep or    *)
(* staff action takes a paid order back or re-opens one that ended - and   *)
(* money is collected and goods leave only for an order that was sold.     *)
ImplementsSale == Sale!SaleSpec

(* No order waits for ever with stock held: it is paid, fails or is swept, *)
(* whichever request died and whenever.                                    *)
PendingResolves ==
    \A o \in Orders : status[o] = "pending" ~> status[o] # "pending"

(* A paid order ends with its funds captured, or flagged as uncollected.   *)
PaidSettles ==
    \A o \in Orders :
        status[o] = "paid" ~> provider[o] \in {"COMPLETED", "UNCOLLECTED"}

(* Money that reaches a cancelled order, by the seller's hand or ahead of  *)
(* a crashed request's record, has its refund reserved.                    *)
LateCaptureRefunded ==
    \A o \in Orders :
        pay[o] = "COMPLETED" /\ status[o] = "cancelled" ~> refund[o] = "queued"

-----------------------------------------------------------------------------
(* What the code's comments say and its paths do not all keep.             *)

(* product-stock-store.ts: held stock goes back when the order fails, is    *)
(* abandoned or its lease expires, so no hold outlives its lease for ever. *)
HoldsEnd ==
    \A o \in Orders : leaseOver[o] /\ Unsettled(o) # {} ~> Unsettled(o) = {}

(* order-store.ts: the quarantine keeps staff from handing out goods for   *)
(* which no funds were collected.                                          *)
NothingHandedOverUncollected ==
    [][\A o \in Manual :
          quarantined[o] /\ manual'[o] = "dispatched" => manual[o] = "dispatched"]_vars

(* square-product-finalizer.ts: a replayed webhook for a paid order still  *)
(* converges, wherever its shipment has got to.                            *)
ReplayConverges ==
    \A o \in Orders :
        pay[o] = "COMPLETED" /\ status[o] = "paid" /\ ~quarantined[o]
            => finalizeOutcome(o, "COMPLETED") = "already_applied"
=============================================================================
