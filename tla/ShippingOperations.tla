-------------------------- MODULE ShippingOperations --------------------------
(***************************************************************************)
(* One shipment from its quote to its label, and the jobs the operation    *)
(* worker carries to Chit Chats.  A worker is an invocation and one of the *)
(* jobs it claimed; every await of the code ends an action.  Versions are  *)
(* modelled by who still knows the current one: current holds the jobs     *)
(* whose payload names the shipment's stateVersion, seen the workers that  *)
(* read it last; a bump empties both.  Chit Chats is external.             *)
(***************************************************************************)
EXTENDS Naturals, FiniteSets

CONSTANTS
    FlatRates,   \* whether the quote may be a flat rate: some of TRUE, FALSE
    Workers,     \* invocations of the operation worker
    Drafts,      \* shipments Chit Chats may create for this one
    Polls,       \* tracking jobs that may be open at a time
    MaxAttempts, \* MAX_SHIPMENT_OPERATION_ATTEMPTS
    MaxFaults,   \* bound on crashes, slow workers and failing calls
    None

ASSUME ShippingAssumption ==
    /\ MaxAttempts \in Nat \ {0} /\ MaxFaults \in Nat
    /\ IsFiniteSet(Drafts) /\ FlatRates \subseteq BOOLEAN
    /\ None \notin Workers \cup Drafts

VARIABLES
    status,      \* product_shipments.status
    order,       \* the order it is attached to: "none", its status, or "lost"
                 \* once it is not paid, not cleared or quarantined
    flatRate,    \* product_shipments.flatRate
    expired,     \* quoteExpiresAt has passed
    policyMoved, \* the policy version of the quote is not the configured one
    draft,       \* providerShipmentId
    lastEvent,   \* providerEventAt, as the rank of the event
    job,         \* product_shipment_jobs
    current,     \* jobs that expect the shipment's present version
    worker,      \* where each worker is and what it knows
    seen,        \* workers that know the shipment's present version
    carrier,     \* Chit Chats' shipments
    inflight,    \* calls nobody waits for that it may still process
    buys,        \* buy calls sent to it, up to 2
    faults

quoteVars == <<order, flatRate, expired, policyMoved>>
shipVars == <<status, draft, lastEvent, current, seen>>
carrierVars == <<carrier, inflight, buys>>
vars == <<quoteVars, shipVars, job, worker, carrierVars, faults>>

Cleanups == {"expiryCleanup", "draftCleanup"}
Mutating == {"create", "purchase", "refund"} \cup Cleanups
Jobs == Mutating \cup Polls

Purchased == {"label_ready", "travelling", "delivered"}
Statuses == {"none", "quote_pending", "quoted", "payment_pending", "ready_for_staff",
             "purchase_pending", "refund_pending", "voided", "abandoned",
             "manual_review"} \cup Purchased
CarrierStatuses == {"none", "unpaid", "requested", "failed", "ready", "travelling",
                    "delivered", "voided", "deleted"}
Places == {"idle", "claimed", "reading", "creating", "finding", "drafting", "quoting",
           "fencing", "reloading", "refreshing", "selecting", "choosing", "funding",
           "intending", "buying", "checking", "saving", "refunding", "deleting",
           "retrying", "failing", "marking", "burying", "completing"}

(* A poll is a job of its own kind; None stands for no job.                *)
ASSUME JobsAssumption == None \notin Jobs /\ Polls \cap Mutating = {}

NoJob == [state |-> "none", unknown |-> FALSE, attempts |-> 0, owner |-> None,
          leaseOver |-> FALSE]
Idle == [at |-> "idle", job |-> None, unknown |-> FALSE, saw |-> "none",
         draft |-> None, answer |-> "none", late |-> FALSE]

TypeOK ==
    /\ status \in Statuses
    /\ order \in {"none", "pending", "paid", "lost", "cancelled"}
    /\ flatRate \in BOOLEAN /\ expired \in BOOLEAN /\ policyMoved \in BOOLEAN
    /\ draft \in Drafts \cup {None}
    /\ lastEvent \in 0..5
    /\ job \in [Jobs -> [state : {"none", "queued", "processing", "retry", "done", "dead"},
                         unknown : BOOLEAN, attempts : 0..MaxAttempts,
                         owner : Workers \cup {None}, leaseOver : BOOLEAN]]
    /\ current \in SUBSET Jobs
    /\ worker \in [Workers -> [at : Places, job : Jobs \cup {None}, unknown : BOOLEAN,
                               saw : Statuses, draft : Drafts \cup {None},
                               answer : CarrierStatuses, late : BOOLEAN]]
    /\ seen \in SUBSET Workers
    /\ carrier \in [Drafts -> CarrierStatuses]
    /\ inflight \in SUBSET {"create", "buy", "refund", "delete"}
    /\ buys \in 0..2
    /\ faults \in 0..MaxFaults

Init ==
    /\ status = "none" /\ order = "none"
    /\ flatRate \in FlatRates /\ expired = FALSE /\ policyMoved = FALSE
    /\ draft = None /\ lastEvent = 0
    /\ job = [j \in Jobs |-> NoJob]
    /\ current = {}
    /\ worker = [w \in Workers |-> Idle]
    /\ seen = {}
    /\ carrier = [d \in Drafts |-> "none"]
    /\ inflight = {}
    /\ buys = 0
    /\ faults = 0

-----------------------------------------------------------------------------
(* The shipment's version.                                                 *)

(* The version is bumped; the jobs js and the workers ws know the new one. *)
Bump(js, ws) == current' = js /\ seen' = ws
Queue(j) == job' = [job EXCEPT ![j] = [NoJob EXCEPT !.state = "queued"]]
Fault == faults < MaxFaults /\ faults' = faults + 1

-----------------------------------------------------------------------------
(* The shop: quotes, the order, staff and the cron's enqueues.             *)

createQuoteOperation ==
    /\ status = "none" /\ ~flatRate
    /\ status' = "quote_pending"
    /\ Queue("create")
    /\ Bump({"create"}, {})
    /\ UNCHANGED <<quoteVars, draft, lastEvent, worker, carrierVars, faults>>

createFlatRateQuote ==
    /\ status = "none" /\ flatRate
    /\ status' = "quoted"
    /\ UNCHANGED <<quoteVars, draft, lastEvent, current, seen, job, worker, carrierVars, faults>>

(* Binding the quote, freeing it and the sweep leave the version.          *)
PlaceOrder ==
    /\ status = "quoted" /\ order = "none" /\ ~expired
    /\ status' = "payment_pending" /\ order' = "pending"
    /\ UNCHANGED <<flatRate, expired, policyMoved, draft, lastEvent, current, seen, job,
                   worker, carrierVars, faults>>

PaymentFails ==
    /\ order = "pending" /\ status = "payment_pending"
    /\ status' = "quoted" /\ order' = "none"
    /\ UNCHANGED <<flatRate, expired, policyMoved, draft, lastEvent, current, seen, job,
                   worker, carrierVars, faults>>

OrderSwept ==
    /\ order = "pending"
    /\ order' = "cancelled"
    /\ status' = IF status = "payment_pending" THEN "abandoned" ELSE status
    /\ UNCHANGED <<flatRate, expired, policyMoved, draft, lastEvent, current, seen, job,
                   worker, carrierVars, faults>>

activateShipmentForPaidOrder ==
    /\ order = "pending" /\ status = "payment_pending"
    /\ order' = "paid" /\ status' = "ready_for_staff"
    /\ Bump({}, {})
    /\ UNCHANGED <<flatRate, expired, policyMoved, draft, lastEvent, job, worker,
                   carrierVars, faults>>

(* The order is refunded, cancelled or quarantined; the quarantine of      *)
(* uncollected funds holds a shipment that is not dispatched yet.          *)
FundingLost ==
    /\ order = "paid"
    /\ order' = "lost"
    /\ \/ UNCHANGED <<status, current, seen>>
       \/ status = "ready_for_staff" /\ status' = "manual_review" /\ Bump({}, {})
    /\ UNCHANGED <<flatRate, expired, policyMoved, draft, lastEvent, job, worker,
                   carrierVars, faults>>

enqueuePurchaseOperationForOrder ==
    /\ order = "paid" /\ status = "ready_for_staff"
    /\ status' = "purchase_pending"
    /\ Queue("purchase")
    /\ Bump({"purchase"}, {})
    /\ UNCHANGED <<quoteVars, draft, lastEvent, worker, carrierVars, faults>>

(* A travelling parcel may be an exception, which staff may refund.        *)
enqueueRefundOperationForOrder ==
    /\ order # "none" /\ status \in {"label_ready", "travelling"}
    /\ status' = "refund_pending"
    /\ Queue("refund")
    /\ Bump({"refund"}, {})
    /\ UNCHANGED <<quoteVars, draft, lastEvent, worker, carrierVars, faults>>

(* Mutant: shipments that wait for their postage are not polled.           *)
dueWithLabel ==
    /\ draft # None
    /\ status \in {"label_ready", "travelling", "refund_pending"}

(* Mutant: a parcel on its way is not polled any more.                     *)
dueUntilMoving ==
    /\ draft # None
    /\ status \in {"purchase_pending", "label_ready", "refund_pending"}

DueForPolling ==
    /\ draft # None
    /\ status \in {"purchase_pending", "label_ready", "travelling", "refund_pending"}

listShipmentsDueForPolling(j) ==
    /\ DueForPolling
    /\ job[j].state \in {"none", "done", "dead"}
    /\ Queue(j)
    /\ current' = current \cup {j}
    /\ UNCHANGED <<quoteVars, status, draft, lastEvent, seen, worker, carrierVars, faults>>

abandonExpiredQuotes ==
    /\ expired
    /\ \/ order = "none" /\ status \in {"quoted", "quote_pending"}
       \/ order = "pending" /\ status = "payment_pending"
    /\ status' = "abandoned"
    /\ Queue("expiryCleanup")
    /\ Bump({"expiryCleanup"}, {})
    /\ UNCHANGED <<quoteVars, draft, lastEvent, worker, carrierVars, faults>>

QuoteExpires ==
    /\ status # "none" /\ ~expired
    /\ expired' = TRUE
    /\ UNCHANGED <<order, flatRate, policyMoved, shipVars, job, worker, carrierVars, faults>>

(* A deployment with a new policy version.                                 *)
PolicyMoves ==
    /\ status # "none" /\ ~policyMoved
    /\ policyMoved' = TRUE
    /\ UNCHANGED <<order, flatRate, expired, shipVars, job, worker, carrierVars, faults>>

-----------------------------------------------------------------------------
(* The worker: claims.                                                     *)

My(w) == worker[w].job
Rests(w) == worker' = [worker EXCEPT ![w] = Idle]

(* A worker at place; once its job has only to be ended, what it read is   *)
(* gone.                                                                   *)
At(r, place) ==
    IF place \in {"retrying", "failing", "burying", "completing"}
    THEN [Idle EXCEPT !.at = place, !.job = r.job, !.unknown = r.unknown]
    ELSE [r EXCEPT !.at = place]
Goes(w, place) == worker' = [worker EXCEPT ![w] = At(@, place)]

(* Mutant: the job of a worker that died is nobody's.                      *)
dueUnlessClaimed(j) == job[j].state \in {"queued", "retry"}

Due(j) ==
    \/ job[j].state \in {"queued", "retry"}
    \/ job[j].state = "processing" /\ job[j].leaseOver

(* Mutant: a worker that died is taken to have done nothing.               *)
knownAfterLease(j) == job[j].unknown

(* A mutation whose lease ran out may have happened.                       *)
UnknownAfterClaim(j) ==
    job[j].unknown \/ (job[j].state = "processing" /\ j \in Mutating)

claimShipmentOperationJobs(w, j) ==
    /\ worker[w].at = "idle" /\ Due(j)
    /\ job' = [job EXCEPT ![j] =
                  [state |-> "processing", unknown |-> UnknownAfterClaim(j),
                   attempts |-> IF @.attempts < MaxAttempts THEN @.attempts + 1
                                                            ELSE MaxAttempts,
                   owner |-> w, leaseOver |-> FALSE]]
    /\ worker' = [worker EXCEPT ![w] =
                     [Idle EXCEPT !.at = "claimed", !.job = j,
                                  !.unknown = UnknownAfterClaim(j),
                                  !.late = j = "purchase" /\ order = "lost"]]
    /\ UNCHANGED <<quoteVars, shipVars, carrierVars, faults>>

Holds(w) == job[My(w)].state = "processing" /\ job[My(w)].owner = w
Live(w) == Holds(w) /\ ~job[My(w)].leaseOver

(* A first attempt at a mutation is announced under its lease.             *)
markShipmentMutationIntent(w) ==
    /\ worker[w].at = "claimed"
    /\ IF worker[w].unknown \/ My(w) \notin Mutating \/ Live(w)
       THEN Goes(w, "reading") ELSE Rests(w)
    /\ UNCHANGED <<quoteVars, shipVars, job, carrierVars, faults>>

-----------------------------------------------------------------------------
(* The worker: what it does with the shipment it reads.                    *)

(* The shipment is read; the worker goes on at place.                      *)
Reads(w, place) ==
    /\ worker' = [worker EXCEPT ![w] = At([@ EXCEPT !.saw = status, !.draft = draft], place)]
    /\ seen' = seen \cup {w}

Fenced(w) == ~worker[w].unknown /\ My(w) \notin current

processCreate(w) ==
    /\ My(w) = "create"
    /\ \/ /\ draft # None /\ status \in {"abandoned", "manual_review"}
          /\ Reads(w, "fencing")
       \/ /\ draft # None /\ status \notin {"abandoned", "manual_review"}
          /\ Reads(w, "finding")
       \/ draft = None /\ worker[w].unknown /\ Reads(w, "finding")
       \/ draft = None /\ Fenced(w) /\ Reads(w, "completing")
       \/ /\ draft = None /\ ~worker[w].unknown /\ ~Fenced(w)
          /\ Reads(w, IF expired \/ policyMoved THEN "failing" ELSE "creating")

processPurchase(w) ==
    /\ My(w) = "purchase"
    /\ \/ Fenced(w) /\ Reads(w, "completing")
       \/ /\ ~Fenced(w) /\ draft = None
          /\ Reads(w, IF ~flatRate THEN "failing"
                      ELSE IF worker[w].unknown THEN "finding" ELSE "creating")
       \/ ~Fenced(w) /\ draft # None /\ worker[w].unknown /\ Reads(w, "checking")
       \/ /\ ~Fenced(w) /\ draft # None /\ ~worker[w].unknown
          /\ Reads(w, IF policyMoved THEN "failing" ELSE "refreshing")

processTracking(w) ==
    /\ My(w) \in Polls
    /\ Reads(w, IF My(w) \notin current THEN "completing"
                ELSE IF draft = None THEN "failing" ELSE "checking")

processRefund(w) ==
    /\ My(w) = "refund"
    /\ Reads(w, IF Fenced(w) THEN "completing"
                ELSE IF draft = None THEN "failing"
                ELSE IF worker[w].unknown THEN "checking" ELSE "refunding")

processDelete(w) ==
    /\ My(w) \in Cleanups
    /\ Reads(w, IF Fenced(w) THEN "completing"
                ELSE IF draft = None THEN "finding" ELSE "checking")

dispatch(w) ==
    /\ worker[w].at = "reading"
    /\ \/ processCreate(w) \/ processPurchase(w) \/ processTracking(w)
       \/ processRefund(w) \/ processDelete(w)
    /\ UNCHANGED <<quoteVars, status, draft, lastEvent, current, job, carrierVars, faults>>

-----------------------------------------------------------------------------
(* The worker: calls to Chit Chats.  A call is answered, or it fails: it   *)
(* is refused, or left without an answer and may be processed later.       *)

CallOf == [creating |-> "create", buying |-> "buy", refunding |-> "refund",
           deleting |-> "delete"]
Sent(c) == buys' = IF c = "buy" /\ buys < 2 THEN buys + 1 ELSE buys

(* An error that may be tried again; u: the mutation may have happened.    *)
RetryLater(w, u) ==
    worker' = [worker EXCEPT ![w] = At([worker[w] EXCEPT !.unknown = @ \/ u], "retrying")]

Existing == {d \in Drafts : carrier[d] \notin {"none", "deleted"}}

CreateShipment(w) ==
    /\ worker[w].at = "creating"
    /\ \E d \in Drafts :
        /\ carrier[d] = "none"
        /\ carrier' = [carrier EXCEPT ![d] = "unpaid"]
        /\ worker' = [worker EXCEPT ![w].at = "drafting", ![w].draft = d]
    /\ UNCHANGED <<quoteVars, shipVars, job, inflight, buys, faults>>

reconcileCreate(w) ==
    /\ worker[w].at = "finding"
    /\ \/ /\ Existing = {}
          /\ IF My(w) \in Cleanups THEN Goes(w, "completing") ELSE RetryLater(w, TRUE)
       \/ Cardinality(Existing) > 1 /\ Goes(w, "failing")
       \/ \E d \in Existing :
            /\ Existing = {d}
            /\ worker' = [worker EXCEPT ![w].at = IF My(w) \in Cleanups THEN "checking"
                                                                        ELSE "drafting",
                                        ![w].draft = d]
    /\ UNCHANGED <<quoteVars, shipVars, job, carrierVars, faults>>

(* Mutant: an unpaid shipment is bought whatever happened before.          *)
buyWheneverUnpaid(unsure, answer) ==
    IF answer = "unpaid" THEN "selecting"
    ELSE IF answer = "requested" THEN "retrying"
    ELSE IF answer \in {"ready", "travelling", "delivered"} THEN "saving"
    ELSE "failing"

classifyProviderPurchaseAction(unsure, answer) ==
    IF answer = "requested" THEN "retrying"
    ELSE IF answer \in {"ready", "travelling", "delivered"} THEN "saving"
    ELSE IF answer = "unpaid" /\ ~unsure THEN "selecting"
    ELSE "failing"

Answered(w, place) ==
    worker' = [worker EXCEPT ![w] =
                  At([worker[w] EXCEPT !.answer = IF place = "saving"
                                                  THEN carrier[worker[w].draft] ELSE "none",
                                       !.unknown = @ \/ place = "retrying"], place)]

RefreshShipment(w) ==
    /\ worker[w].at = "refreshing"
    /\ Answered(w, classifyProviderPurchaseAction(FALSE, carrier[worker[w].draft]))
    /\ UNCHANGED <<quoteVars, shipVars, job, carrierVars, faults>>

GetShipment(w) ==
    LET d == worker[w].draft
    IN /\ worker[w].at = "checking"
       /\ Answered(w,
            IF My(w) \in Cleanups
            THEN IF carrier[d] = "deleted" THEN "completing"
                 ELSE IF carrier[d] = "unpaid" THEN "deleting" ELSE "failing"
            ELSE IF carrier[d] = "deleted" THEN "failing"
            ELSE IF My(w) = "purchase" THEN classifyProviderPurchaseAction(TRUE, carrier[d])
            ELSE IF My(w) = "refund" /\ carrier[d] # "voided" THEN "retrying"
            ELSE "saving")
       /\ UNCHANGED <<quoteVars, shipVars, job, carrierVars, faults>>

(* Postage is bought at once, or later: then the answer only acknowledges. *)
BuyShipment(w) ==
    LET d == worker[w].draft
    IN /\ worker[w].at = "buying"
       /\ \/ /\ carrier[d] = "unpaid"
             /\ \E s \in {"ready", "requested"} :
                    /\ carrier' = [carrier EXCEPT ![d] = s]
                    /\ IF s = "ready"
                       THEN worker' = [worker EXCEPT ![w].answer = s, ![w].at = "saving"]
                       ELSE RetryLater(w, TRUE)
          \/ carrier[d] # "unpaid" /\ Goes(w, "failing") /\ UNCHANGED carrier
       /\ Sent("buy")
       /\ UNCHANGED <<quoteVars, shipVars, job, inflight, faults>>

RefundShipment(w) ==
    LET d == worker[w].draft
    IN /\ worker[w].at = "refunding"
       /\ \/ /\ carrier[d] \in {"ready", "travelling"}
             /\ \E s \in {carrier[d], "voided"} :
                    /\ carrier' = [carrier EXCEPT ![d] = s]
                    /\ worker' = [worker EXCEPT ![w].at = "saving", ![w].answer = s]
          \/ /\ carrier[d] \notin {"ready", "travelling"}
             /\ Goes(w, "failing") /\ UNCHANGED carrier
       /\ UNCHANGED <<quoteVars, shipVars, job, inflight, buys, faults>>

DeleteShipment(w) ==
    LET d == worker[w].draft
    IN /\ worker[w].at = "deleting"
       /\ Goes(w, IF carrier[d] \in {"unpaid", "deleted"} THEN "completing" ELSE "failing")
       /\ carrier' = [carrier EXCEPT ![d] = IF @ = "unpaid" THEN "deleted" ELSE @]
       /\ UNCHANGED <<quoteVars, shipVars, job, inflight, buys, faults>>

MutationFails(w) ==
    /\ worker[w].at \in DOMAIN CallOf /\ Fault
    /\ LET c == CallOf[worker[w].at]
       IN /\ Sent(c)
          /\ \/ Goes(w, "failing") /\ UNCHANGED inflight
             \/ RetryLater(w, TRUE) /\ inflight' = inflight \cup {c}
    /\ UNCHANGED <<quoteVars, shipVars, job, carrier>>

(* Reads and the refresh leave nothing behind; a refresh nobody answered   *)
(* is a mutation all the same.                                             *)
ReadFails(w) ==
    /\ worker[w].at \in {"finding", "checking", "refreshing"} /\ Fault
    /\ Goes(w, "failing") \/ RetryLater(w, worker[w].at = "refreshing")
    /\ UNCHANGED <<quoteVars, shipVars, job, carrierVars>>

-----------------------------------------------------------------------------
(* The worker: what it records.                                            *)

persistKnownProviderDraft(w) ==
    /\ worker[w].at = "drafting"
    /\ \/ /\ draft = None
          /\ draft' = worker[w].draft
          /\ Bump({}, {w})
       \/ draft = worker[w].draft /\ seen' = seen \cup {w} /\ UNCHANGED <<draft, current>>
       \/ draft \notin {None, worker[w].draft} /\ UNCHANGED <<draft, current, seen>>
    /\ IF draft \in {None, worker[w].draft}
       THEN worker' = [worker EXCEPT ![w].at = IF My(w) = "create" THEN "quoting"
                                                                   ELSE "reloading",
                                     ![w].saw = status]
       ELSE RetryLater(w, TRUE)
    /\ UNCHANGED <<quoteVars, status, lastEvent, job, carrierVars, faults>>

(* The draft is no quote any more; a fault stands for missing rates.       *)
Unquotable ==
    \/ (expired \/ policyMoved) /\ UNCHANGED faults
    \/ Fault

completeQuote(w) ==
    /\ worker[w].at = "quoting"
    /\ \/ /\ Unquotable
          /\ Goes(w, "fencing") /\ UNCHANGED <<status, current, seen>>
       \/ /\ ~expired /\ ~policyMoved
          /\ Goes(w, "completing")
          /\ \/ /\ w \in seen /\ status = "quote_pending"
                /\ status' = "quoted" /\ Bump({}, {})
             \/ /\ ~(w \in seen /\ status = "quote_pending")
                /\ UNCHANGED <<status, current, seen>>
          /\ UNCHANGED faults
    /\ UNCHANGED <<quoteVars, draft, lastEvent, job, carrierVars>>

Fenceable(w) ==
    \/ status \in {"quote_pending", "quoted", "abandoned", "manual_review"} /\ order = "none"
    \/ /\ My(w) = "purchase"
       /\ status \in {"quote_pending", "quoted", "abandoned", "manual_review",
                      "payment_pending", "ready_for_staff", "purchase_pending"}

fenceProviderDraftAndEnqueueCleanup(w) ==
    /\ worker[w].at = "fencing"
    /\ \/ /\ Fenceable(w) /\ status # "manual_review"
          /\ job["draftCleanup"].state = "dead"
          /\ status' = "manual_review" /\ Bump({}, {}) /\ UNCHANGED job
       \/ /\ Fenceable(w) /\ status # "manual_review"
          /\ job["draftCleanup"].state = "none"
          /\ status' = "abandoned" /\ Queue("draftCleanup")
          /\ IF status = "abandoned"
             THEN current' = current \cup {"draftCleanup"} /\ UNCHANGED seen
             ELSE Bump({"draftCleanup"}, {})
       \/ /\ Fenceable(w) /\ status \notin {"manual_review", "abandoned"}
          /\ job["draftCleanup"].state \notin {"none", "dead"}
          /\ status' = "abandoned" /\ Bump({}, {}) /\ UNCHANGED job
       \/ /\ \/ ~Fenceable(w) \/ status = "manual_review"
             \/ status = "abandoned" /\ job["draftCleanup"].state \notin {"none", "dead"}
          /\ UNCHANGED <<status, current, seen, job>>
    /\ Goes(w, "completing")
    /\ UNCHANGED <<quoteVars, draft, lastEvent, carrierVars, faults>>

requireShipment(w) ==
    /\ worker[w].at = "reloading"
    /\ Reads(w, IF policyMoved THEN "failing" ELSE "refreshing")
    /\ UNCHANGED <<quoteVars, status, draft, lastEvent, current, job, carrierVars, faults>>

persistRefreshedProviderQuote(w) ==
    /\ worker[w].at = "selecting"
    /\ \/ policyMoved /\ Goes(w, "failing") /\ UNCHANGED <<current, seen>>
       \/ /\ ~policyMoved /\ w \in seen
          /\ status \in {"quoted", "ready_for_staff", "purchase_pending"}
          /\ Bump({}, {w}) /\ Goes(w, "choosing")
       \/ /\ ~policyMoved
          /\ ~(w \in seen /\ status \in {"quoted", "ready_for_staff", "purchase_pending"})
          /\ RetryLater(w, TRUE) /\ UNCHANGED <<current, seen>>
    /\ UNCHANGED <<quoteVars, status, draft, lastEvent, job, carrierVars, faults>>

(* The shipment is read again; without an eligible rate it is fenced.      *)
ChooseRate(w) ==
    /\ worker[w].at = "choosing"
    /\ \/ Reads(w, "funding") /\ UNCHANGED faults
       \/ Reads(w, "fencing") /\ Fault
    /\ UNCHANGED <<quoteVars, status, draft, lastEvent, current, job, carrierVars>>

(* Mutant: the funding is not checked again.                               *)
recheckLeaseOnly(w) ==
    /\ worker[w].at = "funding"
    /\ Goes(w, IF Live(w) THEN "intending" ELSE "failing")
    /\ UNCHANGED <<quoteVars, shipVars, job, carrierVars, faults>>

recheckShipmentPurchaseFunding(w) ==
    /\ worker[w].at = "funding"
    /\ Goes(w, IF Live(w) /\ order = "paid" THEN "intending" ELSE "failing")
    /\ UNCHANGED <<quoteVars, shipVars, job, carrierVars, faults>>

markShipmentPurchaseProviderCallIntent(w) ==
    /\ worker[w].at = "intending"
    /\ Goes(w, IF Live(w) THEN "buying" ELSE "failing")
    /\ UNCHANGED <<quoteVars, shipVars, job, carrierVars, faults>>

(* What the carrier's word means here, and the statuses it may follow.     *)
normalizeChitChatsStatus(s) ==
    CASE s = "unpaid" -> "quoted"
      [] s = "requested" -> "purchase_pending"
      [] s = "ready" -> "label_ready"
      [] s \in {"travelling", "delivered", "voided"} -> s
      [] OTHER -> "manual_review"

allowedShipmentSourceStatuses(next) ==
    CASE next = "quoted" -> {"quote_pending", "quoted"}
      [] next = "purchase_pending" -> {"ready_for_staff", "purchase_pending"}
      [] next = "label_ready" -> {"purchase_pending", "label_ready"}
      [] next = "travelling" -> {"purchase_pending", "label_ready", "travelling"}
      [] next = "delivered" -> {"purchase_pending"} \cup Purchased
      [] next = "refund_pending" -> {"label_ready", "travelling", "refund_pending"}
      [] next = "voided" -> {"label_ready", "travelling", "refund_pending", "voided"}
      [] OTHER -> Statuses

normalizeChitChatsTransition(was, s) ==
    LET n == normalizeChitChatsStatus(s)
    IN IF was \notin allowedShipmentSourceStatuses(n)
       THEN IF was \in {"refund_pending", "delivered", "voided"} THEN was ELSE "manual_review"
       ELSE IF was = "refund_pending" /\ n # "voided" THEN "refund_pending"
       ELSE IF n = "quoted" /\ was # "quoted" THEN "manual_review"
       ELSE n

EventRank == [unpaid |-> 1, requested |-> 2, failed |-> 3, ready |-> 3,
              travelling |-> 4, delivered |-> 5, voided |-> 5]

(* Mutant: whoever comes last wins.                                        *)
updatesAnyway(w, n, newer) == TRUE

Updates(w, n, newer) ==
    /\ w \in seen /\ newer
    /\ status \in allowedShipmentSourceStatuses(n)

(* An event of a known rank may still be newer than the recorded one.  A   *)
(* movement without a certified event is held for review.                  *)
updateShipmentFromProvider(w) ==
    LET s == worker[w].answer
    IN \E n \in {normalizeChitChatsTransition(worker[w].saw, s), "manual_review"},
          newer \in {EventRank[s] > lastEvent, EventRank[s] >= lastEvent} :
        /\ n = normalizeChitChatsTransition(worker[w].saw, s) \/ s \in {"travelling", "delivered"}
        /\ \/ /\ Updates(w, n, newer)
              /\ status' = n
              /\ lastEvent' = IF EventRank[s] > lastEvent THEN EventRank[s] ELSE lastEvent
              /\ Bump({}, {})
              /\ Goes(w, "completing")
           \/ /\ ~Updates(w, n, newer)
              /\ IF ~newer \/ My(w) \in Polls
                 THEN Goes(w, "completing") ELSE RetryLater(w, TRUE)
              /\ UNCHANGED <<status, lastEvent, current, seen>>

(* Bought, but neither the answer nor the shipment may name the price.     *)
Unpriced(w) ==
    /\ worker[w].answer \in {"ready", "travelling", "delivered"}
    /\ worker[w].saw \in IF My(w) = "purchase"
                         THEN {"purchase_pending", "manual_review", "abandoned"}
                         ELSE {"purchase_pending"}

(* Without its price a purchase is before staff, and asked after again.    *)
recordUnsettledProviderAccountingEvidence(w) ==
    /\ IF w \in seen THEN status' = "manual_review" /\ Bump({}, {})
                     ELSE UNCHANGED <<status, current, seen>>
    /\ RetryLater(w, TRUE)
    /\ UNCHANGED lastEvent

(* A fault stands for an answer without its price, or for a database that  *)
(* does not answer.                                                        *)
persistProviderState(w) ==
    /\ worker[w].at = "saving"
    /\ \/ updateShipmentFromProvider(w) /\ UNCHANGED faults
       \/ Fault /\ Unpriced(w) /\ recordUnsettledProviderAccountingEvidence(w)
       \/ Fault /\ RetryLater(w, TRUE) /\ UNCHANGED <<status, lastEvent, current, seen>>
    /\ UNCHANGED <<quoteVars, draft, job, carrierVars>>

(* The database or the policy cannot be read: nothing is known to have     *)
(* happened, although it may.                                              *)
OperationFails(w) ==
    /\ worker[w].at \in {"reading", "quoting", "selecting", "choosing", "funding",
                         "intending"}
    /\ Fault
    /\ RetryLater(w, FALSE)
    /\ UNCHANGED <<quoteVars, shipVars, job, carrierVars>>

-----------------------------------------------------------------------------
(* The worker: how a job ends.                                             *)

EndJob(w, state) ==
    \/ /\ Holds(w)
       /\ job' = [job EXCEPT ![My(w)] = [NoJob EXCEPT !.state = state]]
       /\ current' = current \ {My(w)}
    \/ ~Holds(w) /\ UNCHANGED <<job, current>>

completeShipmentJob(w) ==
    /\ \/ worker[w].at = "completing" /\ EndJob(w, "done")
       \/ worker[w].at = "burying" /\ EndJob(w, "dead")
    /\ Rests(w)
    /\ seen' = seen \ {w}
    /\ UNCHANGED <<quoteVars, status, draft, lastEvent, carrierVars, faults>>

(* Whatever version the shipment has by now is marked; nobody asks for     *)
(* the lease.                                                              *)
getShipmentForOperation(w) ==
    /\ worker[w].at = "failing"
    /\ Reads(w, "marking")
    /\ UNCHANGED <<quoteVars, status, draft, lastEvent, current, job, carrierVars, faults>>

markShipmentOperationManualReview(w) ==
    /\ worker[w].at = "marking"
    /\ \/ w \in seen /\ status' = "manual_review" /\ Bump({}, {})
       \/ w \notin seen /\ UNCHANGED <<status, current, seen>>
    /\ Goes(w, "burying")
    /\ UNCHANGED <<quoteVars, draft, lastEvent, job, carrierVars, faults>>

retryShipmentJob(w) ==
    LET dead == job[My(w)].attempts >= MaxAttempts
    IN /\ worker[w].at = "retrying"
       /\ \/ /\ Holds(w)
             /\ job' = [job EXCEPT ![My(w)] =
                            IF dead THEN [NoJob EXCEPT !.state = "dead"]
                            ELSE [NoJob EXCEPT !.state = "retry", !.attempts = job[My(w)].attempts,
                                               !.unknown = worker[w].unknown]]
             /\ IF dead /\ status \notin {"delivered", "voided", "abandoned"}
                THEN status' = "manual_review" /\ Bump({}, {})
                ELSE seen' = seen \ {w} /\ UNCHANGED <<status, current>>
          \/ ~Holds(w) /\ seen' = seen \ {w} /\ UNCHANGED <<job, status, current>>
       /\ Rests(w)
       /\ UNCHANGED <<quoteVars, draft, lastEvent, carrierVars, faults>>

WorkerStep(w) ==
    \/ markShipmentMutationIntent(w) \/ dispatch(w)
    \/ CreateShipment(w) \/ reconcileCreate(w) \/ RefreshShipment(w) \/ GetShipment(w)
    \/ BuyShipment(w) \/ RefundShipment(w) \/ DeleteShipment(w)
    \/ persistKnownProviderDraft(w) \/ completeQuote(w)
    \/ fenceProviderDraftAndEnqueueCleanup(w) \/ requireShipment(w)
    \/ persistRefreshedProviderQuote(w) \/ ChooseRate(w)
    \/ recheckShipmentPurchaseFunding(w) \/ markShipmentPurchaseProviderCallIntent(w)
    \/ persistProviderState(w)
    \/ completeShipmentJob(w) \/ getShipmentForOperation(w)
    \/ markShipmentOperationManualReview(w) \/ retryShipmentJob(w)

(* A worker dies, before or after its call went out.                       *)
Crash(w) ==
    /\ worker[w].at # "idle" /\ Fault
    /\ Rests(w)
    /\ seen' = seen \ {w}
    /\ \/ UNCHANGED <<inflight, buys>>
       \/ /\ worker[w].at \in DOMAIN CallOf
          /\ LET c == CallOf[worker[w].at]
             IN /\ inflight' = inflight \cup {c}
                /\ Sent(c)
    /\ UNCHANGED <<quoteVars, status, draft, lastEvent, current, job, carrier>>

(* The lease of a worker that is gone, or that is still at work.           *)
LeaseExpires(j) ==
    /\ job[j].state = "processing" /\ ~job[j].leaseOver
    /\ job' = [job EXCEPT ![j].leaseOver = TRUE]
    /\ IF \E w \in Workers : worker[w].job = j THEN Fault ELSE UNCHANGED faults
    /\ UNCHANGED <<quoteVars, shipVars, worker, carrierVars>>

-----------------------------------------------------------------------------
(* Chit Chats.                                                             *)

LateCall(c, d) ==
    /\ c \in inflight
    /\ inflight' = inflight \ {c}
    /\ \/ c = "create" /\ carrier[d] = "none" /\ carrier' = [carrier EXCEPT ![d] = "unpaid"]
       \/ /\ c = "buy" /\ carrier[d] = "unpaid"
          /\ \E s \in {"ready", "requested"} : carrier' = [carrier EXCEPT ![d] = s]
       \/ /\ c = "refund" /\ carrier[d] \in {"ready", "travelling"}
          /\ carrier' = [carrier EXCEPT ![d] = "voided"]
       \/ c = "delete" /\ carrier[d] = "unpaid" /\ carrier' = [carrier EXCEPT ![d] = "deleted"]
    /\ UNCHANGED <<quoteVars, shipVars, job, worker, buys, faults>>

CarrierMoves(d) ==
    /\ \/ /\ carrier[d] = "requested"
          /\ \E s \in {"ready", "failed"} : carrier' = [carrier EXCEPT ![d] = s]
       \/ carrier[d] = "ready" /\ carrier' = [carrier EXCEPT ![d] = "travelling"]
       \/ /\ carrier[d] = "travelling"
          /\ \E s \in {"delivered", "voided"} : carrier' = [carrier EXCEPT ![d] = s]
    /\ UNCHANGED <<quoteVars, shipVars, job, worker, inflight, buys, faults>>

-----------------------------------------------------------------------------
ShopStep ==
    \/ createQuoteOperation \/ createFlatRateQuote
    \/ PlaceOrder \/ PaymentFails \/ OrderSwept
    \/ activateShipmentForPaidOrder \/ FundingLost
    \/ enqueuePurchaseOperationForOrder \/ enqueueRefundOperationForOrder
    \/ abandonExpiredQuotes \/ QuoteExpires \/ PolicyMoves
    \/ \E j \in Polls : listShipmentsDueForPolling(j)

Next ==
    \/ ShopStep
    \/ \E w \in Workers :
        \/ \E j \in Jobs : claimShipmentOperationJobs(w, j)
        \/ WorkerStep(w)
        \/ MutationFails(w) \/ ReadFails(w) \/ OperationFails(w) \/ Crash(w)
    \/ \E j \in Jobs : LeaseExpires(j)
    \/ \E d \in Drafts : CarrierMoves(d) \/ \E c \in inflight : LateCall(c, d)

Spec == Init /\ [][Next]_vars

-----------------------------------------------------------------------------
(* Safety.                                                                 *)

(* Postage is bought at most once for a shipment, whatever the worker knew *)
(* of an earlier call: processPurchase looks at the carrier before it buys *)
(* again.                                                                  *)
BuyOnce == buys <= 1

(* The carrier holds one shipment for this one: a creation nobody saw the  *)
(* end of is looked up, never repeated.                                    *)
OneDraft == Cardinality({d \in Drafts : carrier[d] # "none"}) <= 1

(* No label is bought for an order whose payment was already refunded,     *)
(* cancelled or in dispute when the worker took the purchase, however long *)
(* ago it was asked for.                                                   *)
LabelFunded == \A w \in Workers : worker[w].at = "buying" => ~worker[w].late

Progress == [purchase_pending |-> 1, label_ready |-> 2, travelling |-> 3,
             refund_pending |-> 4, delivered |-> 5, voided |-> 5]

Advances ==
    \/ status' = "manual_review"
    \/ status = "purchase_pending" /\ status' = "abandoned"
    \/ status' \in DOMAIN Progress /\ Progress[status'] >= Progress[status]

(* What is known of a dispatched shipment is never forgotten: an answer    *)
(* read before a refund was asked for, or before a later event was         *)
(* recorded, does not take it back.                                        *)
NeverBackwards ==
    [][(status \in DOMAIN Progress) => Advances]_status

-----------------------------------------------------------------------------
(* Liveness: the cron runs the worker, which claims a batch of everything  *)
(* due, so that polls and other jobs do not starve each other.  Chit Chats *)
(* settles a purchase it accepted.                                         *)
Claims(js) == \E w \in Workers, j \in js : claimShipmentOperationJobs(w, j)
LeaseOfTheDead ==
    \E j \in Jobs : (\A w \in Workers : worker[w].job # j) /\ LeaseExpires(j)
CarrierSettles == \E d \in Drafts : carrier[d] = "requested" /\ CarrierMoves(d)

Fairness ==
    /\ \A w \in Workers : WF_vars(WorkerStep(w))
    /\ SF_vars(Claims(Mutating)) /\ SF_vars(Claims(Polls))
    /\ WF_vars(LeaseOfTheDead)
    /\ \A j \in Polls : WF_vars(listShipmentsDueForPolling(j))
    /\ WF_vars(CarrierSettles)

FairSpec == Spec /\ Fairness

(* A purchase staff asked for ends: with a label, or before somebody's     *)
(* eyes.  A job that was fenced off on the way leaves it to the polls.     *)
PurchaseResolves == status = "purchase_pending" ~> status # "purchase_pending"

(* A delivery is noticed, however many movements were missed.              *)
DeliveryNoticed ==
    \A d \in Drafts :
        (status \in {"label_ready", "travelling"} /\ draft = d /\ carrier[d] = "delivered")
            ~> status \notin {"label_ready", "travelling"}

(* The draft of an abandoned quote is deleted at the carrier, or a job     *)
(* that tried is before staff.  Not so when the sweep cancels the order:   *)
(* it enqueues nothing.                                                    *)
DraftsCleaned ==
    \A d \in Drafts :
        (status = "abandoned" /\ order # "cancelled" /\ draft = d)
            ~> (\/ carrier[d] = "deleted"
                \/ status = "manual_review"
                \/ \E j \in Jobs : job[j].state = "dead")

(* The promise of activateShipmentForPaidOrder: whatever version the       *)
(* policy has by now, a paid sale is not stopped: its postage is bought.   *)
PaidSaleShips ==
    (status = "purchase_pending" /\ order = "paid") ~> (buys > 0 \/ order # "paid")
=============================================================================
