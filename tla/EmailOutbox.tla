------------------------------ MODULE EmailOutbox ------------------------------
(***************************************************************************)
(* The durable queue of customer e-mail: confirmations of paid product     *)
(* orders, queued by the backfill of every cron run, and sign-up offers,   *)
(* queued with the sign-up.  A drain is one invocation of the worker and   *)
(* the row it holds; rows a run claims together are held by several        *)
(* drains.  A row is leased while its e-mail is sent outside any           *)
(* transaction; the lease may expire at any time after the claim.          *)
(* availableAt only delays a claim, which may come at any time anyway.     *)
(* Resend is external: it accepts one e-mail per idempotency key.          *)
(***************************************************************************)
EXTENDS Naturals, FiniteSets

CONSTANTS
    Orders,       \* product orders; the key of a confirmation names its order
    Contacts,     \* normalised e-mail addresses
    Promotions,   \* sign-up offers; their key names contact and promotion
    Drains,       \* invocations of the outbox worker
    MaxAttempts,  \* CUSTOMER_EMAIL_MAX_DELIVERY_ATTEMPTS
    MaxFaults,    \* bound on crashes and on sends slower than a lease
    None

ASSUME AttemptsAssumption == MaxAttempts \in Nat \ {0} /\ MaxFaults \in Nat
ASSUME MailNamesAssumption ==
    /\ None \notin Drains
    /\ Orders \cap (Contacts \X Promotions) = {}

VARIABLES
    order,     \* checkout_orders.status
    purged,    \* the order is past its privacy deadline, or redacted
    claimed,   \* productConfirmationEmailClaimedUntil is in the future
    sentAt,    \* productConfirmationEmailSentAt is set
    contact,   \* the row of marketing_contacts
    status,    \* customer_email_outbox.status, "none" without a row
    attempts,  \* attemptCount
    owner,     \* leaseOwner
    leaseOver, \* leaseExpiresAt has passed
    expired,   \* redactionDueAt has passed
    redacted,  \* redactedAt is set
    mailed,    \* Resend accepted an e-mail with the row's key
    at,        \* where each drain is
    batch,     \* the orders its backfill has still to look at
    mail,      \* the row it holds
    faults     \* crashes and slow sends so far

orderVars == <<order, purged, claimed, sentAt>>
rowVars == <<status, attempts, owner, leaseOver, expired, redacted>>
drainVars == <<at, batch, mail, faults>>
outboxVars == <<orderVars, rowVars, mailed, drainVars>>
mailVars == <<outboxVars, contact>>

Offers == Contacts \X Promotions
Mails == Orders \cup Offers
Unsent == {"queued", "sending", "failed"}

MailTypeOK ==
    /\ order \in [Orders -> {"pending", "paid", "cancelled"}]
    /\ purged \in [Orders -> BOOLEAN]
    /\ claimed \in [Orders -> BOOLEAN]
    /\ sentAt \in [Orders -> BOOLEAN]
    /\ contact \in [Contacts -> {"none", "subscribed", "unsubscribed"}]
    /\ status \in [Mails -> {"none", "dead_letter", "sent"} \cup Unsent]
    /\ attempts \in [Mails -> 0..MaxAttempts]
    /\ owner \in [Mails -> Drains \cup {None}]
    /\ leaseOver \in [Mails -> BOOLEAN]
    /\ expired \in [Mails -> BOOLEAN]
    /\ redacted \in [Mails -> BOOLEAN]
    /\ mailed \in [Mails -> BOOLEAN]
    /\ at \in [Drains -> {"idle", "backfilling", "delivering", "calling",
                          "completing", "suppressing", "failing"}]
    /\ batch \in [Drains -> SUBSET Orders]
    /\ mail \in [Drains -> Mails \cup {None}]
    /\ faults \in 0..MaxFaults

MailInit ==
    /\ order = [o \in Orders |-> "pending"]
    /\ purged = [o \in Orders |-> FALSE]
    /\ claimed = [o \in Orders |-> FALSE]
    /\ sentAt = [o \in Orders |-> FALSE]
    /\ contact = [c \in Contacts |-> "none"]
    /\ status = [m \in Mails |-> "none"]
    /\ attempts = [m \in Mails |-> 0]
    /\ owner = [m \in Mails |-> None]
    /\ leaseOver = [m \in Mails |-> FALSE]
    /\ expired = [m \in Mails |-> FALSE]
    /\ redacted = [m \in Mails |-> FALSE]
    /\ mailed = [m \in Mails |-> FALSE]
    /\ at = [d \in Drains |-> "idle"]
    /\ batch = [d \in Drains |-> {}]
    /\ mail = [d \in Drains |-> None]
    /\ faults = 0

-----------------------------------------------------------------------------
(* Rows.                                                                   *)

(* An insert whose idempotency key exists changes nothing.                 *)
enqueueCustomerEmail(m) ==
    status' = IF status[m] = "none" THEN [status EXCEPT ![m] = "queued"]
                                    ELSE status

(* Mutant: a claim takes any row that is being sent.                       *)
claimableAlways(m) ==
    /\ ~expired[m] /\ ~redacted[m]
    /\ status[m] \in {"queued", "failed", "sending"}

Claimable(m) ==
    /\ ~expired[m] /\ ~redacted[m]
    /\ \/ status[m] \in {"queued", "failed"}
       \/ status[m] = "sending" /\ leaseOver[m]

Claim(d, m) ==
    /\ Claimable(m)
    /\ status' = [status EXCEPT ![m] = "sending"]
    /\ owner' = [owner EXCEPT ![m] = d]
    /\ leaseOver' = [leaseOver EXCEPT ![m] = FALSE]
    /\ at' = [at EXCEPT ![d] = "delivering"]
    /\ batch' = [batch EXCEPT ![d] = {}]
    /\ mail' = [mail EXCEPT ![d] = m]
    /\ UNCHANGED <<attempts, expired, redacted>>

(* The guard of every write that ends a delivery.                          *)
Owns(d, m) == status[m] = "sending" /\ owner[m] = d

Goes(d, place) == at' = [at EXCEPT ![d] = place]
Ends(d) ==
    /\ Goes(d, "idle")
    /\ batch' = [batch EXCEPT ![d] = {}]
    /\ mail' = [mail EXCEPT ![d] = None]

(* The row leaves its lease for s.                                         *)
Unlease(m, s) ==
    /\ status' = [status EXCEPT ![m] = s]
    /\ owner' = [owner EXCEPT ![m] = None]
    /\ leaseOver' = [leaseOver EXCEPT ![m] = FALSE]

-----------------------------------------------------------------------------
(* A run of the cron job: the backfill, one order at a time, then the      *)
(* claim.                                                                  *)

BackfillScan(d) ==
    /\ at[d] = "idle"
    /\ batch' = [batch EXCEPT ![d] = {o \in Orders : order[o] = "paid" /\ ~sentAt[o]}]
    /\ Goes(d, "backfilling")
    /\ UNCHANGED <<orderVars, rowVars, mailed, mail, faults, contact>>

(* The order takes an outbox row: it is paid, unsent and not claimed for   *)
(* the last five minutes.                                                  *)
Enqueueable(o) == order[o] = "paid" /\ ~sentAt[o] /\ ~claimed[o]

enqueuePaidProductOrderConfirmationEmail(o) ==
    /\ ~purged[o]
    /\ claimed' = [claimed EXCEPT ![o] = TRUE]
    /\ enqueueCustomerEmail(o)
    /\ UNCHANGED <<order, purged, sentAt, attempts, owner, leaseOver, expired, redacted>>

BackfillEnqueue(d, o) ==
    /\ at[d] = "backfilling" /\ o \in batch[d]
    /\ batch' = [batch EXCEPT ![d] = @ \ {o}]
    /\ \/ Enqueueable(o) /\ enqueuePaidProductOrderConfirmationEmail(o)
       \/ ~Enqueueable(o) /\ UNCHANGED <<orderVars, rowVars>>
    /\ UNCHANGED <<mailed, at, mail, faults, contact>>

(* An order past its privacy deadline makes the enqueue throw, and nothing *)
(* between it and the cron handler catches: the run ends before its claim. *)
BackfillThrows(d, o) ==
    /\ at[d] = "backfilling" /\ o \in batch[d]
    /\ Enqueueable(o) /\ purged[o]
    /\ Ends(d)
    /\ UNCHANGED <<orderVars, rowVars, mailed, faults, contact>>

claimCustomerEmails(d, m) ==
    /\ at[d] = "backfilling" /\ batch[d] = {}
    /\ Claim(d, m)
    /\ UNCHANGED <<orderVars, mailed, faults, contact>>

(* The sign-up request claims the offer row it queued, without a backfill. *)
claimCustomerEmailById(d, m) ==
    /\ at[d] = "idle" /\ m \in Offers
    /\ Claim(d, m)
    /\ UNCHANGED <<orderVars, mailed, faults, contact>>

NothingDue(d) ==
    /\ at[d] = "backfilling" /\ batch[d] = {}
    /\ \A m \in Mails : ~Claimable(m)
    /\ Ends(d)
    /\ UNCHANGED <<orderVars, rowVars, mailed, faults, contact>>

-----------------------------------------------------------------------------
(* Delivery of one row.                                                    *)

(* An offer is sent to a contact that is subscribed when it is read.       *)
isContactPopupOfferRecipientSubscribed(m) == contact[m[1]] = "subscribed"

deliverClaimedCustomerEmail(d) ==
    /\ at[d] = "delivering"
    /\ Goes(d, IF mail[d] \in Offers /\ ~isContactPopupOfferRecipientSubscribed(mail[d])
               THEN "suppressing" ELSE "calling")
    /\ UNCHANGED <<orderVars, rowVars, mailed, batch, mail, faults, contact>>

(* The catch block clears the claim of a confirmation's order.             *)
recordProductOrderConfirmationEmailFailure(m) ==
    claimed' = [o \in Orders |-> claimed[o] /\ o # m]

Caught(d) ==
    /\ Goes(d, "failing")
    /\ recordProductOrderConfirmationEmailFailure(mail[d])
    /\ UNCHANGED <<order, purged, sentAt>>

SendAccepted(d) ==
    /\ at[d] = "calling"
    /\ mailed' = [mailed EXCEPT ![mail[d]] = TRUE]
    /\ Goes(d, "completing")
    /\ UNCHANGED <<orderVars, rowVars, batch, mail, faults, contact>>

(* Refused, or without an answer: Resend may have accepted the e-mail.     *)
SendFails(d) ==
    /\ at[d] = "calling"
    /\ \/ mailed' = mailed
       \/ mailed' = [mailed EXCEPT ![mail[d]] = TRUE]
    /\ Caught(d)
    /\ UNCHANGED <<rowVars, batch, mail, faults, contact>>

(* Mutant: the row alone.                                                  *)
completeRowOnly(d) ==
    /\ at[d] = "completing" /\ Owns(d, mail[d])
    /\ Unlease(mail[d], "sent")
    /\ Ends(d)
    /\ UNCHANGED <<orderVars, attempts, expired, redacted, mailed, faults, contact>>

(* The order of a confirmation learns of it in the same transaction.       *)
completeCustomerEmail(d) ==
    /\ at[d] = "completing" /\ Owns(d, mail[d])
    /\ Unlease(mail[d], "sent")
    /\ sentAt' = [o \in Orders |-> sentAt[o] \/ o = mail[d]]
    /\ claimed' = [o \in Orders |-> claimed[o] /\ o # mail[d]]
    /\ Ends(d)
    /\ UNCHANGED <<order, purged, attempts, expired, redacted, mailed, faults, contact>>

suppressCustomerEmail(d) ==
    /\ at[d] = "suppressing" /\ Owns(d, mail[d])
    /\ Unlease(mail[d], "dead_letter")
    /\ redacted' = [redacted EXCEPT ![mail[d]] = TRUE]
    /\ Ends(d)
    /\ UNCHANGED <<orderVars, attempts, expired, mailed, faults, contact>>

(* The row cannot be decoded, the lease was lost, or a transaction failed. *)
DeliveryThrows(d) ==
    /\ at[d] \in {"delivering", "completing", "suppressing"}
    /\ Caught(d)
    /\ UNCHANGED <<rowVars, mailed, batch, mail, faults, contact>>

(* Mutant: the last attempt is retried.                                    *)
failForEver(d) ==
    /\ at[d] = "failing"
    /\ \/ Owns(d, mail[d]) /\ Unlease(mail[d], "failed")
       \/ ~Owns(d, mail[d]) /\ UNCHANGED <<status, owner, leaseOver>>
    /\ Ends(d)
    /\ UNCHANGED <<orderVars, attempts, expired, redacted, mailed, faults, contact>>

failCustomerEmail(d) ==
    LET m == mail[d]
    IN /\ at[d] = "failing"
       /\ \/ /\ Owns(d, m)
             /\ attempts' = [attempts EXCEPT ![m] = @ + 1]
             /\ Unlease(m, IF attempts'[m] >= MaxAttempts THEN "dead_letter" ELSE "failed")
          \/ ~Owns(d, m) /\ UNCHANGED <<status, owner, leaseOver, attempts>>
       /\ Ends(d)
       /\ UNCHANGED <<orderVars, expired, redacted, mailed, faults, contact>>

DrainCrashes(d) ==
    /\ at[d] # "idle" /\ faults < MaxFaults
    /\ faults' = faults + 1
    /\ Ends(d)
    /\ UNCHANGED <<orderVars, rowVars, mailed, contact>>

-----------------------------------------------------------------------------
(* Time, retention and the order's own life.                               *)

LeaseExpires(m) ==
    /\ owner[m] # None /\ ~leaseOver[m]
    /\ leaseOver' = [leaseOver EXCEPT ![m] = TRUE]
    /\ UNCHANGED <<orderVars, status, attempts, owner, expired, redacted, mailed,
                   at, batch, mail, contact>>

(* The row of a drain that is gone, or that is still at work.              *)
AbandonedLeaseExpires(m) ==
    /\ \A d \in Drains : mail[d] # m
    /\ LeaseExpires(m)
    /\ UNCHANGED faults
LeaseOutrun(m) ==
    /\ \E d \in Drains : mail[d] = m
    /\ faults < MaxFaults
    /\ faults' = faults + 1
    /\ LeaseExpires(m)

ClaimElapses(o) ==
    /\ claimed[o]
    /\ claimed' = [claimed EXCEPT ![o] = FALSE]
    /\ UNCHANGED <<order, purged, sentAt, rowVars, mailed, drainVars, contact>>

(* A row's deadline is never later than that of its order.                 *)
DeadlinePasses(m) ==
    /\ status[m] # "none" /\ ~expired[m]
    /\ expired' = [expired EXCEPT ![m] = TRUE]
    /\ UNCHANGED <<orderVars, status, attempts, owner, leaseOver, redacted, mailed,
                   drainVars, contact>>

OrderDeadlinePasses(o) ==
    /\ ~purged[o] /\ order[o] # "pending"
    /\ status[o] # "none" => expired[o]
    /\ purged' = [purged EXCEPT ![o] = TRUE]
    /\ UNCHANGED <<order, claimed, sentAt, rowVars, mailed, drainVars, contact>>

(* Retention redacts a row and leaves its status.                          *)
redactShippingPolicyPii(m) ==
    /\ expired[m] /\ ~redacted[m]
    /\ redacted' = [redacted EXCEPT ![m] = TRUE]
    /\ UNCHANGED <<orderVars, status, attempts, owner, leaseOver, expired, mailed,
                   drainVars, contact>>

(* The checkout, or a webhook, makes the order paid; the confirmation is   *)
(* queued by a later call, which a crash loses.                            *)
OrderPaid(o) ==
    /\ order[o] = "pending"
    /\ order' = [order EXCEPT ![o] = "paid"]
    /\ UNCHANGED <<purged, claimed, sentAt, rowVars, mailed, drainVars, contact>>

ConfirmationQueued(o) ==
    /\ Enqueueable(o)
    /\ enqueuePaidProductOrderConfirmationEmail(o)
    /\ UNCHANGED <<mailed, drainVars, contact>>

OrderEnds(o) ==
    /\ order[o] # "cancelled"
    /\ order' = [order EXCEPT ![o] = "cancelled"]
    /\ UNCHANGED <<purged, claimed, sentAt, rowVars, mailed, drainVars, contact>>

-----------------------------------------------------------------------------
DrainStep(d) ==
    \/ BackfillScan(d)
    \/ \E o \in Orders : BackfillEnqueue(d, o) \/ BackfillThrows(d, o)
    \/ \E m \in Mails : claimCustomerEmails(d, m)
    \/ NothingDue(d)
    \/ deliverClaimedCustomerEmail(d)
    \/ SendAccepted(d) \/ SendFails(d)
    \/ completeCustomerEmail(d) \/ suppressCustomerEmail(d)
    \/ DeliveryThrows(d) \/ failCustomerEmail(d)

MailNext ==
    \/ \E d \in Drains :
        \/ DrainStep(d)
        \/ \E m \in Offers : claimCustomerEmailById(d, m)
        \/ DrainCrashes(d)
    \/ \E m \in Mails : \/ AbandonedLeaseExpires(m) \/ LeaseOutrun(m)
                         \/ DeadlinePasses(m) \/ redactShippingPolicyPii(m)
    \/ \E o \in Orders : \/ ClaimElapses(o) \/ OrderDeadlinePasses(o) \/ OrderPaid(o)
                         \/ ConfirmationQueued(o) \/ OrderEnds(o)
=============================================================================
