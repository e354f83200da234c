------------------------ MODULE MarketingConsentProofs ------------------------
(***************************************************************************)
(* Proofs about the customer e-mail and the marketing consent of any       *)
(* orders and addresses, any number of drains, sync workers and faults.    *)
(*                                                                         *)
(* MailInv ties a row to its lease, to Resend and to its order, and an     *)
(* offer to the consent of its contact.  SyncInv follows a withdrawn       *)
(* contact that Resend still holds as subscribed: somebody who has not     *)
(* yet done its part is to take it off.                                    *)
(***************************************************************************)
EXTENDS MarketingConsent, TLAPS

-----------------------------------------------------------------------------
(* A row is leased while it is sent, and no longer.                        *)
Leased == \A m \in Mails : (owner[m] # None) <=> (status[m] = "sending")

(* A drain on a row; Resend has the e-mail of one that is to complete it.  *)
Delivering == {"delivering", "calling", "completing", "suppressing", "failing"}
AtRow ==
    \A d \in Drains : /\ at[d] \in Delivering => mail[d] \in Mails
                      /\ at[d] = "completing" => mailed[mail[d]]

(* An offer is queued with the sign-up of its contact.                     *)
OfferedTo == \A m \in Offers : status[m] # "none" => contact[m[1]] # "none"

(* A row that may be sent again has an attempt left.                       *)
Retried == \A m \in Mails : status[m] \in {"none"} \cup Unsent => attempts[m] < MaxAttempts

MailInv == /\ MailTypeOK /\ Leased /\ AtRow /\ Retried
           /\ OfferedTo /\ SentAgrees /\ OfferRevoked

-----------------------------------------------------------------------------
(* A sync worker has a job.                                                *)
Working == \A w \in Syncers :
               syncing[w] # "idle" => syncJob[w] \in Jobs /\ job[syncJob[w]] # None

(* A push of a withdrawal that is yet to be made: its worker, when it has  *)
(* one, has not done its call.                                             *)
Done(j) == \E w \in Syncers : /\ syncJob[w] = j /\ syncing[w] = "succeeding"
                              /\ job[j].lockedBy = w
ToPush(j, c) == /\ job[j] # None /\ job[j].kind = "unsubscribe_sync"
                /\ job[j].contact = c /\ job[j].status \in OpenJob /\ ~Done(j)

Covered(c) ==
    contact[c] = "unsubscribed" /\ c \in audience =>
        (\E j \in Jobs : ToPush(j, c)) \/ OptingIn(c) \/ c \in stray

SyncTypes ==
    /\ withdrawals \subseteq Contacts
    /\ job \in [Jobs -> Job \cup {None}]
    /\ syncing \in [Syncers -> {"idle", "calling", "checking", "compensating",
                                "giving_up", "succeeding", "failing"}]
    /\ syncJob \in [Syncers -> Jobs \cup {None}]
    /\ audience \subseteq Contacts /\ echo \subseteq Contacts /\ stray \subseteq Contacts

SyncInv == SyncTypes /\ Working /\ \A c \in Contacts : Covered(c)

-----------------------------------------------------------------------------
(* Steps of a drain, by what they do to the rows.                          *)

(* No row changes hands.                                                   *)
LEMMA RowsRest ==
    ASSUME MailInv, MailTypeOK', AtRow', UNCHANGED <<status, attempts, owner, sentAt, contact>>,
           \A m \in Mails : /\ redacted[m] => redacted'[m]
                            /\ mailed[m] => mailed'[m]
    PROVE  MailInv'
BY DEF MailInv, Leased, Retried, OfferedTo, SentAgrees, OfferRevoked, Offers, Mails

LEMMA DrainMoves ==
    ASSUME MailInv, NEW d \in Drains,
           \/ BackfillScan(d) \/ NothingDue(d) \/ deliverClaimedCustomerEmail(d)
           \/ SendAccepted(d) \/ SendFails(d) \/ DeliveryThrows(d) \/ DrainCrashes(d)
           \/ \E o \in Orders : BackfillThrows(d, o)
    PROVE  MailInv'
<1>. USE DEF orderVars, rowVars, drainVars
<1>1. CASE BackfillScan(d)
  <2>1. MailTypeOK'
    BY <1>1 DEF MailInv, MailTypeOK, BackfillScan, Goes
  <2>2. AtRow'
    BY <1>1 DEF MailInv, MailTypeOK, AtRow, Delivering, BackfillScan, Goes
  <2>. QED
    BY <1>1, <2>1, <2>2, RowsRest DEF BackfillScan
<1>2. CASE NothingDue(d) \/ DrainCrashes(d) \/ \E o \in Orders : BackfillThrows(d, o)
  <2>1. Ends(d) /\ UNCHANGED <<orderVars, rowVars, mailed, contact>> /\ faults' \in 0..MaxFaults
    BY <1>2, AttemptsAssumption
       DEF NothingDue, DrainCrashes, BackfillThrows, MailInv, MailTypeOK
  <2>2. MailTypeOK'
    BY <2>1 DEF MailInv, MailTypeOK, Ends, Goes
  <2>3. AtRow'
    BY <2>1 DEF MailInv, MailTypeOK, AtRow, Delivering, Ends, Goes
  <2>. QED
    BY <2>1, <2>2, <2>3, RowsRest
<1>3. CASE deliverClaimedCustomerEmail(d)
  <2>1. MailTypeOK'
    BY <1>3 DEF MailInv, MailTypeOK, deliverClaimedCustomerEmail, Goes
  <2>2. AtRow'
    BY <1>3 DEF MailInv, MailTypeOK, AtRow, Delivering, deliverClaimedCustomerEmail, Goes
  <2>. QED
    BY <1>3, <2>1, <2>2, RowsRest DEF deliverClaimedCustomerEmail
<1>4. CASE SendAccepted(d)
  <2>1. MailTypeOK' /\ \A m \in Mails : mailed[m] => mailed'[m]
    BY <1>4 DEF MailInv, MailTypeOK, SendAccepted, Goes
  <2>2. AtRow'
    BY <1>4 DEF MailInv, MailTypeOK, AtRow, Delivering, SendAccepted, Goes
  <2>. QED
    BY <1>4, <2>1, <2>2, RowsRest DEF SendAccepted
<1>5. CASE SendFails(d) \/ DeliveryThrows(d)
  <2>1. /\ Caught(d) /\ at[d] \in Delivering
        /\ mailed' = mailed \/ mailed' = [mailed EXCEPT ![mail[d]] = TRUE]
        /\ UNCHANGED <<rowVars, batch, mail, faults, contact>>
    BY <1>5 DEF SendFails, DeliveryThrows, Delivering
  <2>2. MailTypeOK' /\ \A m \in Mails : mailed[m] => mailed'[m]
    BY <2>1 DEF MailInv, MailTypeOK, Caught, Goes, recordProductOrderConfirmationEmailFailure
  <2>3. AtRow'
    BY <2>1, <2>2 DEF MailInv, MailTypeOK, AtRow, Delivering, Caught, Goes
  <2>. QED
    BY <2>1, <2>2, <2>3, RowsRest DEF Caught
<1>. QED
  BY <1>1, <1>2, <1>3, <1>4, <1>5

LEMMA Enqueued ==
    ASSUME MailInv, NEW m \in Mails, enqueueCustomerEmail(m), MailTypeOK', AtRow',
           UNCHANGED <<attempts, owner, redacted, mailed, sentAt>>,
           \A c \in Contacts : contact'[c] = contact[c] \/ contact'[c] = "subscribed",
           m \in Offers => contact'[m[1]] = "subscribed"
    PROVE  MailInv'
<1>1. \A n \in Mails : status'[n] = IF n = m /\ status[m] = "none" THEN "queued" ELSE status[n]
  BY DEF MailInv, MailTypeOK, enqueueCustomerEmail
<1>2. Leased' /\ Retried'
  BY <1>1 DEF MailInv, Leased, Retried
<1>3. OfferedTo'
  BY <1>1 DEF MailInv, OfferedTo, Offers, Mails
<1>4. SentAgrees'
  BY <1>1 DEF MailInv, SentAgrees, Mails
<1>5. OfferRevoked'
  BY <1>1 DEF MailInv, OfferRevoked, Offers, Mails
<1>. QED
  BY <1>2, <1>3, <1>4, <1>5 DEF MailInv

LEMMA ConfirmationSteps ==
    ASSUME MailInv, NEW o \in Orders,
           ConfirmationQueued(o) \/ \E d \in Drains : BackfillEnqueue(d, o)
    PROVE  MailInv'
<1>. USE DEF orderVars, rowVars, drainVars
<1>1. o \in Mails /\ o \notin Offers
  BY MailNamesAssumption DEF Mails, Offers
<1>2. /\ enqueueCustomerEmail(o) \/ status' = status
      /\ claimed' \in [Orders -> BOOLEAN] /\ batch' \in [Drains -> SUBSET Orders]
      /\ UNCHANGED <<order, purged, sentAt, attempts, owner, leaseOver, expired, redacted,
                     mailed, at, mail, faults, contact>>
  <2>1. CASE ConfirmationQueued(o)
    BY <2>1 DEF ConfirmationQueued, enqueuePaidProductOrderConfirmationEmail, MailInv, MailTypeOK
  <2>2. ASSUME NEW d \in Drains, BackfillEnqueue(d, o) PROVE claimed' \in [Orders -> BOOLEAN]
    BY <2>2 DEF BackfillEnqueue, enqueuePaidProductOrderConfirmationEmail, MailInv, MailTypeOK
  <2>3. ASSUME NEW d \in Drains, BackfillEnqueue(d, o) PROVE batch' \in [Drains -> SUBSET Orders]
    BY <2>3 DEF BackfillEnqueue, MailInv, MailTypeOK
  <2>. QED
    BY <2>1, <2>2, <2>3 DEF BackfillEnqueue, enqueuePaidProductOrderConfirmationEmail
<1>3. MailTypeOK'
  BY <1>2 DEF MailInv, MailTypeOK, enqueueCustomerEmail, Unsent
<1>4. AtRow'
  BY <1>2 DEF MailInv, AtRow
<1>. QED
  BY <1>1, <1>2, <1>3, <1>4, Enqueued, RowsRest

LEMMA ClaimSteps ==
    ASSUME MailInv, NEW d \in Drains, NEW m \in Mails,
           claimCustomerEmails(d, m) \/ claimCustomerEmailById(d, m)
    PROVE  MailInv'
<1>. USE DEF orderVars, rowVars, drainVars
<1>1. Claim(d, m) /\ UNCHANGED <<orderVars, mailed, faults, contact>>
  BY DEF claimCustomerEmails, claimCustomerEmailById
<1>2. MailTypeOK'
  BY <1>1 DEF Claim, MailInv, MailTypeOK, Unsent
<1>3. /\ \A n \in Mails : status'[n] = IF n = m THEN "sending" ELSE status[n]
      /\ \A n \in Mails : owner'[n] = IF n = m THEN d ELSE owner[n]
      /\ status[m] \in Unsent /\ ~redacted[m] /\ redacted' = redacted
  BY <1>1 DEF Claim, Claimable, MailInv, MailTypeOK, Unsent
<1>4. AtRow'
  BY <1>1 DEF Claim, MailInv, MailTypeOK, AtRow, Delivering
<1>5. Leased' /\ Retried'
  BY <1>1, <1>3, MailNamesAssumption DEF MailInv, Leased, Retried, Claim
<1>6. OfferedTo' /\ OfferRevoked'
  BY <1>1, <1>3 DEF MailInv, OfferedTo, OfferRevoked, Mails, Unsent
<1>7. SentAgrees'
  BY <1>1, <1>3 DEF MailInv, SentAgrees, Mails, Unsent
<1>. QED
  BY <1>2, <1>4, <1>5, <1>6, <1>7 DEF MailInv

(* A drain gives its row up for s.                                         *)
LEMMA GivenUp ==
    ASSUME MailInv, NEW d \in Drains, NEW m \in Mails, m = mail[d], Owns(d, m),
           NEW s \in {"sent", "dead_letter", "failed"}, Unlease(m, s),
           MailTypeOK', AtRow', UNCHANGED <<contact, mailed>>,
           \A n \in Mails : redacted[n] => redacted'[n],
           \A o \in Orders : sentAt'[o] <=> sentAt[o] \/ (o = m /\ s = "sent"),
           s = "sent" => mailed[m], Retried'
    PROVE  MailInv'
<1>1. /\ \A n \in Mails : status'[n] = IF n = m THEN s ELSE status[n]
      /\ \A n \in Mails : owner'[n] = IF n = m THEN None ELSE owner[n]
  BY DEF Unlease, MailInv, MailTypeOK
<1>2. status[m] = "sending"
  BY DEF Owns
<1>3. Leased'
  BY <1>1 DEF MailInv, Leased
<1>4. OfferedTo' /\ OfferRevoked'
  BY <1>1, <1>2 DEF MailInv, OfferedTo, OfferRevoked, Mails, Unsent
<1>5. SentAgrees'
  BY <1>1, <1>2 DEF MailInv, SentAgrees, Mails
<1>. QED
  BY <1>3, <1>4, <1>5 DEF MailInv

LEMMA completeStep ==
    ASSUME MailInv, NEW d \in Drains, completeCustomerEmail(d)
    PROVE  MailInv'
<1>. USE DEF orderVars, rowVars, drainVars
<1>1. PICK m \in Mails : m = mail[d]
  BY DEF MailInv, AtRow, Delivering, completeCustomerEmail
<1>2. Owns(d, m) /\ Unlease(m, "sent") /\ mailed[m]
  BY <1>1 DEF completeCustomerEmail, MailInv, AtRow
<1>3. MailTypeOK'
  BY <1>1, <1>2 DEF completeCustomerEmail, Unlease, Ends, Goes, MailInv, MailTypeOK
<1>4. AtRow'
  BY DEF completeCustomerEmail, Ends, Goes, MailInv, MailTypeOK, AtRow, Delivering
<1>5. Retried'
  BY <1>2 DEF completeCustomerEmail, Unlease, MailInv, MailTypeOK, Retried, Unsent
<1>. QED
  BY <1>1, <1>2, <1>3, <1>4, <1>5, GivenUp DEF completeCustomerEmail

LEMMA suppressStep ==
    ASSUME MailInv, NEW d \in Drains, suppressCustomerEmail(d)
    PROVE  MailInv'
<1>. USE DEF orderVars, rowVars, drainVars
<1>1. PICK m \in Mails : m = mail[d]
  BY DEF MailInv, AtRow, Delivering, suppressCustomerEmail
<1>2. Owns(d, m) /\ Unlease(m, "dead_letter") /\ \A n \in Mails : redacted[n] => redacted'[n]
  BY <1>1 DEF suppressCustomerEmail, MailInv, MailTypeOK
<1>3. MailTypeOK'
  BY <1>1, <1>2 DEF suppressCustomerEmail, Unlease, Ends, Goes, MailInv, MailTypeOK
<1>4. AtRow'
  BY DEF suppressCustomerEmail, Ends, Goes, MailInv, MailTypeOK, AtRow, Delivering
<1>5. Retried'
  BY <1>2 DEF suppressCustomerEmail, Unlease, MailInv, MailTypeOK, Retried, Unsent
<1>. QED
  BY <1>1, <1>2, <1>3, <1>4, <1>5, GivenUp DEF suppressCustomerEmail

LEMMA failStep ==
    ASSUME MailInv, NEW d \in Drains, failCustomerEmail(d)
    PROVE  MailInv'
<1>. USE DEF orderVars, rowVars, drainVars
<1>1. PICK m \in Mails : m = mail[d]
  BY DEF MailInv, AtRow, Delivering, failCustomerEmail
<1>2. AtRow'
  BY DEF failCustomerEmail, Ends, Goes, MailInv, MailTypeOK, AtRow, Delivering
<1>3. CASE Owns(d, m)
  <2>1. PICK s \in {"dead_letter", "failed"} : Unlease(m, s)
    BY <1>1, <1>3 DEF failCustomerEmail
  <2>2. attempts' \in [Mails -> 0..MaxAttempts] /\ Retried'
    <3>1. /\ attempts' = [attempts EXCEPT ![m] = @ + 1] /\ attempts[m] < MaxAttempts
          /\ attempts[m] \in 0..MaxAttempts
      BY <1>1, <1>3 DEF failCustomerEmail, Owns, MailInv, MailTypeOK, Retried, Unsent
    <3>2. attempts[m] + 1 \in 0..MaxAttempts
      BY <3>1, AttemptsAssumption
    <3>3. attempts' \in [Mails -> 0..MaxAttempts] /\ attempts'[m] = attempts[m] + 1
      BY <3>1, <3>2 DEF MailInv, MailTypeOK
    <3>4. Unlease(m, IF attempts[m] + 1 >= MaxAttempts THEN "dead_letter" ELSE "failed")
      BY <1>1, <1>3, <3>3 DEF failCustomerEmail
    <3>. QED
      BY <3>1, <3>3, <3>4, AttemptsAssumption
         DEF Unlease, MailInv, MailTypeOK, Retried, Unsent
  <2>3. MailTypeOK'
    <3>1. Ends(d) /\ UNCHANGED <<orderVars, expired, redacted, mailed, faults, contact>>
      BY DEF failCustomerEmail
    <3>. QED
      BY <1>1, <2>1, <2>2, <3>1 DEF Unlease, Ends, Goes, MailInv, MailTypeOK, Unsent
  <2>. QED
    BY <1>1, <1>2, <1>3, <2>1, <2>2, <2>3, GivenUp DEF failCustomerEmail
<1>4. CASE ~Owns(d, m)
  <2>1. MailTypeOK'
    BY <1>1, <1>4 DEF failCustomerEmail, Ends, Goes, MailInv, MailTypeOK
  <2>. QED
    BY <1>1, <1>2, <1>4, <2>1, RowsRest DEF failCustomerEmail
<1>. QED
  BY <1>3, <1>4

-----------------------------------------------------------------------------
(* Time, retention and the orders; every step of the outbox.               *)

LEMMA TimeSteps ==
    ASSUME MailInv,
           \/ \E m \in Mails : \/ AbandonedLeaseExpires(m) \/ LeaseOutrun(m)
                               \/ DeadlinePasses(m) \/ redactShippingPolicyPii(m)
           \/ \E o \in Orders : \/ ClaimElapses(o) \/ OrderDeadlinePasses(o) \/ OrderPaid(o)
                                \/ OrderEnds(o)
    PROVE  MailInv'
<1>. USE DEF orderVars, rowVars, drainVars
<1>1. /\ UNCHANGED <<status, attempts, owner, mailed, sentAt, at, batch, mail, contact>>
      /\ \A m \in Mails : redacted[m] => redacted'[m]
  BY DEF AbandonedLeaseExpires, LeaseOutrun, LeaseExpires, DeadlinePasses,
         redactShippingPolicyPii, ClaimElapses, OrderDeadlinePasses, OrderPaid, OrderEnds,
         MailInv, MailTypeOK
<1>2. AtRow'
  BY <1>1 DEF MailInv, AtRow
<1>3. ASSUME NEW m \in Mails, AbandonedLeaseExpires(m) \/ LeaseOutrun(m)
      PROVE  MailTypeOK'
  <2>1. faults' \in 0..MaxFaults
    BY <1>3, AttemptsAssumption DEF AbandonedLeaseExpires, LeaseOutrun, MailInv, MailTypeOK
  <2>2. LeaseExpires(m)
    BY <1>3 DEF AbandonedLeaseExpires, LeaseOutrun
  <2>. QED
    BY <2>1, <2>2 DEF LeaseExpires, MailInv, MailTypeOK
<1>4. ASSUME NEW m \in Mails, DeadlinePasses(m) \/ redactShippingPolicyPii(m)
      PROVE  MailTypeOK'
  BY <1>4 DEF DeadlinePasses, redactShippingPolicyPii, MailInv, MailTypeOK
<1>5. ASSUME NEW o \in Orders,
             ClaimElapses(o) \/ OrderDeadlinePasses(o) \/ OrderPaid(o) \/ OrderEnds(o)
      PROVE  MailTypeOK'
  <2>1. \/ order' = order /\ purged' = purged /\ claimed' = [claimed EXCEPT ![o] = FALSE]
        \/ order' = order /\ purged' = [purged EXCEPT ![o] = TRUE] /\ claimed' = claimed
        \/ /\ \E s \in {"paid", "cancelled"} : order' = [order EXCEPT ![o] = s]
           /\ purged' = purged /\ claimed' = claimed
    BY <1>5 DEF ClaimElapses, OrderDeadlinePasses, OrderPaid, OrderEnds
  <2>2. UNCHANGED <<sentAt, rowVars, mailed, drainVars, contact>>
    BY <1>5 DEF ClaimElapses, OrderDeadlinePasses, OrderPaid, OrderEnds
  <2>. QED
    BY <2>1, <2>2 DEF MailInv, MailTypeOK
<1>. QED
  BY <1>1, <1>2, <1>3, <1>4, <1>5, RowsRest

LEMMA MailSteps ==
    ASSUME MailInv, MailNext
    PROVE  MailInv'
<1>1. ASSUME NEW d \in Drains, DrainStep(d) \/ DrainCrashes(d)
      PROVE  MailInv'
  BY <1>1, DrainMoves, ConfirmationSteps, ClaimSteps, completeStep, suppressStep, failStep
     DEF DrainStep
<1>2. \A m \in Offers : m \in Mails
  BY DEF Mails
<1>3. ASSUME NEW d \in Drains, NEW m \in Offers, claimCustomerEmailById(d, m)
      PROVE  MailInv'
  BY <1>2, <1>3, ClaimSteps
<1>4. CASE \/ \E m \in Mails : \/ AbandonedLeaseExpires(m) \/ LeaseOutrun(m)
                               \/ DeadlinePasses(m) \/ redactShippingPolicyPii(m)
           \/ \E o \in Orders : \/ ClaimElapses(o) \/ OrderDeadlinePasses(o) \/ OrderPaid(o)
                                \/ OrderEnds(o)
  BY <1>4, TimeSteps
<1>5. ASSUME NEW o \in Orders, ConfirmationQueued(o)
      PROVE  MailInv'
  BY <1>5, ConfirmationSteps
<1>. QED
  BY <1>1, <1>3, <1>4, <1>5 DEF MailNext

(* A step that touches neither e-mail nor contacts, but for a fault.       *)
LEMMA MailRests ==
    ASSUME MailInv, UNCHANGED mailExceptFaults, faults' \in 0..MaxFaults
    PROVE  MailInv'
<1>. USE DEF mailExceptFaults, orderVars, rowVars
<1>1. MailTypeOK' /\ AtRow'
  BY DEF MailInv, MailTypeOK, AtRow
<1>. QED
  BY <1>1, RowsRest

-----------------------------------------------------------------------------
(* Sign-ups and withdrawals.                                               *)

LEMMA SignUpMail ==
    ASSUME MailInv, NEW c \in Contacts, recordMarketingContact(c)
    PROVE  MailInv'
<1>. USE DEF orderVars, drainVars
<1>1. /\ UNCHANGED <<orderVars, attempts, owner, leaseOver, expired, redacted, mailed,
                     drainVars>>
      /\ contact' = [contact EXCEPT ![c] = "subscribed"]
  BY DEF recordMarketingContact
<1>2. /\ contact' \in [Contacts -> {"none", "subscribed", "unsubscribed"}]
      /\ contact'[c] = "subscribed" /\ \A d \in Contacts \ {c} : contact'[d] = contact[d]
  BY <1>1 DEF MailInv, MailTypeOK
<1>3. AtRow'
  BY <1>1 DEF MailInv, AtRow
<1>4. CASE status' = status
  <2>1. MailTypeOK'
    BY <1>1, <1>2, <1>4 DEF MailInv, MailTypeOK
  <2>. QED
    BY <1>1, <1>2, <1>3, <1>4, <2>1
       DEF MailInv, Leased, Retried, OfferedTo, SentAgrees, OfferRevoked, Offers
<1>5. ASSUME NEW p \in Promotions, enqueueCustomerEmail(<<c, p>>)
      PROVE  MailInv'
  <2>1. <<c, p>> \in Mails
    BY DEF Mails, Offers
  <2>2. MailTypeOK'
    BY <1>1, <1>2, <1>5, <2>1 DEF MailInv, MailTypeOK, enqueueCustomerEmail, Unsent
  <2>. QED
    BY <1>1, <1>2, <1>3, <1>5, <2>1, <2>2, Enqueued
<1>. QED
  BY <1>4, <1>5 DEF recordMarketingContact

LEMMA WithdrawalMail ==
    ASSUME MailInv, NEW c \in Contacts, NEW origin, recordMarketingUnsubscribe(c, origin)
    PROVE  MailInv'
<1>. USE DEF orderVars, drainVars
<1>1. /\ UNCHANGED <<orderVars, attempts, expired, mailed, drainVars>> /\ RevokeOffers(c)
      /\ contact' = [contact EXCEPT ![c] = IF @ = "none" THEN @ ELSE "unsubscribed"]
  BY DEF recordMarketingUnsubscribe
<1>2. /\ contact' \in [Contacts -> {"none", "subscribed", "unsubscribed"}]
      /\ \A d \in Contacts \ {c} : contact'[d] = contact[d]
      /\ \A d \in Contacts : (contact'[d] = "none") <=> (contact[d] = "none")
  BY <1>1 DEF MailInv, MailTypeOK
<1>3. \A m \in Mails :
         /\ status'[m] = IF Revocable(m, c) THEN "dead_letter" ELSE status[m]
         /\ redacted'[m] = IF Revocable(m, c) THEN TRUE ELSE redacted[m]
         /\ owner'[m] = IF Revocable(m, c) THEN None ELSE owner[m]
         /\ leaseOver'[m] = IF Revocable(m, c) THEN FALSE ELSE leaseOver[m]
  BY <1>1 DEF RevokeOffers
<1>4. \A m \in Mails : Revocable(m, c) => /\ m \in Offers /\ m[1] = c
                                          /\ status[m] \in Unsent \cup {"dead_letter"}
  BY DEF Revocable
<1>5. MailTypeOK'
  BY <1>1, <1>2 DEF RevokeOffers, MailInv, MailTypeOK
<1>6. AtRow' /\ Leased' /\ Retried'
  BY <1>1, <1>3 DEF MailInv, AtRow, Leased, Retried, Unsent
<1>7. OfferedTo'
  <2>1. ASSUME NEW m \in Offers, status'[m] # "none" PROVE contact'[m[1]] # "none"
    <3>1. m \in Mails /\ m[1] \in Contacts
      BY DEF Offers, Mails
    <3>2. status[m] # "none"
      BY <1>3, <1>4, <2>1, <3>1 DEF Unsent
    <3>. QED
      BY <1>2, <3>1, <3>2 DEF MailInv, OfferedTo
  <2>. QED
    BY <2>1 DEF OfferedTo
<1>8. SentAgrees'
  BY <1>1, <1>3, <1>4 DEF MailInv, SentAgrees, Mails, Unsent
<1>9. OfferRevoked'
  BY <1>2, <1>3 DEF MailInv, OfferRevoked, Revocable, Offers, Mails, Unsent
<1>. QED
  BY <1>5, <1>6, <1>7, <1>8, <1>9 DEF MailInv

-----------------------------------------------------------------------------
(* Jobs and their workers.                                                 *)

Opting == {"checking", "compensating", "giving_up"}

(* A job stays what it was made for.                                       *)
KindsStay ==
    \A j \in Jobs : job[j] # None => /\ job'[j] # None /\ job'[j].kind = job[j].kind
                                     /\ job'[j].contact = job[j].contact

LEMMA WorkingStays ==
    ASSUME SyncInv, KindsStay,
           \A w \in Syncers : \/ syncing'[w] = "idle"
                              \/ syncing[w] # "idle" /\ syncJob'[w] = syncJob[w]
                              \/ syncJob'[w] \in Jobs /\ job[syncJob'[w]] # None
    PROVE  Working'
BY DEF SyncInv, Working, KindsStay

LEMMA OptingStays ==
    ASSUME SyncInv, KindsStay, NEW c \in Contacts, OptingIn(c),
           \A w \in Syncers : syncing[w] \in Opting /\ Client(w) = c =>
               syncing'[w] \in Opting /\ syncJob'[w] = syncJob[w]
    PROVE  OptingIn(c)'
<1>1. PICK w \in Syncers : syncing[w] \in Opting /\ Client(w) = c
  BY DEF OptingIn, Opting
<1>2. syncJob[w] \in Jobs /\ job[syncJob[w]] # None
  BY <1>1 DEF SyncInv, Working, Opting
<1>3. job'[syncJob[w]].contact = c
  BY <1>1, <1>2 DEF KindsStay, Client, Of
<1>. QED
  BY <1>1, <1>3 DEF OptingIn, Client, Of, Opting

LEMMA PushStays ==
    ASSUME SyncInv, KindsStay, NEW c \in Contacts, NEW j \in Jobs, ToPush(j, c),
           job'[j].status \in OpenJob,
           \A w \in Syncers : syncing'[w] = "succeeding" /\ syncJob'[w] = j =>
               /\ syncing[w] = "succeeding" /\ syncJob[w] = j
               /\ job'[j].lockedBy = w => job[j].lockedBy = w
    PROVE  ToPush(j, c)'
BY DEF ToPush, Done, KindsStay

(* A contact that a step does not take out of a cover stays covered.       *)
LEMMA CoverStays ==
    ASSUME SyncInv, NEW c \in Contacts,
           contact'[c] = "unsubscribed" /\ c \in audience' =>
               contact[c] = "unsubscribed" /\ c \in audience,
           OptingIn(c) => OptingIn(c)' \/ c \in stray',
           \A j \in Jobs : ToPush(j, c) => ToPush(j, c)' \/ c \in stray',
           c \in stray => c \in stray'
    PROVE  Covered(c)'
BY DEF SyncInv, Covered

LEMMA NewJobIs ==
    ASSUME NEW kind \in {"opt_in_sync", "unsubscribe_sync"}, NEW c \in Contacts
    PROVE  NewJob(kind, c) \in Job
BY DEF NewJob, Job, OpenJob

LEMMA SignUpSync ==
    ASSUME MailInv, SyncInv, NEW c \in Contacts, recordMarketingContact(c)
    PROVE  SyncInv'
<1>1. PICK j \in Jobs : job[j] = None /\ job' = [job EXCEPT ![j] = NewJob("opt_in_sync", c)]
  BY DEF recordMarketingContact, Unused
<1>2. /\ UNCHANGED <<withdrawals, syncing, syncJob, audience, echo, stray>>
      /\ contact' = [contact EXCEPT ![c] = "subscribed"]
  BY DEF recordMarketingContact, resendVars
<1>3. SyncTypes'
  BY <1>1, <1>2, NewJobIs DEF SyncInv, SyncTypes
<1>4. \A i \in Jobs : job[i] # None => job'[i] = job[i]
  BY <1>1 DEF SyncInv, SyncTypes
<1>5. KindsStay
  BY <1>4 DEF KindsStay
<1>6. Working'
  BY <1>2, <1>5, WorkingStays
<1>7. ASSUME NEW d \in Contacts PROVE Covered(d)'
  <2>1. contact'[d] = "unsubscribed" => contact[d] = "unsubscribed"
    BY <1>2 DEF MailInv, MailTypeOK
  <2>2. OptingIn(d) => OptingIn(d)'
    BY <1>2, <1>5, OptingStays
  <2>3. \A i \in Jobs : ToPush(i, d) => ToPush(i, d)'
    BY <1>2, <1>4 DEF ToPush, Done
  <2>. QED
    BY <1>2, <2>1, <2>2, <2>3, CoverStays
<1>. QED
  BY <1>3, <1>6, <1>7 DEF SyncInv

LEMMA SkippedIs ==
    ASSUME NEW x \in Job
    PROVE  /\ Skipped(x) \in Job /\ Skipped(x).kind = x.kind
           /\ Skipped(x).contact = x.contact
BY DEF Skipped, Job, OpenJob

LEMMA SkipIs ==
    ASSUME SyncInv, NEW c \in Contacts
    PROVE  /\ SkipOptIns(c) \in [Jobs -> Job \cup {None}]
           /\ \A j \in Jobs :
                 /\ (SkipOptIns(c)[j] = None) <=> (job[j] = None)
                 /\ job[j] # None => /\ SkipOptIns(c)[j].kind = job[j].kind
                                     /\ SkipOptIns(c)[j].contact = job[j].contact
                 /\ job[j] # None /\ job[j].kind = "unsubscribe_sync" =>
                       SkipOptIns(c)[j] = job[j]
<1>1. \A j \in Jobs : OptInOf(job[j], c) => job[j] \in Job /\ job[j].kind = "opt_in_sync"
  BY DEF SyncInv, SyncTypes, OptInOf
<1>2. \A j \in Jobs : SkipOptIns(c)[j] = IF OptInOf(job[j], c) THEN Skipped(job[j]) ELSE job[j]
  BY DEF SkipOptIns
<1>3. \A j \in Jobs : SkipOptIns(c)[j] \in Job \cup {None}
  BY <1>1, <1>2, SkippedIs DEF SyncInv, SyncTypes
<1>4. SkipOptIns(c) \in [Jobs -> Job \cup {None}]
  BY <1>3 DEF SkipOptIns
<1>. QED
  BY <1>1, <1>2, <1>4, SkippedIs, JobNamesAssumption DEF OptInOf

LEMMA WithdrawalSync ==
    ASSUME MailInv, SyncInv, NEW c \in Contacts,
           recordInternalUnsubscribe(c) \/ recordResendUnsubscribe(c)
    PROVE  SyncInv'
<1>1. /\ UNCHANGED <<syncing, syncJob, audience>> /\ withdrawals' = withdrawals \cup {c}
      /\ contact' = [contact EXCEPT ![c] = IF @ = "none" THEN @ ELSE "unsubscribed"]
      /\ echo' \subseteq echo /\ stray \subseteq stray' /\ stray' \subseteq stray \cup {c}
  BY DEF recordInternalUnsubscribe, recordResendUnsubscribe, recordMarketingUnsubscribe,
         drainVars, resendVars
<1>2. \/ /\ job' = SkipOptIns(c)
         /\ ExistingEvent(c) \/ (c \in audience => c \in stray')
      \/ \E j \in Unused : job' = [SkipOptIns(c) EXCEPT ![j] = NewJob("unsubscribe_sync", c)]
  BY DEF recordInternalUnsubscribe, recordResendUnsubscribe, recordMarketingUnsubscribe
<1>3. /\ job' \in [Jobs -> Job \cup {None}]
      /\ \A i \in Jobs : job[i] # None =>
            /\ job'[i] # None /\ job'[i].kind = job[i].kind /\ job'[i].contact = job[i].contact
            /\ job[i].kind = "unsubscribe_sync" => job'[i] = job[i]
  BY <1>2, SkipIs, NewJobIs DEF Unused
<1>4. SyncTypes' /\ KindsStay
  BY <1>1, <1>3 DEF SyncInv, SyncTypes, KindsStay
<1>5. Working'
  BY <1>1, <1>4, WorkingStays
<1>6. ASSUME NEW d \in Contacts PROVE OptingIn(d) => OptingIn(d)'
  BY <1>1, <1>4, OptingStays
<1>7. ASSUME NEW d \in Contacts, NEW i \in Jobs, ToPush(i, d) PROVE ToPush(i, d)'
  BY <1>1, <1>3, <1>7 DEF ToPush, Done
<1>8. ASSUME NEW d \in Contacts, contact'[d] = "unsubscribed" => contact[d] = "unsubscribed"
      PROVE  Covered(d)'
  BY <1>1, <1>6, <1>7, <1>8, CoverStays
<1>9. ASSUME NEW d \in Contacts \ {c} PROVE Covered(d)'
  BY <1>1, <1>8 DEF MailInv, MailTypeOK
<1>10. Covered(c)'
  <2>1. CASE ExistingEvent(c)
    <3>1. contact'[c] = "unsubscribed" => contact[c] = "unsubscribed"
      BY <1>1, <2>1 DEF ExistingEvent, Subscribed, MailInv, MailTypeOK
    <3>. QED
      BY <3>1, <1>8
  <2>2. CASE c \in audience => c \in stray'
    BY <1>1, <2>2 DEF Covered
  <2>3. ASSUME NEW j \in Unused,
               job' = [SkipOptIns(c) EXCEPT ![j] = NewJob("unsubscribe_sync", c)]
        PROVE  Covered(c)'
    <3>1. job'[j] = NewJob("unsubscribe_sync", c) /\ j \in Jobs
      BY <2>3, SkipIs DEF Unused
    <3>2. job'[j] # None
      BY <3>1, NewJobIs, JobNamesAssumption
    <3>3. ToPush(j, c)'
      BY <3>1, <3>2, SyncAssumption DEF ToPush, Done, NewJob, OpenJob
    <3>. QED
      BY <3>1, <3>3 DEF Covered
  <2>. QED
    BY <1>2, <2>1, <2>2, <2>3
<1>. QED
  BY <1>4, <1>5, <1>9, <1>10 DEF SyncInv

LEMMA HostedSync ==
    ASSUME SyncInv, NEW c \in Contacts, HostedUnsubscribe(c)
    PROVE  SyncInv'
<1>1. /\ UNCHANGED <<contact, withdrawals, job, syncing, syncJob>>
      /\ audience' = audience \ {c} /\ stray' = stray \ {c} /\ echo' \subseteq Contacts
  BY DEF HostedUnsubscribe, ResendUnsubscribes, mailVars, jobVars, SyncInv, SyncTypes
<1>2. SyncTypes' /\ Working'
  BY <1>1 DEF SyncInv, SyncTypes, Working
<1>3. ASSUME NEW d \in Contacts PROVE Covered(d)'
  BY <1>1 DEF SyncInv, Covered, ToPush, Done, OptingIn, Client, Of
<1>. QED
  BY <1>2, <1>3 DEF SyncInv

-----------------------------------------------------------------------------
(* Steps of a sync worker.                                                 *)

(* One worker goes on to another place with the job it has; what it leaves *)
(* is made good by its own contact being covered.                          *)
LEMMA WorkerGoes ==
    ASSUME SyncInv, NEW w \in Syncers, syncing[w] # "idle",
           NEW c \in Contacts, c = Client(w),
           NEW place \in {"checking", "compensating", "giving_up", "succeeding", "failing"},
           SyncGoes(w, place), UNCHANGED <<contact, withdrawals, job, syncJob>>,
           audience' \subseteq Contacts, echo' \subseteq Contacts, stray' \subseteq Contacts,
           \A d \in Contacts \ {c} :
               /\ d \in audience' => d \in audience
               /\ d \in stray => d \in stray',
           Covered(c)'
    PROVE  SyncInv'
<1>1. /\ syncing'[w] = place /\ \A v \in Syncers \ {w} : syncing'[v] = syncing[v]
      /\ SyncTypes'
  BY DEF SyncInv, SyncTypes, SyncGoes
<1>2. KindsStay
  BY DEF KindsStay
<1>3. Working'
  BY <1>1, <1>2, WorkingStays
<1>4. ASSUME NEW d \in Contacts \ {c} PROVE Covered(d)'
  <2>1. OptingIn(d) => OptingIn(d)'
    BY <1>1, <1>2, OptingStays
  <2>2. ASSUME NEW j \in Jobs, ToPush(j, d) PROVE ToPush(j, d)'
    BY <1>1, <2>2 DEF ToPush, Done, Client, Of
  <2>. QED
    BY <2>1, <2>2, CoverStays
<1>. QED
  BY <1>1, <1>3, <1>4 DEF SyncInv

(* A worker that has not made its call, or has failed, leaves a push as    *)
(* open as it was.                                                         *)
LEMMA StillToPush ==
    ASSUME NEW w \in Syncers, UNCHANGED <<job, syncJob>>,
           syncing'[w] # "succeeding", \A v \in Syncers \ {w} : syncing'[v] = syncing[v]
    PROVE  \A j \in Jobs, c \in Contacts : ToPush(j, c) => ToPush(j, c)'
BY DEF ToPush, Done

LEMMA ClientIs ==
    ASSUME SyncInv, NEW w \in Syncers, syncing[w] # "idle"
    PROVE  syncJob[w] \in Jobs /\ Of(w) \in Job /\ Client(w) \in Contacts
BY DEF SyncInv, SyncTypes, Working, Of, Client, Job

LEMMA CallSteps ==
    ASSUME SyncInv, NEW w \in Syncers, SyncContact(w) \/ SyncContactFails(w)
    PROVE  SyncInv'
<1>. USE DEF mailVars, orderVars
<1>1. PICK c \in Contacts : c = Client(w) /\ syncing[w] = "calling"
  BY ClientIs DEF SyncContact, SyncContactFails
<1>2. UNCHANGED <<contact, withdrawals, job, syncJob, echo>>
  BY DEF SyncContact, SyncContactFails
<1>3. CASE SyncContact(w)
  <2>1. /\ SyncGoes(w, "checking") /\ audience' = audience \cup {c} /\ stray' = stray
        /\ syncing'[w] = "checking"
    BY <1>1, <1>3 DEF SyncContact, SyncGoes, SyncInv, SyncTypes
  <2>2. OptingIn(c)'
    BY <1>1, <1>2, <2>1 DEF OptingIn, Client, Of
  <2>3. Covered(c)'
    BY <2>2 DEF Covered
  <2>4. audience' \subseteq Contacts /\ echo' \subseteq Contacts /\ stray' \subseteq Contacts
    BY <1>2, <2>1 DEF SyncInv, SyncTypes
  <2>. QED
    BY <1>1, <1>2, <2>1, <2>3, <2>4, WorkerGoes
<1>4. CASE SyncContactFails(w)
  <2>1. /\ SyncGoes(w, "failing") /\ syncing'[w] = "failing"
        /\ \A v \in Syncers \ {w} : syncing'[v] = syncing[v]
        /\ \/ UNCHANGED <<audience, stray>>
           \/ audience' = audience \cup {c} /\ stray' = stray \cup {c}
    BY <1>1, <1>4 DEF SyncContactFails, SyncGoes, SyncInv, SyncTypes
  <2>2. OptingIn(c) => OptingIn(c)'
    BY <1>1, <1>2, <2>1, OptingStays DEF KindsStay, Opting
  <2>3. Covered(c)'
    BY <1>2, <2>1, <2>2, StillToPush, CoverStays DEF Covered
  <2>4. audience' \subseteq Contacts /\ echo' \subseteq Contacts /\ stray' \subseteq Contacts
    BY <1>2, <2>1 DEF SyncInv, SyncTypes
  <2>. QED
    BY <1>1, <1>2, <2>1, <2>3, <2>4, WorkerGoes
<1>. QED
  BY <1>3, <1>4

(* The consent is read again after the call.                               *)
LEMMA CompensateSteps ==
    ASSUME SyncInv, NEW w \in Syncers,
           compensateForConcurrentUnsubscribe(w) \/ ConsentUnreadable(w)
    PROVE  SyncInv'
<1>. USE DEF mailVars, orderVars, resendVars
<1>1. PICK c \in Contacts : c = Client(w) /\ syncing[w] = "checking"
  BY ClientIs DEF compensateForConcurrentUnsubscribe, ConsentUnreadable
<1>2. UNCHANGED <<contact, withdrawals, job, syncJob, audience, echo>>
  BY DEF compensateForConcurrentUnsubscribe, ConsentUnreadable
<1>3. \/ Subscribed(c) /\ SyncGoes(w, "succeeding") /\ stray' = stray \ {c}
      \/ SyncGoes(w, "compensating") /\ stray' = stray
      \/ SyncGoes(w, "giving_up") /\ stray' = stray
  BY <1>1 DEF compensateForConcurrentUnsubscribe, ConsentUnreadable
<1>4. audience' \subseteq Contacts /\ echo' \subseteq Contacts /\ stray' \subseteq Contacts
  BY <1>2, <1>3 DEF SyncInv, SyncTypes
<1>5. CASE Subscribed(c) /\ SyncGoes(w, "succeeding") /\ stray' = stray \ {c}
  <2>1. Covered(c)'
    BY <1>2, <1>5 DEF Covered, Subscribed
  <2>. QED
    BY <1>1, <1>2, <1>4, <1>5, <2>1, WorkerGoes
<1>6. ASSUME NEW place \in {"compensating", "giving_up"},
             SyncGoes(w, place), stray' = stray
      PROVE  SyncInv'
  <2>1. syncing'[w] = place /\ \A v \in Syncers \ {w} : syncing'[v] = syncing[v]
    BY <1>6 DEF SyncInv, SyncTypes, SyncGoes
  <2>2. OptingIn(c)'
    BY <1>1, <1>2, <2>1 DEF OptingIn, Client, Of
  <2>3. Covered(c)'
    BY <2>2 DEF Covered
  <2>. QED
    BY <1>1, <1>2, <1>4, <1>6, <2>3, WorkerGoes
<1>. QED
  BY <1>3, <1>5, <1>6

LEMMA UnsubscribeSteps ==
    ASSUME SyncInv, NEW w \in Syncers,
           unsubscribeResendMarketingContact(w) \/ UnsubscribeFails(w)
    PROVE  SyncInv'
<1>. USE DEF mailVars, orderVars, resendVars
<1>1. PICK c \in Contacts : c = Client(w) /\ syncing[w] # "idle"
  BY ClientIs DEF unsubscribeResendMarketingContact, UnsubscribeFails, Unsubscribing
<1>2. UNCHANGED <<contact, withdrawals, job, syncJob>>
  BY DEF unsubscribeResendMarketingContact, UnsubscribeFails
<1>3. CASE unsubscribeResendMarketingContact(w)
  <2>1. PICK place \in {"succeeding", "failing"} : SyncGoes(w, place)
    BY <1>3 DEF unsubscribeResendMarketingContact
  <2>2. /\ audience' = audience \ {c} /\ stray' = stray \ {c}
        /\ audience' \subseteq Contacts /\ echo' \subseteq Contacts /\ stray' \subseteq Contacts
    BY <1>1, <1>3 DEF unsubscribeResendMarketingContact, ResendUnsubscribes, SyncInv, SyncTypes
  <2>3. Covered(c)'
    BY <2>2 DEF Covered
  <2>. QED
    BY <1>1, <1>2, <2>1, <2>2, <2>3, WorkerGoes
<1>4. CASE UnsubscribeFails(w)
  <2>1. /\ SyncGoes(w, "failing") /\ syncing'[w] = "failing"
        /\ \A v \in Syncers \ {w} : syncing'[v] = syncing[v]
        /\ UNCHANGED <<audience, echo>>
        /\ \/ syncing[w] = "calling" /\ stray' = stray
           \/ stray' = stray \cup {c}
    BY <1>1, <1>4 DEF UnsubscribeFails, SyncGoes, SyncInv, SyncTypes
  <2>2. Covered(c)'
    <3>1. CASE syncing[w] = "calling" /\ stray' = stray
      <4>1. OptingIn(c) => OptingIn(c)'
        BY <1>2, <2>1, <3>1, OptingStays DEF KindsStay, Opting
      <4>. QED
        BY <1>2, <2>1, <3>1, <4>1, StillToPush, CoverStays
    <3>. QED
      BY <2>1, <3>1 DEF Covered
  <2>3. audience' \subseteq Contacts /\ echo' \subseteq Contacts /\ stray' \subseteq Contacts
    BY <2>1 DEF SyncInv, SyncTypes
  <2>. QED
    BY <1>1, <1>2, <2>1, <2>2, <2>3, WorkerGoes
<1>. QED
  BY <1>3, <1>4

(* A job is written by a step; it keeps its kind and its contact.          *)
LEMMA JobWritten ==
    ASSUME SyncInv, NEW j \in Jobs, job[j] # None, NEW y \in Job,
           y.kind = job[j].kind, y.contact = job[j].contact, job' = [job EXCEPT ![j] = y]
    PROVE  /\ job' \in [Jobs -> Job \cup {None}] /\ KindsStay
           /\ job'[j] = y /\ \A i \in Jobs \ {j} : job'[i] = job[i]
BY JobNamesAssumption DEF SyncInv, SyncTypes, KindsStay

LEMMA ClaimSync ==
    ASSUME SyncInv, NEW w \in Syncers, NEW j \in Jobs, claimDueJobs(w, j)
    PROVE  SyncInv'
<1>. USE DEF mailVars, orderVars, resendVars
<1>1. /\ syncing[w] = "idle" /\ job[j] \in Job /\ job[j] # None
      /\ UNCHANGED <<contact, withdrawals, audience, echo, stray>>
      /\ syncing' = [syncing EXCEPT ![w] = "calling"] /\ syncJob' = [syncJob EXCEPT ![w] = j]
  BY DEF claimDueJobs, Due, SyncGoes, SyncInv, SyncTypes
<1>2. PICK y \in Job : /\ job' = [job EXCEPT ![j] = y]
                       /\ y.kind = job[j].kind /\ y.contact = job[j].contact
                       /\ y.status = "processing" /\ y.lockedBy = w
  <2>. DEFINE n == IF job[j].attempts < MaxSyncs THEN job[j].attempts + 1 ELSE job[j].attempts
              y == [job[j] EXCEPT !.status = "processing", !.lockedBy = w, !.lockOver = FALSE,
                                  !.attempts = n]
  <2>1. n \in Nat
    BY <1>1 DEF Job
  <2>2. y \in Job /\ y.kind = job[j].kind /\ y.contact = job[j].contact
                  /\ y.status = "processing" /\ y.lockedBy = w
    BY <1>1, <2>1 DEF Job, OpenJob
  <2>3. job' = [job EXCEPT ![j] = y]
    BY DEF claimDueJobs
  <2>. QED
    BY <2>2, <2>3
<1>3. /\ job' \in [Jobs -> Job \cup {None}] /\ KindsStay
      /\ job'[j] = y /\ \A i \in Jobs \ {j} : job'[i] = job[i]
  BY <1>1, <1>2, JobWritten
<1>4. /\ syncing'[w] = "calling" /\ syncJob'[w] = j
      /\ \A v \in Syncers \ {w} : syncing'[v] = syncing[v] /\ syncJob'[v] = syncJob[v]
      /\ SyncTypes'
  BY <1>1, <1>3 DEF SyncInv, SyncTypes
<1>5. Working'
  BY <1>1, <1>3, <1>4, WorkingStays
<1>6. ASSUME NEW c \in Contacts PROVE Covered(c)'
  <2>1. OptingIn(c) => OptingIn(c)'
    BY <1>1, <1>3, <1>4, OptingStays DEF Opting
  <2>2. ASSUME NEW i \in Jobs, ToPush(i, c) PROVE ToPush(i, c)'
    BY <1>2, <1>3, <1>4, <2>2, PushStays DEF ToPush, OpenJob
  <2>. QED
    BY <1>1, <2>1, <2>2, CoverStays
<1>. QED
  BY <1>4, <1>5, <1>6 DEF SyncInv

(* The end of a job, by a worker that had it done or failed.               *)
LEMMA EndSteps ==
    ASSUME SyncInv, NEW w \in Syncers, markJobSucceeded(w) \/ markJobFailed(w)
    PROVE  SyncInv'
<1>. USE DEF mailVars, orderVars, resendVars
<1>1. PICK j \in Jobs, c \in Contacts :
          /\ j = syncJob[w] /\ c = Client(w) /\ syncing[w] \in {"succeeding", "failing"}
          /\ job[j] \in Job /\ job[j] # None /\ job[j].contact = c
  BY ClientIs DEF markJobSucceeded, markJobFailed, Of, Client, SyncInv, Working
<1>2. PICK s \in {"succeeded", "dead_letter", "retryable_failed"} :
          /\ EndJob(w, s) /\ stray \subseteq stray' /\ stray' \subseteq Contacts
          /\ UNCHANGED <<contact, withdrawals, audience, echo>>
          /\ s = "succeeded" => syncing[w] = "succeeding"
          /\ s = "dead_letter" /\ Holds(w) /\ job[j].kind = "unsubscribe_sync" =>
                c \notin audience \/ c \in stray'
  <2>1. CASE markJobSucceeded(w)
    BY <2>1 DEF markJobSucceeded, SyncInv, SyncTypes
  <2>2. CASE markJobFailed(w)
    BY <1>1, <2>2 DEF markJobFailed, SyncInv, SyncTypes, Of
  <2>. QED
    BY <2>1, <2>2
<1>3. /\ syncing'[w] = "idle"
      /\ \A v \in Syncers \ {w} : syncing'[v] = syncing[v] /\ syncJob'[v] = syncJob[v]
      /\ syncing' \in [Syncers -> {"idle", "calling", "checking", "compensating",
                                   "giving_up", "succeeding", "failing"}]
      /\ syncJob' \in [Syncers -> Jobs \cup {None}]
  BY <1>2 DEF EndJob, SyncEnds, SyncGoes, SyncInv, SyncTypes
<1>4. /\ job' \in [Jobs -> Job \cup {None}] /\ KindsStay
      /\ \A i \in Jobs \ {j} : job'[i] = job[i]
      /\ \/ job' = job
         \/ Holds(w) /\ job'[j] # None /\ job'[j].status = s /\ job'[j].lockedBy = None
  <2>1. CASE Holds(w)
    <3>. DEFINE y == [job[j] EXCEPT !.status = s, !.lockedBy = None, !.lockOver = FALSE]
    <3>1. /\ y \in Job /\ y.kind = job[j].kind /\ y.contact = job[j].contact
          /\ y.status = s /\ y.lockedBy = None
      BY <1>1 DEF Job, OpenJob
    <3>2. job' = [job EXCEPT ![j] = y]
      BY <1>1, <1>2, <2>1 DEF EndJob
    <3>. HIDE DEF y
    <3>3. /\ job' \in [Jobs -> Job \cup {None}] /\ KindsStay
          /\ job'[j] = y /\ \A i \in Jobs \ {j} : job'[i] = job[i]
      BY <1>1, <3>1, <3>2, JobWritten
    <3>. QED
      BY <2>1, <3>1, <3>3, JobNamesAssumption
  <2>2. CASE ~Holds(w)
    BY <1>2, <2>2 DEF EndJob, SyncInv, SyncTypes, KindsStay
  <2>. QED
    BY <2>1, <2>2
<1>5. SyncTypes'
  BY <1>2, <1>3, <1>4 DEF SyncInv, SyncTypes
<1>6. Working'
  BY <1>3, <1>4, WorkingStays
<1>7. ASSUME NEW d \in Contacts PROVE Covered(d)'
  <2>1. OptingIn(d) => OptingIn(d)'
    BY <1>1, <1>3, <1>4, OptingStays DEF Opting
  <2>2. ASSUME NEW i \in Jobs, ToPush(i, d), d \in audience PROVE ToPush(i, d)' \/ d \in stray'
    <3>1. CASE i # j \/ job' = job
      BY <1>1, <1>3, <1>4, <2>2, <3>1, PushStays DEF ToPush
    <3>2. CASE i = j /\ job' # job
      <4>1. s # "succeeded"
        BY <1>1, <1>2, <1>4, <2>2, <3>2 DEF ToPush, Done, Holds, Of
      <4>2. CASE s = "dead_letter"
        BY <1>1, <1>2, <1>4, <2>2, <3>2, <4>2 DEF ToPush
      <4>3. CASE s = "retryable_failed"
        BY <1>4, <2>2, <3>2, <4>3, SyncAssumption DEF ToPush, Done, KindsStay, OpenJob
      <4>. QED
        BY <4>1, <4>2, <4>3
    <3>. QED
      BY <3>1, <3>2
  <2>. QED
    BY <1>2, <2>1, <2>2, CoverStays DEF Covered
<1>. QED
  BY <1>5, <1>6, <1>7 DEF SyncInv

LEMMA CrashSync ==
    ASSUME SyncInv, NEW w \in Syncers, SyncCrashes(w)
    PROVE  SyncInv'
<1>. USE DEF mailExceptFaults, resendVars
<1>1. PICK c \in Contacts : c = Client(w) /\ syncing[w] # "idle"
  BY ClientIs DEF SyncCrashes
<1>2. /\ UNCHANGED <<contact, withdrawals, job, audience, echo>>
      /\ stray \subseteq stray' /\ stray' \subseteq Contacts
      /\ syncing[w] \in Opting => c \in stray'
  BY <1>1 DEF SyncCrashes, Opting, SyncInv, SyncTypes
<1>3. /\ syncing'[w] = "idle" /\ SyncTypes'
      /\ \A v \in Syncers \ {w} : syncing'[v] = syncing[v] /\ syncJob'[v] = syncJob[v]
  BY <1>2 DEF SyncCrashes, SyncEnds, SyncGoes, SyncInv, SyncTypes
<1>4. KindsStay
  BY <1>2 DEF KindsStay
<1>5. Working'
  BY <1>3, <1>4, WorkingStays
<1>6. ASSUME NEW d \in Contacts PROVE Covered(d)'
  <2>1. OptingIn(d) => OptingIn(d)' \/ d \in stray'
    BY <1>1, <1>2, <1>3, <1>4, OptingStays
  <2>2. ASSUME NEW i \in Jobs, ToPush(i, d) PROVE ToPush(i, d)'
    BY <1>2, <1>3, <2>2 DEF ToPush, Done
  <2>. QED
    BY <1>2, <2>1, <2>2, CoverStays
<1>. QED
  BY <1>3, <1>5, <1>6 DEF SyncInv

LEMMA ExpirySync ==
    ASSUME SyncInv, NEW j \in Jobs, LockExpires(j)
    PROVE  SyncInv'
<1>. USE DEF mailExceptFaults, resendVars
<1>1. /\ UNCHANGED <<contact, withdrawals, syncing, syncJob, audience, echo, stray>>
      /\ job[j] \in Job /\ job[j] # None
  BY DEF LockExpires, SyncInv, SyncTypes
<1>2. PICK y \in Job : /\ job' = [job EXCEPT ![j] = y] /\ y.kind = job[j].kind
                       /\ y.contact = job[j].contact /\ y.status = job[j].status
                       /\ y.lockedBy = job[j].lockedBy
  <2>. DEFINE y == [job[j] EXCEPT !.lockOver = TRUE]
  <2>1. /\ y \in Job /\ y.kind = job[j].kind /\ y.contact = job[j].contact
        /\ y.status = job[j].status /\ y.lockedBy = job[j].lockedBy
    BY <1>1 DEF Job
  <2>2. job' = [job EXCEPT ![j] = y]
    BY DEF LockExpires
  <2>. QED
    BY <2>1, <2>2
<1>3. /\ job' \in [Jobs -> Job \cup {None}] /\ KindsStay
      /\ job'[j] = y /\ \A i \in Jobs \ {j} : job'[i] = job[i]
  BY <1>1, <1>2, JobWritten
<1>4. SyncTypes'
  BY <1>1, <1>3 DEF SyncInv, SyncTypes
<1>5. Working'
  BY <1>1, <1>3, WorkingStays
<1>6. ASSUME NEW c \in Contacts PROVE Covered(c)'
  <2>1. OptingIn(c) => OptingIn(c)'
    BY <1>1, <1>3, OptingStays
  <2>2. ASSUME NEW i \in Jobs, ToPush(i, c) PROVE ToPush(i, c)'
    BY <1>1, <1>2, <1>3, <2>2, PushStays DEF ToPush
  <2>. QED
    BY <1>1, <2>1, <2>2, CoverStays
<1>. QED
  BY <1>4, <1>5, <1>6 DEF SyncInv

(* A step of the outbox on its own leaves consent as it is.                *)
LEMMA MailStepSync ==
    ASSUME SyncInv, MailNext, UNCHANGED consentVars
    PROVE  SyncInv'
<1>1. contact' = contact
  BY DEF MailNext, DrainStep, BackfillScan, BackfillEnqueue, BackfillThrows,
         claimCustomerEmails, claimCustomerEmailById, NothingDue, deliverClaimedCustomerEmail,
         SendAccepted, SendFails, completeCustomerEmail, suppressCustomerEmail, DeliveryThrows,
         failCustomerEmail, DrainCrashes, AbandonedLeaseExpires, LeaseOutrun, LeaseExpires,
         DeadlinePasses, redactShippingPolicyPii, ClaimElapses, OrderDeadlinePasses, OrderPaid,
         ConfirmationQueued, OrderEnds
<1>. QED
  BY <1>1 DEF consentVars, jobVars, resendVars, SyncInv, SyncTypes, Working, Covered, ToPush,
              Done, OptingIn, Client, Of

(* Every step of a worker leaves the outbox as it is, but for the faults.  *)
LEMMA WorkerMail ==
    ASSUME MailInv,
           \/ \E w \in Syncers : SyncStep(w) \/ SyncCrashes(w)
           \/ \E j \in Jobs : LockExpires(j)
           \/ \E c \in Contacts : HostedUnsubscribe(c)
    PROVE  MailInv'
<1>1. UNCHANGED mailExceptFaults
  BY DEF SyncStep, SyncCrashes, LockExpires, HostedUnsubscribe, claimDueJobs, SyncContact,
         SyncContactFails, compensateForConcurrentUnsubscribe, ConsentUnreadable,
         unsubscribeResendMarketingContact, UnsubscribeFails, markJobSucceeded, markJobFailed,
         mailExceptFaults, mailVars, outboxVars, drainVars
<1>2. faults' = faults \/ Faulty
  BY DEF SyncStep, SyncCrashes, LockExpires, HostedUnsubscribe, claimDueJobs, SyncContact,
         SyncContactFails, compensateForConcurrentUnsubscribe, ConsentUnreadable,
         unsubscribeResendMarketingContact, UnsubscribeFails, markJobSucceeded, markJobFailed,
         mailVars, outboxVars, drainVars
<1>3. faults' \in 0..MaxFaults
  BY <1>2, AttemptsAssumption DEF Faulty, MailInv, MailTypeOK
<1>. QED
  BY <1>1, <1>3, MailRests

LEMMA NextKeeps ==
    ASSUME MailInv, SyncInv, Next
    PROVE  MailInv' /\ SyncInv'
<1>1. CASE MailNext /\ UNCHANGED consentVars
  BY <1>1, MailSteps, MailStepSync
<1>2. ASSUME NEW c \in Contacts, recordMarketingContact(c)
      PROVE  MailInv' /\ SyncInv'
  BY <1>2, SignUpMail, SignUpSync
<1>3. ASSUME NEW c \in Contacts, recordInternalUnsubscribe(c) \/ recordResendUnsubscribe(c)
      PROVE  MailInv' /\ SyncInv'
  BY <1>3, WithdrawalMail, WithdrawalSync DEF recordInternalUnsubscribe, recordResendUnsubscribe
<1>4. ASSUME NEW c \in Contacts, HostedUnsubscribe(c)
      PROVE  MailInv' /\ SyncInv'
  BY <1>4, WorkerMail, HostedSync
<1>5. ASSUME NEW w \in Syncers, SyncStep(w) \/ SyncCrashes(w)
      PROVE  MailInv' /\ SyncInv'
  <2>1. MailInv'
    BY <1>5, WorkerMail
  <2>2. SyncInv'
    BY <1>5, ClaimSync, CallSteps, CompensateSteps, UnsubscribeSteps, EndSteps, CrashSync
       DEF SyncStep
  <2>. QED
    BY <2>1, <2>2
<1>6. ASSUME NEW j \in Jobs, LockExpires(j)
      PROVE  MailInv' /\ SyncInv'
  BY <1>6, WorkerMail, ExpirySync
<1>. QED
  BY <1>1, <1>2, <1>3, <1>4, <1>5, <1>6 DEF Next, ConsentNext

LEMMA VarsKeep ==
    ASSUME MailInv, SyncInv, UNCHANGED vars
    PROVE  MailInv' /\ SyncInv'
<1>. USE DEF vars, mailVars, outboxVars, orderVars, rowVars, drainVars, consentVars, jobVars,
             resendVars
<1>1. MailInv'
  BY DEF MailInv, MailTypeOK, Leased, AtRow, Retried, OfferedTo, SentAgrees, OfferRevoked
<1>2. SyncInv'
  BY DEF SyncInv, SyncTypes, Working, Covered, ToPush, Done, OptingIn, Client, Of
<1>. QED
  BY <1>1, <1>2

LEMMA InitHolds == ASSUME Init PROVE MailInv /\ SyncInv
<1>1. MailTypeOK
  BY AttemptsAssumption DEF Init, MailInit, MailTypeOK
<1>2. MailInv
  BY <1>1, AttemptsAssumption, MailNamesAssumption
     DEF Init, MailInit, MailInv, Leased, AtRow, Delivering, Retried, OfferedTo, SentAgrees,
         OfferRevoked, Offers, Mails, Unsent
<1>3. SyncInv
  BY DEF Init, MailInit, SyncInv, SyncTypes, Working, Covered
<1>. QED
  BY <1>2, <1>3

-----------------------------------------------------------------------------
(* The theorems.                                                           *)

(* Both invariants hold in every reachable state.                          *)
THEOREM ConsentInvariant == Spec => [](MailInv /\ SyncInv)
<1>1. Init => MailInv /\ SyncInv
  BY InitHolds
<1>2. MailInv /\ SyncInv /\ [Next]_vars => (MailInv /\ SyncInv)'
  BY NextKeeps, VarsKeep
<1>. QED
  BY <1>1, <1>2, PTL DEF Spec

(* Every variable keeps its type: what the tables, the workers and Resend  *)
(* can hold.                                                               *)
THEOREM ConsentTypes == Spec => []TypeOK
<1>1. MailInv /\ SyncInv => TypeOK
  BY DEF MailInv, SyncInv, SyncTypes, TypeOK
<1>. QED
  BY <1>1, ConsentInvariant, PTL

(* An order knows that its confirmation was sent exactly when the row does *)
(* and then Resend has accepted it, whatever crashes, leases that run out  *)
(* and answers that are lost.                                              *)
THEOREM SentAlwaysAgrees == Spec => []SentAgrees
<1>1. MailInv /\ SyncInv => SentAgrees
  BY DEF MailInv
<1>. QED
  BY <1>1, ConsentInvariant, PTL

(* After a withdrawal no offer of the contact can be claimed: also a drain *)
(* that was sending one cannot put it back into the queue.                 *)
THEOREM OffersStayRevoked == Spec => []OfferRevoked
<1>1. MailInv /\ SyncInv => OfferRevoked
  BY DEF MailInv
<1>. QED
  BY <1>1, ConsentInvariant, PTL

(* A contact that withdrew and that Resend still holds as subscribed has a *)
(* push under way, a worker that has yet to read the consent again, or was *)
(* left there by a fault.                                                  *)
THEOREM WithdrawalsOwned == Spec => []WithdrawalOwned
<1>1. MailInv /\ SyncInv => WithdrawalOwned
  BY DEF SyncInv, Covered, ToPush, WithdrawalOwned, Pushing
<1>. QED
  BY <1>1, ConsentInvariant, PTL

(* The step of LeaseHolds, for one row.                                    *)
LeaseStep(m) ==
    owner[m] # None /\ ~leaseOver[m] /\ owner'[m] # owner[m] =>
        \/ /\ mail[owner[m]] = m
           /\ at[owner[m]] \in {"completing", "suppressing", "failing"}
        \/ m \in Offers /\ contact'[m[1]] = "unsubscribed"

LEMMA MailLeases ==
    ASSUME MailInv, MailNext, NEW m \in Mails
    PROVE  LeaseStep(m)
<1>. USE DEF orderVars, rowVars, drainVars
<1>1. CASE owner' = owner
  BY <1>1 DEF LeaseStep
<1>2. ASSUME NEW d \in Drains, NEW n \in Mails, Claim(d, n)
      PROVE  LeaseStep(m)
  <2>1. m # n => owner'[m] = owner[m]
    BY <1>2 DEF Claim, MailInv, MailTypeOK
  <2>2. owner[n] = None \/ leaseOver[n]
    BY <1>2 DEF Claim, Claimable, MailInv, Leased
  <2>. QED
    BY <2>1, <2>2 DEF LeaseStep
<1>3. ASSUME NEW d \in Drains, at[d] \in {"completing", "suppressing", "failing"},
             Owns(d, mail[d]), NEW s, Unlease(mail[d], s)
      PROVE  LeaseStep(m)
  <2>1. m # mail[d] => owner'[m] = owner[m]
    BY <1>3 DEF Unlease, MailInv, MailTypeOK
  <2>2. owner[mail[d]] = d
    BY <1>3 DEF Owns
  <2>. QED
    BY <1>3, <2>1, <2>2 DEF LeaseStep
<1>4. ASSUME NEW d \in Drains, DrainStep(d)
      PROVE  LeaseStep(m)
  <2>1. CASE \E n \in Mails : claimCustomerEmails(d, n)
    BY <1>2, <2>1 DEF claimCustomerEmails
  <2>2. CASE completeCustomerEmail(d)
    BY <1>3, <2>2 DEF completeCustomerEmail
  <2>3. CASE suppressCustomerEmail(d)
    BY <1>3, <2>3 DEF suppressCustomerEmail
  <2>4. CASE failCustomerEmail(d)
    BY <1>1, <1>3, <2>4 DEF failCustomerEmail
  <2>5. CASE \/ BackfillScan(d) \/ NothingDue(d) \/ deliverClaimedCustomerEmail(d)
             \/ SendAccepted(d) \/ SendFails(d) \/ DeliveryThrows(d)
             \/ \E o \in Orders : BackfillEnqueue(d, o) \/ BackfillThrows(d, o)
    BY <1>1, <2>5
       DEF BackfillScan, NothingDue, deliverClaimedCustomerEmail, SendAccepted, SendFails,
           DeliveryThrows, BackfillEnqueue, BackfillThrows,
           enqueuePaidProductOrderConfirmationEmail
  <2>. QED
    BY <1>4, <2>1, <2>2, <2>3, <2>4, <2>5 DEF DrainStep
<1>5. ASSUME NEW d \in Drains, \/ DrainCrashes(d)
                               \/ \E n \in Offers : claimCustomerEmailById(d, n)
      PROVE  LeaseStep(m)
  <2>1. CASE DrainCrashes(d)
    BY <1>1, <2>1 DEF DrainCrashes
  <2>2. CASE \E n \in Offers : claimCustomerEmailById(d, n)
    BY <1>2, <2>2 DEF claimCustomerEmailById, Mails
  <2>. QED
    BY <1>5, <2>1, <2>2
<1>6. ASSUME \/ \E n \in Mails : \/ AbandonedLeaseExpires(n) \/ LeaseOutrun(n)
                                \/ DeadlinePasses(n) \/ redactShippingPolicyPii(n)
             \/ \E o \in Orders : \/ ClaimElapses(o) \/ OrderDeadlinePasses(o) \/ OrderPaid(o)
                                  \/ ConfirmationQueued(o) \/ OrderEnds(o)
      PROVE  owner' = owner
  BY <1>6 DEF AbandonedLeaseExpires, LeaseOutrun, LeaseExpires, DeadlinePasses,
              redactShippingPolicyPii, ClaimElapses, OrderDeadlinePasses, OrderPaid,
              ConfirmationQueued, OrderEnds, enqueuePaidProductOrderConfirmationEmail
<1>. QED
  BY <1>1, <1>4, <1>5, <1>6 DEF MailNext

LEMMA ConsentLeases ==
    ASSUME MailInv, ConsentNext, NEW m \in Mails
    PROVE  LeaseStep(m)
<1>1. ASSUME NEW c \in Contacts, recordInternalUnsubscribe(c) \/ recordResendUnsubscribe(c)
      PROVE  LeaseStep(m)
  <2>1. /\ RevokeOffers(c)
        /\ contact' = [contact EXCEPT ![c] = IF @ = "none" THEN @ ELSE "unsubscribed"]
    BY <1>1 DEF recordInternalUnsubscribe, recordResendUnsubscribe, recordMarketingUnsubscribe
  <2>2. owner'[m] # owner[m] => Revocable(m, c)
    BY <2>1 DEF RevokeOffers
  <2>3. Revocable(m, c) => m \in Offers /\ m[1] = c /\ contact[c] # "none"
    BY DEF Revocable, Unsent, MailInv, OfferedTo
  <2>. QED
    BY <2>1, <2>2, <2>3 DEF LeaseStep, MailInv, MailTypeOK
<1>2. ASSUME \/ \E c \in Contacts : recordMarketingContact(c) \/ HostedUnsubscribe(c)
             \/ \E w \in Syncers : SyncStep(w) \/ SyncCrashes(w)
             \/ \E j \in Jobs : LockExpires(j)
      PROVE  owner' = owner
  BY <1>2 DEF recordMarketingContact, SyncStep, SyncCrashes, LockExpires, HostedUnsubscribe,
         claimDueJobs, SyncContact, SyncContactFails, compensateForConcurrentUnsubscribe,
         ConsentUnreadable, unsubscribeResendMarketingContact, UnsubscribeFails,
         markJobSucceeded, markJobFailed, mailExceptFaults, mailVars, outboxVars, rowVars
<1>. QED
  BY <1>1, <1>2 DEF ConsentNext, LeaseStep

(* A row under a live lease is given up by the drain that holds it, at the *)
(* end of its own delivery, or by a withdrawal of its contact: no other    *)
(* drain takes it over, and no sweep or retention run ends its delivery.   *)
THEOREM LeasesHold == Spec => LeaseHolds
<1>1. MailInv /\ SyncInv /\ [Next]_vars => [\A m \in Mails : LeaseStep(m)]_vars
  BY MailLeases, ConsentLeases DEF Next
<1>2. (\A m \in Mails : LeaseStep(m)) <=>
      \A m \in Mails :
          owner[m] # None /\ ~leaseOver[m] /\ owner'[m] # owner[m] =>
              \/ /\ mail[owner[m]] = m
                 /\ at[owner[m]] \in {"completing", "suppressing", "failing"}
              \/ m \in Offers /\ contact'[m[1]] = "unsubscribed"
  BY DEF LeaseStep
<1>. QED
  BY <1>1, <1>2, ConsentInvariant, PTL DEF Spec, LeaseHolds
=============================================================================
