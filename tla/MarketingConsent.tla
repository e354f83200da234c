--------------------------- MODULE MarketingConsent ---------------------------
(***************************************************************************)
(* Marketing consent of an e-mail address: sign-ups, withdrawals made here *)
(* or at Resend, and the jobs that carry both to the Resend audience.      *)
(* PostgreSQL is authoritative: a sign-up and a withdrawal are one         *)
(* transaction each, under one advisory lock per address; the call that    *)
(* opts a contact in at Resend runs outside, and the worker reads the      *)
(* consent again after it.  The outbox of EmailOutbox holds the offers.    *)
(* Resend is external: one subscription flag per contact, and an event for *)
(* every contact that becomes unsubscribed, delivered at any later time.   *)
(***************************************************************************)
EXTENDS EmailOutbox

CONSTANTS
    Jobs,         \* rows of marketing_contact_sync_jobs; bounds the sign-ups
    Syncers,      \* invocations of the sync worker, one job each
    MaxSyncs      \* maxAttempts of a job

ASSUME SyncAssumption == MaxSyncs \in Nat \ {0} /\ None \notin Syncers

VARIABLES
    withdrawals, \* contacts with an unsubscribe event
    job,         \* a job's kind, contact, status, attempts, lockedBy, lockOver
    syncing,     \* where each sync worker is
    syncJob,     \* the job it claimed, as it was claimed
    audience,    \* contacts subscribed at Resend
    echo,        \* contacts with an unsubscribed event under way from Resend
    stray        \* contacts a fault may have left opted in at Resend: a worker
                 \* that failed after its call, a push given up, a late event

jobVars == <<job, syncing, syncJob>>
resendVars == <<audience, echo>>
consentVars == <<withdrawals, jobVars, resendVars, stray>>
vars == <<mailVars, consentVars>>

OpenJob == {"queued", "processing", "retryable_failed"}
Job == [kind : {"opt_in_sync", "unsubscribe_sync"}, contact : Contacts,
        status : OpenJob \cup {"succeeded", "dead_letter", "skipped_unconfigured"},
        attempts : Nat, lockedBy : Syncers \cup {None}, lockOver : BOOLEAN]

(* None stands for no row. *)
ASSUME JobNamesAssumption == None \notin Job

TypeOK ==
    /\ MailTypeOK
    /\ withdrawals \subseteq Contacts
    /\ job \in [Jobs -> Job \cup {None}]
    /\ syncing \in [Syncers -> {"idle", "calling", "checking", "compensating",
                                "giving_up", "succeeding", "failing"}]
    /\ syncJob \in [Syncers -> Jobs \cup {None}]
    /\ audience \subseteq Contacts
    /\ echo \subseteq Contacts
    /\ stray \subseteq Contacts

Init ==
    /\ MailInit
    /\ withdrawals = {}
    /\ job = [j \in Jobs |-> None]
    /\ syncing = [w \in Syncers |-> "idle"]
    /\ syncJob = [w \in Syncers |-> None]
    /\ audience = {} /\ echo = {} /\ stray = {}

-----------------------------------------------------------------------------
(* Sign-ups and withdrawals.                                               *)

Subscribed(c) == contact[c] = "subscribed"
Unused == {j \in Jobs : job[j] = None}
NewJob(kind, c) == [kind |-> kind, contact |-> c, status |-> "queued",
                    attempts |-> 0, lockedBy |-> None, lockOver |-> FALSE]

(* A consenting sign-up; with a promotion it queues that offer, once for   *)
(* the address.                                                            *)
recordMarketingContact(c) ==
    /\ contact' = [contact EXCEPT ![c] = "subscribed"]
    /\ \E j \in Unused : job' = [job EXCEPT ![j] = NewJob("opt_in_sync", c)]
    /\ \/ UNCHANGED status
       \/ \E p \in Promotions : enqueueCustomerEmail(<<c, p>>)
    /\ UNCHANGED <<orderVars, attempts, owner, leaseOver, expired, redacted, mailed,
                   drainVars, withdrawals, syncing, syncJob, resendVars, stray>>

(* A withdrawal of a contact that is already unsubscribed, or of an        *)
(* address without one, reuses the event it finds.                         *)
ExistingEvent(c) == ~Subscribed(c) /\ c \in withdrawals

OptInOf(x, c) == /\ x # None
                 /\ x.kind = "opt_in_sync" /\ x.contact = c /\ x.status \in OpenJob
Skipped(x) == [x EXCEPT !.status = "skipped_unconfigured",
                        !.lockedBy = None, !.lockOver = FALSE]
SkipOptIns(c) == [j \in Jobs |-> IF OptInOf(job[j], c) THEN Skipped(job[j]) ELSE job[j]]

(* Mutant: an offer that is being sent is left to its drain.               *)
revocableAtRest(m, c) == /\ m \in Offers /\ m[1] = c /\ ~redacted[m]
                         /\ status[m] \in {"queued", "failed", "dead_letter"}

Revocable(m, c) == /\ m \in Offers /\ m[1] = c /\ ~redacted[m]
                   /\ status[m] \in Unsent \cup {"dead_letter"}

RevokeOffers(c) ==
    LET Revoked(f, value) == [m \in Mails |-> IF Revocable(m, c) THEN value ELSE f[m]]
    IN /\ status' = Revoked(status, "dead_letter")
       /\ redacted' = Revoked(redacted, TRUE)
       /\ owner' = Revoked(owner, None)
       /\ leaseOver' = Revoked(leaseOver, FALSE)

recordMarketingUnsubscribe(c, origin) ==
    /\ contact' = [contact EXCEPT ![c] = IF @ = "none" THEN @ ELSE "unsubscribed"]
    /\ withdrawals' = withdrawals \cup {c}
    /\ \/ /\ origin = "internal" /\ ~ExistingEvent(c)
          /\ \E j \in Unused :
                job' = [SkipOptIns(c) EXCEPT ![j] = NewJob("unsubscribe_sync", c)]
       \/ /\ origin = "resend" \/ ExistingEvent(c)
          /\ job' = SkipOptIns(c)
    /\ RevokeOffers(c)
    /\ UNCHANGED <<orderVars, attempts, expired, mailed, drainVars, syncing, syncJob>>

recordInternalUnsubscribe(c) ==
    /\ recordMarketingUnsubscribe(c, "internal")
    /\ UNCHANGED <<resendVars, stray>>

(* The event of an unsubscribed contact arrives; Resend repeats it until   *)
(* it is acknowledged, and may repeat it after.  One that arrives when     *)
(* the contact has been opted in again is taken for a fresh one.           *)
recordResendUnsubscribe(c) ==
    /\ c \in echo
    /\ recordMarketingUnsubscribe(c, "resend")
    /\ \/ echo' = echo \ {c}
       \/ echo' = echo
    /\ stray' = IF c \in audience THEN stray \cup {c} ELSE stray
    /\ UNCHANGED audience

(* Resend holds c as unsubscribed; a change has its event.                 *)
ResendUnsubscribes(c) ==
    /\ audience' = audience \ {c}
    /\ echo' = IF c \in audience THEN echo \cup {c} ELSE echo

(* The recipient uses the link Resend puts into a broadcast.               *)
HostedUnsubscribe(c) ==
    /\ c \in audience
    /\ ResendUnsubscribes(c)
    /\ stray' = stray \ {c}
    /\ UNCHANGED <<mailVars, withdrawals, jobVars>>

-----------------------------------------------------------------------------
(* The sync worker.                                                        *)

SyncGoes(w, place) == syncing' = [syncing EXCEPT ![w] = place]
SyncEnds(w) ==
    /\ SyncGoes(w, "idle")
    /\ syncJob' = [syncJob EXCEPT ![w] = None]

Due(x) == /\ x # None
          /\ \/ x.status \in {"queued", "retryable_failed"}
             \/ x.status = "processing" /\ x.lockOver

claimDueJobs(w, j) ==
    /\ syncing[w] = "idle" /\ Due(job[j])
    /\ job' = [job EXCEPT ![j] =
                  [job[j] EXCEPT !.status = "processing", !.lockedBy = w, !.lockOver = FALSE,
                                 !.attempts = IF @ < MaxSyncs THEN @ + 1 ELSE @]]
    /\ syncJob' = [syncJob EXCEPT ![w] = j]
    /\ SyncGoes(w, "calling")
    /\ UNCHANGED <<mailVars, withdrawals, resendVars, stray>>

Of(w) == job[syncJob[w]]
Client(w) == Of(w).contact

(* The opt-in call succeeds.                                               *)
SyncContact(w) ==
    /\ syncing[w] = "calling" /\ Of(w).kind = "opt_in_sync"
    /\ audience' = audience \cup {Client(w)}
    /\ SyncGoes(w, "checking")
    /\ UNCHANGED <<mailVars, withdrawals, job, syncJob, echo, stray>>

(* It fails: before its first step, or after the step that subscribes.     *)
SyncContactFails(w) ==
    /\ syncing[w] = "calling" /\ Of(w).kind = "opt_in_sync"
    /\ \/ UNCHANGED <<audience, stray>>
       \/ audience' = audience \cup {Client(w)} /\ stray' = stray \cup {Client(w)}
    /\ SyncGoes(w, "failing")
    /\ UNCHANGED <<mailVars, withdrawals, job, syncJob, echo>>

(* Mutant: the consent is not read again.                                  *)
compensateNever(w) ==
    /\ syncing[w] = "checking"
    /\ SyncGoes(w, "succeeding")
    /\ UNCHANGED <<mailVars, withdrawals, job, syncJob, resendVars, stray>>

compensateForConcurrentUnsubscribe(w) ==
    /\ syncing[w] = "checking"
    /\ SyncGoes(w, IF Subscribed(Client(w)) THEN "succeeding" ELSE "compensating")
    /\ stray' = IF Subscribed(Client(w)) THEN stray \ {Client(w)} ELSE stray
    /\ UNCHANGED <<mailVars, withdrawals, job, syncJob, resendVars>>

(* Consent that cannot be read is taken for withdrawn; the job fails.      *)
ConsentUnreadable(w) ==
    /\ syncing[w] = "checking"
    /\ SyncGoes(w, "giving_up")
    /\ UNCHANGED <<mailVars, withdrawals, job, syncJob, resendVars, stray>>

Unsubscribing(w) == \/ syncing[w] \in {"compensating", "giving_up"}
                    \/ syncing[w] = "calling" /\ Of(w).kind = "unsubscribe_sync"

unsubscribeResendMarketingContact(w) ==
    /\ Unsubscribing(w)
    /\ ResendUnsubscribes(Client(w))
    /\ stray' = stray \ {Client(w)}
    /\ SyncGoes(w, IF syncing[w] = "giving_up" THEN "failing" ELSE "succeeding")
    /\ UNCHANGED <<mailVars, withdrawals, job, syncJob>>

(* A failed compensation leaves the contact opted in.                      *)
UnsubscribeFails(w) ==
    /\ Unsubscribing(w)
    /\ stray' = IF syncing[w] = "calling" THEN stray ELSE stray \cup {Client(w)}
    /\ SyncGoes(w, "failing")
    /\ UNCHANGED <<mailVars, withdrawals, job, syncJob, resendVars>>

(* The guard of every write that ends a job.                               *)
Holds(w) == Of(w).status = "processing" /\ Of(w).lockedBy = w

EndJob(w, s) ==
    /\ job' = IF Holds(w)
              THEN [job EXCEPT ![syncJob[w]] = [@ EXCEPT !.status = s, !.lockedBy = None,
                                                         !.lockOver = FALSE]]
              ELSE job
    /\ SyncEnds(w)

markJobSucceeded(w) ==
    /\ syncing[w] = "succeeding"
    /\ EndJob(w, "succeeded")
    /\ UNCHANGED <<mailVars, withdrawals, resendVars, stray>>

(* A dead letter that was to unsubscribe leaves Resend as it is.           *)
markJobFailed(w) ==
    LET s == IF Of(w).attempts >= MaxSyncs THEN "dead_letter" ELSE "retryable_failed"
    IN /\ syncing[w] = "failing"
       /\ EndJob(w, s)
       /\ stray' = IF /\ Of(w).kind = "unsubscribe_sync" /\ s = "dead_letter"
                      /\ Holds(w) /\ Client(w) \in audience
                   THEN stray \cup {Client(w)} ELSE stray
       /\ UNCHANGED <<mailVars, withdrawals, resendVars>>

Faulty == faults < MaxFaults /\ faults' = faults + 1
mailExceptFaults == <<orderVars, rowVars, mailed, at, batch, mail, contact>>

(* The worker stops between two steps.                                     *)
SyncCrashes(w) ==
    /\ syncing[w] # "idle" /\ Faulty
    /\ stray' = IF syncing[w] \in {"checking", "compensating", "giving_up"}
                THEN stray \cup {Client(w)} ELSE stray
    /\ SyncEnds(w)
    /\ UNCHANGED <<mailExceptFaults, withdrawals, job, resendVars>>

(* The lock of a worker that is gone, or that is still at work, expires.   *)
LockExpires(j) ==
    /\ job[j] # None /\ job[j].lockedBy # None /\ ~job[j].lockOver
    /\ job' = [job EXCEPT ![j].lockOver = TRUE]
    /\ \/ (\A w \in Syncers : syncJob[w] # j) /\ UNCHANGED faults
       \/ (\E w \in Syncers : syncJob[w] = j) /\ Faulty
    /\ UNCHANGED <<mailExceptFaults, withdrawals, syncing, syncJob, resendVars, stray>>

-----------------------------------------------------------------------------
SyncStep(w) ==
    \/ \E j \in Jobs : claimDueJobs(w, j)
    \/ SyncContact(w) \/ SyncContactFails(w)
    \/ compensateForConcurrentUnsubscribe(w) \/ ConsentUnreadable(w)
    \/ unsubscribeResendMarketingContact(w) \/ UnsubscribeFails(w)
    \/ markJobSucceeded(w) \/ markJobFailed(w)

ConsentNext ==
    \/ \E c \in Contacts : \/ recordMarketingContact(c) \/ recordInternalUnsubscribe(c)
                           \/ recordResendUnsubscribe(c) \/ HostedUnsubscribe(c)
    \/ \E w \in Syncers : SyncStep(w) \/ SyncCrashes(w)
    \/ \E j \in Jobs : LockExpires(j)

Next ==
    \/ MailNext /\ UNCHANGED consentVars
    \/ ConsentNext

Spec == Init /\ [][Next]_vars

(* The cron job runs every five minutes, each time to its end unless it    *)
(* crashes, and claims the oldest rows first.                              *)
Fairness ==
    /\ \A d \in Drains : WF_vars(DrainStep(d) /\ UNCHANGED consentVars)
    /\ \A m \in Mails :
        /\ WF_vars(AbandonedLeaseExpires(m) /\ UNCHANGED consentVars)
        /\ SF_vars((\E d \in Drains : claimCustomerEmails(d, m)) /\ UNCHANGED consentVars)
    /\ \A o \in Orders : WF_vars(ClaimElapses(o) /\ UNCHANGED consentVars)
FairSpec == Spec /\ Fairness

-----------------------------------------------------------------------------
(* A contact that withdrew and is still opted in at Resend is on its way   *)
(* out: an open job pushes the withdrawal, or a worker that opted it in    *)
(* has still to read the consent, or a fault that is known to leave it     *)
(* there has happened.  No order of a sign-up, a withdrawal and the        *)
(* workers' calls alone leaves it there.                                   *)
OptingIn(c) == \E w \in Syncers :
                  /\ syncing[w] \in {"checking", "compensating", "giving_up"}
                  /\ Client(w) = c
Pushing(c) == \E j \in Jobs : /\ job[j] # None /\ job[j].kind = "unsubscribe_sync"
                              /\ job[j].contact = c /\ job[j].status \in OpenJob
WithdrawalOwned ==
    \A c \in Contacts :
        contact[c] = "unsubscribed" /\ c \in audience =>
            Pushing(c) \/ OptingIn(c) \/ c \in stray

(* A compensation that fails and leaves the contact opted in is tried      *)
(* again: the failed job is still its worker's to put back, or a push of   *)
(* the withdrawal is open.                                                 *)
CompensationFails(w) == /\ syncing[w] = "compensating" /\ syncing'[w] = "failing"
                        /\ Client(w) \in audience
CompensationRetried ==
    [][\A w \in Syncers :
          CompensationFails(w) => Holds(w) \/ Pushing(Client(w))]_vars

(* An offer of a contact that withdrew can never be claimed again: a drain *)
(* that was sending it cannot put it back into the queue.                  *)
OfferRevoked ==
    \A m \in Offers :
        contact[m[1]] = "unsubscribed" => redacted[m] \/ status[m] \notin Unsent

(* A row under a live lease is given up by the drain that holds it, at the *)
(* end of its own delivery, or by a withdrawal of its contact.             *)
LeaseHolds ==
    [][\A m \in Mails :
          owner[m] # None /\ ~leaseOver[m] /\ owner'[m] # owner[m] =>
              \/ /\ mail[owner[m]] = m
                 /\ at[owner[m]] \in {"completing", "suppressing", "failing"}
              \/ m \in Offers /\ contact'[m[1]] = "unsubscribed"]_vars

(* The confirmation of a paid order is sent, or given up after the last    *)
(* attempt, also when the call that queues it is lost: the backfill of the *)
(* cron job finds the order, unless a paid order that is past its privacy  *)
(* deadline stops every run before its claim.                              *)
Blocked == \E o \in Orders : order[o] = "paid" /\ ~sentAt[o] /\ purged[o]
ConfirmationArrives ==
    \A o \in Orders :
        order[o] = "paid" ~>
            \/ order[o] # "paid" \/ status[o] \in {"sent", "dead_letter"}
            \/ expired[o] \/ Blocked

(* A queued e-mail does not stay queued: every run claims due work.        *)
QueuedMailClaimed ==
    \A m \in Mails : status[m] = "queued" ~> status[m] # "queued" \/ expired[m]

(* An order knows that its confirmation was sent exactly when the row does *)
(* and then Resend has accepted it.                                        *)
SentAgrees ==
    /\ \A o \in Orders : sentAt[o] <=> status[o] = "sent"
    /\ \A m \in Mails : status[m] = "sent" => mailed[m]
=============================================================================
