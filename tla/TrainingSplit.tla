----------------------------- MODULE TrainingSplit -----------------------------
(***************************************************************************)
(* A training place paid with two tenders: part by card, part by Afterpay  *)
(* (square-training-split.ts and its live wiring, the training checkout    *)
(* handler, the split status page, the webhook and the reconciliation).    *)
(* Both portions are authorised, then captured with one PayOrder, and the  *)
(* reservation's JSON state records every stage so that a later run can go *)
(* on.  A run holds the reservation's advisory lock from its load to its   *)
(* result; a process that dies releases the lock while calls it sent to    *)
(* Square may still be on their way.                                       *)
(***************************************************************************)
EXTENDS Naturals, FiniteSets

CONSTANTS
    Reservations,     \* reservation keys, one order and one enrolment each
    Runs,             \* requests, webhook deliveries and cron runs
    MaxFaults,        \* failed or unanswered calls and deaths of a run
    None

ASSUME FaultsAssumption == MaxFaults \in Nat
ASSUME NoneAssumption == None \notin Reservations

VARIABLES
    status,      \* checkout_orders.status; "none" before the reservation
    enrolled,    \* the training_enrollments row exists
    notice,      \* the enrolment's e-mails: none, claimed or sent
    split,       \* provider_metadata.splitPayment: stage, order, payment ids
    payment,     \* Square's payment of each leg
    settled,     \* Square has processed PayOrder for the split's order
    run,         \* what each run does and holds in memory
    late,        \* calls without a caller that Square may still process
    asked,       \* how often a payment was asked for on a leg's key
    told,        \* what the buyer has been told: paid, retry
    faults

vars == <<status, enrolled, notice, split, payment, settled, run, late, asked, told, faults>>
order == <<status, enrolled>>
square == <<payment, settled, late, asked>>

Legs == {"card", "afterpay"}
Stages == {"reserved", "authorizing_card", "authorizing_afterpay", "capturing",
           "completing", "canceling", "canceled", "paid"}
Authorizing(leg) == IF leg = "card" THEN "authorizing_card" ELSE "authorizing_afterpay"
Nothing == [stage |-> "reserved", order |-> FALSE, ids |-> {}]
Unseen == [leg \in Legs |-> "unseen"]

(* kind: post (with payment tokens), status, event, cron; seen: what Square *)
(* answered about each leg; caught: the run is in its catch block.         *)
Idle == [pc |-> "idle", next |-> "none", key |-> None, kind |-> "none",
         st |-> Nothing, seen |-> Unseen, caught |-> FALSE]

Unlocked == {"idle", "enroll", "load", "fail", "tell"}
Holds(p, r) == run[p].key = r /\ run[p].pc \notin Unlocked

Init ==
    /\ status = [r \in Reservations |-> "none"]
    /\ enrolled = [r \in Reservations |-> FALSE]
    /\ notice = [r \in Reservations |-> "none"]
    /\ split = [r \in Reservations |-> Nothing]
    /\ payment = [r \in Reservations |-> [leg \in Legs |-> "none"]]
    /\ settled = [r \in Reservations |-> FALSE]
    /\ run = [p \in Runs |-> Idle]
    /\ late = {}
    /\ asked = [r \in Reservations |-> [leg \in Legs |-> 0]]
    /\ told = [r \in Reservations |-> {}]
    /\ faults = 0

-----------------------------------------------------------------------------
(* Where a run goes: each returns the run's next record.                   *)

At(x, pc) == [x EXCEPT !.pc = pc]
Saving(x, stage, next) == [x EXCEPT !.pc = "save", !.st.stage = stage, !.next = next]
Reading(x, next) == [x EXCEPT !.pc = "read", !.seen = Unseen, !.next = next]
Canceling(x) == Saving([x EXCEPT !.seen = Unseen], "canceling", "cancel")

(* A capture whose outcome is unknown keeps the reservation; anything else  *)
(* is cancelled, once more if it was cancelling already.                   *)
Thrown(x) ==
    CASE x.caught -> Idle
      [] ~x.caught /\ x.st.stage \in {"capturing", "completing"} -> Idle
      [] OTHER -> Canceling([x EXCEPT !.caught = TRUE])

(* The result, once the lock is released: only a request and the status    *)
(* page tell it, and a request fails the order it gives up.                *)
Answering(x, answer) ==
    IF x.kind \notin {"post", "status"} THEN Idle
    ELSE [x EXCEPT !.pc = IF x.kind = "post" /\ answer = "retry" THEN "fail" ELSE "tell",
                   !.next = answer]

(* Mutant: only the card's authorisation is taken for interruptible.       *)
interruptedCard(st) == st.stage = "authorizing_card" /\ "card" \notin st.ids

(* An authorisation whose answer was never recorded.                       *)
Interrupted(st) ==
    \E leg \in Legs : st.stage = Authorizing(leg) /\ leg \notin st.ids

(* The order first, then the card, then Afterpay; only a request brings    *)
(* the tokens an authorisation takes.                                      *)
Onward(x) ==
    IF x.st.order /\ x.st.ids = Legs THEN Reading(x, "decide")
    ELSE IF x.kind # "post" THEN Canceling(x)
    ELSE IF ~x.st.order THEN At(x, "order")
    ELSE LET leg == IF "card" \in x.st.ids THEN "afterpay" ELSE "card"
         IN Saving(x, Authorizing(leg), leg)

-----------------------------------------------------------------------------
(* The checkout request, and the three ways an interrupted one is resumed. *)

(* createPendingSquareTrainingCardOrder: one order per reservation key,    *)
(* reused when the same key comes again.                                   *)
Reserve(p, r) ==
    /\ run[p].pc = "idle"
    /\ status' = [status EXCEPT ![r] = IF @ = "none" THEN "pending" ELSE @]
    /\ run' = [run EXCEPT ![p] = [Idle EXCEPT !.pc = "enroll", !.key = r, !.kind = "post"]]
    /\ UNCHANGED <<enrolled, notice, split, square, told, faults>>

(* createTrainingEnrollment: idempotent on the order.                      *)
Enroll(p) ==
    /\ run[p].pc = "enroll"
    /\ enrolled' = [enrolled EXCEPT ![run[p].key] = TRUE]
    /\ run' = [run EXCEPT ![p] = At(@, "load")]
    /\ UNCHANGED <<status, notice, split, square, told, faults>>

(* The status page, a payment event and the cron load without tokens.      *)
Resuming(p, r, kind) ==
    /\ run[p].pc = "idle"
    /\ run' = [run EXCEPT ![p] = [Idle EXCEPT !.pc = "load", !.key = r, !.kind = kind]]
    /\ UNCHANGED <<order, notice, split, square, told, faults>>

CheckStatus(p, r) == status[r] # "none" /\ Resuming(p, r, "status")

PaymentEvent(p, r) ==
    /\ \E leg \in Legs : payment[r][leg] = "COMPLETED"
    /\ Resuming(p, r, "event")

(* Mutant: the reconciliation looks for captures only.                     *)
reconcileCaptures(p, r) ==
    /\ status[r] = "pending"
    /\ split[r].stage \in {"capturing", "completing"}
    /\ Resuming(p, r, "cron")

reconcileTrainingSplits(p, r) ==
    /\ status[r] = "pending"
    /\ split[r].stage \notin {"reserved", "canceled", "paid"}
    /\ Resuming(p, r, "cron")

(* The advisory lock is tried once; a contender gives up.                  *)
Contend(p) ==
    /\ run[p].pc = "load"
    /\ \E q \in Runs \ {p} : Holds(q, run[p].key)
    /\ run' = [run EXCEPT ![p] = Idle]
    /\ UNCHANGED <<order, notice, split, square, told, faults>>

(* What the stored stage says is left to do.                               *)
Resumed(x) ==
    CASE x.st.stage = "paid" -> At(x, "notify")
      [] x.st.stage = "canceled" -> Answering(x, "retry")
      [] x.st.stage = "canceling" \/ Interrupted(x.st) -> Canceling(x)
      [] OTHER -> Onward(x)

Load(p) ==
    LET r == run[p].key IN
    /\ run[p].pc = "load"
    /\ \A q \in Runs \ {p} : ~Holds(q, r)
    /\ run' = [run EXCEPT ![p] =
                 IF status[r] \in {"pending", "paid"} \/ split[r].stage = "canceled"
                 THEN Resumed([@ EXCEPT !.st = split[r]])
                 ELSE Idle]
    /\ UNCHANGED <<order, notice, split, square, told, faults>>

-----------------------------------------------------------------------------
(* Writes of the order's row.  A write may fail, or commit and not be      *)
(* heard of.                                                               *)

Written(p, r) ==
    /\ status[r] = "pending"
    /\ split' = [split EXCEPT ![r] = run[p].st]

AfterSave(x) ==
    CASE x.next = "retry" -> Answering(x, "retry")
      [] x.next = "reread" -> Reading(x, "complete")
      [] x.next = "onward" -> Onward(x)
      [] x.next = "authorized" ->
           IF \E leg \in Legs : x.st.stage = Authorizing(leg) /\ x.seen[leg] = "APPROVED"
           THEN Onward(x) ELSE Canceling(x)
      [] OTHER -> At(x, x.next)

save(p) ==
    LET r == run[p].key IN
    /\ run[p].pc = "save"
    /\ \/ Written(p, r) /\ run' = [run EXCEPT ![p] = AfterSave(@)]
       \/ status[r] # "pending" /\ split' = split /\ run' = [run EXCEPT ![p] = Thrown(@)]
    /\ UNCHANGED <<order, notice, square, told, faults>>

(* The status, the stage and the receipt in one guarded update.            *)
finalize(p) ==
    LET r == run[p].key IN
    /\ run[p].pc = "finalize"
    /\ \/ /\ status[r] = "pending"
          /\ status' = [status EXCEPT ![r] = "paid"]
          /\ split' = [split EXCEPT ![r] = [run[p].st EXCEPT !.stage = "paid"]]
          /\ run' = [run EXCEPT ![p] = At(@, "notify")]
       \/ /\ status[r] # "pending"
          /\ run' = [run EXCEPT ![p] = Thrown(@)]
          /\ UNCHANGED <<status, split>>
    /\ UNCHANGED <<enrolled, notice, square, told, faults>>

-----------------------------------------------------------------------------
(* Calls to Square.  Every call names its payment or its key, so that one  *)
(* that is repeated or arrives late does what it would have done once.     *)

createOrder(p) ==
    /\ run[p].pc = "order"
    /\ run' = [run EXCEPT ![p] = [@ EXCEPT !.pc = "save", !.st.order = TRUE, !.next = "onward"]]
    /\ UNCHANGED <<order, notice, split, square, told, faults>>

(* What Square does with a call: an authorisation is accepted or declined, *)
(* PayOrder takes both payments or - as the Sandbox does - only marks the  *)
(* order, completing and cancelling act on an authorised payment alone.    *)
Authorized(r, leg, result) ==
    /\ payment' = [payment EXCEPT ![r][leg] = IF @ = "none" THEN result ELSE @]
    /\ settled' = settled

Payable(r) == settled[r] \/ \A leg \in Legs : payment[r][leg] = "APPROVED"

OrderPaid(r, taken) ==
    /\ Payable(r)
    /\ settled' = [settled EXCEPT ![r] = TRUE]
    /\ payment' = IF taken /\ ~settled[r]
                  THEN [payment EXCEPT ![r] = [leg \in Legs |-> "COMPLETED"]] ELSE payment

Completed(r, leg) ==
    /\ payment[r][leg] = "APPROVED"
    /\ payment' = [payment EXCEPT ![r][leg] = "COMPLETED"]
    /\ settled' = settled

(* By id or, while the id is unknown, by idempotency key: with no payment  *)
(* under the key there is nothing to cancel.                               *)
Canceled(r, leg) ==
    /\ payment[r][leg] # "COMPLETED"
    /\ payment' = [payment EXCEPT ![r][leg] = IF @ = "APPROVED" THEN "CANCELED" ELSE @]
    /\ settled' = settled

(* A decline throws, or answers with a payment that is not approved.       *)
authorize(p, leg) ==
    LET r == run[p].key IN
    /\ run[p].pc = leg
    /\ asked' = [asked EXCEPT ![r][leg] = @ + 1]
    /\ \E result \in {"APPROVED", "FAILED"} :
          /\ Authorized(r, leg, result)
          /\ run' = [run EXCEPT ![p] =
               [run[p] EXCEPT !.pc = "save", !.st.ids = @ \cup {leg},
                              !.seen[leg] = payment'[r][leg], !.next = "authorized"]]
    /\ UNCHANGED <<order, notice, split, late, told, faults>>

Declined(p, leg) ==
    /\ run[p].pc = leg
    /\ payment[run[p].key][leg] = "none"
    /\ asked' = [asked EXCEPT ![run[p].key][leg] = @ + 1]
    /\ payment' = [payment EXCEPT ![run[p].key][leg] = "FAILED"]
    /\ run' = [run EXCEPT ![p] = Thrown(@)]
    /\ UNCHANGED <<order, notice, split, settled, late, told, faults>>

getPayment(p, leg) ==
    /\ run[p].pc = "read"
    /\ run[p].seen[leg] = "unseen"
    /\ run' = [run EXCEPT ![p].seen[leg] = payment[run[p].key][leg]]
    /\ UNCHANGED <<order, notice, split, square, told, faults>>

-----------------------------------------------------------------------------
(* Both payments are read, then acted upon.                                *)

Seen(x, statuses) == \A leg \in Legs : x.seen[leg] \in statuses

(* A dead portion cancels the other, unless that one is captured: then a   *)
(* human has to look.                                                      *)
Decided(x) ==
    IF Seen(x, {"COMPLETED"}) THEN Saving(x, "capturing", "finalize")
    ELSE IF \E leg \in Legs : x.seen[leg] \in {"CANCELED", "FAILED"}
    THEN IF \E leg \in Legs : x.seen[leg] = "COMPLETED" THEN Idle ELSE Canceling(x)
    ELSE IF x.st.stage # "completing" THEN Saving(x, "capturing", "pay")
    ELSE Reading(x, "complete")

(* Mutant: one captured portion makes the order paid.                      *)
verifiedPortion(x) ==
    IF \E leg \in Legs : x.seen[leg] = "COMPLETED" THEN At(x, "finalize") ELSE Idle

Verified(x) == IF Seen(x, {"COMPLETED"}) THEN At(x, "finalize") ELSE Idle

readPayments(p) ==
    /\ run[p].pc = "read"
    /\ \A leg \in Legs : run[p].seen[leg] # "unseen"
    /\ run' = [run EXCEPT ![p] = CASE @.next = "decide" -> Decided(@)
                                 [] @.next = "complete" -> At(@, "complete")
                                 [] OTHER -> Verified(@)]
    /\ UNCHANGED <<order, notice, split, square, told, faults>>

payOrder(p) ==
    LET r == run[p].key IN
    /\ run[p].pc = "pay"
    /\ \/ /\ \E taken \in BOOLEAN : OrderPaid(r, taken)
          /\ run' = [run EXCEPT ![p] = Saving(@, "completing", "reread")]
       \/ /\ ~Payable(r)
          /\ run' = [run EXCEPT ![p] = Thrown(@)]
          /\ UNCHANGED <<payment, settled>>
    /\ UNCHANGED <<order, notice, split, late, asked, told, faults>>

Uncompleted(x) == {leg \in Legs : x.seen[leg] = "APPROVED"}
FirstOf(legs) == IF "card" \in legs THEN "card" ELSE "afterpay"

(* A payment read as approved is completed by its id; Square refuses when  *)
(* it is no longer approved.                                               *)
complete(p) ==
    LET r == run[p].key
        leg == FirstOf(Uncompleted(run[p])) IN
    /\ run[p].pc = "complete"
    /\ Uncompleted(run[p]) # {}
    /\ \/ /\ Completed(r, leg)
          /\ run' = [run EXCEPT ![p].seen[leg] = "COMPLETED"]
       \/ /\ payment[r][leg] # "APPROVED"
          /\ run' = [run EXCEPT ![p] = Thrown(@)]
          /\ UNCHANGED <<payment, settled>>
    /\ UNCHANGED <<order, notice, split, late, asked, told, faults>>

CompletedBoth(p) ==
    /\ run[p].pc = "complete"
    /\ Uncompleted(run[p]) = {}
    /\ run' = [run EXCEPT ![p] = Reading(@, "verify")]
    /\ UNCHANGED <<order, notice, split, square, told, faults>>

(* Both legs are tried, whatever becomes of the other.                     *)
cancel(p, leg) ==
    LET r == run[p].key IN
    /\ run[p].pc = "cancel"
    /\ run[p].seen[leg] = "unseen"
    /\ \/ /\ Canceled(r, leg)
          /\ run' = [run EXCEPT ![p].seen[leg] = "void"]
       \/ /\ payment[r][leg] = "COMPLETED"
          /\ run' = [run EXCEPT ![p].seen[leg] = "rejected"]
          /\ UNCHANGED <<payment, settled>>
    /\ UNCHANGED <<order, notice, split, late, asked, told, faults>>

(* Mutant: the reservation is given up when either leg is void.            *)
settledByOne(x) ==
    IF \E leg \in Legs : x.seen[leg] = "void" THEN Saving(x, "canceled", "retry") ELSE Idle

CancelSettled(x) == IF Seen(x, {"void"}) THEN Saving(x, "canceled", "retry") ELSE Idle

CanceledBoth(p) ==
    /\ run[p].pc = "cancel"
    /\ \A leg \in Legs : run[p].seen[leg] # "unseen"
    /\ run' = [run EXCEPT ![p] = CancelSettled(@)]
    /\ UNCHANGED <<order, notice, split, square, told, faults>>

-----------------------------------------------------------------------------
(* The result: the e-mails of a paid enrolment, the answer to the buyer.   *)

(* Another claim on the e-mails is taken for their being sent.             *)
notifyPaidTrainingOrder(p) ==
    LET r == run[p].key IN
    /\ run[p].pc = "notify"
    /\ notice' = [notice EXCEPT ![r] = IF @ = "none" THEN "sent" ELSE @]
    /\ run' = [run EXCEPT ![p] = Answering(@, "paid")]
    /\ UNCHANGED <<order, split, square, told, faults>>

ClaimExpires(r) ==
    /\ notice[r] = "claimed"
    /\ notice' = [notice EXCEPT ![r] = "none"]
    /\ UNCHANGED <<order, split, square, run, told, faults>>

markOrderVerificationFailed(p) ==
    /\ run[p].pc = "fail"
    /\ status' = [status EXCEPT ![run[p].key] =
                     IF @ = "pending" THEN "verification_failed" ELSE @]
    /\ run' = [run EXCEPT ![p] = At(@, "tell")]
    /\ UNCHANGED <<enrolled, notice, split, square, told, faults>>

Tell(p) ==
    /\ run[p].pc = "tell"
    /\ told' = [told EXCEPT ![run[p].key] = @ \cup {run[p].next}]
    /\ run' = [run EXCEPT ![p] = Idle]
    /\ UNCHANGED <<order, notice, split, square, faults>>

-----------------------------------------------------------------------------
(* Faults, MaxFaults in all, and what Square does by itself.               *)

Fault == faults < MaxFaults /\ faults' = faults + 1

(* The calls to Square a run is waiting for.                               *)
Sent(x) ==
    CASE x.pc \in Legs -> {<<x.key, "authorize", x.pc>>}
      [] x.pc = "pay" -> {<<x.key, "pay", "card">>}
      [] x.pc = "complete" /\ Uncompleted(x) # {} ->
           {<<x.key, "complete", FirstOf(Uncompleted(x))>>}
      [] x.pc = "cancel" ->
           {<<x.key, "cancel", leg>> : leg \in {l \in Legs : x.seen[l] = "unseen"}}
      [] OTHER -> {}

Asking(x) ==
    asked' = IF x.pc \in Legs THEN [asked EXCEPT ![x.key][x.pc] = @ + 1] ELSE asked

(* No answer, or an error, from Square: the call may be processed at any   *)
(* later time, or never.                                                   *)
Unanswered(p) ==
    /\ Fault
    /\ \E m \in Sent(run[p]) :
          /\ late' = late \cup {m}
          /\ run' = [run EXCEPT ![p] = IF @.pc = "cancel" THEN [@ EXCEPT !.seen[m[3]] = "rejected"]
                                       ELSE Thrown(@)]
    /\ Asking(run[p])
    /\ UNCHANGED <<order, notice, split, payment, settled, told>>

(* A read or the creation of the order fails.                              *)
Unread(p) ==
    /\ Fault
    /\ run[p].pc \in {"read", "order"}
    /\ run' = [run EXCEPT ![p] = Thrown(@)]
    /\ UNCHANGED <<order, notice, split, square, told>>

(* The write fails, before it commits or after.                            *)
Unwritten(p) ==
    /\ Fault
    /\ \/ run[p].pc = "save" /\ status' = status /\ (split' = split \/ Written(p, run[p].key))
       \/ run[p].pc = "finalize" /\ UNCHANGED <<status, split>>
       \/ /\ run[p].pc = "finalize"
          /\ status[run[p].key] = "pending"
          /\ status' = [status EXCEPT ![run[p].key] = "paid"]
          /\ split' = [split EXCEPT ![run[p].key] = [run[p].st EXCEPT !.stage = "paid"]]
    /\ run' = [run EXCEPT ![p] = Thrown(@)]
    /\ UNCHANGED <<enrolled, notice, square, told>>

(* The process dies, or its e-mails fail: nothing in memory survives, and   *)
(* a claim on the e-mails may be left behind.                              *)
Dies(p) ==
    /\ Fault
    /\ run[p].pc # "idle"
    /\ late' = late \cup Sent(run[p])
    /\ Asking(run[p])
    /\ \/ notice' = notice
       \/ /\ run[p].pc = "notify" /\ notice[run[p].key] = "none"
          /\ notice' = [notice EXCEPT ![run[p].key] = "claimed"]
    /\ run' = [run EXCEPT ![p] = Idle]
    /\ UNCHANGED <<order, split, payment, settled, told>>

(* An order that cannot be marked as failed keeps nobody from answering.   *)
Unmarked(p) ==
    /\ Fault
    /\ run[p].pc = "fail"
    /\ run' = [run EXCEPT ![p] = At(@, "tell")]
    /\ UNCHANGED <<order, notice, split, square, told>>

(* A call that lost its caller is processed after all.                     *)
Lands(m) ==
    /\ late' = late \ {m}
    /\ \/ m[2] = "authorize" /\ \E result \in {"APPROVED", "FAILED"} : Authorized(m[1], m[3], result)
       \/ m[2] = "pay" /\ \E taken \in BOOLEAN : OrderPaid(m[1], taken)
       \/ m[2] = "complete" /\ Completed(m[1], m[3])
       \/ m[2] = "cancel" /\ Canceled(m[1], m[3])
    /\ UNCHANGED <<order, notice, split, run, asked, told, faults>>

(* An authorisation is voided, at the Dashboard or by its age.             *)
Voided(r, leg) ==
    /\ payment[r][leg] = "APPROVED"
    /\ payment' = [payment EXCEPT ![r][leg] = "CANCELED"]
    /\ UNCHANGED <<order, notice, split, settled, late, asked, run, told, faults>>

-----------------------------------------------------------------------------
RunSteps(p) ==
    \/ Enroll(p) \/ Contend(p) \/ Load(p) \/ save(p) \/ finalize(p) \/ createOrder(p)
    \/ \E leg \in Legs : authorize(p, leg) \/ Declined(p, leg) \/ getPayment(p, leg) \/ cancel(p, leg)
    \/ readPayments(p) \/ payOrder(p) \/ complete(p) \/ CompletedBoth(p) \/ CanceledBoth(p)
    \/ notifyPaidTrainingOrder(p) \/ markOrderVerificationFailed(p) \/ Tell(p)

Faults(p) == Unanswered(p) \/ Unread(p) \/ Unwritten(p) \/ Dies(p) \/ Unmarked(p)

Next ==
    \/ \E p \in Runs : RunSteps(p) \/ Faults(p)
    \/ \E p \in Runs, r \in Reservations :
          Reserve(p, r) \/ CheckStatus(p, r) \/ PaymentEvent(p, r) \/ reconcileTrainingSplits(p, r)
    \/ \E r \in Reservations : ClaimExpires(r)
    \/ \E m \in late : Lands(m)
    \/ \E r \in Reservations, leg \in Legs : Voided(r, leg)

Spec == Init /\ [][Next]_vars

(* A run that has started goes on, and the reconciliation runs every       *)
(* minute: no fairness of buyers, webhooks or late calls is needed.        *)
Fairness ==
    /\ \A p \in Runs : WF_vars(RunSteps(p))
    /\ \A r \in Reservations : SF_vars(\E p \in Runs : reconcileTrainingSplits(p, r))

FairSpec == Spec /\ Fairness

-----------------------------------------------------------------------------
TypeOK ==
    /\ \A r \in Reservations :
          /\ status[r] \in {"none", "pending", "paid", "verification_failed"}
          /\ split[r].stage \in Stages
          /\ notice[r] \in {"none", "claimed", "sent"}
          /\ \A leg \in Legs : payment[r][leg] \in {"none", "APPROVED", "COMPLETED", "CANCELED", "FAILED"}
    /\ \A p \in Runs : run[p].key \in Reservations \cup {None} /\ run[p].st.stage \in Stages

(* Never a portion: an order is paid once both payments are captured, and  *)
(* the stage that frees the buyer to pay again is reached, and kept, with  *)
(* neither of them captured - whatever a dead run's calls still do.        *)
AllOrNothing ==
    \A r \in Reservations :
        /\ status[r] = "paid" => \A leg \in Legs : payment[r][leg] = "COMPLETED"
        /\ split[r].stage = "canceled" => \A leg \in Legs : payment[r][leg] # "COMPLETED"

(* A buyer told to try again with a new reservation never pays for the old *)
(* one; a buyer told `paid` has an enrolment on a paid order.              *)
AnswerTrue ==
    \A r \in Reservations :
        /\ "retry" \in told[r] =>
              status[r] # "paid" /\ \A leg \in Legs : payment[r][leg] # "COMPLETED"
        /\ "paid" \in told[r] => status[r] = "paid" /\ enrolled[r]

(* A payment key is used once: no retry, resume or race asks Square again  *)
(* with new tokens after an answer that got lost.                          *)
NeverReauthorized == \A r \in Reservations, leg \in Legs : asked[r][leg] <= 1

(* One portion captured and the other dead: left to a human.               *)
Partial(r) ==
    /\ \E leg \in Legs : payment[r][leg] = "COMPLETED"
    /\ \E leg \in Legs : payment[r][leg] \in {"CANCELED", "FAILED"}

(* Whatever broke off, a split that has begun ends paid or cancelled, or   *)
(* with a portion taken that only a human can give back.                   *)
SplitResolves ==
    \A r \in Reservations :
        split[r].stage # "reserved" ~> split[r].stage \in {"paid", "canceled"} \/ Partial(r)

-----------------------------------------------------------------------------
(* What the documentation says and the code does not all keep.             *)

(* docs/square-afterpay.md: a new attempt only after both cancellations    *)
(* are confirmed, unknown outcomes included.                               *)
NoHoldLeft ==
    \A r \in Reservations :
        split[r].stage = "canceled" => \A leg \in Legs : payment[r][leg] # "APPROVED"

(* docs/square-afterpay.md: webhooks, the cron and the status page recover *)
(* an interrupted request, the scheduling notifications included.          *)
NoticeArrives ==
    \A r \in Reservations : status[r] = "paid" ~> notice[r] = "sent"
=============================================================================
