--------------------------- MODULE HighLevelSync ---------------------------
(* The projection of one contact into the HighLevel CRM (lib/highlevel):   *)
(* the jobs that database triggers queue, the worker that carries them to  *)
(* the provider, the ledger of effects that must not happen twice, and the *)
(* journeys (marketing workflows) a contact may be in, one at a time.      *)
(*                                                                         *)
(* A worker updates the contact under one advisory lock and commits, then  *)
(* runs the effects under another.  Consent writers, the retention job, a  *)
(* pause of marketing and the erasure by staff take neither lock.  The     *)
(* ledger is written on a connection of its own, so a rollback keeps it.   *)
EXTENDS Integers, FiniteSets

CONSTANTS
    Workers,      \* overlapping runs of the cron job
    Staff,        \* administrators who may erase the contact
    Inquiries, Offers, Orders,   \* what the shop records of the contact
    Choices,      \* the consent events of the contact
    Subscribed,   \* the contact is known to HighLevel and opted in from the start
    MaxSwitches,  \* bound for the redeployments that pause or resume marketing
    MaxAttempts,  \* bound for attempts of a job (8 in the code)
    MaxFaults,    \* crashes, failed calls and outrun leases
    None

Procs == Workers \cup Staff
Jobs == (Inquiries \X {"submitted", "removed"}) \cup (Offers \X {"offered"})
        \cup (Orders \X {"paid", "dispatched", "refunded"}) \cup (Choices \X {"chosen"})
Entities == Inquiries \cup Offers \cup Orders \cup Choices
Journeys == {"journey"} \X (Inquiries \cup Offers \cup Orders)
Keys == ({"note", "opportunity", "task"} \X Inquiries) \cup Journeys
Workflow(k) == IF k[2] \in Inquiries THEN "inquiry"
               ELSE IF k[2] \in Offers THEN "welcome" ELSE "purchase"

(* What is recorded of the contact has one kind; staff run no jobs.        *)
ASSUME HighLevelAssumption ==
    /\ Subscribed \in BOOLEAN
    /\ MaxSwitches \in Nat /\ MaxAttempts \in Nat \ {0} /\ MaxFaults \in Nat
    /\ Workers \cap Staff = {}
    /\ Inquiries \cap (Offers \cup Orders \cup Choices) = {}
    /\ Offers \cap (Orders \cup Choices) = {} /\ Orders \cap Choices = {}
    /\ None \notin Jobs

VARIABLES
    source,     \* the rows a job refers to
    converted,  \* what was submitted before an order was paid
    consent,    \* the choice of the latest consent event
    latest,     \* ... and that event
    marketing,  \* HIGHLEVEL_MARKETING_ENABLED
    switches,   \* how often it was switched
    job,        \* highlevel_outbox
    mapped,     \* the contact row has a provider_id
    erased,     \* the contact row is a tombstone
    recorded,   \* the entities with a row of kind entity in the ledger
    effect,     \* highlevel_effects, by key
    aged,       \* journeys admitted more than 14 days ago
    proc,       \* what each worker, and Staff, is doing
    remote,     \* the contact at HighLevel
    eligible,   \* its email_eligible field
    dnd,        \* do not disturb is set for its email
    notes,      \* the inquiries whose note it shows
    enrolled,   \* the workflows it is in
    accepted,   \* how often HighLevel carried out each effect
    inflight,   \* keyed calls whose caller gave up and that may yet arrive
    late,       \* ... and calls that may be repeated
    stray,      \* journeys admitted after they were ended
    faults

flagVars == <<marketing, switches>>
shopVars == <<source, converted, consent, latest, flagVars>>
ledgerVars == <<mapped, erased, recorded, effect, aged>>
remoteVars == <<remote, eligible, dnd, notes, enrolled, accepted, inflight, late, stray>>
vars == <<shopVars, job, ledgerVars, proc, remoteVars, faults>>

Idle == [at |-> "idle", job |-> None, key |-> None, read |-> None, todo |-> {},
         then |-> "idle", agreed |-> FALSE, barred |-> FALSE, live |-> FALSE, verdict |-> None]

NoJob == [state |-> "none", by |-> None, attempts |-> 0, over |-> FALSE]

Init ==
    /\ source = [e \in Entities |-> "none"] /\ converted = {}
    /\ consent = (IF Subscribed THEN "opted_in" ELSE "unknown") /\ latest = None
    /\ marketing = TRUE /\ switches = 0
    /\ job = [j \in Jobs |-> NoJob]
    /\ mapped = Subscribed /\ erased = FALSE /\ recorded = {}
    /\ effect = [k \in Keys |-> "none"] /\ aged = {}
    /\ proc = [p \in Procs |-> Idle]
    /\ remote = (IF Subscribed THEN "live" ELSE "none") /\ eligible = Subscribed /\ dnd = FALSE
    /\ notes = {} /\ enrolled = {}
    /\ accepted = [k \in Keys |-> 0] /\ inflight = {} /\ late = {} /\ stray = {}
    /\ faults = 0

-----------------------------------------------------------------------------
(* The shop.  Every change queues its job in the same transaction.         *)

Queue(j) == job' = [job EXCEPT ![j].state = "queued"]
ShopOnly == UNCHANGED <<ledgerVars, proc, remoteVars, faults>>

Submit(i) ==
    /\ source[i] = "none"
    /\ source' = [source EXCEPT ![i] = "live"]
    /\ Queue(<<i, "submitted">>)
    /\ ShopOnly /\ UNCHANGED <<converted, consent, latest, flagVars>>

(* Retention redacts a submission.                                         *)
Redact(i) ==
    /\ source[i] = "live"
    /\ source' = [source EXCEPT ![i] = "removed"]
    /\ Queue(<<i, "removed">>)
    /\ ShopOnly /\ UNCHANGED <<converted, consent, latest, flagVars>>

highlevel_capture_offer(d) ==
    /\ source[d] = "none" /\ consent = "opted_in"
    /\ source' = [source EXCEPT ![d] = "live"]
    /\ Queue(<<d, "offered">>)
    /\ ShopOnly /\ UNCHANGED <<converted, consent, latest, flagVars>>

OrderMoves(o, from, to) ==
    /\ source[o] \in from
    /\ source' = [source EXCEPT ![o] = to]
    /\ converted' = IF to = "paid"
                    THEN converted \cup {e \in Inquiries \cup Offers : source[e] # "none"}
                    ELSE converted
    /\ Queue(<<o, to>>)
    /\ ShopOnly /\ UNCHANGED <<consent, latest, flagVars>>

Changes(o) ==
    \/ OrderMoves(o, {"none"}, "paid")
    \/ OrderMoves(o, {"paid"}, "dispatched")
    \/ OrderMoves(o, {"paid", "dispatched"}, "refunded")

(* A consent event; a withdrawal also revokes the offers not yet sent.     *)
Chooses(c, choice) ==
    /\ source[c] = "none" /\ consent # choice
    /\ consent' = choice /\ latest' = c
    /\ source' = [e \in Entities |->
                     IF e = c THEN "live"
                     ELSE IF choice = "unsubscribed" /\ e \in Offers /\ source[e] = "live"
                     THEN "revoked" ELSE source[e]]
    /\ Queue(<<c, "chosen">>)
    /\ ShopOnly /\ UNCHANGED <<converted, flagVars>>

SwitchMarketing ==
    /\ switches < MaxSwitches
    /\ marketing' = ~marketing /\ switches' = switches + 1
    /\ ShopOnly /\ UNCHANGED <<source, converted, consent, latest, job>>

(* Fourteen days pass; the age of a journey matters to another one only.   *)
JourneyAges(k) ==
    /\ Journeys # {k}
    /\ effect[k] \in {"pending", "succeeded"} /\ k \notin aged
    /\ aged' = aged \cup {k}
    /\ UNCHANGED <<shopVars, job, mapped, erased, recorded, effect, proc, remoteVars, faults>>

-----------------------------------------------------------------------------
(* Jobs.                                                                   *)

Entity(p) == proc[p].job[1]
Goes(p, to) == proc' = [proc EXCEPT ![p].at = to]
Takes(p, k) == proc' = [proc EXCEPT ![p].at = "claiming", ![p].key = k]
Ends(p, verdict) == proc' = [proc EXCEPT ![p] = [Idle EXCEPT !.at = "finishing",
                                                           !.job = proc[p].job,
                                                           !.verdict = verdict]]

Due(j) == \/ job[j].state \in {"queued", "retry"}
          \/ job[j].state = "processing" /\ job[j].over

Gone == {"removed", "revoked"}

(* Consent first; welcomes wait while marketing is paused.  The source is  *)
(* read right after the claim.                                             *)
claimJobs(w, j) ==
    /\ proc[w].at = "idle" /\ Due(j)
    /\ j[1] \notin Choices => \A c \in Choices : job[<<c, "chosen">>].state # "queued"
    /\ j[1] \in Offers => marketing
    /\ job' = [job EXCEPT ![j] = [state |-> "processing", by |-> w, over |-> FALSE,
                                  attempts |-> @.attempts + 1]]
    /\ proc' = [proc EXCEPT ![w] =
                   [Idle EXCEPT !.at = IF source[j[1]] \in Gone THEN "retiring" ELSE "mapping",
                                !.job = j, !.read = source[j[1]], !.live = marketing]]
    /\ UNCHANGED <<shopVars, ledgerVars, remoteVars, faults>>

Held(w) == job[proc[w].job].state = "processing" /\ job[proc[w].job].by = w

(* Waiting for another journey, or for marketing to resume, costs nothing. *)
Counted(v, n) == IF v = "busy" THEN n - 1 ELSE n

finishJob(w) ==
    LET v == proc[w].verdict
        n == Counted(v, job[proc[w].job].attempts)
    IN /\ proc[w].at = "finishing"
       /\ job' = IF ~Held(w) THEN job
                 ELSE [job EXCEPT ![proc[w].job] =
                          IF v = "busy" \/ (v = "retry" /\ n < MaxAttempts)
                          THEN [NoJob EXCEPT !.state = "retry", !.attempts = n]
                          ELSE [NoJob EXCEPT !.state = IF v = "retry" THEN "dead_letter" ELSE v]]
       /\ proc' = [proc EXCEPT ![w] = Idle]
       /\ UNCHANGED <<shopVars, ledgerVars, remoteVars, faults>>

-----------------------------------------------------------------------------
(* syncSource: the contact itself, under the lock of its address.          *)

Syncing == {"inserting", "selecting", "finding", "upserting", "projecting", "putting",
            "committing"}

AddressLocked == \E p \in Procs : proc[p].at \in Syncing
RowLocked == \E p \in Procs : proc[p].at \in Syncing \ {"inserting", "selecting"}

(* getContact is three statements, each of which sees what was committed   *)
(* before it: a tombstone ends the job; a row is made unless there is one; *)
(* the row is taken, and it is gone when it became a tombstone since.      *)
getContact(w) ==
    /\ proc[w].at = "mapping" /\ ~AddressLocked
    /\ IF erased THEN Ends(w, "review") ELSE Goes(w, "inserting")
    /\ UNCHANGED <<shopVars, job, ledgerVars, remoteVars, faults>>

insertContact(w) ==
    /\ proc[w].at = "inserting"
    /\ Goes(w, IF mapped /\ ~erased THEN "selecting" ELSE "finding")
    /\ UNCHANGED <<shopVars, job, ledgerVars, remoteVars, faults>>

selectContact(w) ==
    /\ proc[w].at = "selecting"
    /\ IF erased THEN Ends(w, "retry") ELSE Goes(w, "projecting")
    /\ UNCHANGED <<shopVars, job, ledgerVars, remoteVars, faults>>

(* A row without a provider_id takes the contact with its address, or a    *)
(* new one.                                                                *)
findContact(w) ==
    /\ proc[w].at = "finding"
    /\ Goes(w, IF remote \in {"live", "recreated"} THEN "projecting" ELSE "upserting")
    /\ UNCHANGED <<shopVars, job, ledgerVars, remoteVars, faults>>

UpsertContact ==
    /\ remote' = CASE remote = "none" -> "live" [] remote = "deleted" -> "recreated"
                   [] OTHER -> remote
    /\ eligible' = FALSE
    /\ UNCHANGED <<dnd, notes, enrolled, accepted, inflight, stray>>

UpsertCall == <<"upsert", FALSE, FALSE>>
upsert(w) ==
    /\ proc[w].at = "upserting"
    /\ UpsertContact /\ UNCHANGED late
    /\ Goes(w, "projecting")
    /\ UNCHANGED <<shopVars, job, ledgerVars, faults>>

(* The contact of the row: a row made after the erasure holds the new one. *)
Reachable == remote = IF erased THEN "recreated" ELSE "live"

(* The contact as HighLevel has it, then the consent of this moment.       *)
readContact(w) ==
    /\ proc[w].at = "projecting"
    /\ IF ~Reachable THEN Ends(w, "review")
       ELSE proc' = [proc EXCEPT ![w].at = "putting",
                                 ![w].agreed = consent = "opted_in" /\ ~dnd,
                                 ![w].barred = consent = "unsubscribed" /\ ~dnd]
    /\ UNCHANGED <<shopVars, job, ledgerVars, remoteVars, faults>>

(* Mutant: a withdrawal is written to the field alone.                     *)
putUnbarred(agreed, barred) ==
    /\ eligible' = agreed
    /\ UNCHANGED <<remote, dnd, notes, enrolled, accepted, inflight, stray>>

(* The program sets do not disturb and never lifts it.                     *)
PutContact(agreed, barred) ==
    /\ eligible' = agreed /\ dnd' = (dnd \/ barred)
    /\ UNCHANGED <<remote, notes, enrolled, accepted, inflight, stray>>

putContact(w) ==
    /\ proc[w].at = "putting"
    /\ IF Reachable
       THEN /\ PutContact(proc[w].agreed, proc[w].barred) /\ UNCHANGED late
            /\ proc' = [proc EXCEPT ![w].at = "committing", ![w].agreed = FALSE,
                                     ![w].barred = FALSE]
       ELSE Ends(w, "review") /\ UNCHANGED remoteVars
    /\ UNCHANGED <<shopVars, job, ledgerVars, faults>>

commitSync(w) ==
    /\ proc[w].at = "committing"
    /\ mapped' = TRUE /\ recorded' = recorded \cup {Entity(w)}
    /\ IF proc[w].read = "retained" THEN Ends(w, "skipped") ELSE Goes(w, "following")
    /\ UNCHANGED <<shopVars, job, erased, effect, aged, remoteVars, faults>>

-----------------------------------------------------------------------------
(* The ledger: a key is claimed before its call and settled after it.      *)

After(w, k) ==
    CASE k[1] = "note" -> Goes(w, "searching")
      [] k[1] = "opportunity" ->
            IF effect'[k] = "succeeded" THEN Takes(w, <<"task", k[2]>>) ELSE Ends(w, "review")
      [] k[1] = "task" -> Goes(w, "consulting")
      [] k[1] = "journey" -> IF k[2] \in Offers THEN Goes(w, "handing_off")
                             ELSE Ends(w, "succeeded")

durableEffect(w) ==
    LET k == proc[w].key
    IN /\ proc[w].at = "claiming"
       /\ effect' = [effect EXCEPT ![k] = IF @ = "none" THEN "pending" ELSE @]
       /\ CASE effect[k] = "none" -> Goes(w, "posting")
            [] effect[k] = "pending" -> Ends(w, "review")
            [] OTHER -> After(w, k)
       /\ UNCHANGED <<shopVars, job, mapped, erased, recorded, aged, remoteVars, faults>>

(* A stop has removed the contact from the journey of k, or is about to    *)
(* say so.                                                                 *)
Ended(k) == \/ effect[k] = "cancelled"
            \/ \E p \in Procs : proc[p].at = "cancelling" /\ proc[p].key = k

(* HighLevel carries out the call of a key.                                *)
Performs(k) ==
    IF remote = "live"
    THEN /\ accepted' = [accepted EXCEPT ![k] = @ + 1]
         /\ notes' = IF k[1] = "note" THEN notes \cup {k[2]} ELSE notes
         /\ enrolled' = IF k \in Journeys THEN enrolled \cup {Workflow(k)} ELSE enrolled
         /\ stray' = IF k \in Journeys /\ Ended(k) THEN stray \cup {k} ELSE stray
         /\ UNCHANGED <<remote, eligible, dnd, late>>
    ELSE UNCHANGED <<remote, eligible, dnd, notes, enrolled, accepted, late, stray>>

(* Nothing was done: the row goes, so that a later job may try again.      *)
Unclaim(k) == effect' = [effect EXCEPT ![k] = IF @ = "pending" THEN "none" ELSE @]

postEffect(w) ==
    /\ proc[w].at = "posting"
    /\ Performs(proc[w].key)
    /\ IF remote = "live" THEN Goes(w, "recording") /\ UNCHANGED effect
       ELSE Ends(w, "review") /\ Unclaim(proc[w].key)
    /\ UNCHANGED <<shopVars, job, mapped, erased, recorded, aged, inflight, faults>>

(* The row is settled by its key, whatever its state has become.           *)
recordEffect(w) ==
    /\ proc[w].at = "recording"
    /\ effect' = [effect EXCEPT ![proc[w].key] = "succeeded"]
    /\ After(w, proc[w].key)
    /\ UNCHANGED <<shopVars, job, mapped, erased, recorded, aged, remoteVars, faults>>

-----------------------------------------------------------------------------
(* syncEffects, under the lock of the contact's effects.                   *)

Following == {"claiming", "posting", "recording", "searching", "consulting", "deciding",
              "offering", "handing_off"}
Stoppers == {"stopping", "cancelling"}
(* Mutant: the effects of a contact are run without a lock.                *)
effectsUnlocked == FALSE

EffectsLocked ==
    \E p \in Procs : \/ proc[p].at \in Following
                     \/ /\ proc[p].at \in Stoppers
                        /\ proc[p].then \in {"deciding", "succeeded", "claiming"}

(* The row is read again before the lock.  What becomes of a contact that  *)
(* was created again is not followed further.                              *)
loadContact(w) ==
    /\ proc[w].at = "following"
    /\ IF erased THEN Ends(w, "succeeded") ELSE Goes(w, "awaiting")
    /\ UNCHANGED <<shopVars, job, ledgerVars, remoteVars, faults>>

lockEffects(w) ==
    /\ proc[w].at = "awaiting" /\ ~EffectsLocked
    /\ IF Entity(w) \in Inquiries THEN Takes(w, <<"note", Entity(w)>>)
       ELSE Goes(w, "consulting")
    /\ UNCHANGED <<shopVars, job, ledgerVars, remoteVars, faults>>

(* An open deal of the same name is used before one is made.               *)
searchOpportunity(w) ==
    LET made == {i \in Inquiries : accepted[<<"opportunity", i>>] > 0}
    IN /\ proc[w].at = "searching"
       /\ IF made = {} THEN Takes(w, <<"opportunity", Entity(w)>>)
          ELSE IF Cardinality(made) > 1 THEN Ends(w, "review")
          ELSE Takes(w, <<"task", CHOOSE i \in made : TRUE>>)
       /\ UNCHANGED <<shopVars, job, ledgerVars, remoteVars, faults>>

(* stopJourneys: the rows are listed once, then each is ended at HighLevel *)
(* and cancelled.                                                          *)
Running(ks) == {k \in ks : effect[k] \in {"pending", "succeeded"}}
Reaches(rec, to) ==
    IF to \in {"succeeded", "skipped", "busy", "review"}
    THEN [Idle EXCEPT !.at = "finishing", !.job = rec.job, !.verdict = to]
    ELSE [rec EXCEPT !.at = to, !.todo = {}, !.then = "idle",
                     !.key = IF to = "claiming" THEN <<"journey", rec.job[1]>> ELSE None]
Stopping(rec, ks, to) ==
    IF Running(ks) = {} THEN Reaches(rec, to)
    ELSE [rec EXCEPT !.at = "stopping", !.todo = Running(ks), !.then = to]

Others(w) == Journeys \ {<<"journey", Entity(w)>>}
Admissible(w) ==
    /\ proc[w].live
    /\ \/ Entity(w) \in Orders /\ proc[w].read = "dispatched"
       \/ Entity(w) \in (Inquiries \cup Offers) \ converted

(* One journey at a time: only an offer waits for its turn.                *)
Decision(w, rec) ==
    LET offer == Entity(w) \in Offers
    IN IF ~rec.agreed \/ rec.read = "refunded" THEN Stopping(rec, Journeys, "succeeded")
       ELSE IF offer /\ ~rec.live THEN Reaches(rec, "busy")
       ELSE IF ~Admissible(w) THEN Reaches(rec, "succeeded")
       ELSE IF ~(Running(Others(w)) \subseteq aged)
       THEN Reaches(rec, IF offer THEN "busy" ELSE "succeeded")
       ELSE IF offer THEN Reaches(rec, "offering")
       ELSE Stopping(rec, Others(w), "claiming")

(* The consent is read once; a paid order then ends the sales journeys     *)
(* before anything is decided.                                             *)
Sales == {k \in Journeys : k[2] \notin Orders}
consultConsent(w) ==
    LET rec == [proc[w] EXCEPT !.agreed = consent = "opted_in"]
    IN /\ proc[w].at = "consulting"
       /\ proc' = [proc EXCEPT ![w] =
             IF proc[w].read \in {"paid", "dispatched"} /\ Running(Sales) # {}
             THEN Stopping(rec, Sales, "deciding") ELSE Decision(w, rec)]
       /\ UNCHANGED <<shopVars, job, ledgerVars, remoteVars, faults>>

decideJourney(w) ==
    /\ proc[w].at = "deciding"
    /\ proc' = [proc EXCEPT ![w] = Decision(w, proc[w])]
    /\ UNCHANGED <<shopVars, job, ledgerVars, remoteVars, faults>>

(* An offer revoked since its job was read is left; else its fields go to  *)
(* the contact.                                                            *)
offerFields(w) ==
    /\ proc[w].at = "offering"
    /\ proc' = [proc EXCEPT ![w] =
          IF source[Entity(w)] = "revoked" THEN Reaches(proc[w], "succeeded")
          ELSE IF remote # "live" THEN Reaches(proc[w], "review")
          ELSE Stopping(proc[w], Others(w), "claiming")]
    /\ UNCHANGED <<shopVars, job, ledgerVars, remoteVars, faults>>

RemoveFrom(workflow) ==
    /\ enrolled' = enrolled \ {workflow}
    /\ stray' = {s \in stray : Workflow(s) # workflow}
    /\ UNCHANGED <<remote, eligible, dnd, notes, accepted, inflight>>

stopJourney(p) ==
    /\ proc[p].at = "stopping"
    /\ \E k \in proc[p].todo :
          /\ RemoveFrom(Workflow(k)) /\ UNCHANGED late
          /\ proc' = [proc EXCEPT ![p].at = "cancelling", ![p].todo = @ \ {k}, ![p].key = k]
    /\ UNCHANGED <<shopVars, job, ledgerVars, faults>>

cancelJourney(p) ==
    /\ proc[p].at = "cancelling"
    /\ effect' = [effect EXCEPT ![proc[p].key] = "cancelled"]
    /\ proc' = [proc EXCEPT ![p] = IF proc[p].todo = {} THEN Reaches(proc[p], proc[p].then)
                                   ELSE [proc[p] EXCEPT !.at = "stopping"]]
    /\ UNCHANGED <<shopVars, job, mapped, erased, recorded, aged, remoteVars, faults>>

(* The offer's row is marked sent, unless a withdrawal took it.            *)
handOff(w) ==
    /\ proc[w].at = "handing_off"
    /\ source' = [source EXCEPT ![Entity(w)] = IF @ = "live" THEN "sent" ELSE @]
    /\ Ends(w, "succeeded")
    /\ UNCHANGED <<converted, consent, latest, flagVars, job, ledgerVars, remoteVars, faults>>

-----------------------------------------------------------------------------
(* reconcileRemovedSource: what a redacted source left at HighLevel.  It   *)
(* takes no lock until it projects what is retained.                       *)

Retained == ~erased /\ \/ consent = "opted_in"
                       \/ \E e \in Inquiries : source[e] = "live"
                       \/ \E e \in Orders : source[e] # "none"
Weighed(w, rec) ==
    IF Retained
    THEN Stopping([rec EXCEPT !.read = "retained"], {k \in Journeys : k[2] = Entity(w)}, "mapping")
    ELSE Stopping(rec, Journeys, "clearing")

reconcileRemovedSource(w) ==
    LET e == Entity(w)
    IN /\ proc[w].at = "retiring"
       /\ proc' = [proc EXCEPT ![w] =
             IF e \notin recorded THEN Reaches(proc[w], "skipped")
             ELSE IF e \in Inquiries /\ effect[<<"note", e>>] = "succeeded"
             THEN Reaches(proc[w], "unnoting") ELSE Weighed(w, proc[w])]
       /\ UNCHANGED <<shopVars, job, ledgerVars, remoteVars, faults>>

deleteNote(w) ==
    /\ proc[w].at = "unnoting"
    /\ notes' = notes \ {Entity(w)}
    /\ Goes(w, "unnoted")
    /\ UNCHANGED <<shopVars, job, ledgerVars, remote, eligible, dnd, enrolled, accepted,
                   inflight, late, stray, faults>>

cancelNote(w) ==
    /\ proc[w].at = "unnoted"
    /\ effect' = [effect EXCEPT ![<<"note", Entity(w)>>] = "cancelled"]
    /\ Goes(w, "weighing")
    /\ UNCHANGED <<shopVars, job, mapped, erased, recorded, aged, remoteVars, faults>>

loadRetainedSource(w) ==
    /\ proc[w].at = "weighing"
    /\ proc' = [proc EXCEPT ![w] = Weighed(w, proc[w])]
    /\ UNCHANGED <<shopVars, job, ledgerVars, remoteVars, faults>>

clearContact(w) ==
    /\ proc[w].at = "clearing"
    /\ IF remote = "live" THEN PutContact(FALSE, FALSE) /\ UNCHANGED late
       ELSE UNCHANGED remoteVars
    /\ Ends(w, "review")
    /\ UNCHANGED <<shopVars, job, ledgerVars, faults>>

-----------------------------------------------------------------------------
(* Staff, and the pause.                                                   *)

(* Every run starts by ending the journeys while marketing is paused.      *)
pauseMarketing(w) ==
    /\ proc[w].at = "idle" /\ ~marketing /\ mapped /\ ~erased
    /\ Running(Journeys) # {}
    /\ proc' = [proc EXCEPT ![w] = Stopping(Idle, Journeys, "idle")]
    /\ UNCHANGED <<shopVars, job, ledgerVars, remoteVars, faults>>

deleteReviewedCrmCopy(p) ==
    /\ proc[p].at = "idle" /\ mapped /\ ~erased
    /\ proc' = [proc EXCEPT ![p] = Stopping(Idle, Journeys, "deleting")]
    /\ UNCHANGED <<shopVars, job, ledgerVars, remoteVars, faults>>

(* A call to a contact that is gone has no effect any more.                *)
Remaining == {c \in late : c[1] = "upsert"}
deleteContact(p) ==
    /\ proc[p].at = "deleting"
    /\ IF remote = "live"
       THEN /\ remote' = "deleted" /\ eligible' = FALSE /\ dnd' = FALSE
            /\ notes' = {} /\ enrolled' = {} /\ stray' = {} /\ late' = Remaining
       ELSE UNCHANGED <<remote, eligible, dnd, notes, enrolled, stray, late>>
    /\ Goes(p, "tombstoning")
    /\ UNCHANGED <<shopVars, job, ledgerVars, accepted, inflight, faults>>

(* The row becomes a tombstone.  A worker that projects the contact holds  *)
(* it; the lock of the address is not taken.                               *)
tombstone(p) ==
    /\ proc[p].at = "tombstoning" /\ (erased \/ ~RowLocked)
    /\ erased' = TRUE
    /\ effect' = [k \in Keys |-> IF effect[k] = "none" THEN "none" ELSE "cancelled"]
    /\ consent' = "unknown" /\ latest' = None
    /\ source' = [e \in Entities |-> IF e \in Choices /\ source[e] = "live" THEN "removed"
                                     ELSE source[e]]
    /\ proc' = [proc EXCEPT ![p] = Idle]
    /\ UNCHANGED <<converted, flagVars, job, mapped, recorded, aged, remoteVars, faults>>

replayHighLevelJob(j) ==
    /\ job[j].state \in {"review", "dead_letter", "retry"}
    /\ job' = [job EXCEPT ![j].state = "queued", ![j].attempts = 0]
    /\ UNCHANGED <<shopVars, ledgerVars, proc, remoteVars, faults>>

(* Staff look at the provider, never while a request is still in flight.   *)
resolveHighLevelEffect(k) ==
    /\ effect[k] = "pending" /\ k \notin inflight
    /\ \A p \in Procs : proc[p].at \in {"posting", "recording"} => proc[p].key # k
    /\ effect' = [effect EXCEPT ![k] = IF accepted[k] > 0 THEN "succeeded" ELSE "none"]
    /\ UNCHANGED <<shopVars, job, mapped, erased, recorded, aged, proc, remoteVars, faults>>

-----------------------------------------------------------------------------
(* Faults.                                                                 *)

Fault == faults < MaxFaults /\ faults' = faults + 1
Working == {w \in Workers : proc[w].at # "idle"}
Fails(w, verdict) == IF proc[w].job = None THEN proc' = [proc EXCEPT ![w] = Idle]
                     ELSE Ends(w, verdict)

(* HighLevel refuses a call, for now or for good.                          *)
CallRefused(p) ==
    /\ proc[p].at \in {"finding", "upserting", "projecting", "putting", "posting",
                       "searching", "offering", "stopping", "unnoting", "clearing", "deleting"}
    /\ Fault
    /\ \E v \in {"retry", "review"} : Fails(p, v)
    /\ IF proc[p].at = "posting" THEN Unclaim(proc[p].key) ELSE UNCHANGED effect
    /\ UNCHANGED <<shopVars, job, mapped, erased, recorded, aged, remoteVars>>

(* Mutant: a call without an answer is forgotten and tried again.          *)
forgetUnanswered(w) ==
    /\ proc[w].at = "posting" /\ Fault
    /\ Performs(proc[w].key) /\ UNCHANGED inflight
    /\ Unclaim(proc[w].key) /\ Ends(w, "retry")
    /\ UNCHANGED <<shopVars, job, mapped, erased, recorded, aged>>

(* A call that must not happen twice gets no answer: it was carried out,   *)
(* it still will be, or never.  Its row stays.                             *)
PostUnanswered(w) ==
    /\ proc[w].at = "posting" /\ Fault
    /\ \/ Performs(proc[w].key) /\ UNCHANGED inflight
       \/ /\ inflight' = inflight \cup {proc[w].key}
          /\ UNCHANGED <<remote, eligible, dnd, notes, enrolled, accepted, late, stray>>
       \/ UNCHANGED remoteVars
    /\ \/ Ends(w, "review")
       \/ proc' = [proc EXCEPT ![w] = Idle]
    /\ UNCHANGED <<shopVars, job, ledgerVars>>

(* What a process asks of HighLevel that it may ask again: the call is     *)
(* made without an idempotency key.                                        *)
Repeatable(p) ==
    CASE proc[p].at = "upserting" -> {UpsertCall}
      [] proc[p].at = "putting" /\ Reachable -> {<<"put", proc[p].agreed, proc[p].barred>>}
      [] proc[p].at = "clearing" /\ remote = "live" -> {<<"put", FALSE, FALSE>>}
      [] proc[p].at = "stopping" /\ remote = "live" ->
            {<<Workflow(k), FALSE, FALSE>> : k \in proc[p].todo}
      [] OTHER -> {}
Arrives(c) == IF c[1] = "upsert" THEN UpsertContact
              ELSE IF c[1] = "put" THEN PutContact(c[2], c[3])
              ELSE RemoveFrom(c[1])

(* Such a call gets no answer: it was carried out, or still will be.       *)
CallUnanswered(p) ==
    /\ \E c \in Repeatable(p) :
          \/ Arrives(c) /\ UNCHANGED late
          \/ /\ late' = late \cup {c}
             /\ UNCHANGED <<remote, eligible, dnd, notes, enrolled, accepted, inflight, stray>>
    /\ Fault
    /\ Fails(p, "retry")
    /\ UNCHANGED <<shopVars, job, ledgerVars>>

(* A statement fails, or the advisory lock is not had in five seconds.     *)
DbFails(w) ==
    /\ w \in Working /\ proc[w].at # "finishing" /\ Fault
    /\ Fails(w, "retry")
    /\ UNCHANGED <<shopVars, job, ledgerVars, remoteVars>>

LockTimesOut(w) ==
    /\ \/ proc[w].at = "mapping" /\ AddressLocked
       \/ proc[w].at = "awaiting" /\ EffectsLocked
    /\ Ends(w, "retry")
    /\ UNCHANGED <<shopVars, job, ledgerVars, remoteVars, faults>>

Crash(p) ==
    /\ proc[p].at # "idle" /\ Fault
    /\ proc' = [proc EXCEPT ![p] = Idle]
    /\ UNCHANGED <<shopVars, job, ledgerVars, remoteVars>>

LeaseExpires(j) ==
    /\ job[j].state = "processing" /\ ~job[j].over
    /\ job' = [job EXCEPT ![j].over = TRUE]
    /\ IF \E w \in Workers : proc[w].job = j THEN Fault ELSE UNCHANGED faults
    /\ UNCHANGED <<shopVars, ledgerVars, proc, remoteVars>>

LateCall(k) ==
    /\ k \in inflight
    /\ inflight' = inflight \ {k}
    /\ Performs(k)
    /\ UNCHANGED <<shopVars, job, ledgerVars, proc, faults>>

LateRepeatable(c) ==
    /\ c \in late
    /\ late' = late \ {c}
    /\ Arrives(c)
    /\ UNCHANGED <<shopVars, job, ledgerVars, proc, faults>>

-----------------------------------------------------------------------------
ShopStep ==
    \/ \E i \in Inquiries : Submit(i) \/ Redact(i)
    \/ \E d \in Offers : highlevel_capture_offer(d)
    \/ \E o \in Orders : Changes(o)
    \/ \E c \in Choices : Chooses(c, "opted_in") \/ Chooses(c, "unsubscribed")
    \/ SwitchMarketing
    \/ \E k \in Journeys : JourneyAges(k)

WorkerStep(w) ==
    \/ finishJob(w)
    \/ getContact(w) \/ insertContact(w) \/ selectContact(w) \/ findContact(w)
    \/ upsert(w) \/ readContact(w) \/ putContact(w) \/ commitSync(w)
    \/ loadContact(w) \/ lockEffects(w) \/ durableEffect(w) \/ postEffect(w) \/ recordEffect(w)
    \/ searchOpportunity(w) \/ consultConsent(w) \/ decideJourney(w) \/ offerFields(w)
    \/ handOff(w)
    \/ reconcileRemovedSource(w) \/ deleteNote(w) \/ cancelNote(w) \/ loadRetainedSource(w)
    \/ clearContact(w)

StaffStep ==
    \/ \E p \in Staff : deleteReviewedCrmCopy(p) \/ deleteContact(p) \/ tombstone(p)
    \/ \E j \in Jobs : replayHighLevelJob(j)
    \/ \E k \in Keys : resolveHighLevelEffect(k)

Next ==
    \/ ShopStep \/ StaffStep
    \/ \E w \in Workers :
        \/ \E j \in Jobs : claimJobs(w, j)
        \/ pauseMarketing(w) \/ WorkerStep(w)
        \/ PostUnanswered(w) \/ DbFails(w) \/ LockTimesOut(w)
    \/ \E p \in Procs : \/ stopJourney(p) \/ cancelJourney(p)
                        \/ CallRefused(p) \/ CallUnanswered(p) \/ Crash(p)
    \/ \E j \in Jobs : LeaseExpires(j)
    \/ \E k \in inflight : LateCall(k)
    \/ \E c \in late : LateRepeatable(c)

Spec == Init /\ [][Next]_vars

-----------------------------------------------------------------------------
(* No note, deal, task or admission is carried out twice, whatever was     *)
(* retried, replayed or resolved by staff: the ledger keeps a key whose    *)
(* call has no answer.                                                     *)
EffectOnce == \A k \in Keys : accepted[k] <= 1

(* A contact is in one journey at a time.                                  *)
OneJourney == Cardinality(enrolled) > 1 => stray # {}

(* When the job of a withdrawal is done, the contact may not be mailed and *)
(* is in no journey: no worker that read the consent before still has an   *)
(* answer to write, and a late one finds do not disturb set.  An admission *)
(* that HighLevel carries out after its caller gave up and after the       *)
(* journey was cancelled is beyond the code.                               *)
WithdrawalReaches ==
    /\ consent = "unsubscribed" /\ stray = {}
    /\ job[<<latest, "chosen">>].state = "succeeded"
    => (~eligible \/ dnd) /\ enrolled = {}

(* "[...] replaces the local email with a keyed tombstone so queued source *)
(* events cannot recreate it": an erased contact is not created again.     *)
(* The code does: getContact looks for the tombstone before it makes a row.*)
ErasedStays == erased => remote = "deleted"

(* "Source deletion/redaction queues CRM cleanup: the expired source's     *)
(* website-owned note is removed" - once that job is done.                 *)
NoteRemoved ==
    \A i \in Inquiries :
        job[<<i, "removed">>].state = "skipped" => i \notin notes

TypeOK ==
    /\ source \in [Entities -> {"none", "live", "removed", "revoked", "sent", "paid",
                                "dispatched", "refunded"}]
    /\ consent \in {"unknown", "opted_in", "unsubscribed"} /\ latest \in Choices \cup {None}
    /\ effect \in [Keys -> {"none", "pending", "succeeded", "cancelled"}]
    /\ remote \in {"none", "live", "deleted", "recreated"}
    /\ \A j \in Jobs : /\ job[j].state \in {"none", "queued", "processing", "retry", "succeeded",
                                           "skipped", "review", "dead_letter"}
                       /\ job[j].attempts \in 0..(MaxAttempts + MaxFaults)
=============================================================================
