------------------------ MODULE HighLevelSyncProofs ------------------------
(***************************************************************************)
(* Proofs about the projection of a contact into the CRM.  Four arguments  *)
(* run through them, one after the other, each on the facts of those       *)
(* before it: the ledger keeps the key of every call that was or may yet   *)
(* be carried out; a contact that is gone is in no journey, and is asked   *)
(* for no mail; one worker at a time admits to a journey, and what         *)
(* HighLevel shows is covered by the ledger; and what the job of a         *)
(* withdrawal has done is not undone by a worker that read the consent     *)
(* before, or by a call that HighLevel carries out late.                   *)
(***************************************************************************)
EXTENDS HighLevelSync, FiniteSetTheorems, TLAPS

-----------------------------------------------------------------------------
(* The record of a process, and what it holds in each place.               *)

Reasons == {"idle", "deleting", "deciding", "succeeded", "claiming", "mapping", "clearing"}
Verdicts == {"retry", "busy", "succeeded", "skipped", "review"}
Sources == {"none", "live", "removed", "revoked", "sent", "paid", "dispatched", "refunded"}
Unemployed == {"idle", "deleting", "tombstoning"}
Keyed == {"claiming", "posting", "recording"}
Retiring == {"retiring", "unnoting", "unnoted", "weighing", "clearing"}
Places == Unemployed \cup Retiring \cup Syncing \cup Following \cup Stoppers
          \cup {"mapping", "following", "awaiting", "finishing"}

Records == [at : Places, job : Jobs \cup {None}, key : Keys \cup {None},
            read : Sources \cup {"retained", None}, todo : SUBSET Journeys,
            then : Reasons, agreed : BOOLEAN, barred : BOOLEAN, live : BOOLEAN,
            verdict : Verdicts \cup {None}]

JourneyOf(x) == <<"journey", x.job[1]>>

(* The key is one of the entity of the job, or of a deal found for it.     *)
KeyFits(x) == /\ x.key \in Keys
              /\ x.key \in Journeys => x.key = JourneyOf(x)
              /\ x.key \notin Journeys => x.job[1] \in Inquiries

Fits(x) ==
    /\ x \in Records
    /\ x.at \in Unemployed => x.job = None
    /\ x.at \notin Unemployed \cup Stoppers => x.job \in Jobs
    /\ x.at = "searching" => x.job[1] \in Inquiries
    /\ x.at \in {"offering", "handing_off"} => x.job[1] \in Offers
    /\ x.at \in Keyed => KeyFits(x)
    /\ x.at \in Stoppers => /\ x.then \in {"idle", "deleting"} => x.job = None
                            /\ x.then \notin {"idle", "deleting"} => x.job \in Jobs
                            /\ x.then = "claiming" => JourneyOf(x) \in Journeys
    /\ x.at = "cancelling" => x.key \in Journeys
    /\ x.at = "finishing" => x.verdict \in Verdicts
Fitting == proc \in [Procs -> Records] /\ \A p \in Procs : Fits(proc[p])

(* The states of a source before the change that queues a job.             *)
Before(kind) == CASE kind \in {"submitted", "offered", "paid", "chosen"} -> {"none"}
                  [] kind = "removed" -> {"none", "live"}
                  [] kind = "dispatched" -> {"none", "paid"}
                  [] kind = "refunded" -> {"none", "paid", "dispatched"}
Fresh == \A j \in Jobs : source[j[1]] \in Before(j[2])
                         => job[j] = NoJob /\ \A p \in Procs : proc[p].job # j

(* An attempt beyond the bound was charged to a fault.                     *)
JobStates == {"none", "queued", "processing", "retry", "succeeded", "skipped", "review",
              "dead_letter"}
JobRecords ==
    {b \in [state : JobStates, by : Workers \cup {None}, attempts : Nat, over : BOOLEAN] :
        b.state = "processing" => b.by \in Workers /\ b.attempts > 0}
Charged ==
    \A j \in Jobs :
        IF job[j].state = "processing"
        THEN /\ job[j].attempts <= MaxAttempts + faults
             /\ job[j].over \/ proc[job[j].by].job # j
                => job[j].attempts < MaxAttempts + faults
        ELSE job[j].attempts < MaxAttempts + faults

(* The calls that may be made again.                                       *)
Workflows == {"inquiry", "welcome", "purchase"}
Calls == ({"put", "upsert"} \cup Workflows) \X BOOLEAN \X BOOLEAN
Remotes == {"none", "live", "deleted", "recreated"}
Data ==
    /\ source \in [Entities -> Sources]
    /\ consent \in {"unknown", "opted_in", "unsubscribed"} /\ latest \in Choices \cup {None}
    /\ effect \in [Keys -> {"none", "pending", "succeeded", "cancelled"}]
    /\ remote \in Remotes /\ late \subseteq Calls
    /\ job \in [Jobs -> JobRecords] /\ faults \in 0..MaxFaults
    /\ recorded \subseteq Entities /\ accepted \in [Keys -> Nat] /\ inflight \subseteq Keys
    /\ stray \subseteq Journeys /\ enrolled \subseteq Workflows
    /\ {mapped, erased, eligible, dnd, marketing} \subseteq BOOLEAN
Types == Data /\ Fitting

-----------------------------------------------------------------------------
(* The ledger.                                                             *)

Posting(p, k) == proc[p].at = "posting" /\ proc[p].key = k
OnceFor(k) ==
    /\ accepted[k] <= 1
    /\ k \in inflight => accepted[k] = 0
    /\ accepted[k] > 0 \/ k \in inflight => effect[k] # "none"
    /\ \A p \in Procs :
          Posting(p, k) => /\ effect[k] # "none" /\ accepted[k] = 0 /\ k \notin inflight
                           /\ \A q \in Procs : Posting(q, k) => q = p
Once == \A k \in Keys : OnceFor(k)

(* The contact.  One that staff erase was at HighLevel once; one that is   *)
(* not there is in no journey, and nothing on its way would have it mailed *)
(* before its row is a tombstone.                                          *)
Erasing(x) == x.at \in {"deleting", "tombstoning"} \/ (x.at \in Stoppers /\ x.then = "deleting")
Known ==
    /\ mapped => remote # "none"
    /\ remote # "live" => enrolled = {}
    /\ remote # "live" /\ ~erased => ~eligible /\ \A c \in late : c[1] # "put"
    /\ \A p \in Procs : /\ proc[p].at = "committing" \/ Erasing(proc[p]) => remote # "none"
                        /\ proc[p].at = "tombstoning" => remote # "live"

(* The journeys.                                                           *)
Holds(x) == \/ x.at \in Following
            \/ x.at \in Stoppers /\ x.then \in {"deciding", "succeeded", "claiming"}
OneHolder == \A p, q \in Procs : Holds(proc[p]) /\ Holds(proc[q]) => p = q

Left(x) == x.todo \cup (IF x.at = "cancelling" THEN {x.key} ELSE {})
Allows(x, r) ==
    /\ x.at \in Keyed /\ x.key \in Journeys => r \subseteq {x.key}
    /\ x.at \in Stoppers /\ x.then = "claiming" => r \subseteq Left(x) \cup {JourneyOf(x)}
    /\ x.at \in Stoppers /\ x.then = "succeeded" => r \subseteq Left(x)
Single == /\ \A k, l \in Running(Journeys) : k = l
          /\ \A p \in Procs : Allows(proc[p], Running(Journeys))

Cancelling(k) == \E p \in Procs : proc[p].at = "cancelling" /\ proc[p].key = k
Covers(k) == accepted[k] > 0 /\ (k \in stray \/ (k \in Running(Journeys) /\ ~Cancelling(k)))
Covered == \A f \in enrolled : \E k \in Journeys : Workflow(k) = f /\ Covers(k)

(* The withdrawal.  HighLevel has taken note of it when do not disturb is  *)
(* set, or when the contact was deleted since.                             *)
Noted == dnd \/ remote \in {"deleted", "recreated"}
Withdrawal == <<latest, "chosen">>
Carries(x) ==
    /\ x.at # "finishing" => x.read = "live"
    /\ x.at \notin Retiring /\ (x.at = "putting" => x.barred \/ Noted)
    /\ erased => x.at \in {"mapping", "finishing"}
    /\ x.at \in Following => x.at = "consulting"
    /\ x.at \in Stoppers => x.then = "succeeded"
Succeeding(x) == x.job = Withdrawal /\ x.at = "finishing" /\ x.verdict = "succeeded"
Wrote(x) == /\ x.job = Withdrawal
            /\ \/ x.at \in {"committing", "following", "awaiting", "consulting"} \cup Stoppers
               \/ Succeeding(x)
Admitting(x) == \/ x.at \in Keyed /\ x.key \in Journeys
                \/ x.at = "offering" \/ (x.at = "deciding" /\ x.agreed)
                \/ x.at \in Stoppers /\ x.then = "claiming"
                \/ x.at \in Stoppers /\ x.then = "deciding" /\ x.agreed
Withdrawn ==
    consent = "unsubscribed" =>
        /\ latest \in Choices /\ source[latest] = "live"
        /\ \A p \in Procs : proc[p].job = Withdrawal => Carries(proc[p])
        /\ job[Withdrawal].state = "succeeded" \/ (\E p \in Procs : Wrote(proc[p]))
           => ~erased /\ Noted
        /\ job[Withdrawal].state = "succeeded" \/ (\E p \in Procs : Succeeding(proc[p]))
           => Running(Journeys) = {} /\ \A q \in Procs : ~Admitting(proc[q])

-----------------------------------------------------------------------------
(* Facts about the constants.                                              *)

(* A job, a key and a journey each name an entity and what is done for it. *)
LEMMA JobParts ==
    \A j \in Jobs : /\ j = <<j[1], j[2]>> /\ j[1] \in Entities
                    /\ j[1] \in Inquiries <=> j[2] \in {"submitted", "removed"}
                    /\ j[1] \in Offers <=> j[2] = "offered"
                    /\ j[1] \in Orders <=> j[2] \in {"paid", "dispatched", "refunded"}
                    /\ j[1] \in Choices <=> j[2] = "chosen"
BY HighLevelAssumption DEF Jobs, Entities

LEMMA KeyParts ==
    \A k \in Keys : /\ k = <<k[1], k[2]>>
                    /\ k[1] \in {"note", "opportunity", "task", "journey"}
                    /\ k \in Journeys <=> k[1] = "journey"
                    /\ k \in Journeys => k[2] \in Inquiries \cup Offers \cup Orders
                    /\ k \notin Journeys => k[2] \in Inquiries
BY DEF Keys, Journeys

LEMMA KeysMade ==
    /\ \A i \in Inquiries, s \in {"note", "opportunity", "task"} :
          <<s, i>> \in Keys /\ <<s, i>> \notin Journeys
    /\ \A e \in Inquiries \cup Offers \cup Orders :
          <<"journey", e>> \in Keys /\ <<"journey", e>> \in Journeys
    /\ Journeys \subseteq Keys
    /\ \A k : k \in Journeys => /\ k[2] \in Inquiries \cup Offers \cup Orders
                               /\ k = <<"journey", k[2]>>
    /\ \A k : k \in Keys /\ k \notin Journeys => k[2] \in Inquiries
BY DEF Keys, Journeys

LEMMA JobsMade ==
    /\ \A i \in Inquiries : <<i, "submitted">> \in Jobs /\ <<i, "removed">> \in Jobs
    /\ \A d \in Offers : <<d, "offered">> \in Jobs
    /\ \A o \in Orders, s \in {"paid", "dispatched", "refunded"} : <<o, s>> \in Jobs
    /\ \A c \in Choices : <<c, "chosen">> \in Jobs
BY DEF Jobs

LEMMA NoneIsNoJob == None \notin Jobs
BY HighLevelAssumption

(* Who may be what.                                                        *)
LEMMA ProcsAre == /\ Workers \subseteq Procs /\ Staff \subseteq Procs
                  /\ \A w \in Workers : w \notin Staff
BY HighLevelAssumption DEF Procs

-----------------------------------------------------------------------------
(* The records a step leaves.                                              *)

LEMMA IdleFits == Idle \in Records /\ Fits(Idle)
BY DEF Idle, Records, Fits, Reasons, Places, Unemployed, Stoppers, Keyed, Syncing, Following,
   Retiring, Verdicts, KeyFits

Finishing(x, v) == [Idle EXCEPT !.at = "finishing", !.job = x.job, !.verdict = v]

LEMMA FinishingIs ==
    ASSUME NEW x \in Records, x.job \in Jobs, NEW v \in Verdicts
    PROVE  /\ Finishing(x, v) \in Records
           /\ Finishing(x, v).at = "finishing" /\ Finishing(x, v).job = x.job
           /\ Finishing(x, v).verdict = v /\ Finishing(x, v).todo = {}
BY DEF Finishing, Idle, Records, Reasons, Places, Verdicts

LEMMA FinishingFits ==
    ASSUME NEW x \in Records, x.job \in Jobs, NEW v \in Verdicts
    PROVE  Fits(Finishing(x, v))
BY FinishingIs DEF Fits, Unemployed, Stoppers, Keyed

(* What becomes of the record of a process that is done with something.    *)
Ending == {"succeeded", "skipped", "busy", "review"}
Reached(x, to, y) ==
    /\ y \in Records /\ y.job = x.job /\ y.todo = {}
    /\ to \in Ending => y.at = "finishing" /\ y.verdict = to
    /\ to \notin Ending => y.at = to /\ y.read = x.read /\ y.agreed = x.agreed
    /\ to = "claiming" => y.key = JourneyOf(x)

LEMMA ReachesIs ==
    ASSUME NEW x \in Records, NEW to \in Ending \cup Places,
           to \in Ending => x.job \in Jobs,
           to = "claiming" => JourneyOf(x) \in Journeys
    PROVE  Reached(x, to, Reaches(x, to))
<1>1. CASE to \in Ending
  <2>1. to \in Verdicts /\ Reaches(x, to) = Finishing(x, to)
    BY <1>1 DEF Reaches, Finishing, Ending, Verdicts
  <2>. QED
    BY <1>1, <2>1, FinishingIs DEF Reached, Ending
<1>2. CASE to \notin Ending
  <2>1. PICK k \in Keys \cup {None} :
          k = IF to = "claiming" THEN <<"journey", x.job[1]>> ELSE None
    BY KeysMade DEF JourneyOf
  <2>2. Reaches(x, to) = [x EXCEPT !.at = to, !.todo = {}, !.then = "idle", !.key = k]
    BY <1>2, <2>1 DEF Reaches, Ending
  <2>3. to \in Places
    BY <1>2
  <2>. QED
    BY <1>2, <2>1, <2>2, <2>3 DEF Reached, Records, Reasons, JourneyOf, Ending
<1>. QED
  BY <1>1, <1>2

Stops(x, ks, to, y) ==
    /\ y \in Records /\ y.job = x.job /\ y.todo = Running(ks) /\ y.at = "stopping"
    /\ y.then = to /\ y.read = x.read /\ y.agreed = x.agreed

LEMMA StoppingIs ==
    ASSUME NEW x \in Records, NEW to \in Reasons, NEW ks \in SUBSET Journeys,
           to = "succeeded" => x.job \in Jobs,
           to = "claiming" => JourneyOf(x) \in Journeys
    PROVE  \/ Running(ks) = {} /\ Reached(x, to, Stopping(x, ks, to))
           \/ Running(ks) # {} /\ Stops(x, ks, to, Stopping(x, ks, to))
<1>1. to \in Ending \cup Places /\ (to \in Ending => to = "succeeded")
  BY DEF Reasons, Ending, Places, Unemployed, Retiring, Following
<1>2. CASE Running(ks) = {}
  BY <1>1, <1>2, ReachesIs DEF Stopping
<1>3. CASE Running(ks) # {}
  <2>1. PICK t \in SUBSET Journeys : t = Running(ks)
    BY DEF Running
  <2>2. Stopping(x, ks, to) = [x EXCEPT !.at = "stopping", !.todo = t, !.then = to]
    BY <1>3, <2>1 DEF Stopping
  <2>. QED
    BY <1>3, <2>1, <2>2 DEF Stops, Records, Places, Stoppers
<1>. QED
  BY <1>2, <1>3

LEMMA ReachedFits ==
    ASSUME NEW x, NEW y, NEW to, Reached(x, to, y),
           to \notin {"idle", "deleting"} => x.job \in Jobs,
           to \in {"idle", "deleting"} => x.job = None,
           to \in Ending \cup {"idle", "deleting", "deciding", "claiming", "mapping",
                               "clearing", "offering", "unnoting"},
           to = "claiming" => JourneyOf(x) \in Journeys,
           to = "offering" => x.job[1] \in Offers
    PROVE  Fits(y)
<1>1. CASE to = "claiming"
  BY <1>1, KeysMade DEF Reached, Ending, Fits, Unemployed, Stoppers, Keyed, KeyFits, JourneyOf
<1>2. CASE to # "claiming"
  BY <1>2 DEF Reached, Ending, Fits, Unemployed, Stoppers, Keyed, KeyFits, Verdicts
<1>. QED
  BY <1>1, <1>2

LEMMA StopsFits ==
    ASSUME NEW x, NEW y, NEW ks, NEW to, Stops(x, ks, to, y),
           to \notin {"idle", "deleting"} => x.job \in Jobs,
           to \in {"idle", "deleting"} => x.job = None,
           to = "claiming" => JourneyOf(x) \in Journeys
    PROVE  Fits(y)
BY DEF Stops, Fits, Unemployed, Stoppers, Keyed, JourneyOf

(* The decision on a journey.                                              *)
Decided(w, x, y) ==
    \/ Running(Journeys) = {} /\ Reached(x, "succeeded", y)
    \/ Running(Journeys) # {} /\ Stops(x, Journeys, "succeeded", y)
    \/ x.agreed /\ Reached(x, "busy", y)
    \/ x.agreed /\ Reached(x, "succeeded", y)
    \/ x.agreed /\ x.job[1] \in Offers /\ Reached(x, "offering", y)
    \/ /\ x.agreed /\ JourneyOf(x) \in Journeys
       /\ \/ Running(Others(w)) = {} /\ Reached(x, "claiming", y)
          \/ Running(Others(w)) # {} /\ Stops(x, Others(w), "claiming", y)

LEMMA DecisionIs ==
    ASSUME NEW w, NEW x \in Records, x.job \in Jobs, proc[w].job = x.job
    PROVE  Decided(w, x, Decision(w, x))
<1>1. CASE ~x.agreed \/ x.read = "refunded"
  BY <1>1, StoppingIs DEF Decision, Decided, Reasons
<1>2. CASE x.agreed /\ x.read # "refunded"
  <2>1. Entity(w) = x.job[1]
    BY DEF Entity
  <2>2. CASE ~Admissible(w) \/ (Entity(w) \in Offers /\ ~x.live)
             \/ ~(Running(Others(w)) \subseteq aged)
    <3>1. \/ Decision(w, x) = Reaches(x, "busy") \/ Decision(w, x) = Reaches(x, "succeeded")
      BY <1>2, <2>2 DEF Decision
    <3>. QED
      BY <1>2, <3>1, ReachesIs DEF Decided, Ending
  <2>3. CASE /\ Admissible(w) /\ (Entity(w) \in Offers => x.live)
             /\ Running(Others(w)) \subseteq aged
    <3>1. CASE Entity(w) \in Offers
      <4>1. Decision(w, x) = Reaches(x, "offering")
        BY <1>2, <2>3, <3>1 DEF Decision
      <4>. QED
        BY <1>2, <2>1, <3>1, <4>1, ReachesIs DEF Decided, Places, Following
    <3>2. CASE Entity(w) \notin Offers
      <4>1. Decision(w, x) = Stopping(x, Others(w), "claiming")
        BY <1>2, <2>3, <3>2 DEF Decision
      <4>2. JourneyOf(x) \in Journeys
        BY <2>1, <2>3, KeysMade DEF Admissible, JourneyOf
      <4>3. Others(w) \in SUBSET Journeys /\ "claiming" \in Reasons
        BY DEF Others, Reasons
      <4>. QED
        BY <1>2, <4>1, <4>2, <4>3, StoppingIs DEF Decided
    <3>. QED
      BY <3>1, <3>2
  <2>. QED
    BY <2>2, <2>3
<1>. QED
  BY <1>1, <1>2

LEMMA DecidedFits ==
    ASSUME NEW w, NEW x, NEW y, x.job \in Jobs, Decided(w, x, y)
    PROVE  Fits(y) /\ y.job = x.job
<1>1. Fits(y)
  BY ReachedFits, StopsFits DEF Decided, Ending
<1>2. y.job = x.job
  BY DEF Decided, Reached, Stops
<1>. QED
  BY <1>1, <1>2

-----------------------------------------------------------------------------
(* Types.                                                                  *)

LEMMA Settles ==
    ASSUME Fitting, NEW p \in Procs, NEW y, Fits(y), proc' = [proc EXCEPT ![p] = y]
    PROVE  Fitting'
<1>1. y \in Records
  BY DEF Fits
<1>2. \A q \in Procs : Fits(proc'[q])
  BY DEF Fitting
<1>3. Fitting' = (proc' \in [Procs -> Records] /\ \A q \in Procs : Fits(proc'[q]))
  BY DEF Fitting, Fits, KeyFits, JourneyOf
<1>. QED
  BY <1>1, <1>2, <1>3 DEF Fitting

(* A worker with a job goes on to the next place.                          *)
Simple == {"mapping", "inserting", "selecting", "finding", "upserting", "projecting",
           "putting", "committing", "following", "awaiting", "consulting", "deciding",
           "weighing", "clearing", "retiring", "unnoting", "unnoted"}
LEMMA GoesSimple ==
    ASSUME Types, NEW p \in Procs, proc[p].at \notin Unemployed \cup Stoppers,
           NEW to \in Simple, Goes(p, to)
    PROVE  Fitting'
<1>1. PICK x \in Records : x = proc[p] /\ Fits(x)
  BY DEF Types, Fitting
<1>2. to \in Places
  BY DEF Simple, Places, Syncing, Retiring, Following
<1>3. [x EXCEPT !.at = to] \in Records
  BY <1>2 DEF Records
<1>4. PICK y \in Records : y = [x EXCEPT !.at = to]
  BY <1>3
<1>5. Fits(y)
  BY <1>1, <1>4 DEF Fits, Simple, Unemployed, Stoppers, Keyed
<1>. QED
  BY <1>1, <1>4, <1>5, Settles DEF Goes, Types

LEMMA EndsFits ==
    ASSUME Types, NEW p \in Procs, proc[p].job \in Jobs, NEW v \in Verdicts, Ends(p, v)
    PROVE  Fitting'
BY FinishingFits, Settles DEF Ends, Finishing, Types, Fitting

LEMMA RestFits ==
    ASSUME Types, NEW p \in Procs, proc' = [proc EXCEPT ![p] = Idle]
    PROVE  Fitting'
BY IdleFits, Settles DEF Types

LEMMA InitTypes == Init => Types
<1>. SUFFICES ASSUME Init
              PROVE  Types
  OBVIOUS
<1>1. NoJob \in JobRecords
  BY DEF NoJob, JobRecords, JobStates
<1>2. Data
  <2>1. job \in [Jobs -> JobRecords] /\ faults \in 0..MaxFaults
    BY <1>1, HighLevelAssumption DEF Init
  <2>2. /\ source \in [Entities -> Sources] /\ accepted \in [Keys -> Nat]
        /\ effect \in [Keys -> {"none", "pending", "succeeded", "cancelled"}]
    BY DEF Init, Sources
  <2>3. /\ consent \in {"unknown", "opted_in", "unsubscribed"} /\ latest \in Choices \cup {None}
        /\ remote \in Remotes /\ late \subseteq Calls
    BY DEF Init, Remotes
  <2>4. /\ recorded \subseteq Entities /\ inflight \subseteq Keys /\ stray \subseteq Journeys
        /\ enrolled \subseteq Workflows
        /\ {mapped, erased, eligible, dnd, marketing} \subseteq BOOLEAN
    BY HighLevelAssumption DEF Init
  <2>. QED
    BY <2>1, <2>2, <2>3, <2>4 DEF Data
<1>3. Fitting
  BY IdleFits DEF Init, Fitting
<1>. QED
  BY <1>2, <1>3 DEF Types

LEMMA QueueTypes ==
    ASSUME Types, NEW j \in Jobs, Queue(j)
    PROVE  job' \in [Jobs -> JobRecords]
<1>1. [job[j] EXCEPT !.state = "queued"] \in JobRecords
  BY DEF Types, Data, JobRecords, JobStates
<1>2. job' = [job EXCEPT ![j] = [job[j] EXCEPT !.state = "queued"]]
  BY DEF Queue
<1>. QED
  BY <1>1, <1>2 DEF Types, Data

LEMMA ProcSame == ASSUME Types, UNCHANGED proc PROVE Fitting'
BY DEF Types, Fitting, Fits, KeyFits, JourneyOf

LEMMA ShopTypes ==
    ASSUME Types, ShopStep
    PROVE  Types'
<1>. USE DEF Data, Types, shopVars, flagVars, ShopOnly, ledgerVars, remoteVars
<1>1. ASSUME NEW i \in Inquiries, Submit(i)
      PROVE  Types'
  BY <1>1, JobsMade, QueueTypes, ProcSame DEF Submit, Sources
<1>2. ASSUME NEW i \in Inquiries, Redact(i)
      PROVE  Types'
  BY <1>2, JobsMade, QueueTypes, ProcSame DEF Redact, Sources
<1>3. ASSUME NEW d \in Offers, highlevel_capture_offer(d)
      PROVE  Types'
  BY <1>3, JobsMade, QueueTypes, ProcSame DEF highlevel_capture_offer, Sources
<1>4. ASSUME NEW o \in Orders, Changes(o)
      PROVE  Types'
  <2>1. PICK s \in {"paid", "dispatched", "refunded"} :
          source' = [source EXCEPT ![o] = s] /\ Queue(<<o, s>>) /\ ShopOnly
          /\ UNCHANGED <<consent, latest, flagVars>>
    BY <1>4 DEF Changes, OrderMoves
  <2>. QED
    BY <2>1, JobsMade, QueueTypes, ProcSame DEF Sources
<1>5. ASSUME NEW c \in Choices, NEW choice \in {"opted_in", "unsubscribed"}, Chooses(c, choice)
      PROVE  Types'
  <2>1. source' \in [Entities -> Sources]
    BY <1>5 DEF Chooses, Sources
  <2>. QED
    BY <1>5, <2>1, JobsMade, QueueTypes, ProcSame DEF Chooses
<1>6. CASE SwitchMarketing
  BY <1>6, ProcSame DEF SwitchMarketing
<1>7. ASSUME NEW k \in Journeys, JourneyAges(k)
      PROVE  Types'
  BY <1>7, ProcSame DEF JourneyAges
<1>. QED
  BY <1>1, <1>2, <1>3, <1>4, <1>5, <1>6, <1>7 DEF ShopStep

(* Only p moves.                                                           *)
Only(p) == /\ p \in Procs /\ proc' \in [Procs -> Records]
           /\ \A q \in Procs : q # p => proc'[q] = proc[q]
Same(x, y) == y.job = x.job /\ y.key = x.key /\ y.read = x.read /\ y.agreed = x.agreed

LEMMA OnlyOne ==
    ASSUME Types, NEW p \in Procs, NEW y \in Records, proc' = [proc EXCEPT ![p] = y]
    PROVE  Only(p) /\ proc'[p] = y
BY DEF Types, Fitting, Only

LEMMA GoesIs ==
    ASSUME Types, NEW p \in Procs, NEW to \in Places, Goes(p, to)
    PROVE  /\ Only(p)
           /\ proc'[p].at = to /\ Same(proc[p], proc'[p]) /\ proc'[p].todo = proc[p].todo
           /\ proc'[p].then = proc[p].then
<1>1. PICK x \in Records : x = proc[p]
  BY DEF Types, Fitting
<1>2. [x EXCEPT !.at = to] \in Records
  BY DEF Records
<1>3. PICK y \in Records : y = [x EXCEPT !.at = to]
  BY <1>2
<1>4. proc' = [proc EXCEPT ![p] = y]
  BY <1>1, <1>3 DEF Goes
<1>5. Only(p) /\ proc'[p] = y
  BY <1>4, OnlyOne
<1>6. y.at = to /\ Same(x, y) /\ y.todo = x.todo /\ y.then = x.then
  BY <1>3 DEF Records, Same
<1>. QED
  BY <1>1, <1>5, <1>6

LEMMA TakesIs ==
    ASSUME Types, NEW p \in Procs, NEW k \in Keys, Takes(p, k)
    PROVE  /\ Only(p)
           /\ proc'[p].at = "claiming" /\ proc'[p].key = k /\ proc'[p].job = proc[p].job
           /\ proc'[p].agreed = proc[p].agreed /\ proc'[p].read = proc[p].read
<1>1. PICK x \in Records : x = proc[p]
  BY DEF Types, Fitting
<1>2. [x EXCEPT !.at = "claiming", !.key = k] \in Records
  BY DEF Records, Places, Following
<1>3. PICK y \in Records : y = [x EXCEPT !.at = "claiming", !.key = k]
  BY <1>2
<1>4. proc' = [proc EXCEPT ![p] = y]
  BY <1>1, <1>3 DEF Takes
<1>5. Only(p) /\ proc'[p] = y
  BY <1>4, OnlyOne
<1>6. y.at = "claiming" /\ y.key = k /\ y.job = x.job /\ y.agreed = x.agreed /\ y.read = x.read
  BY <1>3 DEF Records
<1>. QED
  BY <1>1, <1>5, <1>6

LEMMA EndsIs ==
    ASSUME Types, NEW p \in Procs, proc[p].job \in Jobs, NEW v \in Verdicts, Ends(p, v)
    PROVE  /\ Only(p) /\ Fitting'
           /\ proc'[p].at = "finishing" /\ proc'[p].job = proc[p].job /\ proc'[p].verdict = v
<1>1. proc' = [proc EXCEPT ![p] = Finishing(proc[p], v)]
  BY DEF Ends, Finishing
<1>2. proc[p] \in Records
  BY DEF Types, Fitting
<1>3. PICK y \in Records : y = Finishing(proc[p], v)
  BY <1>2, FinishingIs
<1>4. Only(p) /\ proc'[p] = y
  BY <1>1, <1>3, OnlyOne
<1>. QED
  BY <1>2, <1>3, <1>4, FinishingIs, EndsFits

LEMMA RestIs ==
    ASSUME Types, NEW p \in Procs, proc' = [proc EXCEPT ![p] = Idle]
    PROVE  Only(p) /\ Fitting' /\ proc'[p].at = "idle" /\ proc'[p].job = None
<1>1. PICK y \in Records : y = Idle /\ y.at = "idle" /\ y.job = None
  BY IdleFits DEF Idle
<1>2. Only(p) /\ proc'[p] = y
  BY <1>1, OnlyOne
<1>. QED
  BY <1>1, <1>2, RestFits

LEMMA FitsNow == ASSUME Types, NEW p \in Procs PROVE Fits(proc[p]) /\ proc[p] \in Records
BY DEF Types, Fitting

(* Fitting, of the step that only p takes.                                 *)
LEMMA FitsNext ==
    ASSUME Types, NEW p, Only(p), Fits(proc'[p])
    PROVE  Fitting'
<1>1. \A q \in Procs : Fits(proc'[q])
  BY DEF Types, Fitting, Only
<1>2. Fitting' = (proc' \in [Procs -> Records] /\ \A q \in Procs : Fits(proc'[q]))
  BY DEF Fitting, Fits, KeyFits, JourneyOf
<1>. QED
  BY <1>1, <1>2 DEF Only

LEMMA ClaimMoves ==
    ASSUME Types, NEW w \in Workers, NEW j \in Jobs, claimJobs(w, j)
    PROVE  /\ Types' /\ Only(w) /\ proc'[w].job = j /\ proc'[w].read = source[j[1]]
           /\ proc'[w].at = IF source[j[1]] \in Gone THEN "retiring" ELSE "mapping"
<1>. DEFINE at == IF source[j[1]] \in Gone THEN "retiring" ELSE "mapping"
<1>. w \in Procs
  BY ProcsAre
<1>1. source[j[1]] \in Sources /\ marketing \in BOOLEAN
  BY JobParts DEF Types, Data
<1>2. PICK s \in Sources, m \in BOOLEAN : s = source[j[1]] /\ m = marketing
  BY <1>1
<1>3. [Idle EXCEPT !.at = at, !.job = j, !.read = s, !.live = m] \in Records
  BY DEF Records, Idle, Places, Retiring, Reasons
<1>4. PICK y \in Records : y = [Idle EXCEPT !.at = at, !.job = j, !.read = s, !.live = m]
  BY <1>3
<1>5. y.at = at /\ y.job = j /\ y.read = s /\ y.todo = {}
  BY <1>4 DEF Idle
<1>6. proc' = [proc EXCEPT ![w] = y]
  BY <1>2, <1>4 DEF claimJobs
<1>7. Only(w) /\ proc'[w] = y
  BY <1>6, OnlyOne
<1>8. Fits(y)
  BY <1>5 DEF Fits, Unemployed, Stoppers, Keyed
<1>9. job' \in [Jobs -> JobRecords]
  <2>1. [state |-> "processing", by |-> w, over |-> FALSE,
         attempts |-> job[j].attempts + 1] \in JobRecords
    BY DEF Types, Data, JobRecords, JobStates
  <2>2. job' = [job EXCEPT ![j] = [state |-> "processing", by |-> w, over |-> FALSE,
                                   attempts |-> job[j].attempts + 1]]
    BY DEF claimJobs
  <2>. QED
    BY <2>1, <2>2 DEF Types, Data
<1>10. Data'
  BY <1>9 DEF claimJobs, shopVars, flagVars, ledgerVars, remoteVars, Types, Data
<1>. QED
  BY <1>2, <1>5, <1>7, <1>8, <1>10, FitsNext DEF Types

LEMMA FinishMoves ==
    ASSUME Types, NEW w \in Workers, finishJob(w)
    PROVE  /\ Types' /\ Only(w) /\ proc'[w].at = "idle" /\ proc'[w].job = None
           /\ proc[w].job \in Jobs /\ proc[w].verdict \in Verdicts
           /\ \A j \in Jobs : j # proc[w].job \/ ~Held(w) => job'[j] = job[j]
           /\ Held(w) => LET b == job'[proc[w].job]
                             n == job[proc[w].job].attempts
                             v == proc[w].verdict
                         IN /\ b.state \in {"retry", "dead_letter", v}
                            /\ b.state \notin {"processing", "queued", "none"}
                            /\ \/ b.attempts = 0 \/ b.attempts = n - 1
                               \/ b.attempts = n /\ n < MaxAttempts
<1>. DEFINE j0 == proc[w].job
            v == proc[w].verdict
            n == Counted(v, job[j0].attempts)
            b == IF v = "busy" \/ (v = "retry" /\ n < MaxAttempts)
                 THEN [NoJob EXCEPT !.state = "retry", !.attempts = n]
                 ELSE [NoJob EXCEPT !.state = IF v = "retry" THEN "dead_letter" ELSE v]
<1>. w \in Procs
  BY ProcsAre
<1>1. j0 \in Jobs /\ v \in Verdicts
  BY FitsNow DEF finishJob, Fits, Unemployed, Stoppers
<1>2. Only(w) /\ Fitting' /\ proc'[w].at = "idle" /\ proc'[w].job = None
  BY RestIs DEF finishJob
<1>3. job' = IF ~Held(w) THEN job ELSE [job EXCEPT ![j0] = b]
  BY DEF finishJob
<1>4. job[j0].attempts \in Nat /\ (Held(w) => n \in Nat)
  BY <1>1 DEF Types, Data, JobRecords, JobStates, Counted, Held
<1>5. Held(w) => b \in JobRecords /\ b.state \notin {"processing", "queued", "none"}
                 /\ b.state \in {"retry", "dead_letter", v}
                 /\ (b.attempts = 0 \/ (b.attempts = n /\ (v = "busy" \/ n < MaxAttempts)))
  <2>1. CASE v = "busy" \/ (v = "retry" /\ n < MaxAttempts)
    BY <2>1, <1>4 DEF NoJob, JobRecords, JobStates
  <2>2. CASE ~(v = "busy" \/ (v = "retry" /\ n < MaxAttempts))
    BY <2>2, <1>1 DEF NoJob, JobRecords, JobStates, Verdicts
  <2>. QED
    BY <2>1, <2>2
<1>6. job' \in [Jobs -> JobRecords]
  BY <1>3, <1>5 DEF Types, Data
<1>7. Data'
  BY <1>6 DEF finishJob, shopVars, flagVars, ledgerVars, remoteVars, Types, Data
<1>8. Held(w) => job'[j0] = b
  BY <1>1, <1>3 DEF Types, Data
<1>9. \A j \in Jobs : j # j0 \/ ~Held(w) => job'[j] = job[j]
  BY <1>3 DEF Types, Data
<1>10. v = "busy" => n = job[j0].attempts - 1
  BY DEF Counted
<1>11. v # "busy" => n = job[j0].attempts
  BY DEF Counted
<1>12. Held(w) => /\ job'[j0].state \in {"retry", "dead_letter", v}
                  /\ job'[j0].state \notin {"processing", "queued", "none"}
                  /\ \/ job'[j0].attempts = 0 \/ job'[j0].attempts = job[j0].attempts - 1
                     \/ job'[j0].attempts = job[j0].attempts /\ job[j0].attempts < MaxAttempts
  BY <1>5, <1>8, <1>10, <1>11
<1>. QED
  BY <1>1, <1>2, <1>7, <1>9, <1>12 DEF Types

(* The contact, in the order its worker writes it.                         *)
LEMMA GetMoves ==
    ASSUME Types, NEW w \in Workers, getContact(w) \/ selectContact(w)
    PROVE  /\ Types' /\ Only(w) /\ proc[w].job \in Jobs /\ proc'[w].job = proc[w].job
           /\ \/ /\ erased /\ proc'[w].at = "finishing"
                 /\ proc'[w].verdict \in {"review", "retry"}
              \/ /\ ~erased /\ Same(proc[w], proc'[w])
                 /\ proc'[w].at \in {"inserting", "projecting"}
<1>. w \in Procs
  BY ProcsAre
<1>1. Data'
  BY DEF getContact, selectContact, shopVars, flagVars, ledgerVars, remoteVars, Types, Data
<1>2. proc[w].job \in Jobs /\ proc[w].at \notin Unemployed \cup Stoppers
  BY FitsNow DEF getContact, selectContact, Fits, Unemployed, Stoppers
<1>3. CASE erased
  <2>1. PICK v \in {"review", "retry"} : Ends(w, v)
    BY <1>3 DEF getContact, selectContact
  <2>. QED
    BY <1>1, <1>2, <1>3, <2>1, EndsIs DEF Types, Verdicts
<1>4. CASE ~erased
  <2>1. PICK to \in {"inserting", "projecting"} : Goes(w, to)
    BY <1>4 DEF getContact, selectContact
  <2>2. to \in Places /\ to \in Simple
    BY DEF Places, Syncing, Simple
  <2>. QED
    BY <1>1, <1>2, <1>4, <2>1, <2>2, GoesIs, GoesSimple DEF Types, Same
<1>. QED
  BY <1>3, <1>4

LEMMA FindMoves ==
    ASSUME Types, NEW w \in Workers, insertContact(w) \/ findContact(w)
    PROVE  /\ Types' /\ Only(w) /\ proc[w].job \in Jobs /\ Same(proc[w], proc'[w])
           /\ proc[w].at \in Syncing
           /\ proc'[w].at \in {"selecting", "finding", "upserting", "projecting"}
<1>. w \in Procs
  BY ProcsAre
<1>1. Data'
  BY DEF insertContact, findContact, shopVars, flagVars, ledgerVars, remoteVars, Types, Data
<1>2. /\ proc[w].job \in Jobs /\ proc[w].at \notin Unemployed \cup Stoppers
      /\ proc[w].at \in Syncing
  BY FitsNow DEF insertContact, findContact, Fits, Unemployed, Stoppers, Syncing
<1>3. PICK to \in {"selecting", "finding", "upserting", "projecting"} : Goes(w, to)
  BY DEF insertContact, findContact
<1>4. to \in Places /\ to \in Simple
  BY DEF Places, Syncing, Simple
<1>. QED
  BY <1>1, <1>2, <1>3, <1>4, GoesIs, GoesSimple DEF Types, Same

LEMMA UpsertMoves ==
    ASSUME Types, NEW w \in Workers, upsert(w)
    PROVE  /\ Types' /\ Only(w) /\ proc[w].job \in Jobs
           /\ Same(proc[w], proc'[w]) /\ proc'[w].at = "projecting"
<1>. w \in Procs
  BY ProcsAre
<1>1. Data'
  BY DEF upsert, UpsertContact, shopVars, flagVars, ledgerVars, Types, Data, Remotes
<1>2. proc[w].job \in Jobs /\ proc[w].at \notin Unemployed \cup Stoppers
  BY FitsNow DEF upsert, Fits, Unemployed, Stoppers
<1>3. "projecting" \in Places /\ "projecting" \in Simple
  BY DEF Places, Syncing, Simple
<1>. QED
  BY <1>1, <1>2, <1>3, GoesIs, GoesSimple DEF upsert, Types

LEMMA ReadMoves ==
    ASSUME Types, NEW w \in Workers, readContact(w)
    PROVE  /\ Types' /\ Only(w) /\ proc[w].job \in Jobs /\ proc'[w].job = proc[w].job
           /\ \/ proc'[w].at = "finishing" /\ proc'[w].verdict = "review"
              \/ /\ proc'[w].at = "putting" /\ proc'[w].read = proc[w].read
                 /\ proc'[w].barred = (consent = "unsubscribed" /\ ~dnd)
<1>. w \in Procs
  BY ProcsAre
<1>1. Data'
  BY DEF readContact, shopVars, flagVars, ledgerVars, remoteVars, Types, Data
<1>2. proc[w].job \in Jobs
  BY FitsNow DEF readContact, Fits, Unemployed, Stoppers
<1>3. CASE ~Reachable
  BY <1>1, <1>2, <1>3, EndsIs DEF readContact, Types, Verdicts
<1>4. CASE Reachable
  <2>1. PICK a \in BOOLEAN, b \in BOOLEAN : /\ a = (consent = "opted_in" /\ ~dnd)
                                           /\ b = (consent = "unsubscribed" /\ ~dnd)
    OBVIOUS
  <2>2. [proc[w] EXCEPT !.at = "putting", !.agreed = a, !.barred = b] \in Records
    BY FitsNow DEF Records, Places, Syncing
  <2>3. PICK y \in Records :
          y = [proc[w] EXCEPT !.at = "putting", !.agreed = a, !.barred = b]
    BY <2>2
  <2>4. proc' = [proc EXCEPT ![w] = y]
    BY <1>4, <2>1, <2>3 DEF readContact
  <2>5. y.at = "putting" /\ y.job = proc[w].job /\ y.read = proc[w].read /\ y.barred = b
    BY <2>3, FitsNow DEF Records
  <2>6. Fits(y)
    BY <1>2, <2>5 DEF Fits, Unemployed, Stoppers, Keyed
  <2>7. Only(w) /\ proc'[w] = y
    BY <2>4, OnlyOne
  <2>. QED
    BY <1>1, <1>2, <2>1, <2>5, <2>6, <2>7, FitsNext DEF Types
<1>. QED
  BY <1>3, <1>4

LEMMA PutMoves ==
    ASSUME Types, NEW w \in Workers, putContact(w)
    PROVE  /\ Types' /\ Only(w) /\ proc[w].job \in Jobs /\ proc'[w].job = proc[w].job
           /\ \/ proc'[w].at = "finishing" /\ proc'[w].verdict = "review"
              \/ /\ proc'[w].at = "committing" /\ proc'[w].read = proc[w].read
                 /\ Reachable /\ dnd' = (dnd \/ proc[w].barred)
<1>. w \in Procs
  BY ProcsAre
<1>1. proc[w].agreed \in BOOLEAN /\ proc[w].barred \in BOOLEAN
  BY FitsNow DEF Records
<1>2. {eligible', dnd'} \subseteq BOOLEAN /\ UNCHANGED <<remote, enrolled, accepted, inflight,
                                                        late, stray>>
  BY <1>1 DEF putContact, PutContact, remoteVars, Types, Data
<1>3. Data'
  BY <1>2 DEF putContact, shopVars, flagVars, ledgerVars, Types, Data
<1>4. proc[w].job \in Jobs
  BY FitsNow DEF putContact, Fits, Unemployed, Stoppers
<1>5. CASE ~Reachable
  BY <1>3, <1>4, <1>5, EndsIs DEF putContact, Types, Verdicts
<1>6. CASE Reachable
  <2>2. [proc[w] EXCEPT !.at = "committing", !.agreed = FALSE, !.barred = FALSE] \in Records
    BY FitsNow DEF Records, Places, Syncing
  <2>3. PICK y \in Records :
          y = [proc[w] EXCEPT !.at = "committing", !.agreed = FALSE, !.barred = FALSE]
    BY <2>2
  <2>4. proc' = [proc EXCEPT ![w] = y]
    BY <1>6, <2>3 DEF putContact
  <2>5. y.at = "committing" /\ y.job = proc[w].job /\ y.read = proc[w].read
    BY <2>3, FitsNow DEF Records
  <2>6. Fits(y)
    BY <1>4, <2>5 DEF Fits, Unemployed, Stoppers, Keyed
  <2>7. Only(w) /\ proc'[w] = y
    BY <2>4, OnlyOne
  <2>8. dnd' = (dnd \/ proc[w].barred)
    BY <1>6 DEF putContact, PutContact
  <2>. QED
    BY <1>3, <1>4, <1>6, <2>5, <2>6, <2>7, <2>8, FitsNext DEF Types
<1>. QED
  BY <1>5, <1>6

LEMMA CommitMoves ==
    ASSUME Types, NEW w \in Workers, commitSync(w)
    PROVE  /\ Types' /\ Only(w) /\ proc[w].job \in Jobs /\ proc'[w].job = proc[w].job
           /\ \/ /\ proc'[w].at = "finishing" /\ proc'[w].verdict = "skipped"
                 /\ proc[w].read = "retained"
              \/ proc'[w].at = "following" /\ Same(proc[w], proc'[w])
<1>. w \in Procs
  BY ProcsAre
<1>1. proc[w].job \in Jobs /\ proc[w].at \notin Unemployed \cup Stoppers
  BY FitsNow DEF commitSync, Fits, Unemployed, Stoppers
<1>2. Entity(w) \in Entities
  BY <1>1, JobParts DEF Entity
<1>3. Data'
  BY <1>2 DEF commitSync, shopVars, flagVars, remoteVars, Types, Data
<1>4. "following" \in Places /\ "following" \in Simple
  BY DEF Places, Simple
<1>5. CASE proc[w].read = "retained"
  BY <1>1, <1>3, <1>5, EndsIs DEF commitSync, Types, Verdicts
<1>6. CASE proc[w].read # "retained"
  BY <1>1, <1>3, <1>4, <1>6, GoesIs, GoesSimple DEF commitSync, Types, Same
<1>. QED
  BY <1>5, <1>6

(* The effects.                                                            *)
LEMMA AfterMoves ==
    ASSUME Types, NEW w \in Workers, proc[w].at \in Keyed, After(w, proc[w].key)
    PROVE  /\ Fitting' /\ Only(w) /\ proc[w].job \in Jobs /\ proc'[w].job = proc[w].job
           /\ \/ proc'[w].at = "finishing"
              \/ proc'[w].at \in {"searching", "consulting", "handing_off"}
              \/ /\ proc'[w].at = "claiming" /\ proc'[w].key \in Keys
                 /\ proc'[w].key \notin Journeys
<1>. DEFINE k == proc[w].key
<1>. w \in Procs
  BY ProcsAre
<1>1. proc[w].job \in Jobs /\ proc[w].at \notin Unemployed \cup Stoppers /\ KeyFits(proc[w])
  BY FitsNow DEF Fits, Unemployed, Stoppers, Keyed
<1>2. k \in Keys /\ k[1] \in {"note", "opportunity", "task", "journey"}
  BY <1>1, KeyParts DEF KeyFits
<1>3. CASE k[1] = "note"
  <2>1. Goes(w, "searching") /\ proc[w].job[1] \in Inquiries
    BY <1>1, <1>2, <1>3, KeyParts DEF After, KeyFits
  <2>2. Only(w) /\ proc'[w].at = "searching" /\ proc'[w].job = proc[w].job
    BY <2>1, GoesIs DEF Places, Following, Same
  <2>3. Fits(proc'[w])
    BY <1>1, <2>1, <2>2 DEF Fits, Unemployed, Stoppers, Keyed, Only
  <2>. QED
    BY <1>1, <2>2, <2>3, FitsNext
<1>4. CASE k[1] = "opportunity"
  <2>1. k \notin Journeys /\ k[2] \in Inquiries /\ proc[w].job[1] \in Inquiries
    BY <1>1, <1>2, <1>4, KeyParts DEF KeyFits
  <2>2. CASE effect'[k] = "succeeded"
    <3>1. PICK t \in Keys : t = <<"task", k[2]>> /\ t \notin Journeys
      BY <2>1, KeysMade
    <3>2. Takes(w, t)
      BY <1>4, <2>2, <3>1 DEF After
    <3>3. /\ Only(w) /\ proc'[w].at = "claiming" /\ proc'[w].key = t
          /\ proc'[w].job = proc[w].job
      BY <3>2, TakesIs
    <3>4. Fits(proc'[w])
      BY <1>1, <2>1, <3>1, <3>3 DEF Fits, Unemployed, Stoppers, Keyed, KeyFits, Only
    <3>. QED
      BY <1>1, <3>1, <3>3, <3>4, FitsNext
  <2>3. CASE effect'[k] # "succeeded"
    BY <1>1, <1>4, <2>3, EndsIs DEF After, Verdicts
  <2>. QED
    BY <2>2, <2>3
<1>5. CASE k[1] = "task"
  <2>1. Goes(w, "consulting")
    BY <1>5 DEF After
  <2>. QED
    BY <1>1, <2>1, GoesIs, GoesSimple DEF Places, Following, Same, Simple
<1>6. CASE k[1] = "journey"
  <2>1. k = JourneyOf(proc[w]) /\ k[2] = proc[w].job[1]
    BY <1>1, <1>2, <1>6, KeyParts DEF KeyFits, JourneyOf
  <2>2. CASE k[2] \in Offers
    <3>1. Goes(w, "handing_off")
      BY <1>6, <2>2 DEF After
    <3>2. Only(w) /\ proc'[w].at = "handing_off" /\ proc'[w].job = proc[w].job
      BY <3>1, GoesIs DEF Places, Following, Same
    <3>3. Fits(proc'[w])
      BY <1>1, <2>1, <2>2, <3>2 DEF Fits, Unemployed, Stoppers, Keyed, Only
    <3>. QED
      BY <1>1, <3>2, <3>3, FitsNext
  <2>3. CASE k[2] \notin Offers
    BY <1>1, <1>6, <2>3, EndsIs DEF After, Verdicts
  <2>. QED
    BY <2>2, <2>3
<1>. QED
  BY <1>2, <1>3, <1>4, <1>5, <1>6

LEMMA EffectMoves ==
    ASSUME Types, NEW w \in Workers, durableEffect(w)
    PROVE  /\ Types' /\ Only(w) /\ proc[w].job \in Jobs /\ proc'[w].job = proc[w].job
           /\ KeyFits(proc[w])
           /\ \/ /\ effect[proc[w].key] = "none" /\ proc'[w].at = "posting"
                 /\ Same(proc[w], proc'[w])
              \/ /\ effect[proc[w].key] # "none"
                 /\ \/ proc'[w].at = "finishing" /\ proc'[w].verdict = "review"
                    \/ After(w, proc[w].key)
<1>. DEFINE k == proc[w].key
<1>. w \in Procs
  BY ProcsAre
<1>1. /\ proc[w].job \in Jobs /\ proc[w].at \notin Unemployed \cup Stoppers
      /\ KeyFits(proc[w]) /\ proc[w].at \in Keyed /\ k \in Keys
  BY FitsNow DEF durableEffect, Fits, Unemployed, Stoppers, Keyed, KeyFits
<1>2. Data'
  BY DEF durableEffect, shopVars, flagVars, remoteVars, Types, Data
<1>3. CASE effect[k] = "none"
  <2>1. Goes(w, "posting")
    BY <1>3 DEF durableEffect
  <2>2. Only(w) /\ proc'[w].at = "posting" /\ Same(proc[w], proc'[w])
    BY <2>1, GoesIs DEF Places, Following
  <2>3. Fits(proc'[w])
    BY <1>1, <2>2 DEF Fits, Unemployed, Stoppers, Keyed, Only, Same, KeyFits, JourneyOf
  <2>. QED
    BY <1>1, <1>2, <1>3, <2>2, <2>3, FitsNext DEF Types, Same
<1>4. CASE effect[k] = "pending"
  BY <1>1, <1>2, <1>4, EndsIs DEF durableEffect, Types, Verdicts
<1>5. CASE effect[k] \notin {"none", "pending"}
  <2>1. After(w, k)
    BY <1>5 DEF durableEffect
  <2>. QED
    BY <1>1, <1>2, <1>5, <2>1, AfterMoves DEF Types
<1>. QED
  BY <1>3, <1>4, <1>5

(* What HighLevel does with a call keeps the types.                        *)
LEMMA PerformsTypes ==
    ASSUME Types, NEW k \in Keys, Performs(k)
    PROVE  /\ accepted' \in [Keys -> Nat] /\ stray' \subseteq Journeys
           /\ enrolled' \subseteq Workflows /\ UNCHANGED <<remote, eligible, dnd, late>>
<1>1. Workflow(k) \in Workflows
  BY DEF Workflow, Workflows
<1>2. accepted' \in [Keys -> Nat]
  BY DEF Performs, Types, Data
<1>3. stray' \subseteq Journeys /\ UNCHANGED <<remote, eligible, dnd, late>>
  BY DEF Performs, Types, Data
<1>4. enrolled' = enrolled \/ enrolled' = enrolled \cup {Workflow(k)}
  BY DEF Performs
<1>. QED
  BY <1>1, <1>2, <1>3, <1>4 DEF Types, Data

LEMMA PostMoves ==
    ASSUME Types, NEW w \in Workers, postEffect(w)
    PROVE  /\ Types' /\ Only(w) /\ proc[w].job \in Jobs /\ proc'[w].job = proc[w].job
           /\ KeyFits(proc[w])
           /\ \/ remote = "live" /\ proc'[w].at = "recording" /\ Same(proc[w], proc'[w])
              \/ remote # "live" /\ proc'[w].at = "finishing" /\ proc'[w].verdict = "review"
<1>. DEFINE k == proc[w].key
<1>. w \in Procs
  BY ProcsAre
<1>1. /\ proc[w].job \in Jobs /\ proc[w].at \notin Unemployed \cup Stoppers
      /\ KeyFits(proc[w]) /\ proc[w].at \in Keyed /\ k \in Keys
  BY FitsNow DEF postEffect, Fits, Unemployed, Stoppers, Keyed, KeyFits
<1>2. effect' \in [Keys -> {"none", "pending", "succeeded", "cancelled"}]
  BY DEF postEffect, Unclaim, Types, Data
<1>3. Data'
  BY <1>1, <1>2, PerformsTypes DEF postEffect, shopVars, flagVars, Types, Data
<1>4. CASE remote = "live"
  <2>1. Goes(w, "recording")
    BY <1>4 DEF postEffect
  <2>2. Only(w) /\ proc'[w].at = "recording" /\ Same(proc[w], proc'[w])
    BY <2>1, GoesIs DEF Places, Following
  <2>3. Fits(proc'[w])
    BY <1>1, <2>2 DEF Fits, Unemployed, Stoppers, Keyed, Only, Same, KeyFits, JourneyOf
  <2>. QED
    BY <1>1, <1>3, <1>4, <2>2, <2>3, FitsNext DEF Types, Same
<1>5. CASE remote # "live"
  BY <1>1, <1>3, <1>5, EndsIs DEF postEffect, Types, Verdicts
<1>. QED
  BY <1>4, <1>5

LEMMA RecordMoves ==
    ASSUME Types, NEW w \in Workers, recordEffect(w)
    PROVE  /\ Types' /\ KeyFits(proc[w]) /\ After(w, proc[w].key) /\ proc[w].at \in Keyed
<1>. w \in Procs
  BY ProcsAre
<1>1. KeyFits(proc[w]) /\ proc[w].at \in Keyed
  BY FitsNow DEF recordEffect, Fits, Keyed
<1>2. Data'
  BY DEF recordEffect, shopVars, flagVars, remoteVars, Types, Data
<1>. QED
  BY <1>1, <1>2, AfterMoves DEF recordEffect, Types

(* The lock of the effects, the search for a deal and the offer's row.     *)
LEMMA LoadMoves ==
    ASSUME Types, NEW w \in Workers, loadContact(w)
    PROVE  /\ Types' /\ Only(w) /\ proc[w].job \in Jobs /\ proc'[w].job = proc[w].job
           /\ \/ erased /\ proc'[w].at = "finishing" /\ proc'[w].verdict = "succeeded"
              \/ ~erased /\ proc'[w].at = "awaiting" /\ Same(proc[w], proc'[w])
<1>. w \in Procs
  BY ProcsAre
<1>1. Data'
  BY DEF loadContact, shopVars, flagVars, ledgerVars, remoteVars, Types, Data
<1>2. proc[w].job \in Jobs /\ proc[w].at \notin Unemployed \cup Stoppers
  BY FitsNow DEF loadContact, Fits, Unemployed, Stoppers
<1>3. CASE erased
  BY <1>1, <1>2, <1>3, EndsIs DEF loadContact, Types, Verdicts
<1>4. CASE ~erased
  BY <1>1, <1>2, <1>4, GoesIs, GoesSimple DEF loadContact, Places, Simple, Types, Same
<1>. QED
  BY <1>3, <1>4

LEMMA LockMoves ==
    ASSUME Types, NEW w \in Workers, lockEffects(w)
    PROVE  /\ Types' /\ Only(w) /\ proc[w].job \in Jobs /\ proc'[w].job = proc[w].job
           /\ \/ /\ proc'[w].at = "claiming" /\ proc'[w].key \in Keys
                 /\ proc'[w].key \notin Journeys /\ proc[w].job[1] \in Inquiries
              \/ proc'[w].at = "consulting" /\ Same(proc[w], proc'[w])
<1>. w \in Procs
  BY ProcsAre
<1>1. Data'
  BY DEF lockEffects, shopVars, flagVars, ledgerVars, remoteVars, Types, Data
<1>2. proc[w].job \in Jobs /\ proc[w].at \notin Unemployed \cup Stoppers
  BY FitsNow DEF lockEffects, Fits, Unemployed, Stoppers
<1>4. CASE Entity(w) \in Inquiries
  <2>1. PICK k \in Keys : k = <<"note", Entity(w)>> /\ k \notin Journeys
    BY <1>4, KeysMade
  <2>2. Takes(w, k) /\ proc[w].job[1] \in Inquiries
    BY <1>4, <2>1 DEF lockEffects, Entity
  <2>3. /\ Only(w) /\ proc'[w].at = "claiming" /\ proc'[w].key = k
        /\ proc'[w].job = proc[w].job
    BY <2>2, TakesIs
  <2>4. Fits(proc'[w])
    BY <1>2, <2>1, <2>2, <2>3 DEF Fits, Unemployed, Stoppers, Keyed, KeyFits, Only
  <2>. QED
    BY <1>1, <1>2, <1>4, <2>1, <2>2, <2>3, <2>4, FitsNext DEF Types
<1>5. CASE Entity(w) \notin Inquiries
  <2>1. Goes(w, "consulting")
    BY <1>5 DEF lockEffects
  <2>. QED
    BY <1>1, <1>2, <1>5, <2>1, GoesIs, GoesSimple DEF Places, Following, Same, Simple, Types
<1>. QED
  BY <1>4, <1>5

LEMMA SearchMoves ==
    ASSUME Types, NEW w \in Workers, searchOpportunity(w)
    PROVE  /\ Types' /\ Only(w) /\ proc[w].job \in Jobs /\ proc'[w].job = proc[w].job
           /\ \/ proc'[w].at = "finishing" /\ proc'[w].verdict = "review"
              \/ /\ proc'[w].at = "claiming" /\ proc'[w].key \in Keys
                 /\ proc'[w].key \notin Journeys
<1>. DEFINE made == {i \in Inquiries : accepted[<<"opportunity", i>>] > 0}
<1>. w \in Procs
  BY ProcsAre
<1>1. Data'
  BY DEF searchOpportunity, shopVars, flagVars, ledgerVars, remoteVars, Types, Data
<1>2. proc[w].job \in Jobs /\ proc[w].job[1] \in Inquiries
  BY FitsNow DEF searchOpportunity, Fits, Unemployed, Stoppers
<1>3. ASSUME NEW k \in Keys, k \notin Journeys, Takes(w, k)
      PROVE  /\ Fitting' /\ Only(w) /\ proc'[w].at = "claiming" /\ proc'[w].key = k
             /\ proc'[w].job = proc[w].job
  <2>1. /\ Only(w) /\ proc'[w].at = "claiming" /\ proc'[w].key = k
        /\ proc'[w].job = proc[w].job
    BY <1>3, TakesIs
  <2>2. Fits(proc'[w])
    BY <1>2, <1>3, <2>1 DEF Fits, Unemployed, Stoppers, Keyed, KeyFits, Only
  <2>. QED
    BY <2>1, <2>2, FitsNext
<1>4. CASE made = {}
  <2>1. Takes(w, <<"opportunity", Entity(w)>>) /\ Entity(w) \in Inquiries
    BY <1>2, <1>4 DEF searchOpportunity, Entity
  <2>2. PICK k \in Keys : k = <<"opportunity", Entity(w)>> /\ k \notin Journeys
    BY <2>1, KeysMade
  <2>3. Takes(w, k)
    BY <2>1, <2>2
  <2>. QED
    BY <1>1, <1>2, <1>3, <2>2, <2>3 DEF Types
<1>5. CASE made # {} /\ Cardinality(made) > 1
  <2>1. Ends(w, "review")
    BY <1>5 DEF searchOpportunity
  <2>. QED
    BY <1>1, <1>2, <2>1, EndsIs DEF Types, Verdicts
<1>6. CASE made # {} /\ ~(Cardinality(made) > 1)
  <2>1. Takes(w, <<"task", CHOOSE i \in made : TRUE>>)
    BY <1>6 DEF searchOpportunity
  <2>2. (CHOOSE i \in made : TRUE) \in Inquiries
    BY <1>6
  <2>3. PICK k \in Keys : k = <<"task", CHOOSE i \in made : TRUE>> /\ k \notin Journeys
    BY <2>2, KeysMade
  <2>4. Takes(w, k)
    BY <2>1, <2>3
  <2>. QED
    BY <1>1, <1>2, <1>3, <2>3, <2>4 DEF Types
<1>. QED
  BY <1>4, <1>5, <1>6

LEMMA HandOffMoves ==
    ASSUME Types, NEW w \in Workers, handOff(w)
    PROVE  /\ Types' /\ Only(w) /\ proc[w].job \in Jobs /\ proc'[w].job = proc[w].job
           /\ proc'[w].at = "finishing" /\ proc[w].job[1] \in Offers
<1>. w \in Procs
  BY ProcsAre
<1>1. source' \in [Entities -> Sources]
  BY DEF handOff, Types, Data, Sources
<1>2. Data'
  BY <1>1 DEF handOff, flagVars, ledgerVars, remoteVars, Types, Data
<1>3. proc[w].job \in Jobs /\ proc[w].job[1] \in Offers
  BY FitsNow DEF handOff, Fits, Unemployed, Stoppers
<1>. QED
  BY <1>2, <1>3, EndsIs DEF handOff, Types, Verdicts

-----------------------------------------------------------------------------
(* Journeys.                                                               *)
LEMMA ConsultMoves ==
    ASSUME Types, NEW w \in Workers, consultConsent(w)
    PROVE  /\ Types' /\ Only(w) /\ proc[w].job \in Jobs /\ proc'[w].job = proc[w].job
           /\ \E x \in Records :
                 /\ x.job = proc[w].job /\ x.read = proc[w].read
                 /\ x.agreed = (consent = "opted_in")
                 /\ \/ Stops(x, Sales, "deciding", proc'[w])
                       /\ proc[w].read \in {"paid", "dispatched"}
                    \/ Decided(w, x, proc'[w])
<1>. w \in Procs
  BY ProcsAre
<1>1. Data'
  BY DEF consultConsent, shopVars, flagVars, ledgerVars, remoteVars, Types, Data
<1>2. proc[w].job \in Jobs
  BY FitsNow DEF consultConsent, Fits, Unemployed, Stoppers
<1>3. PICK a \in BOOLEAN : a = (consent = "opted_in")
  OBVIOUS
<1>4. [proc[w] EXCEPT !.agreed = a] \in Records
  BY FitsNow DEF Records
<1>5. PICK x \in Records : x = [proc[w] EXCEPT !.agreed = a]
  BY <1>4
<1>6. x.job = proc[w].job /\ x.read = proc[w].read /\ x.agreed = a
  BY <1>5, FitsNow DEF Records
<1>7. CASE proc[w].read \in {"paid", "dispatched"} /\ Running(Sales) # {}
  <2>1. proc' = [proc EXCEPT ![w] = Stopping(x, Sales, "deciding")]
    BY <1>3, <1>5, <1>7 DEF consultConsent
  <2>2. Sales \in SUBSET Journeys /\ "deciding" \in Reasons
    BY DEF Sales, Reasons
  <2>3. Stops(x, Sales, "deciding", Stopping(x, Sales, "deciding"))
    BY <1>7, <2>2, StoppingIs
  <2>4. PICK y \in Records : y = Stopping(x, Sales, "deciding")
    BY <2>3 DEF Stops
  <2>5. Only(w) /\ proc'[w] = y
    BY <2>1, <2>4, OnlyOne
  <2>6. Stops(x, Sales, "deciding", y) /\ y.job = x.job
    BY <2>3, <2>4 DEF Stops
  <2>7. Fits(y)
    BY <1>2, <1>6, <2>6, StopsFits
  <2>. QED
    BY <1>1, <1>2, <1>3, <1>6, <1>7, <2>5, <2>6, <2>7, FitsNext DEF Types
<1>8. CASE ~(proc[w].read \in {"paid", "dispatched"} /\ Running(Sales) # {})
  <2>1. proc' = [proc EXCEPT ![w] = Decision(w, x)]
    BY <1>3, <1>5, <1>8 DEF consultConsent
  <2>2. Decided(w, x, Decision(w, x))
    BY <1>2, <1>6, DecisionIs
  <2>3. Fits(Decision(w, x)) /\ Decision(w, x).job = x.job
    BY <1>2, <1>6, <2>2, DecidedFits
  <2>4. PICK y \in Records : y = Decision(w, x)
    BY <2>3 DEF Fits
  <2>5. Only(w) /\ proc'[w] = y
    BY <2>1, <2>4, OnlyOne
  <2>. QED
    BY <1>1, <1>2, <1>3, <1>6, <2>2, <2>3, <2>4, <2>5, FitsNext DEF Types
<1>. QED
  BY <1>7, <1>8

LEMMA DecideMoves ==
    ASSUME Types, NEW w \in Workers, decideJourney(w)
    PROVE  /\ Types' /\ Only(w) /\ proc[w].job \in Jobs /\ proc'[w].job = proc[w].job
           /\ Decided(w, proc[w], proc'[w])
<1>. w \in Procs
  BY ProcsAre
<1>1. Data'
  BY DEF decideJourney, shopVars, flagVars, ledgerVars, remoteVars, Types, Data
<1>2. proc[w].job \in Jobs
  BY FitsNow DEF decideJourney, Fits, Unemployed, Stoppers
<1>3. PICK x \in Records : x = proc[w]
  BY FitsNow
<1>4. Decided(w, x, Decision(w, x))
  BY <1>2, <1>3, DecisionIs
<1>5. Fits(Decision(w, x)) /\ Decision(w, x).job = x.job
  BY <1>2, <1>3, <1>4, DecidedFits
<1>6. PICK y \in Records : y = Decision(w, x)
  BY <1>5 DEF Fits
<1>7. proc' = [proc EXCEPT ![w] = y]
  BY <1>3, <1>6 DEF decideJourney
<1>8. Only(w) /\ proc'[w] = y
  BY <1>6, <1>7, OnlyOne
<1>. QED
  BY <1>1, <1>2, <1>3, <1>4, <1>5, <1>6, <1>8, FitsNext DEF Types

(* A process that stops journeys, or has none to stop.                     *)
Halts(x, ks, to, y) == \/ Running(ks) = {} /\ Reached(x, to, y)
                       \/ Running(ks) # {} /\ Stops(x, ks, to, y)

LEMMA HaltMoves ==
    ASSUME Types, NEW p \in Procs, NEW x \in Records, NEW ks \in SUBSET Journeys,
           NEW to \in {"idle", "deleting", "mapping", "clearing", "claiming"},
           to \notin {"idle", "deleting"} => x.job \in Jobs,
           to \in {"idle", "deleting"} => x.job = None,
           to = "claiming" => JourneyOf(x) \in Journeys,
           proc' = [proc EXCEPT ![p] = Stopping(x, ks, to)]
    PROVE  Fitting' /\ Only(p) /\ proc'[p].job = x.job /\ Halts(x, ks, to, proc'[p])
<1>1. Halts(x, ks, to, Stopping(x, ks, to))
  BY StoppingIs DEF Reasons, Halts
<1>2. PICK y \in Records : y = Stopping(x, ks, to)
  BY <1>1 DEF Halts, Reached, Stops
<1>3. Only(p) /\ proc'[p] = y
  BY <1>2, OnlyOne
<1>4. Halts(x, ks, to, y) /\ y.job = x.job
  BY <1>1, <1>2 DEF Halts, Reached, Stops
<1>5. Fits(y)
  BY <1>4, ReachedFits, StopsFits DEF Halts, Ending
<1>. QED
  BY <1>3, <1>4, <1>5, FitsNext

LEMMA ReachMoves ==
    ASSUME Types, NEW p \in Procs, NEW x \in Records, x.job \in Jobs,
           NEW to \in Ending \cup {"unnoting"},
           proc' = [proc EXCEPT ![p] = Reaches(x, to)]
    PROVE  /\ Fitting' /\ Only(p) /\ proc'[p].job = x.job /\ Reached(x, to, proc'[p])
<1>1. to \in Ending \cup Places
  BY DEF Places, Retiring
<1>2. Reached(x, to, Reaches(x, to))
  BY <1>1, ReachesIs DEF Ending
<1>3. PICK y \in Records : y = Reaches(x, to)
  BY <1>2 DEF Reached
<1>4. Only(p) /\ proc'[p] = y
  BY <1>3, OnlyOne
<1>5. Reached(x, to, y) /\ y.job = x.job
  BY <1>2, <1>3 DEF Reached
<1>6. Fits(y)
  BY <1>5, ReachedFits DEF Ending
<1>. QED
  BY <1>4, <1>5, <1>6, FitsNext

LEMMA OfferMoves ==
    ASSUME Types, NEW w \in Workers, offerFields(w)
    PROVE  /\ Types' /\ Only(w) /\ proc[w].job \in Jobs /\ proc'[w].job = proc[w].job
           /\ JourneyOf(proc[w]) \in Journeys
           /\ proc'[w].at = "finishing" \/ Halts(proc[w], Others(w), "claiming", proc'[w])
<1>. w \in Procs
  BY ProcsAre
<1>1. Data'
  BY DEF offerFields, shopVars, flagVars, ledgerVars, remoteVars, Types, Data
<1>2. proc[w].job \in Jobs /\ proc[w].job[1] \in Offers /\ proc[w] \in Records
  BY FitsNow DEF offerFields, Fits, Unemployed, Stoppers
<1>3. JourneyOf(proc[w]) \in Journeys
  BY <1>2, KeysMade DEF JourneyOf
<1>4. CASE source[Entity(w)] = "revoked" \/ remote # "live"
  <2>1. PICK to \in Ending : proc' = [proc EXCEPT ![w] = Reaches(proc[w], to)]
    BY <1>4 DEF offerFields, Ending
  <2>. QED
    BY <1>1, <1>2, <1>3, <2>1, ReachMoves DEF Types, Reached, Ending
<1>5. CASE source[Entity(w)] # "revoked" /\ remote = "live"
  <2>1. proc' = [proc EXCEPT ![w] = Stopping(proc[w], Others(w), "claiming")]
    BY <1>5 DEF offerFields
  <2>2. Others(w) \in SUBSET Journeys
    BY DEF Others
  <2>. QED
    BY <1>1, <1>2, <1>3, <2>1, <2>2, HaltMoves DEF Types
<1>. QED
  BY <1>4, <1>5

LEMMA StopMoves ==
    ASSUME Types, NEW p \in Procs, stopJourney(p)
    PROVE  /\ Types' /\ Only(p) /\ proc'[p].job = proc[p].job
           /\ \E k \in proc[p].todo :
                 /\ k \in Journeys /\ RemoveFrom(Workflow(k)) /\ proc'[p].key = k
                 /\ proc'[p].todo = proc[p].todo \ {k}
           /\ proc'[p].at = "cancelling" /\ proc'[p].then = proc[p].then
           /\ proc'[p].read = proc[p].read /\ proc'[p].agreed = proc[p].agreed
<1>1. PICK k \in proc[p].todo :
        /\ RemoveFrom(Workflow(k)) /\ UNCHANGED late
        /\ proc' = [proc EXCEPT ![p].at = "cancelling", ![p].todo = @ \ {k}, ![p].key = k]
  BY DEF stopJourney
<1>2. PICK x \in Records : x = proc[p] /\ Fits(x) /\ x.at = "stopping"
  BY FitsNow DEF stopJourney
<1>3. k \in Journeys /\ k \in Keys
  BY <1>2, KeysMade DEF Records
<1>4. [x EXCEPT !.at = "cancelling", !.todo = x.todo \ {k}, !.key = k] \in Records
  BY <1>3 DEF Records, Places, Stoppers
<1>5. PICK y \in Records : y = [x EXCEPT !.at = "cancelling", !.todo = x.todo \ {k}, !.key = k]
  BY <1>4
<1>6. proc' = [proc EXCEPT ![p] = y]
  BY <1>1, <1>2, <1>5
<1>7. Only(p) /\ proc'[p] = y
  BY <1>6, OnlyOne
<1>8. /\ y.at = "cancelling" /\ y.key = k /\ y.todo = x.todo \ {k} /\ y.job = x.job
      /\ y.then = x.then /\ y.read = x.read /\ y.agreed = x.agreed
  BY <1>5 DEF Records
<1>9. Fits(y)
  BY <1>2, <1>3, <1>8 DEF Fits, Unemployed, Stoppers, Keyed, JourneyOf
<1>10. Data'
  BY <1>1 DEF RemoveFrom, stopJourney, shopVars, flagVars, ledgerVars, Types, Data
<1>. QED
  BY <1>1, <1>2, <1>3, <1>7, <1>8, <1>9, <1>10, FitsNext DEF Types

LEMMA CancelMoves ==
    ASSUME Types, NEW p \in Procs, cancelJourney(p)
    PROVE  /\ Types' /\ Only(p) /\ proc'[p].job = proc[p].job /\ proc[p].key \in Journeys
           /\ \/ proc[p].todo = {} /\ Reached(proc[p], proc[p].then, proc'[p])
              \/ /\ proc'[p].at = "stopping" /\ proc'[p].then = proc[p].then
                 /\ proc'[p].todo = proc[p].todo /\ Same(proc[p], proc'[p])
<1>1. PICK x \in Records : x = proc[p] /\ Fits(x) /\ x.at = "cancelling"
  BY FitsNow DEF cancelJourney
<1>2. Data'
  BY DEF cancelJourney, shopVars, flagVars, remoteVars, Types, Data
<1>3. /\ x.key \in Journeys /\ x.then \in Reasons
      /\ x.then \in {"idle", "deleting"} => x.job = None
      /\ x.then \notin {"idle", "deleting"} => x.job \in Jobs
      /\ x.then = "claiming" => JourneyOf(x) \in Journeys
  BY <1>1 DEF Fits, Stoppers, Records
<1>4. CASE x.todo = {}
  <2>1. x.then \in Ending \cup Places /\ (x.then \in Ending => x.then = "succeeded")
    BY <1>3 DEF Reasons, Ending, Places, Unemployed, Retiring, Following
  <2>2. Reached(x, x.then, Reaches(x, x.then))
    BY <1>3, <2>1, ReachesIs
  <2>3. PICK y \in Records : y = Reaches(x, x.then)
    BY <2>2 DEF Reached
  <2>4. proc' = [proc EXCEPT ![p] = y]
    BY <1>1, <1>4, <2>3 DEF cancelJourney
  <2>5. Only(p) /\ proc'[p] = y
    BY <2>4, OnlyOne
  <2>6. Reached(x, x.then, y) /\ y.job = x.job
    BY <2>2, <2>3 DEF Reached
  <2>7. Fits(y)
    <3>1. /\ x.then \in Ending \cup {"idle", "deleting", "deciding", "claiming", "mapping",
                                      "clearing", "offering", "unnoting"}
          /\ x.then # "offering"
      BY <1>3 DEF Reasons, Ending
    <3>. QED
      BY <1>3, <2>6, <3>1, ReachedFits
  <2>. QED
    BY <1>1, <1>2, <1>3, <1>4, <2>5, <2>6, <2>7, FitsNext DEF Types
<1>5. CASE x.todo # {}
  <2>1. [x EXCEPT !.at = "stopping"] \in Records
    BY DEF Records, Places, Stoppers
  <2>2. PICK y \in Records : y = [x EXCEPT !.at = "stopping"]
    BY <2>1
  <2>3. proc' = [proc EXCEPT ![p] = y]
    BY <1>1, <1>5, <2>2 DEF cancelJourney
  <2>4. Only(p) /\ proc'[p] = y
    BY <2>3, OnlyOne
  <2>5. y.at = "stopping" /\ y.then = x.then /\ y.todo = x.todo /\ Same(x, y)
    BY <2>2 DEF Records, Same
  <2>6. Fits(y)
    BY <1>3, <2>5 DEF Fits, Unemployed, Stoppers, Keyed, JourneyOf, Same
  <2>. QED
    BY <1>1, <1>2, <1>3, <2>4, <2>5, <2>6, FitsNext DEF Types, Same
<1>. QED
  BY <1>4, <1>5

-----------------------------------------------------------------------------
(* What a redacted source left.                                            *)
LEMMA WeighedIs ==
    ASSUME Types, NEW w \in Workers, proc[w].job \in Jobs,
           proc' = [proc EXCEPT ![w] = Weighed(w, proc[w])]
    PROVE  /\ Fitting' /\ Only(w) /\ proc'[w].job = proc[w].job
           /\ \/ \E x \in Records, ks \in SUBSET Journeys :
                    x.job = proc[w].job /\ Halts(x, ks, "mapping", proc'[w])
              \/ Halts(proc[w], Journeys, "clearing", proc'[w])
<1>. w \in Procs
  BY ProcsAre
<1>1. proc[w] \in Records
  BY FitsNow
<1>2. CASE Retained
  <2>1. [proc[w] EXCEPT !.read = "retained"] \in Records
    BY <1>1 DEF Records
  <2>2. PICK x \in Records : x = [proc[w] EXCEPT !.read = "retained"]
    BY <2>1
  <2>3. PICK ks \in SUBSET Journeys : ks = {k \in Journeys : k[2] = Entity(w)}
    OBVIOUS
  <2>4. proc' = [proc EXCEPT ![w] = Stopping(x, ks, "mapping")]
    BY <1>2, <2>2, <2>3 DEF Weighed
  <2>5. x.job = proc[w].job
    BY <1>1, <2>2 DEF Records
  <2>. QED
    BY <2>4, <2>5, HaltMoves
<1>3. CASE ~Retained
  <2>1. proc' = [proc EXCEPT ![w] = Stopping(proc[w], Journeys, "clearing")]
    BY <1>3 DEF Weighed
  <2>. QED
    BY <1>1, <2>1, HaltMoves
<1>. QED
  BY <1>2, <1>3

LEMMA RetireMoves ==
    ASSUME Types, NEW w \in Workers, reconcileRemovedSource(w) \/ loadRetainedSource(w)
    PROVE  /\ Types' /\ Only(w) /\ proc[w].job \in Jobs /\ proc'[w].job = proc[w].job
           /\ \/ proc'[w].at = "finishing" /\ proc'[w].verdict = "skipped"
              \/ proc'[w].at = "unnoting"
              \/ \E x \in Records, ks \in SUBSET Journeys :
                    x.job = proc[w].job /\ Halts(x, ks, "mapping", proc'[w])
              \/ Halts(proc[w], Journeys, "clearing", proc'[w])
<1>. w \in Procs
  BY ProcsAre
<1>1. Data'
  BY DEF reconcileRemovedSource, loadRetainedSource, shopVars, flagVars, ledgerVars,
     remoteVars, Types, Data
<1>2. proc[w].job \in Jobs /\ proc[w] \in Records
  BY FitsNow DEF reconcileRemovedSource, loadRetainedSource, Fits, Unemployed, Stoppers
<1>3. \/ proc' = [proc EXCEPT ![w] = Weighed(w, proc[w])]
      \/ proc' = [proc EXCEPT ![w] = Reaches(proc[w], "skipped")]
      \/ proc' = [proc EXCEPT ![w] = Reaches(proc[w], "unnoting")]
  BY DEF reconcileRemovedSource, loadRetainedSource
<1>4. CASE proc' = [proc EXCEPT ![w] = Weighed(w, proc[w])]
  BY <1>1, <1>2, <1>4, WeighedIs DEF Types
<1>5. ASSUME NEW to \in {"skipped", "unnoting"}, proc' = [proc EXCEPT ![w] = Reaches(proc[w], to)]
      PROVE  /\ Fitting' /\ Only(w) /\ proc'[w].job = proc[w].job
             /\ \/ proc'[w].at = "finishing" /\ proc'[w].verdict = "skipped"
                \/ proc'[w].at = "unnoting"
  <2>1. to \in Ending \cup {"unnoting"} /\ (to = "skipped" => to \in Ending)
        /\ (to = "unnoting" => to \notin Ending)
    BY DEF Ending
  <2>2. /\ Fitting' /\ Only(w) /\ proc'[w].job = proc[w].job
        /\ Reached(proc[w], to, proc'[w])
    BY <1>2, <1>5, <2>1, ReachMoves
  <2>. QED
    BY <2>1, <2>2 DEF Reached
<1>. QED
  BY <1>1, <1>2, <1>3, <1>4, <1>5 DEF Types

LEMMA NoteMoves ==
    ASSUME Types, NEW w \in Workers, deleteNote(w) \/ cancelNote(w)
    PROVE  /\ Types' /\ Only(w) /\ proc[w].job \in Jobs /\ proc'[w].job = proc[w].job
           /\ proc'[w].at \in {"unnoted", "weighing"}
<1>. w \in Procs
  BY ProcsAre
<1>1. Data'
  BY DEF deleteNote, cancelNote, shopVars, flagVars, ledgerVars, remoteVars, Types, Data
<1>2. proc[w].job \in Jobs /\ proc[w].at \notin Unemployed \cup Stoppers
  BY FitsNow DEF deleteNote, cancelNote, Fits, Unemployed, Stoppers
<1>3. PICK to \in {"unnoted", "weighing"} : Goes(w, to)
  BY DEF deleteNote, cancelNote
<1>4. to \in Places /\ to \in Simple
  BY DEF Places, Retiring, Simple
<1>. QED
  BY <1>1, <1>2, <1>3, <1>4, GoesIs, GoesSimple DEF Types, Same

LEMMA ClearMoves ==
    ASSUME Types, NEW w \in Workers, clearContact(w)
    PROVE  /\ Types' /\ Only(w) /\ proc[w].job \in Jobs /\ proc'[w].job = proc[w].job
           /\ proc'[w].at = "finishing" /\ proc'[w].verdict = "review"
<1>. w \in Procs
  BY ProcsAre
<1>1. {eligible', dnd'} \subseteq BOOLEAN /\ UNCHANGED <<remote, enrolled, accepted, inflight,
                                                        late, stray>>
  BY DEF clearContact, PutContact, remoteVars, Types, Data
<1>2. Data'
  BY <1>1 DEF clearContact, shopVars, flagVars, ledgerVars, Types, Data
<1>3. proc[w].job \in Jobs
  BY FitsNow DEF clearContact, Fits, Unemployed, Stoppers
<1>. QED
  BY <1>2, <1>3, EndsIs DEF clearContact, Types, Verdicts

-----------------------------------------------------------------------------
(* Staff, and the pause.                                                   *)
LEMMA BeginMoves ==
    ASSUME Types, NEW p \in Procs, NEW to \in {"idle", "deleting"}, proc[p].at = "idle",
           proc' = [proc EXCEPT ![p] = Stopping(Idle, Journeys, to)],
           UNCHANGED <<shopVars, job, ledgerVars, remoteVars, faults>>
    PROVE  /\ Types' /\ Only(p) /\ proc[p].job = None /\ proc'[p].job = None
           /\ Halts(Idle, Journeys, to, proc'[p])
<1>1. Data'
  BY DEF shopVars, flagVars, ledgerVars, remoteVars, Types, Data
<1>2. Idle \in Records /\ Idle.job = None
  BY IdleFits DEF Idle
<1>3. proc[p].job = None
  BY FitsNow DEF Fits, Unemployed
<1>4. Fitting' /\ Only(p) /\ proc'[p].job = Idle.job /\ Halts(Idle, Journeys, to, proc'[p])
  BY <1>2, HaltMoves
<1>. QED
  BY <1>1, <1>2, <1>3, <1>4 DEF Types

LEMMA EraseMoves ==
    ASSUME Types, NEW p \in Procs, deleteContact(p)
    PROVE  /\ Types' /\ Only(p) /\ proc[p].job = None /\ proc'[p].job = None
           /\ proc'[p].at = "tombstoning"
<1>1. Data'
  BY DEF deleteContact, Remaining, shopVars, flagVars, ledgerVars, Types, Data, Remotes
<1>2. proc[p].job = None
  BY FitsNow DEF deleteContact, Fits, Unemployed
<1>3. Only(p) /\ proc'[p].at = "tombstoning" /\ proc'[p].job = None
  BY <1>2, GoesIs DEF deleteContact, Places, Unemployed, Same
<1>4. Fits(proc'[p])
  BY <1>3 DEF Fits, Unemployed, Stoppers, Keyed, Only
<1>. QED
  BY <1>1, <1>2, <1>3, <1>4, FitsNext DEF Types

LEMMA TombstoneMoves ==
    ASSUME Types, NEW p \in Procs, tombstone(p)
    PROVE  /\ Types' /\ Only(p) /\ proc[p].job = None /\ proc'[p].job = None
           /\ proc'[p].at = "idle"
<1>1. effect' \in [Keys -> {"none", "pending", "succeeded", "cancelled"}]
  BY DEF tombstone, Types, Data
<1>2. source' \in [Entities -> Sources]
  BY DEF tombstone, Types, Data, Sources
<1>3. Data'
  BY <1>1, <1>2 DEF tombstone, flagVars, remoteVars, Types, Data
<1>4. proc[p].job = None
  BY FitsNow DEF tombstone, Fits, Unemployed
<1>. QED
  BY <1>3, <1>4, RestIs DEF tombstone, Types

LEMMA ReplayTypes == ASSUME Types, NEW j \in Jobs, replayHighLevelJob(j) PROVE Types'
<1>1. [job[j] EXCEPT !.state = "queued", !.attempts = 0] \in JobRecords
  BY DEF Types, Data, JobRecords, JobStates
<1>2. job' = [job EXCEPT ![j] = [job[j] EXCEPT !.state = "queued", !.attempts = 0]]
  BY DEF replayHighLevelJob
<1>3. job' \in [Jobs -> JobRecords]
  BY <1>1, <1>2 DEF Types, Data
<1>4. Data'
  BY <1>3 DEF replayHighLevelJob, shopVars, flagVars, ledgerVars, remoteVars, Types, Data
<1>. QED
  BY <1>4, ProcSame DEF replayHighLevelJob, Types

LEMMA ResolveTypes == ASSUME Types, NEW k \in Keys, resolveHighLevelEffect(k) PROVE Types'
<1>1. effect' \in [Keys -> {"none", "pending", "succeeded", "cancelled"}]
  BY DEF resolveHighLevelEffect, Types, Data
<1>2. Data'
  BY <1>1 DEF resolveHighLevelEffect, shopVars, flagVars, remoteVars, Types, Data
<1>. QED
  BY <1>2, ProcSame DEF resolveHighLevelEffect, Types

-----------------------------------------------------------------------------
(* Faults.  A process gives up: its job fails, or is left to another.      *)
GivesUp(p) ==
    /\ Only(p)
    /\ \/ proc'[p].at = "idle" /\ proc'[p].job = None
       \/ /\ proc'[p].at = "finishing" /\ proc'[p].job = proc[p].job /\ proc[p].job \in Jobs
          /\ proc'[p].verdict \in {"retry", "review"}

LEMMA GivesUpIs ==
    ASSUME Types, NEW p \in Procs, NEW v \in {"retry", "review"},
           Fails(p, v) \/ proc' = [proc EXCEPT ![p] = Idle]
                       \/ (Ends(p, v) /\ proc[p].job \in Jobs)
    PROVE  Fitting' /\ GivesUp(p)
<1>1. CASE proc' = [proc EXCEPT ![p] = Idle]
  BY <1>1, RestIs DEF GivesUp
<1>2. CASE Ends(p, v) /\ proc[p].job \in Jobs
  <2>1. v \in Verdicts
    BY DEF Verdicts
  <2>. QED
    BY <1>2, <2>1, EndsIs DEF GivesUp
<1>3. CASE Fails(p, v)
  BY <1>1, <1>2, <1>3, FitsNow DEF Fails, Records
<1>. QED
  BY <1>1, <1>2, <1>3

LEMMA FaultCounts == ASSUME Types, Fault PROVE faults' \in 0..MaxFaults /\ faults' = faults + 1
BY HighLevelAssumption DEF Fault, Types, Data

LEMMA RefusedMoves ==
    ASSUME Types, NEW p \in Procs, CallRefused(p)
    PROVE  Types' /\ GivesUp(p)
<1>1. PICK v \in {"retry", "review"} : Fails(p, v)
  BY DEF CallRefused
<1>2. effect' \in [Keys -> {"none", "pending", "succeeded", "cancelled"}]
  BY DEF CallRefused, Unclaim, Types, Data
<1>3. faults' \in 0..MaxFaults
  BY FaultCounts DEF CallRefused
<1>4. Data'
  BY <1>2, <1>3 DEF CallRefused, shopVars, flagVars, remoteVars, Types, Data
<1>. QED
  BY <1>1, <1>4, GivesUpIs DEF Types

LEMMA UnansweredMoves ==
    ASSUME Types, NEW w \in Workers, PostUnanswered(w)
    PROVE  Types' /\ GivesUp(w) /\ KeyFits(proc[w])
<1>. w \in Procs
  BY ProcsAre
<1>1. proc[w].job \in Jobs /\ KeyFits(proc[w]) /\ proc[w].key \in Keys
  BY FitsNow DEF PostUnanswered, Fits, Unemployed, Stoppers, Keyed, KeyFits
<1>2. Fitting' /\ GivesUp(w)
  BY <1>1, GivesUpIs DEF PostUnanswered
<1>3. faults' \in 0..MaxFaults
  BY FaultCounts DEF PostUnanswered
<1>4. /\ accepted' \in [Keys -> Nat] /\ stray' \subseteq Journeys /\ inflight' \subseteq Keys
      /\ enrolled' \subseteq Workflows /\ UNCHANGED <<remote, eligible, dnd, late>>
  <2>1. CASE Performs(proc[w].key) /\ UNCHANGED inflight
    BY <1>1, <2>1, PerformsTypes DEF Types, Data
  <2>2. CASE ~(Performs(proc[w].key) /\ UNCHANGED inflight)
    BY <1>1, <2>2 DEF PostUnanswered, remoteVars, Types, Data
  <2>. QED
    BY <2>1, <2>2
<1>5. Data'
  BY <1>3, <1>4 DEF PostUnanswered, shopVars, flagVars, ledgerVars, Types, Data
<1>. QED
  BY <1>1, <1>2, <1>5 DEF Types

(* A call that may be made again: which it is, and what it does.           *)
LEMMA RepeatableIs ==
    ASSUME Types, NEW p \in Procs, NEW c \in Repeatable(p)
    PROVE  /\ c \in Calls
           /\ c[1] = "put" => remote = "live" \/ erased
           /\ proc[p].at \notin Unemployed
<1>1. proc[p] \in Records
  BY FitsNow
<1>2. CASE proc[p].at = "upserting"
  <2>1. c = <<"upsert", FALSE, FALSE>>
    BY <1>2 DEF Repeatable, UpsertCall
  <2>. QED
    BY <1>2, <2>1 DEF Calls, Unemployed
<1>3. CASE proc[p].at = "putting" /\ Reachable
  BY <1>1, <1>3 DEF Repeatable, Reachable, Calls, Unemployed, Records
<1>4. CASE proc[p].at = "clearing" /\ remote = "live"
  <2>1. c = <<"put", FALSE, FALSE>>
    BY <1>4 DEF Repeatable
  <2>. QED
    BY <1>4, <2>1 DEF Calls, Unemployed
<1>5. CASE proc[p].at = "stopping" /\ remote = "live"
  <2>1. PICK k : c = <<Workflow(k), FALSE, FALSE>>
    BY <1>5 DEF Repeatable
  <2>. QED
    BY <1>5, <2>1 DEF Workflow, Workflows, Calls, Unemployed
<1>. QED
  BY <1>2, <1>3, <1>4, <1>5 DEF Repeatable

LEMMA ArrivesIs ==
    ASSUME Types, NEW c \in Calls, Arrives(c)
    PROVE  /\ remote' \in Remotes /\ {eligible', dnd'} \subseteq BOOLEAN
           /\ stray' \subseteq stray /\ enrolled' \subseteq enrolled
           /\ UNCHANGED <<notes, accepted, inflight>>
           /\ dnd => dnd'
           /\ \/ /\ c[1] = "upsert" /\ ~eligible' /\ UNCHANGED <<enrolled, stray>>
                 /\ remote' # "none"
                 /\ remote \in {"deleted", "recreated"} => remote' = "recreated"
              \/ c[1] = "put" /\ UNCHANGED <<remote, enrolled, stray>>
              \/ c[1] \in Workflows /\ RemoveFrom(c[1]) /\ UNCHANGED <<remote, eligible>>
<1>1. CASE c[1] = "upsert"
  BY <1>1 DEF Arrives, UpsertContact, Types, Data, Remotes
<1>2. CASE c[1] = "put"
  BY <1>2 DEF Arrives, PutContact, Calls, Types, Data
<1>3. CASE c[1] \notin {"upsert", "put"}
  BY <1>3 DEF Arrives, RemoveFrom, Calls, Types, Data
<1>. QED
  BY <1>1, <1>2, <1>3

LEMMA NoAnswerMoves ==
    ASSUME Types, NEW p \in Procs, CallUnanswered(p)
    PROVE  /\ Types' /\ GivesUp(p) /\ proc[p].at \notin Unemployed
           /\ \E c \in Calls :
                 /\ c[1] = "put" => remote = "live" \/ erased
                 /\ \/ Arrives(c) /\ UNCHANGED late
                    \/ /\ late' = late \cup {c}
                       /\ UNCHANGED <<remote, eligible, dnd, notes, enrolled, accepted,
                                      inflight, stray>>
<1>1. Fitting' /\ GivesUp(p)
  BY GivesUpIs DEF CallUnanswered
<1>2. faults' \in 0..MaxFaults
  BY FaultCounts DEF CallUnanswered
<1>3. PICK c \in Repeatable(p) :
        \/ Arrives(c) /\ UNCHANGED late
        \/ /\ late' = late \cup {c}
           /\ UNCHANGED <<remote, eligible, dnd, notes, enrolled, accepted, inflight, stray>>
  BY DEF CallUnanswered
<1>4. /\ c \in Calls /\ proc[p].at \notin Unemployed
      /\ c[1] = "put" => remote = "live" \/ erased
  BY RepeatableIs
<1>5. /\ remote' \in Remotes /\ {eligible', dnd'} \subseteq BOOLEAN /\ late' \subseteq Calls
      /\ stray' \subseteq stray /\ enrolled' \subseteq enrolled
      /\ UNCHANGED <<accepted, inflight>>
  BY <1>3, <1>4, ArrivesIs DEF Types, Data
<1>6. Data'
  BY <1>2, <1>5 DEF CallUnanswered, shopVars, flagVars, ledgerVars, Types, Data
<1>. QED
  BY <1>1, <1>3, <1>4, <1>6 DEF Types

LEMMA FailMoves ==
    ASSUME Types, NEW p \in Procs, DbFails(p) \/ LockTimesOut(p) \/ Crash(p)
    PROVE  Types' /\ GivesUp(p)
<1>1. faults' \in 0..MaxFaults
  BY FaultCounts DEF DbFails, LockTimesOut, Crash, Types, Data
<1>2. Data'
  BY <1>1 DEF DbFails, LockTimesOut, Crash, shopVars, flagVars, ledgerVars, remoteVars,
     Types, Data
<1>3. CASE DbFails(p)
  BY <1>2, <1>3, GivesUpIs DEF DbFails, Types
<1>4. CASE LockTimesOut(p)
  <2>1. proc[p].job \in Jobs
    BY <1>4, FitsNow DEF LockTimesOut, Fits, Unemployed, Stoppers
  <2>. QED
    BY <1>2, <1>4, <2>1, GivesUpIs DEF LockTimesOut, Types
<1>5. CASE Crash(p)
  BY <1>2, <1>5, GivesUpIs DEF Crash, Types
<1>. QED
  BY <1>3, <1>4, <1>5

LEMMA LeaseTypes == ASSUME Types, NEW j \in Jobs, LeaseExpires(j) PROVE Types'
<1>1. [job[j] EXCEPT !.over = TRUE] \in JobRecords
  BY DEF Types, Data, JobRecords, JobStates
<1>2. job' = [job EXCEPT ![j] = [job[j] EXCEPT !.over = TRUE]]
  BY DEF LeaseExpires
<1>3. job' \in [Jobs -> JobRecords]
  BY <1>1, <1>2 DEF Types, Data
<1>4. faults' \in 0..MaxFaults
  BY FaultCounts DEF LeaseExpires, Types, Data
<1>5. Data'
  BY <1>3, <1>4 DEF LeaseExpires, shopVars, flagVars, ledgerVars, remoteVars, Types, Data
<1>. QED
  BY <1>5, ProcSame DEF LeaseExpires, Types

LEMMA LateTypes == ASSUME Types, NEW k \in inflight, LateCall(k) PROVE Types' /\ k \in Keys
<1>1. k \in Keys
  BY DEF Types, Data
<1>2. Data'
  BY <1>1, PerformsTypes DEF LateCall, shopVars, flagVars, ledgerVars, Types, Data
<1>. QED
  BY <1>1, <1>2, ProcSame DEF LateCall, Types

LEMMA LateAgain ==
    ASSUME Types, NEW c \in late, LateRepeatable(c)
    PROVE  Types' /\ c \in Calls /\ Arrives(c) /\ late' \subseteq late
<1>1. c \in Calls /\ Arrives(c) /\ late' \subseteq late
  BY DEF LateRepeatable, Types, Data
<1>2. Data'
  BY <1>1, ArrivesIs DEF LateRepeatable, shopVars, flagVars, ledgerVars, Types, Data
<1>. QED
  BY <1>1, <1>2, ProcSame DEF LateRepeatable, Types

-----------------------------------------------------------------------------
(* The ledger.                                                             *)

(* A step that makes no call, and forgets none.                            *)
Calm == /\ Types'
        /\ UNCHANGED <<accepted, inflight>>
        /\ \A k \in Keys : effect'[k] = "none" => effect[k] = "none"
        /\ \A p \in Procs : proc'[p].at = "posting" =>
              proc[p].at = "posting" /\ proc'[p].key = proc[p].key

LEMMA CalmKeepsOnce == ASSUME Once, Calm PROVE Once'
BY DEF Once, OnceFor, Calm, Posting

LEMMA NotPosting ==
    ASSUME Types', NEW p, Only(p), proc'[p].at # "posting",
           UNCHANGED <<accepted, inflight>>,
           \A k \in Keys : effect'[k] = "none" => effect[k] = "none"
    PROVE  Calm
BY DEF Calm, Only

LEMMA HaltsAt ==
    ASSUME NEW x, NEW ks, NEW to, NEW y, Halts(x, ks, to, y)
    PROVE  y.at \in {"finishing", "stopping", to}
BY DEF Halts, Reached, Stops

LEMMA DecidedAt ==
    ASSUME NEW w, NEW x, NEW y, Decided(w, x, y)
    PROVE  y.at \in {"finishing", "stopping", "offering", "claiming"}
BY DEF Decided, Reached, Stops, Ending

LEMMA ShopCalm == ASSUME Types, ShopStep PROVE Calm
<1>1. UNCHANGED <<accepted, inflight, effect, proc>>
  BY DEF ShopStep, Submit, Redact, highlevel_capture_offer, Changes, OrderMoves, Chooses,
     SwitchMarketing, JourneyAges, ShopOnly, ledgerVars, remoteVars
<1>. QED
  BY <1>1, ShopTypes DEF Calm

LEMMA SyncCalm ==
    ASSUME Types, NEW w \in Workers,
           \/ getContact(w) \/ insertContact(w) \/ selectContact(w) \/ findContact(w)
           \/ upsert(w) \/ readContact(w) \/ putContact(w) \/ commitSync(w)
           \/ finishJob(w) \/ (\E j \in Jobs : claimJobs(w, j))
    PROVE  Calm
<1>1. UNCHANGED <<accepted, inflight, effect>>
  BY DEF getContact, insertContact, selectContact, findContact, upsert, readContact, putContact,
     commitSync, finishJob, claimJobs, UpsertContact, PutContact, ledgerVars, remoteVars
<1>2. Types' /\ Only(w) /\ proc'[w].at # "posting"
  BY GetMoves, FindMoves, UpsertMoves, ReadMoves, PutMoves, CommitMoves, FinishMoves, ClaimMoves
<1>. QED
  BY <1>1, <1>2, NotPosting

LEMMA FollowCalm ==
    ASSUME Types, NEW w \in Workers,
           \/ loadContact(w) \/ lockEffects(w) \/ searchOpportunity(w) \/ consultConsent(w)
           \/ decideJourney(w) \/ offerFields(w) \/ handOff(w) \/ recordEffect(w)
    PROVE  Calm
<1>1. /\ UNCHANGED <<accepted, inflight>>
      /\ \A k \in Keys : effect'[k] = "none" => effect[k] = "none"
  BY DEF loadContact, lockEffects, searchOpportunity, consultConsent, decideJourney,
     offerFields, handOff,
     recordEffect, ledgerVars, remoteVars, Types, Data
<1>2. Types' /\ Only(w) /\ proc'[w].at # "posting"
  <2>1. CASE loadContact(w) \/ lockEffects(w) \/ searchOpportunity(w) \/ handOff(w)
    BY <2>1, LoadMoves, LockMoves, SearchMoves, HandOffMoves
  <2>2. CASE consultConsent(w) \/ decideJourney(w)
    BY <2>2, ConsultMoves, DecideMoves, DecidedAt DEF Stops
  <2>3. CASE offerFields(w)
    BY <2>3, OfferMoves, HaltsAt
  <2>4. CASE recordEffect(w)
    BY <2>4, RecordMoves, AfterMoves
  <2>. QED
    BY <2>1, <2>2, <2>3, <2>4
<1>. QED
  BY <1>1, <1>2, NotPosting

LEMMA RetireCalm ==
    ASSUME Types, NEW w \in Workers,
           \/ reconcileRemovedSource(w) \/ deleteNote(w) \/ cancelNote(w)
           \/ loadRetainedSource(w) \/ clearContact(w)
    PROVE  Calm
<1>1. /\ UNCHANGED <<accepted, inflight>>
      /\ \A k \in Keys : effect'[k] = "none" => effect[k] = "none"
  BY DEF reconcileRemovedSource, deleteNote, cancelNote, loadRetainedSource, clearContact,
     PutContact, ledgerVars, remoteVars, Types, Data
<1>2. Types' /\ Only(w) /\ proc'[w].at # "posting"
  BY RetireMoves, NoteMoves, ClearMoves, HaltsAt
<1>. QED
  BY <1>1, <1>2, NotPosting

LEMMA StopCalm ==
    ASSUME Types, NEW p \in Procs, stopJourney(p) \/ cancelJourney(p)
    PROVE  Calm
<1>1. /\ UNCHANGED <<accepted, inflight>>
      /\ \A k \in Keys : effect'[k] = "none" => effect[k] = "none"
  BY DEF stopJourney, cancelJourney, RemoveFrom, ledgerVars, remoteVars, Types, Data
<1>2. CASE stopJourney(p)
  BY <1>1, <1>2, StopMoves, NotPosting
<1>3. CASE cancelJourney(p)
  <2>1. proc[p].then # "posting" /\ Types' /\ Only(p)
    BY <1>3, FitsNow, CancelMoves DEF Records, Reasons
  <2>2. proc'[p].at # "posting"
    BY <1>3, <2>1, CancelMoves DEF Reached
  <2>. QED
    BY <1>1, <2>1, <2>2, NotPosting
<1>. QED
  BY <1>2, <1>3

LEMMA BeginCalm ==
    ASSUME Types, NEW p \in Procs,
           \/ pauseMarketing(p) \/ deleteReviewedCrmCopy(p) \/ deleteContact(p) \/ tombstone(p)
    PROVE  Calm
<1>1. /\ UNCHANGED <<accepted, inflight>>
      /\ \A k \in Keys : effect'[k] = "none" => effect[k] = "none"
  BY DEF pauseMarketing, deleteReviewedCrmCopy, deleteContact, tombstone, ledgerVars,
     remoteVars, Types, Data
<1>2. CASE pauseMarketing(p) \/ deleteReviewedCrmCopy(p)
  <2>1. PICK to \in {"idle", "deleting"} :
          /\ proc[p].at = "idle" /\ proc' = [proc EXCEPT ![p] = Stopping(Idle, Journeys, to)]
          /\ UNCHANGED <<shopVars, job, ledgerVars, remoteVars, faults>>
    BY <1>2 DEF pauseMarketing, deleteReviewedCrmCopy
  <2>2. Types' /\ Only(p) /\ Halts(Idle, Journeys, to, proc'[p])
    BY <2>1, BeginMoves
  <2>. QED
    BY <1>1, <2>2, HaltsAt, NotPosting
<1>3. CASE deleteContact(p) \/ tombstone(p)
  BY <1>1, <1>3, EraseMoves, TombstoneMoves, NotPosting
<1>. QED
  BY <1>2, <1>3

LEMMA FaultCalm ==
    ASSUME Types, NEW p \in Procs,
           \/ CallRefused(p) /\ proc[p].at # "posting"
           \/ CallUnanswered(p) \/ DbFails(p) \/ LockTimesOut(p) \/ Crash(p)
    PROVE  Calm
<1>1. UNCHANGED <<accepted, inflight, effect>>
  <2>1. CASE CallUnanswered(p)
    BY <2>1, NoAnswerMoves, ArrivesIs DEF CallUnanswered, ledgerVars
  <2>2. CASE ~CallUnanswered(p)
    BY <2>2 DEF CallRefused, DbFails, LockTimesOut, Crash, ledgerVars, remoteVars
  <2>. QED
    BY <2>1, <2>2
<1>2. Types' /\ GivesUp(p)
  BY RefusedMoves, NoAnswerMoves, FailMoves
<1>. QED
  BY <1>1, <1>2, NotPosting DEF GivesUp

LEMMA RowCalm ==
    ASSUME Types, NEW j \in Jobs, replayHighLevelJob(j) \/ LeaseExpires(j)
    PROVE  Calm
<1>1. UNCHANGED <<accepted, inflight, effect, proc>>
  BY DEF replayHighLevelJob, LeaseExpires, ledgerVars, remoteVars
<1>. QED
  BY <1>1, ReplayTypes, LeaseTypes DEF Calm

LEMMA LateCalm ==
    ASSUME Types, NEW c \in late, LateRepeatable(c)
    PROVE  Calm
<1>1. UNCHANGED <<accepted, inflight, effect, proc>>
  BY LateAgain, ArrivesIs DEF LateRepeatable, ledgerVars
<1>. QED
  BY <1>1, LateAgain DEF Calm

(* A key is claimed by one worker, who posts once.                         *)
LEMMA ClaimOnce ==
    ASSUME Types, Once, NEW w \in Workers, durableEffect(w)
    PROVE  Once'
<1>. w \in Procs
  BY ProcsAre
<1>. PICK k0 \in Keys : k0 = proc[w].key
  BY EffectMoves DEF KeyFits
<1>1. /\ Types' /\ Only(w) /\ proc[w].at = "claiming"
      /\ effect' = [effect EXCEPT ![k0] = IF effect[k0] = "none" THEN "pending" ELSE effect[k0]]
      /\ UNCHANGED <<accepted, inflight>>
  BY EffectMoves DEF durableEffect, remoteVars, KeyFits
<1>2. CASE effect[k0] # "none"
  <2>1. proc'[w].at # "posting"
    BY <1>1, <1>2, EffectMoves, AfterMoves DEF Keyed
  <2>2. effect' = effect
    BY <1>1, <1>2 DEF Types, Data
  <2>. QED
    BY <1>1, <2>1, <2>2, NotPosting, CalmKeepsOnce
<1>3. CASE effect[k0] = "none"
  <2>1. proc'[w].at = "posting" /\ proc'[w].key = k0
    BY <1>1, <1>3, EffectMoves DEF Same
  <2>2. /\ accepted[k0] = 0 /\ k0 \notin inflight /\ \A q \in Procs : ~Posting(q, k0)
        /\ effect'[k0] = "pending"
    BY <1>1, <1>3 DEF Once, OnceFor, Types, Data
  <2>3. ASSUME NEW k \in Keys, k # k0
        PROVE  effect'[k] = effect[k] /\ \A q \in Procs : Posting(q, k)' <=> Posting(q, k)
    BY <1>1, <2>1, <2>3 DEF Only, Posting, Types, Data
  <2>4. ASSUME NEW q \in Procs, q # w
        PROVE  ~Posting(q, k0)'
    BY <1>1, <2>2, <2>4 DEF Only, Posting
  <2>5. \A k \in Keys : k # k0 => OnceFor(k)'
    BY <1>1, <2>3 DEF Once, OnceFor
  <2>6. OnceFor(k0)'
    BY <1>1, <2>2, <2>4 DEF OnceFor
  <2>. QED
    BY <2>5, <2>6 DEF Once, OnceFor
<1>. QED
  BY <1>2, <1>3

(* The only poster of a key stops posting it: the call was carried out, or *)
(* may yet be, and the row is there; or it was not, and the row may go.    *)
LEMMA PosterLeaves ==
    ASSUME Types, Once, NEW w \in Procs, proc[w].at = "posting", NEW k0 \in Keys,
           k0 = proc[w].key, Only(w), proc'[w].at # "posting",
           \A k \in Keys : k # k0 => accepted'[k] = accepted[k] /\ effect'[k] = effect[k]
                                     /\ (k \in inflight' <=> k \in inflight),
           \/ accepted'[k0] = 0 /\ k0 \notin inflight'
           \/ /\ effect'[k0] = effect[k0]
              /\ accepted'[k0] + (IF k0 \in inflight' THEN 1 ELSE 0) = 1
              /\ accepted'[k0] \in {0, 1}
    PROVE  Once'
<1>1. Posting(w, k0) /\ accepted[k0] = 0 /\ effect[k0] # "none" /\ k0 \notin inflight
  BY DEF Once, OnceFor, Posting
<1>2. \A q \in Procs : ~Posting(q, k0)'
  BY <1>1 DEF Once, OnceFor, Only, Posting
<1>3. ASSUME NEW k \in Keys, k # k0
      PROVE  \A q \in Procs : Posting(q, k)' <=> Posting(q, k)
  BY <1>3 DEF Only, Posting
<1>. QED
  BY <1>1, <1>2, <1>3 DEF Once, OnceFor

LEMMA PerformsOnce ==
    ASSUME Types, NEW k0 \in Keys, Performs(k0), accepted[k0] = 0
    PROVE  /\ \A k \in Keys : k # k0 => accepted'[k] = accepted[k]
           /\ accepted'[k0] = IF remote = "live" THEN 1 ELSE 0
BY DEF Performs, Types, Data

LEMMA PostOnce ==
    ASSUME Types, Once, NEW w \in Workers, postEffect(w)
    PROVE  Once'
<1>1. PICK k0 \in Keys : k0 = proc[w].key
  BY PostMoves DEF KeyFits
<1>2. w \in Procs /\ Only(w) /\ proc'[w].at # "posting" /\ proc[w].at = "posting"
  BY PostMoves DEF postEffect, Only
<1>3. accepted[k0] = 0 /\ k0 \notin inflight
  BY <1>1, <1>2 DEF Once, OnceFor, Posting
<1>4. Performs(k0) /\ inflight' = inflight
  BY <1>1 DEF postEffect
<1>5. CASE remote = "live"
  BY <1>1, <1>2, <1>3, <1>4, <1>5, PerformsOnce, PosterLeaves DEF postEffect
<1>6. CASE remote # "live"
  <2>1. \A k \in Keys : k # k0 => effect'[k] = effect[k]
    BY <1>1, <1>6 DEF postEffect, Unclaim, Types, Data
  <2>. QED
    BY <1>1, <1>2, <1>3, <1>4, <1>6, <2>1, PerformsOnce, PosterLeaves
<1>. QED
  BY <1>5, <1>6

LEMMA RefusedOnce ==
    ASSUME Types, Once, NEW p \in Procs, CallRefused(p)
    PROVE  Once'
<1>1. CASE proc[p].at # "posting"
  BY <1>1, FaultCalm, CalmKeepsOnce
<1>2. CASE proc[p].at = "posting"
  <2>1. PICK k0 \in Keys : k0 = proc[p].key
    BY <1>2, FitsNow DEF Fits, Keyed, KeyFits
  <2>2. Only(p) /\ proc'[p].at # "posting"
    BY RefusedMoves DEF GivesUp
  <2>3. accepted[k0] = 0 /\ k0 \notin inflight
    BY <1>2, <2>1 DEF Once, OnceFor, Posting
  <2>4. /\ UNCHANGED <<accepted, inflight>>
        /\ \A k \in Keys : k # k0 => effect'[k] = effect[k]
    BY <1>2, <2>1 DEF CallRefused, Unclaim, remoteVars, Types, Data
  <2>. QED
    BY <1>2, <2>1, <2>2, <2>3, <2>4, PosterLeaves
<1>. QED
  BY <1>1, <1>2

LEMMA UnansweredOnce ==
    ASSUME Types, Once, NEW w \in Workers, PostUnanswered(w)
    PROVE  Once'
<1>1. PICK k0 \in Keys : k0 = proc[w].key
  BY UnansweredMoves DEF KeyFits
<1>2. w \in Procs /\ Only(w) /\ proc'[w].at # "posting" /\ proc[w].at = "posting"
  BY UnansweredMoves DEF PostUnanswered, Only, GivesUp
<1>3. accepted[k0] = 0 /\ k0 \notin inflight
  BY <1>1, <1>2 DEF Once, OnceFor, Posting
<1>4. effect' = effect
  BY DEF PostUnanswered, ledgerVars
<1>5. CASE Performs(k0) /\ UNCHANGED inflight
  BY <1>1, <1>2, <1>3, <1>4, <1>5, PerformsOnce, PosterLeaves
<1>6. CASE inflight' = inflight \cup {k0} /\ UNCHANGED accepted
  BY <1>1, <1>2, <1>3, <1>4, <1>6, PosterLeaves
<1>7. CASE UNCHANGED <<accepted, inflight>>
  BY <1>1, <1>2, <1>3, <1>4, <1>7, PosterLeaves
<1>. QED
  BY <1>1, <1>5, <1>6, <1>7 DEF PostUnanswered, remoteVars

LEMMA LateOnce ==
    ASSUME Types, Once, NEW k0 \in inflight, LateCall(k0)
    PROVE  Once'
<1>1. k0 \in Keys
  BY LateTypes
<1>2. /\ accepted[k0] = 0 /\ effect[k0] # "none" /\ \A p \in Procs : ~Posting(p, k0)
  BY <1>1 DEF Once, OnceFor
<1>3. Performs(k0) /\ inflight' = inflight \ {k0} /\ UNCHANGED <<effect, proc>>
  BY DEF LateCall, ledgerVars
<1>4. /\ \A k \in Keys : k # k0 => accepted'[k] = accepted[k]
      /\ accepted'[k0] \in {0, 1}
  BY <1>1, <1>2, <1>3, PerformsOnce
<1>. QED
  BY <1>1, <1>2, <1>3, <1>4 DEF Once, OnceFor, Posting

(* Staff ask HighLevel when nobody is about to call it.                    *)
LEMMA ResolveOnce ==
    ASSUME Types, Once, NEW k0 \in Keys, resolveHighLevelEffect(k0)
    PROVE  Once'
<1>1. UNCHANGED <<accepted, inflight, proc>>
  BY DEF resolveHighLevelEffect, remoteVars
<1>2. \A k \in Keys : k # k0 => effect'[k] = effect[k]
  BY DEF resolveHighLevelEffect, Types, Data
<1>3. /\ effect'[k0] = "none" => accepted[k0] = 0
      /\ k0 \notin inflight /\ \A p \in Procs : ~Posting(p, k0)
  BY DEF resolveHighLevelEffect, Posting, Types, Data
<1>. QED
  BY <1>1, <1>2, <1>3 DEF Once, OnceFor, Posting

(* The steps in which a row may go or a call is made.                      *)
LEMMA NextCalm ==
    ASSUME Types, Next
    PROVE  \/ Calm
           \/ \E w \in Workers : durableEffect(w) \/ postEffect(w) \/ PostUnanswered(w)
           \/ \E p \in Procs : CallRefused(p) /\ proc[p].at = "posting"
           \/ \E k \in inflight : LateCall(k)
           \/ \E k \in Keys : resolveHighLevelEffect(k)
<1>1. CASE ShopStep
  BY <1>1, ShopCalm
<1>2. CASE StaffStep
  BY <1>2, BeginCalm, RowCalm, ProcsAre DEF StaffStep
<1>3. ASSUME NEW w \in Workers, WorkerStep(w)
      PROVE  Calm \/ durableEffect(w) \/ postEffect(w)
  BY <1>3, SyncCalm, FollowCalm, RetireCalm DEF WorkerStep
<1>4. ASSUME NEW w \in Workers,
             \/ \E j \in Jobs : claimJobs(w, j)
             \/ pauseMarketing(w) \/ DbFails(w) \/ LockTimesOut(w)
      PROVE  Calm
  BY <1>4, SyncCalm, BeginCalm, FaultCalm, ProcsAre
<1>5. ASSUME NEW p \in Procs, \/ stopJourney(p) \/ cancelJourney(p) \/ CallUnanswered(p) \/ Crash(p)
      PROVE  Calm
  BY <1>5, StopCalm, FaultCalm
<1>6. ASSUME NEW p \in Procs, CallRefused(p)
      PROVE  Calm \/ proc[p].at = "posting"
  BY <1>6, FaultCalm
<1>7. ASSUME NEW j \in Jobs, LeaseExpires(j)
      PROVE  Calm
  BY <1>7, RowCalm
<1>8. ASSUME NEW c \in late, LateRepeatable(c)
      PROVE  Calm
  BY <1>8, LateCalm
<1>. QED
  BY <1>1, <1>2, <1>3, <1>4, <1>5, <1>6, <1>7, <1>8 DEF Next

LEMMA NextTypes == ASSUME Types, Next PROVE Types'
BY NextCalm, EffectMoves, PostMoves, UnansweredMoves, RefusedMoves, LateTypes, ResolveTypes DEF Calm

LEMMA NextOnce == ASSUME Types, Once, Next PROVE Once'
BY NextCalm, CalmKeepsOnce, ClaimOnce, PostOnce, UnansweredOnce, RefusedOnce, LateOnce,
   ResolveOnce

-----------------------------------------------------------------------------
(* The contact.                                                            *)

(* A step that lets no process begin to erase a contact that never was at  *)
(* HighLevel, or to write what may not be written: all but the deletion.   *)
Tame(x, y) == /\ Erasing(y) => Erasing(x) \/ remote # "none"
              /\ y.at = "tombstoning" => x.at = "tombstoning"
              /\ y.at = "committing" => remote # "none"
Lands == \/ remote' = remote
         \/ remote = "none" /\ remote' = "live"
         \/ remote = "deleted" /\ remote' = "recreated"
Plain == /\ Types' /\ Lands
         /\ mapped' => mapped \/ remote # "none"
         /\ erased => erased'
         /\ remote # "live" => enrolled' \subseteq enrolled
         /\ remote # "live" /\ ~erased => /\ eligible' => eligible
                                         /\ \A c \in late' : c \in late \/ c[1] # "put"
         /\ \A p \in Procs : proc'[p] = proc[p] \/ Tame(proc[p], proc'[p])

LEMMA PlainKeeps == ASSUME Types, Known, Plain PROVE Known'
<1>1. /\ remote # "none" => remote' # "none"
      /\ remote' # "live" => remote # "live"
  BY DEF Plain, Lands
<1>2. mapped' => remote' # "none"
  BY <1>1 DEF Known, Plain
<1>3. remote' # "live" => enrolled' = {}
  BY <1>1 DEF Known, Plain
<1>4. remote' # "live" /\ ~erased' => ~eligible' /\ \A c \in late' : c[1] # "put"
  BY <1>1 DEF Known, Plain
<1>5. ASSUME NEW p \in Procs
      PROVE  /\ proc'[p].at = "committing" \/ Erasing(proc'[p]) => remote' # "none"
             /\ proc'[p].at = "tombstoning" => remote' # "live"
  <2>1. /\ proc'[p].at = "committing" \/ Erasing(proc'[p]) => remote # "none"
        /\ proc'[p].at = "tombstoning" => proc[p].at = "tombstoning"
    BY DEF Known, Plain, Tame
  <2>2. proc[p].at = "tombstoning" => remote # "live" /\ remote # "none"
    BY DEF Known, Erasing
  <2>. QED
    BY <1>1, <2>1, <2>2 DEF Plain, Lands
<1>. QED
  BY <1>2, <1>3, <1>4, <1>5 DEF Known, Erasing

(* What a step does to the contact that only workers without a job erase.  *)
Harmless == /\ UNCHANGED <<mapped, erased, remote>> /\ late' \subseteq late
            /\ remote # "live" => enrolled' \subseteq enrolled
            /\ remote # "live" /\ ~erased => (eligible' => eligible)

LEMMA TameStep ==
    ASSUME Types', NEW p, Only(p), Tame(proc[p], proc'[p]), Harmless
    PROVE  Plain
<1>1. ASSUME NEW q \in Procs
      PROVE  proc'[q] = proc[q] \/ Tame(proc[q], proc'[q])
  BY DEF Only
<1>. QED
  BY <1>1 DEF Plain, Harmless, Lands

(* Places in which neither is done.                                        *)
LEMMA TamePlaces ==
    ASSUME NEW x, NEW y, y.at \notin Stoppers \cup {"deleting", "tombstoning", "committing"}
    PROVE  Tame(x, y)
BY DEF Tame, Erasing

LEMMA TameHalts ==
    ASSUME NEW x, NEW z, NEW ks, NEW to, NEW y, Halts(z, ks, to, y),
           to \notin Stoppers \cup {"deleting", "tombstoning", "committing"}
    PROVE  Tame(x, y)
BY DEF Halts, Reached, Stops, Tame, Erasing, Stoppers, Ending

LEMMA TameDecided ==
    ASSUME NEW x, NEW z, NEW w, NEW y, Decided(w, z, y)
    PROVE  Tame(x, y)
BY DEF Decided, Reached, Stops, Tame, Erasing, Stoppers, Ending

LEMMA ShopPlain == ASSUME Types, ShopStep PROVE Plain
<1>1. UNCHANGED <<mapped, erased, remote, eligible, enrolled, late, proc>>
  BY DEF ShopStep, Submit, Redact, highlevel_capture_offer, Changes, OrderMoves, Chooses,
     SwitchMarketing, JourneyAges, ShopOnly, ledgerVars, remoteVars
<1>. QED
  BY <1>1, ShopTypes DEF Plain, Lands

LEMMA RowPlain ==
    ASSUME Types, \/ \E j \in Jobs : replayHighLevelJob(j) \/ LeaseExpires(j)
                  \/ \E k \in Keys : resolveHighLevelEffect(k)
                  \/ \E k \in inflight : LateCall(k)
    PROVE  Plain
<1>1. UNCHANGED <<mapped, erased, remote, eligible, late, proc>>
  BY DEF replayHighLevelJob, LeaseExpires, resolveHighLevelEffect, LateCall, Performs,
     ledgerVars, remoteVars
<1>2. remote # "live" => enrolled' = enrolled
  BY DEF replayHighLevelJob, LeaseExpires, resolveHighLevelEffect, LateCall, Performs,
     ledgerVars, remoteVars
<1>. QED
  BY <1>1, <1>2, ReplayTypes, LeaseTypes, ResolveTypes, LateTypes DEF Plain, Lands

(* The contact is made when there is none to be had.                       *)
LEMMA ArrivesPlain ==
    ASSUME Types, NEW c \in Calls, Arrives(c), c[1] = "put" => remote = "live" \/ erased
    PROVE  /\ Lands /\ enrolled' \subseteq enrolled
           /\ remote # "live" /\ ~erased => (eligible' => eligible)
<1>1. CASE c[1] = "upsert"
  BY <1>1 DEF Arrives, UpsertContact, Lands, Types, Data, Remotes
<1>2. CASE c[1] # "upsert"
  BY <1>2, ArrivesIs DEF Lands
<1>. QED
  BY <1>1, <1>2

LEMMA LatePlain ==
    ASSUME Types, Known, NEW c \in late, LateRepeatable(c)
    PROVE  Plain
<1>1. c[1] = "put" => remote = "live" \/ erased
  BY DEF Known
<1>2. UNCHANGED <<mapped, erased, proc>>
  BY DEF LateRepeatable, ledgerVars
<1>. QED
  BY <1>1, <1>2, LateAgain, ArrivesPlain DEF Plain

LEMMA SyncPlain ==
    ASSUME Types, Known, NEW w \in Workers,
           \/ getContact(w) \/ insertContact(w) \/ selectContact(w) \/ findContact(w)
           \/ upsert(w) \/ readContact(w) \/ putContact(w) \/ commitSync(w)
           \/ finishJob(w) \/ (\E j \in Jobs : claimJobs(w, j))
    PROVE  Plain
<1>1. CASE \/ getContact(w) \/ insertContact(w) \/ selectContact(w) \/ findContact(w)
           \/ readContact(w) \/ finishJob(w) \/ (\E j \in Jobs : claimJobs(w, j))
  <2>1. UNCHANGED <<ledgerVars, remoteVars>>
    BY <1>1 DEF getContact, insertContact, selectContact, findContact, readContact, finishJob,
       claimJobs
  <2>2. /\ Types' /\ Only(w)
        /\ proc'[w].at \notin Stoppers \cup {"deleting", "tombstoning", "committing"}
    BY <1>1, GetMoves, FindMoves, ReadMoves, FinishMoves, ClaimMoves DEF Stoppers
  <2>. QED
    BY <2>1, <2>2, TamePlaces, TameStep DEF Harmless, ledgerVars, remoteVars
<1>2. CASE upsert(w)
  <2>1. /\ Types' /\ Only(w) /\ Tame(proc[w], proc'[w])
    BY <1>2, UpsertMoves, TamePlaces DEF Stoppers
  <2>2. UNCHANGED <<mapped, erased, enrolled, late>> /\ ~eligible' /\ Lands
    BY <1>2 DEF upsert, UpsertContact, Lands, ledgerVars, Types, Data, Remotes
  <2>. QED
    BY <2>1, <2>2 DEF Plain, Only
<1>3. CASE putContact(w)
  <2>1. UNCHANGED <<mapped, erased, remote, enrolled, late>>
    BY <1>3 DEF putContact, PutContact, ledgerVars, remoteVars
  <2>2. remote # "live" /\ ~erased => eligible' = eligible
    BY <1>3 DEF putContact, Reachable, remoteVars
  <2>3. Types' /\ Only(w)
    BY <1>3, PutMoves
  <2>4. Tame(proc[w], proc'[w])
    BY <1>3, PutMoves DEF Tame, Erasing, Stoppers, Reachable
  <2>. QED
    BY <2>1, <2>2, <2>3, <2>4, TameStep DEF Harmless
<1>4. CASE commitSync(w)
  <2>1. Types' /\ Only(w) /\ Tame(proc[w], proc'[w])
    BY <1>4, CommitMoves, TamePlaces DEF Stoppers
  <2>2. UNCHANGED <<erased, remote, eligible, enrolled, late>> /\ remote # "none"
    BY <1>4, ProcsAre DEF commitSync, remoteVars, Known
  <2>. QED
    BY <2>1, <2>2 DEF Plain, Lands, Only
<1>. QED
  BY <1>1, <1>2, <1>3, <1>4

LEMMA FollowPlain ==
    ASSUME Types, NEW w \in Workers,
           \/ loadContact(w) \/ lockEffects(w) \/ searchOpportunity(w) \/ consultConsent(w)
           \/ decideJourney(w) \/ offerFields(w) \/ handOff(w) \/ durableEffect(w)
           \/ postEffect(w) \/ recordEffect(w)
    PROVE  Plain
<1>1. Harmless
  BY DEF loadContact, lockEffects, searchOpportunity, consultConsent, decideJourney, offerFields,
     handOff, durableEffect, postEffect, recordEffect, Performs, ledgerVars, remoteVars, Harmless
<1>2. Types' /\ Only(w) /\ Tame(proc[w], proc'[w])
  <2>1. CASE loadContact(w) \/ lockEffects(w) \/ searchOpportunity(w) \/ handOff(w)
    BY <2>1, LoadMoves, LockMoves, SearchMoves, HandOffMoves, TamePlaces DEF Stoppers
  <2>2. CASE consultConsent(w)
    <3>1. \/ \E x \in Records : Stops(x, Sales, "deciding", proc'[w])
          \/ \E x \in Records : Decided(w, x, proc'[w])
      BY <2>2, ConsultMoves
    <3>2. ASSUME NEW x \in Records, Stops(x, Sales, "deciding", proc'[w])
          PROVE  Tame(proc[w], proc'[w])
      BY <3>2 DEF Stops, Tame, Erasing
    <3>. QED
      BY <2>2, <3>1, <3>2, ConsultMoves, TameDecided
  <2>3. CASE decideJourney(w)
    BY <2>3, DecideMoves, TameDecided
  <2>4. CASE offerFields(w)
    BY <2>4, OfferMoves, TamePlaces, TameHalts DEF Stoppers
  <2>5. CASE durableEffect(w) \/ postEffect(w) \/ recordEffect(w)
    <3>1. proc[w].at \in Keyed
      BY <2>5 DEF durableEffect, postEffect, recordEffect, Keyed
    <3>. QED
      BY <2>5, <3>1, EffectMoves, PostMoves, RecordMoves, AfterMoves, TamePlaces DEF Stoppers
  <2>. QED
    BY <2>1, <2>2, <2>3, <2>4, <2>5
<1>. QED
  BY <1>1, <1>2, TameStep

LEMMA RetirePlain ==
    ASSUME Types, NEW w \in Workers,
           \/ reconcileRemovedSource(w) \/ deleteNote(w) \/ cancelNote(w)
           \/ loadRetainedSource(w) \/ clearContact(w)
    PROVE  Plain
<1>1. Harmless
  BY DEF reconcileRemovedSource, deleteNote, cancelNote, loadRetainedSource, clearContact,
     PutContact, ledgerVars, remoteVars, Types, Data, Harmless
<1>2. Types' /\ Only(w) /\ Tame(proc[w], proc'[w])
  <2>1. CASE reconcileRemovedSource(w) \/ loadRetainedSource(w)
    BY <2>1, RetireMoves, TamePlaces, TameHalts DEF Stoppers
  <2>2. CASE ~(reconcileRemovedSource(w) \/ loadRetainedSource(w))
    BY <2>2, NoteMoves, ClearMoves, TamePlaces DEF Stoppers
  <2>. QED
    BY <2>1, <2>2
<1>. QED
  BY <1>1, <1>2, TameStep

LEMMA StopPlain ==
    ASSUME Types, NEW p \in Procs, stopJourney(p) \/ cancelJourney(p)
    PROVE  Plain
<1>1. Harmless
  <2>1. CASE stopJourney(p)
    <3>1. PICK k \in proc[p].todo : RemoveFrom(Workflow(k)) /\ UNCHANGED late
      BY <2>1 DEF stopJourney
    <3>2. UNCHANGED <<remote, eligible, late>> /\ enrolled' \subseteq enrolled
      BY <3>1 DEF RemoveFrom
    <3>. QED
      BY <2>1, <3>2 DEF stopJourney, ledgerVars, Harmless
  <2>2. CASE cancelJourney(p)
    BY <2>2 DEF cancelJourney, remoteVars, Harmless
  <2>. QED
    BY <2>1, <2>2
<1>2. CASE stopJourney(p)
  <2>1. Tame(proc[p], proc'[p])
    BY <1>2, StopMoves DEF stopJourney, Tame, Erasing, Stoppers
  <2>. QED
    BY <1>1, <1>2, <2>1, StopMoves, TameStep
<1>3. CASE cancelJourney(p)
  <2>1. proc[p].then \in Reasons /\ proc[p].at = "cancelling"
    BY <1>3, FitsNow DEF Records, cancelJourney
  <2>2. ASSUME Reached(proc[p], proc[p].then, proc'[p])
        PROVE  Tame(proc[p], proc'[p])
    BY <2>1, <2>2 DEF Reached, Reasons, Ending, Tame, Erasing, Stoppers
  <2>3. ASSUME proc'[p].at = "stopping", proc'[p].then = proc[p].then
        PROVE  Tame(proc[p], proc'[p])
    BY <2>1, <2>3 DEF Tame, Erasing, Stoppers
  <2>. QED
    BY <1>1, <1>3, <2>2, <2>3, CancelMoves, TameStep
<1>. QED
  BY <1>2, <1>3

LEMMA FaultPlain ==
    ASSUME Types, NEW p \in Procs,
           \/ CallRefused(p) \/ DbFails(p) \/ LockTimesOut(p) \/ Crash(p)
           \/ PostUnanswered(p) /\ p \in Workers
           \/ CallUnanswered(p)
    PROVE  Plain
<1>1. Types' /\ GivesUp(p)
  BY RefusedMoves, NoAnswerMoves, FailMoves, UnansweredMoves
<1>2. Tame(proc[p], proc'[p])
  BY <1>1, TamePlaces DEF GivesUp, Stoppers
<1>3. CASE CallUnanswered(p)
  <2>1. PICK c \in Calls :
          /\ c[1] = "put" => remote = "live" \/ erased
          /\ \/ Arrives(c) /\ UNCHANGED late
             \/ /\ late' = late \cup {c}
                /\ UNCHANGED <<remote, eligible, dnd, notes, enrolled, accepted, inflight, stray>>
    BY <1>3, NoAnswerMoves
  <2>2. UNCHANGED <<mapped, erased>>
    BY <1>3 DEF CallUnanswered, ledgerVars
  <2>3. /\ Lands /\ enrolled' \subseteq enrolled
        /\ remote # "live" /\ ~erased => (eligible' => eligible)
    BY <2>1, ArrivesPlain DEF Lands
  <2>4. remote # "live" /\ ~erased => \A d \in late' : d \in late \/ d[1] # "put"
    BY <2>1
  <2>. QED
    BY <1>1, <1>2, <2>2, <2>3, <2>4 DEF Plain, GivesUp, Only
<1>4. CASE ~CallUnanswered(p)
  <2>1. Harmless
    BY <1>4 DEF CallRefused, DbFails, LockTimesOut, Crash, PostUnanswered, Performs, ledgerVars,
       remoteVars, Harmless
  <2>. QED
    BY <1>1, <1>2, <2>1, TameStep DEF GivesUp
<1>. QED
  BY <1>3, <1>4

(* Staff erase a contact whose row names one at HighLevel.                 *)
LEMMA BeginPlain ==
    ASSUME Types, Known, NEW p \in Procs,
           pauseMarketing(p) \/ deleteReviewedCrmCopy(p) \/ tombstone(p)
    PROVE  Plain
<1>1. CASE pauseMarketing(p) \/ deleteReviewedCrmCopy(p)
  <2>1. PICK to \in {"idle", "deleting"} :
          /\ proc[p].at = "idle" /\ proc' = [proc EXCEPT ![p] = Stopping(Idle, Journeys, to)]
          /\ UNCHANGED <<shopVars, job, ledgerVars, remoteVars, faults>> /\ mapped
    BY <1>1 DEF pauseMarketing, deleteReviewedCrmCopy
  <2>2. Types' /\ Only(p) /\ Halts(Idle, Journeys, to, proc'[p])
    BY <2>1, BeginMoves
  <2>3. remote # "none" /\ Harmless
    BY <2>1 DEF Known, Harmless, ledgerVars, remoteVars
  <2>4. Tame(proc[p], proc'[p])
    BY <2>2, <2>3, HaltsAt DEF Tame
  <2>. QED
    BY <2>2, <2>3, <2>4, TameStep
<1>2. CASE tombstone(p)
  <2>1. Types' /\ Only(p) /\ Tame(proc[p], proc'[p])
    BY <1>2, TombstoneMoves, TamePlaces DEF Stoppers
  <2>2. UNCHANGED <<mapped, remote, eligible, enrolled, late>> /\ erased'
    BY <1>2 DEF tombstone, remoteVars
  <2>. QED
    BY <2>1, <2>2 DEF Plain, Lands, Only
<1>. QED
  BY <1>1, <1>2

LEMMA EraseKnown ==
    ASSUME Types, Known, NEW p \in Procs, deleteContact(p)
    PROVE  Known'
<1>1. /\ Only(p) /\ proc'[p].at = "tombstoning" /\ proc[p].at = "deleting"
      /\ UNCHANGED <<mapped, erased>>
  BY EraseMoves DEF deleteContact, ledgerVars
<1>2. remote # "none" /\ remote' # "none" /\ remote' # "live"
  BY <1>1 DEF deleteContact, Known, Erasing
<1>3. /\ enrolled' = {}
      /\ ~erased => ~eligible' /\ \A c \in late' : c[1] # "put"
  <2>1. CASE remote = "live"
    <3>1. enrolled' = {} /\ eligible' = FALSE /\ late' = Remaining
      BY <2>1 DEF deleteContact
    <3>2. \A c \in Remaining : c[1] # "put"
      BY DEF Remaining
    <3>. QED
      BY <3>1, <3>2
  <2>2. CASE remote # "live"
    BY <2>2 DEF deleteContact, Known
  <2>. QED
    BY <2>1, <2>2
<1>4. \A q \in Procs : /\ proc'[q].at = "committing" \/ Erasing(proc'[q]) => remote' # "none"
                      /\ proc'[q].at = "tombstoning" => remote' # "live"
  BY <1>2
<1>. QED
  BY <1>1, <1>2, <1>3, <1>4 DEF Known, Erasing

LEMMA NextKnown == ASSUME Types, Known, Next PROVE Known'
<1>1. CASE ShopStep
  BY <1>1, ShopPlain, PlainKeeps
<1>2. CASE StaffStep
  BY <1>2, BeginPlain, EraseKnown, RowPlain, PlainKeeps, ProcsAre DEF StaffStep
<1>3. ASSUME NEW w \in Workers, WorkerStep(w)
      PROVE  Plain
  BY <1>3, SyncPlain, FollowPlain, RetirePlain DEF WorkerStep
<1>4. ASSUME NEW w \in Workers,
             \/ \E j \in Jobs : claimJobs(w, j)
             \/ pauseMarketing(w) \/ PostUnanswered(w) \/ DbFails(w) \/ LockTimesOut(w)
      PROVE  Plain
  BY <1>4, SyncPlain, BeginPlain, FaultPlain, ProcsAre
<1>5. ASSUME NEW p \in Procs, \/ stopJourney(p) \/ cancelJourney(p) \/ CallRefused(p)
                              \/ CallUnanswered(p) \/ Crash(p)
      PROVE  Plain
  BY <1>5, StopPlain, FaultPlain
<1>6. ASSUME \/ \E j \in Jobs : LeaseExpires(j)
             \/ \E k \in inflight : LateCall(k)
      PROVE  Plain
  BY <1>6, RowPlain
<1>7. ASSUME NEW c \in late, LateRepeatable(c)
      PROVE  Plain
  BY <1>7, LatePlain
<1>. QED
  BY <1>1, <1>2, <1>3, <1>4, <1>5, <1>6, <1>7, PlainKeeps DEF Next

-----------------------------------------------------------------------------
(* The journeys: one worker decides at a time, and one journey runs.       *)

Runs == Running(Journeys)
Fewer == {k \in Journeys : effect'[k] \in {"pending", "succeeded"}} \subseteq Runs

LEMMA RunsNext == Runs' = {k \in Journeys : effect'[k] \in {"pending", "succeeded"}}
BY DEF Runs, Running

LEMMA IdleAllows == ASSUME NEW x, ~Holds(x), NEW r PROVE Allows(x, r)
BY DEF Holds, Allows, Keyed, Following

LEMMA AllowsLess ==
    ASSUME NEW x, NEW r, NEW s, s \subseteq r, Allows(x, r)
    PROVE  Allows(x, s)
BY DEF Allows

LEMMA KeptLock ==
    ASSUME Types, OneHolder, NEW p, Only(p), Holds(proc'[p]) => Holds(proc[p])
    PROVE  OneHolder'
<1>1. ASSUME NEW q \in Procs, Holds(proc'[q])
      PROVE  Holds(proc[q])
  BY <1>1 DEF Only
<1>2. \A q, r \in Procs : Holds(proc'[q]) /\ Holds(proc'[r]) => q = r
  BY <1>1 DEF OneHolder
<1>. QED
  BY <1>2 DEF OneHolder, Holds

LEMMA SingleStep ==
    ASSUME Types, Single, NEW p, Only(p), Fewer, Allows(proc'[p], Runs')
    PROVE  Single'
<1>1. Runs' \subseteq Runs
  BY RunsNext DEF Fewer
<1>2. \A k, l \in Runs' : k = l
  BY <1>1 DEF Single, Runs
<1>3. ASSUME NEW q \in Procs
      PROVE  Allows(proc'[q], Runs')
  <2>1. CASE q = p
    BY <2>1
  <2>2. CASE q # p
    BY <1>1, <2>2, AllowsLess DEF Single, Runs, Only
  <2>. QED
    BY <2>1, <2>2
<1>4. Single' = ((\A k, l \in Runs' : k = l) /\ \A q \in Procs : Allows(proc'[q], Runs'))
  BY DEF Single, Runs, Allows, Left, JourneyOf
<1>. QED
  BY <1>2, <1>3, <1>4

(* A step of a process that then has nothing to do with the lock.          *)
LEMMA Bystands ==
    ASSUME Types, OneHolder, Single, NEW p, Only(p), Fewer, ~Holds(proc'[p])
    PROVE  OneHolder' /\ Single'
BY KeptLock, SingleStep, IdleAllows

LEMMA RowsAlone ==
    ASSUME Types, OneHolder, Single, Fewer, UNCHANGED proc
    PROVE  OneHolder' /\ Single'
<1>1. Runs' \subseteq Runs
  BY RunsNext DEF Fewer
<1>2. \A k, l \in Runs' : k = l
  BY <1>1 DEF Single, Runs
<1>3. ASSUME NEW q \in Procs
      PROVE  Allows(proc[q], Runs')
  BY <1>1, AllowsLess DEF Single, Runs
<1>4. Single' = ((\A k, l \in Runs' : k = l) /\ \A q \in Procs : Allows(proc'[q], Runs'))
  BY DEF Single, Runs, Allows, Left, JourneyOf
<1>5. OneHolder'
  BY DEF OneHolder, Holds
<1>. QED
  BY <1>2, <1>3, <1>4, <1>5

LEMMA SameEffects == ASSUME UNCHANGED effect PROVE Fewer
BY DEF Fewer, Runs, Running

LEMMA FreePlaces ==
    ASSUME NEW y, y.at \notin Following \cup Stoppers
    PROVE  ~Holds(y)
BY DEF Holds

LEMMA FreeHalts ==
    ASSUME NEW x, NEW ks, NEW to, NEW y, Halts(x, ks, to, y),
           to \in {"idle", "deleting", "mapping", "clearing"}
    PROVE  ~Holds(y)
BY DEF Halts, Reached, Stops, Holds, Following, Stoppers, Ending

LEMMA ShopSingle == ASSUME Types, OneHolder, Single, ShopStep PROVE OneHolder' /\ Single'
<1>1. UNCHANGED <<effect, proc>>
  BY DEF ShopStep, Submit, Redact, highlevel_capture_offer, Changes, OrderMoves, Chooses,
     SwitchMarketing, JourneyAges, ShopOnly, ledgerVars, remoteVars
<1>. QED
  BY <1>1, SameEffects, RowsAlone

LEMMA RowSingle ==
    ASSUME Types, OneHolder, Single,
           \/ \E j \in Jobs : replayHighLevelJob(j) \/ LeaseExpires(j)
           \/ \E k \in Keys : resolveHighLevelEffect(k)
           \/ \E k \in inflight : LateCall(k)
           \/ \E c \in late : LateRepeatable(c)
    PROVE  OneHolder' /\ Single'
<1>1. CASE \/ \E j \in Jobs : replayHighLevelJob(j) \/ LeaseExpires(j)
           \/ \E k \in inflight : LateCall(k)
           \/ \E c \in late : LateRepeatable(c)
  BY <1>1, SameEffects, RowsAlone DEF replayHighLevelJob, LeaseExpires, LateCall, LateRepeatable,
     ledgerVars
<1>2. ASSUME NEW k \in Keys, resolveHighLevelEffect(k)
      PROVE  OneHolder' /\ Single'
  <2>1. Fewer /\ UNCHANGED proc
    BY <1>2 DEF resolveHighLevelEffect, Fewer, Runs, Running, Types, Data
  <2>. QED
    BY <2>1, RowsAlone
<1>. QED
  BY <1>1, <1>2

LEMMA SyncSingle ==
    ASSUME Types, OneHolder, Single, NEW w \in Workers,
           \/ getContact(w) \/ insertContact(w) \/ selectContact(w) \/ findContact(w)
           \/ upsert(w) \/ readContact(w) \/ putContact(w) \/ commitSync(w)
           \/ finishJob(w) \/ (\E j \in Jobs : claimJobs(w, j))
    PROVE  OneHolder' /\ Single'
<1>1. Fewer
  BY SameEffects DEF getContact, insertContact, selectContact, findContact, upsert, readContact,
     putContact, commitSync, finishJob, claimJobs, ledgerVars
<1>2. /\ Only(w)
      /\ proc'[w].at \in Syncing \cup {"finishing", "following", "idle", "retiring", "mapping"}
  BY GetMoves, FindMoves, UpsertMoves, ReadMoves, PutMoves, CommitMoves, FinishMoves, ClaimMoves
     DEF Syncing
<1>3. ~Holds(proc'[w])
  BY <1>2, FreePlaces DEF Following, Stoppers, Syncing
<1>. QED
  BY <1>1, <1>2, <1>3, Bystands

LEMMA RetireSingle ==
    ASSUME Types, OneHolder, Single, NEW w \in Workers,
           \/ reconcileRemovedSource(w) \/ deleteNote(w) \/ cancelNote(w)
           \/ loadRetainedSource(w) \/ clearContact(w)
    PROVE  OneHolder' /\ Single'
<1>1. Fewer
  BY KeysMade DEF reconcileRemovedSource, deleteNote, cancelNote, loadRetainedSource,
     clearContact, ledgerVars, remoteVars, Types, Data, Fewer, Runs, Running
<1>2. Only(w) /\ ~Holds(proc'[w])
  <2>1. CASE reconcileRemovedSource(w) \/ loadRetainedSource(w)
    BY <2>1, RetireMoves, FreePlaces, FreeHalts DEF Following, Stoppers
  <2>2. CASE ~(reconcileRemovedSource(w) \/ loadRetainedSource(w))
    BY <2>2, NoteMoves, ClearMoves, FreePlaces DEF Following, Stoppers
  <2>. QED
    BY <2>1, <2>2
<1>. QED
  BY <1>1, <1>2, Bystands

LEMMA BeginSingle ==
    ASSUME Types, OneHolder, Single, NEW p \in Procs,
           \/ pauseMarketing(p) \/ deleteReviewedCrmCopy(p) \/ deleteContact(p) \/ tombstone(p)
    PROVE  OneHolder' /\ Single'
<1>1. Fewer
  BY DEF pauseMarketing, deleteReviewedCrmCopy, deleteContact, tombstone, ledgerVars, Types,
     Data, Fewer, Runs, Running, Keys
<1>2. CASE pauseMarketing(p) \/ deleteReviewedCrmCopy(p)
  <2>1. PICK to \in {"idle", "deleting"} :
          /\ proc[p].at = "idle" /\ proc' = [proc EXCEPT ![p] = Stopping(Idle, Journeys, to)]
          /\ UNCHANGED <<shopVars, job, ledgerVars, remoteVars, faults>>
    BY <1>2 DEF pauseMarketing, deleteReviewedCrmCopy
  <2>2. Only(p) /\ Halts(Idle, Journeys, to, proc'[p])
    BY <2>1, BeginMoves
  <2>. QED
    BY <1>1, <2>2, FreeHalts, Bystands
<1>3. CASE deleteContact(p) \/ tombstone(p)
  <2>1. Only(p) /\ ~Holds(proc'[p])
    BY <1>3, EraseMoves, TombstoneMoves, FreePlaces DEF Following, Stoppers
  <2>. QED
    BY <1>1, <2>1, Bystands
<1>. QED
  BY <1>2, <1>3

LEMMA FaultSingle ==
    ASSUME Types, OneHolder, Single, NEW p \in Procs,
           \/ CallRefused(p) \/ CallUnanswered(p) \/ DbFails(p) \/ LockTimesOut(p) \/ Crash(p)
           \/ PostUnanswered(p) /\ p \in Workers
    PROVE  OneHolder' /\ Single'
<1>1. Fewer
  BY DEF CallRefused, CallUnanswered, DbFails, LockTimesOut, Crash, PostUnanswered, Unclaim,
     ledgerVars, remoteVars, Types, Data, Fewer, Runs, Running, Keys
<1>2. GivesUp(p)
  BY RefusedMoves, NoAnswerMoves, FailMoves, UnansweredMoves
<1>3. Only(p) /\ ~Holds(proc'[p])
  BY <1>2, FreePlaces DEF GivesUp, Following, Stoppers
<1>. QED
  BY <1>1, <1>3, Bystands

LEMMA LoadSingle ==
    ASSUME Types, OneHolder, Single, NEW w \in Workers, loadContact(w)
    PROVE  OneHolder' /\ Single'
<1>1. Only(w) /\ ~Holds(proc'[w])
  BY LoadMoves, FreePlaces DEF Following, Stoppers
<1>. QED
  BY <1>1, SameEffects, Bystands DEF loadContact, ledgerVars

LEMMA LockSingle ==
    ASSUME Types, OneHolder, Single, NEW w \in Workers, lockEffects(w)
    PROVE  OneHolder' /\ Single'
<1>1. /\ Only(w) /\ Fewer /\ \A q \in Procs : ~Holds(proc[q])
  <2>1. effect' = effect /\ ~EffectsLocked
    BY DEF lockEffects, ledgerVars
  <2>. QED
    BY <2>1, LockMoves, SameEffects DEF EffectsLocked, Holds
<1>2. \/ proc'[w].at = "consulting"
      \/ proc'[w].at = "claiming" /\ proc'[w].key \notin Journeys
  BY LockMoves
<1>3. Allows(proc'[w], Runs')
  BY <1>2 DEF Allows, Keyed, Stoppers
<1>4. Single'
  BY <1>1, <1>3, SingleStep
<1>5. \A q, r \in Procs : Holds(proc'[q]) /\ Holds(proc'[r]) => q = r
  BY <1>1 DEF Only
<1>. QED
  BY <1>4, <1>5 DEF OneHolder, Holds

LEMMA SearchSingle ==
    ASSUME Types, OneHolder, Single, NEW w \in Workers, searchOpportunity(w) \/ handOff(w)
    PROVE  OneHolder' /\ Single'
<1>1. Only(w) /\ Fewer /\ Holds(proc[w])
  BY SearchMoves, HandOffMoves, SameEffects
     DEF searchOpportunity, handOff, ledgerVars, Holds, Following
<1>2. \/ proc'[w].at = "finishing"
      \/ proc'[w].at = "claiming" /\ proc'[w].key \notin Journeys
  BY SearchMoves, HandOffMoves
<1>3. Allows(proc'[w], Runs')
  BY <1>2 DEF Allows, Keyed, Stoppers
<1>. QED
  BY <1>1, <1>3, SingleStep, KeptLock

(* Before a journey the others have ended, or are to be.                   *)
LEMMA OthersAre ==
    ASSUME NEW w, NEW x, x.job = proc[w].job
    PROVE  Runs \subseteq Running(Others(w)) \cup {JourneyOf(x)}
BY DEF Runs, Running, Others, JourneyOf, Entity

LEMMA HaltsAllow ==
    ASSUME NEW w, NEW x, NEW y, x.job = proc[w].job, Halts(x, Others(w), "claiming", y)
    PROVE  Allows(y, Runs)
<1>1. Runs \subseteq Running(Others(w)) \cup {JourneyOf(x)}
  BY OthersAre
<1>2. CASE Running(Others(w)) = {} /\ Reached(x, "claiming", y)
  BY <1>1, <1>2 DEF Reached, Allows, Ending, Stoppers
<1>3. CASE Running(Others(w)) # {} /\ Stops(x, Others(w), "claiming", y)
  BY <1>1, <1>3 DEF Stops, Allows, Keyed, Left, JourneyOf
<1>. QED
  BY <1>2, <1>3 DEF Halts

LEMMA DecidedAllows ==
    ASSUME NEW w, NEW x, NEW y, x.job = proc[w].job, Decided(w, x, y)
    PROVE  Allows(y, Runs)
<1>1. CASE Halts(x, Others(w), "claiming", y)
  BY <1>1, HaltsAllow
<1>2. CASE Running(Journeys) # {} /\ Stops(x, Journeys, "succeeded", y)
  BY <1>2 DEF Stops, Allows, Keyed, Left, Runs
<1>3. CASE \E to \in {"succeeded", "busy", "offering"} : Reached(x, to, y)
  BY <1>3 DEF Reached, Allows, Keyed, Stoppers, Ending
<1>. QED
  BY <1>1, <1>2, <1>3 DEF Decided, Halts

LEMMA DecideSingle ==
    ASSUME Types, OneHolder, Single, NEW w \in Workers,
           consultConsent(w) \/ decideJourney(w) \/ offerFields(w)
    PROVE  OneHolder' /\ Single'
<1>1. Only(w) /\ Fewer /\ Runs' = Runs /\ Holds(proc[w])
  <2>1. Only(w) /\ effect' = effect
    BY ConsultMoves, DecideMoves, OfferMoves
       DEF consultConsent, decideJourney, offerFields, ledgerVars
  <2>2. Holds(proc[w])
    BY DEF consultConsent, decideJourney, offerFields, Holds, Following
  <2>. QED
    BY <2>1, <2>2, SameEffects DEF Runs, Running
<1>2. Allows(proc'[w], Runs)
  <2>1. CASE consultConsent(w)
    <3>1. PICK x \in Records : /\ x.job = proc[w].job
                               /\ Stops(x, Sales, "deciding", proc'[w]) \/ Decided(w, x, proc'[w])
      BY <2>1, ConsultMoves
    <3>2. CASE Stops(x, Sales, "deciding", proc'[w])
      BY <3>2 DEF Stops, Allows, Keyed
    <3>. QED
      BY <3>1, <3>2, DecidedAllows
  <2>2. CASE decideJourney(w)
    BY <2>2, DecideMoves, DecidedAllows
  <2>3. CASE offerFields(w)
    <3>1. CASE proc'[w].at = "finishing"
      BY <3>1 DEF Allows, Keyed, Stoppers
    <3>. QED
      BY <2>3, <3>1, OfferMoves, HaltsAllow
  <2>. QED
    BY <2>1, <2>2, <2>3
<1>. QED
  BY <1>1, <1>2, SingleStep, KeptLock

LEMMA StopSingle ==
    ASSUME Types, OneHolder, Single, NEW p \in Procs, stopJourney(p)
    PROVE  OneHolder' /\ Single'
<1>1. PICK k \in Journeys : /\ k \in proc[p].todo /\ proc'[p].key = k
                            /\ proc'[p].todo = proc[p].todo \ {k}
  BY StopMoves
<1>2. /\ Only(p) /\ proc'[p].at = "cancelling" /\ proc[p].at = "stopping"
      /\ proc'[p].then = proc[p].then /\ proc'[p].job = proc[p].job
      /\ Fewer /\ Runs' = Runs
  <2>1. effect' = effect
    BY DEF stopJourney, ledgerVars
  <2>. QED
    BY <2>1, StopMoves, SameEffects DEF stopJourney, Runs, Running
<1>3. Holds(proc'[p]) => Holds(proc[p])
  BY <1>2 DEF Holds, Following, Stoppers
<1>4. Left(proc'[p]) = Left(proc[p]) /\ JourneyOf(proc'[p]) = JourneyOf(proc[p])
  BY <1>1, <1>2 DEF Left, JourneyOf
<1>5. Allows(proc[p], Runs)
  BY DEF Single, Runs
<1>6. Allows(proc'[p], Runs)
  BY <1>2, <1>4, <1>5 DEF Allows, Keyed, Stoppers
<1>. QED
  BY <1>2, <1>3, <1>6, SingleStep, KeptLock

LEMMA CancelSingle ==
    ASSUME Types, OneHolder, Single, NEW p \in Procs, cancelJourney(p)
    PROVE  OneHolder' /\ Single'
<1>1. PICK k \in Journeys : k = proc[p].key
  BY CancelMoves
<1>2. /\ Only(p) /\ proc[p].at = "cancelling" /\ proc'[p].job = proc[p].job
      /\ effect' = [effect EXCEPT ![k] = "cancelled"]
  BY <1>1, CancelMoves DEF cancelJourney
<1>3. Runs' = Runs \ {k} /\ Fewer
  BY <1>2, KeysMade, RunsNext DEF Types, Data, Fewer, Runs, Running
<1>4. Allows(proc[p], Runs) /\ Left(proc[p]) = proc[p].todo \cup {k}
  BY <1>1, <1>2 DEF Single, Runs, Left
<1>5. CASE proc[p].todo = {} /\ Reached(proc[p], proc[p].then, proc'[p])
  <2>1. proc[p].then \in Reasons
    BY FitsNow DEF Records
  <2>2. Holds(proc'[p]) => Holds(proc[p])
    BY <1>2, <1>5, <2>1 DEF Reached, Holds, Following, Stoppers, Reasons, Ending
  <2>3. CASE proc[p].then = "claiming"
    <3>1. /\ proc'[p].at = "claiming" /\ proc'[p].key = JourneyOf(proc[p])
          /\ Runs \subseteq {k, JourneyOf(proc[p])}
      BY <1>2, <1>4, <1>5, <2>3 DEF Reached, Ending, Allows, Stoppers
    <3>2. Allows(proc'[p], Runs')
      BY <1>3, <3>1 DEF Allows, Stoppers
    <3>. QED
      BY <1>2, <1>3, <2>2, <3>2, SingleStep, KeptLock
  <2>4. CASE proc[p].then # "claiming"
    <3>1. Allows(proc'[p], Runs')
      BY <1>5, <2>1, <2>4 DEF Reached, Ending, Allows, Stoppers, Keyed, Reasons
    <3>. QED
      BY <1>2, <1>3, <2>2, <3>1, SingleStep, KeptLock
  <2>. QED
    BY <2>3, <2>4
<1>6. CASE /\ proc'[p].at = "stopping" /\ proc'[p].then = proc[p].then
           /\ proc'[p].todo = proc[p].todo
  <2>1. Holds(proc'[p]) => Holds(proc[p])
    BY <1>2, <1>6 DEF Holds, Following, Stoppers
  <2>2. Left(proc'[p]) = proc[p].todo /\ JourneyOf(proc'[p]) = JourneyOf(proc[p])
    BY <1>2, <1>6 DEF Left, JourneyOf
  <2>3. Allows(proc'[p], Runs')
    BY <1>2, <1>3, <1>4, <1>6, <2>2 DEF Allows, Keyed, Stoppers
  <2>. QED
    BY <1>2, <1>3, <2>1, <2>3, SingleStep, KeptLock
<1>. QED
  BY <1>5, <1>6, CancelMoves

(* The row of a journey is made, or settled, by the one who holds the lock *)
(* after every other one has ended.                                        *)
LEMMA LedgerSingle ==
    ASSUME Types, OneHolder, Single, NEW w \in Workers,
           durableEffect(w) \/ postEffect(w) \/ recordEffect(w)
    PROVE  OneHolder' /\ Single'
<1>1. PICK k \in Keys : k = proc[w].key /\ KeyFits(proc[w])
  BY EffectMoves, PostMoves, RecordMoves DEF KeyFits
<1>2. w \in Procs /\ Only(w) /\ proc[w].at \in Keyed /\ Holds(proc[w])
  BY EffectMoves, PostMoves, RecordMoves, AfterMoves
     DEF Only, durableEffect, postEffect, recordEffect, Keyed, Holds, Following
<1>3. \/ proc'[w].at \in {"finishing", "searching", "consulting", "handing_off"}
      \/ proc'[w].at = "claiming" /\ proc'[w].key \notin Journeys
      \/ proc'[w].at \in {"posting", "recording"} /\ proc'[w].key = k
  BY <1>1, <1>2, EffectMoves, PostMoves, RecordMoves, AfterMoves DEF Same
<1>4. \A l \in Keys : l # k => effect'[l] = effect[l]
  BY <1>1 DEF durableEffect, postEffect, recordEffect, Unclaim, ledgerVars, Types, Data
<1>5. CASE k \notin Journeys
  <2>1. Fewer
    BY <1>4, <1>5, KeysMade DEF Fewer, Runs, Running
  <2>2. Allows(proc'[w], Runs')
    BY <1>3, <1>5 DEF Allows, Keyed, Stoppers
  <2>. QED
    BY <1>2, <2>1, <2>2, SingleStep, KeptLock
<1>6. CASE k \in Journeys
  <2>1. Runs \subseteq {k}
    BY <1>1, <1>2, <1>6 DEF Single, Runs, Allows
  <2>2. Runs' \subseteq {k}
    BY <1>4, <2>1, KeysMade, RunsNext DEF Runs, Running
  <2>3. \A q \in Procs : q # w => ~Holds(proc[q]) /\ proc'[q] = proc[q]
    BY <1>2 DEF OneHolder, Only
  <2>4. Allows(proc'[w], Runs')
    BY <1>3, <2>2 DEF Allows, Keyed, Stoppers
  <2>5. \A q \in Procs : Allows(proc'[q], Runs')
    BY <2>3, <2>4, IdleAllows
  <2>6. Single' = ((\A l, m \in Runs' : l = m) /\ \A q \in Procs : Allows(proc'[q], Runs'))
    BY DEF Single, Runs, Allows, Left, JourneyOf
  <2>. QED
    BY <1>2, <2>2, <2>5, <2>6, KeptLock
<1>. QED
  BY <1>5, <1>6

LEMMA NextSingle == ASSUME Types, OneHolder, Single, Next PROVE OneHolder' /\ Single'
<1>1. CASE ShopStep
  BY <1>1, ShopSingle
<1>2. CASE StaffStep
  BY <1>2, BeginSingle, RowSingle, ProcsAre DEF StaffStep
<1>3. ASSUME NEW w \in Workers, WorkerStep(w)
      PROVE  OneHolder' /\ Single'
  BY <1>3, SyncSingle, LoadSingle, LockSingle, SearchSingle, DecideSingle, LedgerSingle,
     RetireSingle
     DEF WorkerStep
<1>4. ASSUME NEW w \in Workers,
             \/ \E j \in Jobs : claimJobs(w, j)
             \/ pauseMarketing(w) \/ PostUnanswered(w) \/ DbFails(w) \/ LockTimesOut(w)
      PROVE  OneHolder' /\ Single'
  BY <1>4, SyncSingle, BeginSingle, FaultSingle, ProcsAre
<1>5. ASSUME NEW p \in Procs, \/ stopJourney(p) \/ cancelJourney(p) \/ CallRefused(p)
                              \/ CallUnanswered(p) \/ Crash(p)
      PROVE  OneHolder' /\ Single'
  BY <1>5, StopSingle, CancelSingle, FaultSingle
<1>6. ASSUME \/ \E j \in Jobs : LeaseExpires(j)
             \/ \E k \in inflight : LateCall(k)
             \/ \E c \in late : LateRepeatable(c)
      PROVE  OneHolder' /\ Single'
  BY <1>6, RowSingle
<1>. QED
  BY <1>1, <1>2, <1>3, <1>4, <1>5, <1>6 DEF Next

-----------------------------------------------------------------------------
(* What HighLevel shows is in the ledger, or is a stray.                   *)

LEMMA CoveredStep ==
    ASSUME Covered, enrolled' \subseteq enrolled,
           \A k \in Journeys : Covers(k) /\ Workflow(k) \in enrolled' => Covers(k)'
    PROVE  Covered'
BY DEF Covered

LEMMA NoneCovered == ASSUME enrolled' = {} PROVE Covered'
BY DEF Covered

(* A step that leaves what HighLevel shows, and the rows of what was       *)
(* carried out.                                                            *)
Spares == /\ UNCHANGED <<enrolled, stray, accepted>>
          /\ \A k \in Journeys : accepted[k] > 0 /\ k \in Runs
                                 => effect'[k] \in {"pending", "succeeded"}
          /\ \A k \in Journeys : Cancelling(k)' => Cancelling(k)

LEMMA SparesCovered == ASSUME Covered, Spares PROVE Covered'
<1>1. ASSUME NEW k \in Journeys, Covers(k)
      PROVE  Covers(k)'
  BY <1>1, RunsNext DEF Covers, Spares, Runs
<1>. QED
  BY <1>1, CoveredStep DEF Spares

LEMMA NoStopper ==
    ASSUME NEW p, Only(p), proc'[p].at # "cancelling"
    PROVE  \A k : Cancelling(k)' => Cancelling(k)
BY DEF Only, Cancelling

LEMMA SameRuns ==
    ASSUME \A k \in Journeys : effect'[k] = effect[k]
    PROVE  \A k \in Journeys : k \in Runs => effect'[k] \in {"pending", "succeeded"}
BY DEF Runs, Running

LEMMA ShopCovered == ASSUME Types, Covered, ShopStep PROVE Covered'
<1>1. UNCHANGED <<effect, proc, enrolled, stray, accepted>>
  BY DEF ShopStep, Submit, Redact, highlevel_capture_offer, Changes, OrderMoves, Chooses,
     SwitchMarketing, JourneyAges, ShopOnly, ledgerVars, remoteVars
<1>. QED
  BY <1>1, SameRuns, SparesCovered DEF Spares, Cancelling

LEMMA RowCovered ==
    ASSUME Types, Covered,
           \/ \E j \in Jobs : replayHighLevelJob(j) \/ LeaseExpires(j)
           \/ \E k \in Keys : resolveHighLevelEffect(k)
    PROVE  Covered'
<1>1. UNCHANGED <<proc, enrolled, stray, accepted>>
  BY DEF replayHighLevelJob, LeaseExpires, resolveHighLevelEffect, ledgerVars, remoteVars
<1>2. \A k \in Journeys : accepted[k] > 0 /\ k \in Runs => effect'[k] \in {"pending", "succeeded"}
  BY KeysMade DEF replayHighLevelJob, LeaseExpires, resolveHighLevelEffect, ledgerVars, Runs,
     Running, Types, Data
<1>. QED
  BY <1>1, <1>2, SparesCovered DEF Spares, Cancelling

LEMMA SyncCovered ==
    ASSUME Types, Covered, NEW w \in Workers,
           \/ getContact(w) \/ insertContact(w) \/ selectContact(w) \/ findContact(w)
           \/ upsert(w) \/ readContact(w) \/ putContact(w) \/ commitSync(w)
           \/ finishJob(w) \/ (\E j \in Jobs : claimJobs(w, j))
    PROVE  Covered'
<1>1. UNCHANGED <<effect, enrolled, stray, accepted>>
  BY DEF getContact, insertContact, selectContact, findContact, upsert, readContact, putContact,
     commitSync, finishJob, claimJobs, UpsertContact, PutContact, ledgerVars, remoteVars
<1>2. Only(w) /\ proc'[w].at # "cancelling"
  BY GetMoves, FindMoves, UpsertMoves, ReadMoves, PutMoves, CommitMoves, FinishMoves, ClaimMoves
<1>. QED
  BY <1>1, <1>2, NoStopper, SameRuns, SparesCovered DEF Spares

LEMMA FollowCovered ==
    ASSUME Types, Covered, NEW w \in Workers,
           \/ loadContact(w) \/ lockEffects(w) \/ searchOpportunity(w) \/ consultConsent(w)
           \/ decideJourney(w) \/ offerFields(w) \/ handOff(w)
    PROVE  Covered'
<1>1. UNCHANGED <<effect, enrolled, stray, accepted>>
  BY DEF loadContact, lockEffects, searchOpportunity, consultConsent, decideJourney, offerFields,
     handOff, ledgerVars, remoteVars
<1>2. Only(w) /\ proc'[w].at # "cancelling"
  BY LoadMoves, LockMoves, SearchMoves, HandOffMoves, ConsultMoves, DecideMoves, DecidedAt,
     OfferMoves,
     HaltsAt DEF Stops
<1>. QED
  BY <1>1, <1>2, NoStopper, SameRuns, SparesCovered DEF Spares

LEMMA RetireCovered ==
    ASSUME Types, Covered, NEW w \in Workers,
           \/ reconcileRemovedSource(w) \/ deleteNote(w) \/ cancelNote(w)
           \/ loadRetainedSource(w) \/ clearContact(w)
    PROVE  Covered'
<1>1. UNCHANGED <<enrolled, stray, accepted>>
  BY DEF reconcileRemovedSource, deleteNote, cancelNote, loadRetainedSource, clearContact,
     PutContact, remoteVars
<1>2. ASSUME NEW k \in Journeys
      PROVE  effect'[k] = effect[k]
  <2>1. k \in Keys /\ k # <<"note", Entity(w)>>
    BY KeysMade
  <2>. QED
    BY <2>1 DEF reconcileRemovedSource, deleteNote, cancelNote, loadRetainedSource,
       clearContact, ledgerVars, Types, Data
<1>3. Only(w) /\ proc'[w].at # "cancelling"
  BY RetireMoves, NoteMoves, ClearMoves, HaltsAt
<1>. QED
  BY <1>1, <1>2, <1>3, NoStopper, SameRuns, SparesCovered DEF Spares

LEMMA BeginCovered ==
    ASSUME Types, Known, Covered, NEW p \in Procs,
           \/ pauseMarketing(p) \/ deleteReviewedCrmCopy(p) \/ deleteContact(p) \/ tombstone(p)
    PROVE  Covered'
<1>1. CASE pauseMarketing(p) \/ deleteReviewedCrmCopy(p)
  <2>1. PICK to \in {"idle", "deleting"} :
          /\ proc[p].at = "idle" /\ proc' = [proc EXCEPT ![p] = Stopping(Idle, Journeys, to)]
          /\ UNCHANGED <<shopVars, job, ledgerVars, remoteVars, faults>>
    BY <1>1 DEF pauseMarketing, deleteReviewedCrmCopy
  <2>2. Only(p) /\ Halts(Idle, Journeys, to, proc'[p])
    BY <2>1, BeginMoves
  <2>3. Only(p) /\ proc'[p].at # "cancelling" /\ UNCHANGED <<effect, enrolled, stray, accepted>>
    BY <2>1, <2>2, HaltsAt DEF ledgerVars, remoteVars
  <2>. QED
    BY <2>3, NoStopper, SameRuns, SparesCovered DEF Spares
<1>2. CASE deleteContact(p) \/ tombstone(p)
  <2>1. enrolled' = {}
    BY <1>2 DEF deleteContact, tombstone, remoteVars, Known
  <2>. QED
    BY <2>1, NoneCovered
<1>. QED
  BY <1>1, <1>2

LEMMA RemovedCovered ==
    ASSUME Covered, NEW f0, RemoveFrom(f0),
           \A k \in Journeys : effect'[k] = effect[k],
           \A k \in Journeys : Cancelling(k)' => Cancelling(k) \/ Workflow(k) = f0
    PROVE  Covered'
<1>1. ASSUME NEW k \in Journeys, Covers(k), Workflow(k) # f0
      PROVE  Covers(k)'
  <2>1. k \in stray => k \in stray'
    BY <1>1 DEF RemoveFrom
  <2>2. k \in Runs => k \in Runs'
    BY RunsNext DEF Runs, Running
  <2>. QED
    BY <1>1, <2>1, <2>2 DEF Covers, Runs, RemoveFrom
<1>2. enrolled' \subseteq enrolled /\ f0 \notin enrolled'
  BY DEF RemoveFrom
<1>. QED
  BY <1>1, <1>2, CoveredStep

(* A call that may be made again makes no admission.                       *)
LEMMA ArrivedCovered ==
    ASSUME Types, Covered, NEW c \in Calls, Arrives(c),
           \A k \in Journeys : effect'[k] = effect[k],
           \A k \in Journeys : Cancelling(k)' => Cancelling(k)
    PROVE  Covered'
<1>1. CASE UNCHANGED <<enrolled, stray>>
  BY <1>1, ArrivesIs, SameRuns, SparesCovered DEF Spares
<1>2. CASE RemoveFrom(c[1])
  BY <1>2, RemovedCovered
<1>. QED
  BY <1>1, <1>2, ArrivesIs

LEMMA StopCovered ==
    ASSUME Types, Covered, NEW p \in Procs, stopJourney(p) \/ cancelJourney(p)
    PROVE  Covered'
<1>1. CASE stopJourney(p)
  <2>1. PICK k0 \in Journeys : RemoveFrom(Workflow(k0)) /\ proc'[p].key = k0
    BY <1>1, StopMoves
  <2>2. effect' = effect
    BY <1>1 DEF stopJourney, ledgerVars
  <2>3. ASSUME NEW k \in Journeys, Cancelling(k)'
        PROVE  Cancelling(k) \/ k = k0
    BY <1>1, <2>1, <2>3, StopMoves DEF Cancelling, Only
  <2>. QED
    BY <2>1, <2>2, <2>3, RemovedCovered
<1>2. CASE cancelJourney(p)
  <2>1. PICK k0 \in Journeys : k0 = proc[p].key
    BY <1>2, CancelMoves
  <2>2. /\ Cancelling(k0) /\ Only(p) /\ UNCHANGED <<enrolled, stray, accepted>>
        /\ effect' = [effect EXCEPT ![k0] = "cancelled"]
    BY <1>2, <2>1, CancelMoves DEF cancelJourney, Cancelling, remoteVars
  <2>3. proc[p].then \in Reasons
    BY FitsNow DEF Records
  <2>4. proc'[p].at # "cancelling"
    BY <1>2, <2>3, CancelMoves DEF Reached, Reasons
  <2>5. ASSUME NEW k \in Journeys, Covers(k)
        PROVE  Covers(k)'
    <3>1. k \in stray \/ k # k0
      BY <2>2, <2>5 DEF Covers
    <3>2. k # k0 => effect'[k] = effect[k]
      BY <2>2 DEF Types, Data
    <3>3. Cancelling(k)' => Cancelling(k)
      BY <2>2, <2>4, NoStopper
    <3>. QED
      BY <2>2, <2>5, <3>1, <3>2, <3>3, RunsNext DEF Covers, Runs, Running
  <2>. QED
    BY <2>2, <2>5, CoveredStep
<1>. QED
  BY <1>1, <1>2

(* HighLevel carries out a call whose row is there.                        *)
LEMMA PerformedCovered ==
    ASSUME Types, Known, Covered, NEW k0 \in Keys, effect[k0] # "none", Performs(k0),
           remote = "live" => \A k \in Journeys : effect'[k] = effect[k],
           \A k \in Journeys : Cancelling(k)' => Cancelling(k)
    PROVE  Covered'
<1>1. CASE remote # "live"
  <2>1. enrolled' = {}
    BY <1>1 DEF Performs, Known
  <2>. QED
    BY <2>1, NoneCovered
<1>2. CASE remote = "live"
  <2>1. /\ accepted' = [accepted EXCEPT ![k0] = accepted[k0] + 1]
        /\ enrolled' = IF k0 \in Journeys THEN enrolled \cup {Workflow(k0)} ELSE enrolled
        /\ stray' = IF k0 \in Journeys /\ Ended(k0) THEN stray \cup {k0} ELSE stray
    BY <1>2 DEF Performs
  <2>2. \A k \in Keys : accepted'[k] >= accepted[k] /\ accepted'[k0] > 0
    BY <2>1 DEF Types, Data
  <2>3. ASSUME NEW k \in Journeys, Covers(k)
        PROVE  Covers(k)'
    <3>1. k \in Keys /\ accepted[k] \in Nat /\ accepted'[k] \in Int
      BY <2>1, KeysMade DEF Types, Data
    <3>2. k \in Runs => k \in Runs'
      BY <1>2, RunsNext DEF Runs, Running
    <3>. QED
      BY <2>1, <2>2, <2>3, <3>1, <3>2 DEF Covers, Runs
  <2>4. ASSUME k0 \in Journeys
        PROVE  Covers(k0)'
    <3>1. CASE Ended(k0)
      BY <2>1, <2>2, <2>4, <3>1 DEF Covers
    <3>2. CASE ~Ended(k0)
      <4>1. effect[k0] \in {"pending", "succeeded"} /\ ~Cancelling(k0)
        BY <3>2 DEF Ended, Cancelling, Types, Data
      <4>2. k0 \in Runs'
        BY <1>2, <2>4, <4>1, RunsNext
      <4>. QED
        BY <2>2, <2>4, <4>1, <4>2 DEF Covers, Runs
    <3>. QED
      BY <3>1, <3>2
  <2>5. ASSUME NEW f \in enrolled'
        PROVE  \E k \in Journeys : Workflow(k) = f /\ Covers(k)'
    <3>1. f \in enrolled \/ (k0 \in Journeys /\ f = Workflow(k0))
      BY <2>1, <2>5
    <3>. QED
      BY <2>3, <2>4, <3>1 DEF Covered
  <2>. QED
    BY <2>5 DEF Covered
<1>. QED
  BY <1>1, <1>2

LEMMA LedgerCovered ==
    ASSUME Types, Once, Known, Covered, NEW w \in Workers,
           durableEffect(w) \/ postEffect(w) \/ recordEffect(w)
    PROVE  Covered'
<1>1. PICK k0 \in Keys : k0 = proc[w].key
  BY EffectMoves, PostMoves, RecordMoves DEF KeyFits
<1>2. w \in Procs /\ Only(w) /\ proc'[w].at # "cancelling" /\ proc[w].at \in Keyed
  BY EffectMoves, PostMoves, RecordMoves, AfterMoves
     DEF Only, durableEffect, postEffect, recordEffect, Keyed
<1>3. \A k : Cancelling(k)' => Cancelling(k)
  BY <1>2, NoStopper
<1>4. CASE durableEffect(w) \/ recordEffect(w)
  <2>1. UNCHANGED <<enrolled, stray, accepted>>
    BY <1>4 DEF durableEffect, recordEffect, remoteVars
  <2>2. \A k \in Journeys : k \in Runs => effect'[k] \in {"pending", "succeeded"}
    BY <1>4, KeysMade DEF durableEffect, recordEffect, Runs, Running, Types, Data
  <2>. QED
    BY <1>3, <2>1, <2>2, SparesCovered DEF Spares
<1>5. CASE postEffect(w)
  <2>1. effect[k0] # "none"
    BY <1>1, <1>2, <1>5 DEF postEffect, Once, OnceFor, Posting
  <2>2. Performs(k0) /\ (remote = "live" => effect' = effect)
    BY <1>1, <1>5 DEF postEffect
  <2>. QED
    BY <1>3, <2>1, <2>2, PerformedCovered
<1>. QED
  BY <1>4, <1>5

LEMMA LateAgainCovered ==
    ASSUME Types, Covered, NEW c \in late, LateRepeatable(c)
    PROVE  Covered'
BY LateAgain, ArrivedCovered DEF LateRepeatable, ledgerVars, Cancelling

LEMMA LateCovered ==
    ASSUME Types, Once, Known, Covered, NEW k0 \in inflight, LateCall(k0)
    PROVE  Covered'
<1>1. k0 \in Keys
  BY LateTypes
<1>2. effect[k0] # "none"
  BY <1>1 DEF Once, OnceFor
<1>3. Performs(k0) /\ UNCHANGED <<effect, proc>>
  BY DEF LateCall, ledgerVars
<1>. QED
  BY <1>1, <1>2, <1>3, PerformedCovered DEF Cancelling

LEMMA FaultCovered ==
    ASSUME Types, Once, Known, Covered, NEW p \in Procs,
           \/ CallRefused(p) \/ CallUnanswered(p) \/ DbFails(p) \/ LockTimesOut(p) \/ Crash(p)
           \/ PostUnanswered(p) /\ p \in Workers
    PROVE  Covered'
<1>1. GivesUp(p)
  BY RefusedMoves, NoAnswerMoves, FailMoves, UnansweredMoves
<1>2. \A k : Cancelling(k)' => Cancelling(k)
  BY <1>1, NoStopper DEF GivesUp
<1>3. CASE CallRefused(p)
  <2>1. UNCHANGED <<enrolled, stray, accepted>>
    BY <1>3 DEF CallRefused, remoteVars
  <2>2. ASSUME NEW k \in Journeys, accepted[k] > 0, k \in Runs
        PROVE  effect'[k] \in {"pending", "succeeded"}
    <3>1. CASE proc[p].at = "posting"
      <4>1. k \in Keys
        BY KeysMade
      <4>2. k # proc[p].key
        BY <2>2, <3>1, <4>1 DEF Once, OnceFor, Posting
      <4>. QED
        BY <1>3, <2>2, <3>1, <4>1, <4>2 DEF CallRefused, Unclaim, Runs, Running, Types, Data
    <3>2. CASE proc[p].at # "posting"
      BY <1>3, <2>2, <3>2 DEF CallRefused, Runs, Running
    <3>. QED
      BY <3>1, <3>2
  <2>. QED
    BY <1>2, <2>1, <2>2, SparesCovered DEF Spares
<1>4. CASE \/ DbFails(p) \/ LockTimesOut(p) \/ Crash(p)
           \/ PostUnanswered(p) /\ UNCHANGED <<enrolled, stray, accepted>>
  <2>1. UNCHANGED <<effect, enrolled, stray, accepted>>
    BY <1>4 DEF DbFails, LockTimesOut, Crash, PostUnanswered, ledgerVars, remoteVars
  <2>. QED
    BY <1>2, <2>1, SameRuns, SparesCovered DEF Spares
<1>5. CASE CallUnanswered(p)
  <2>1. effect' = effect
    BY <1>5 DEF CallUnanswered, ledgerVars
  <2>2. \/ \E c \in Calls : Arrives(c)
        \/ UNCHANGED <<enrolled, stray, accepted>>
    BY <1>5, NoAnswerMoves
  <2>. QED
    BY <1>2, <2>1, <2>2, ArrivedCovered, SameRuns, SparesCovered DEF Spares
<1>6. CASE PostUnanswered(p) /\ p \in Workers /\ ~UNCHANGED <<enrolled, stray, accepted>>
  <2>1. PICK k0 \in Keys : k0 = proc[p].key
    BY <1>6, UnansweredMoves DEF KeyFits
  <2>2. Performs(k0) /\ effect' = effect
    BY <1>6, <2>1 DEF PostUnanswered, ledgerVars, remoteVars
  <2>3. effect[k0] # "none"
    BY <1>6, <2>1 DEF PostUnanswered, Once, OnceFor, Posting
  <2>. QED
    BY <1>2, <2>2, <2>3, PerformedCovered
<1>. QED
  BY <1>3, <1>4, <1>5, <1>6

LEMMA NextCovered == ASSUME Types, Once, Known, Covered, Next PROVE Covered'
<1>1. CASE ShopStep
  BY <1>1, ShopCovered
<1>2. CASE StaffStep
  BY <1>2, BeginCovered, RowCovered, ProcsAre DEF StaffStep
<1>3. ASSUME NEW w \in Workers, WorkerStep(w)
      PROVE  Covered'
  BY <1>3, SyncCovered, FollowCovered, LedgerCovered, RetireCovered DEF WorkerStep
<1>4. ASSUME NEW w \in Workers,
             \/ \E j \in Jobs : claimJobs(w, j)
             \/ pauseMarketing(w) \/ PostUnanswered(w) \/ DbFails(w) \/ LockTimesOut(w)
      PROVE  Covered'
  BY <1>4, SyncCovered, BeginCovered, FaultCovered, ProcsAre
<1>5. ASSUME NEW p \in Procs, \/ stopJourney(p) \/ cancelJourney(p) \/ CallRefused(p)
                              \/ CallUnanswered(p) \/ Crash(p)
      PROVE  Covered'
  BY <1>5, StopCovered, FaultCovered
<1>6. ASSUME \/ \E j \in Jobs : LeaseExpires(j)
             \/ \E k \in inflight : LateCall(k)
             \/ \E c \in late : LateRepeatable(c)
      PROVE  Covered'
  BY <1>6, RowCovered, LateCovered, LateAgainCovered
<1>. QED
  BY <1>1, <1>2, <1>3, <1>4, <1>5, <1>6 DEF Next

-----------------------------------------------------------------------------
(* The jobs.  What queues a job moves its source on, and nothing moves a   *)
(* source back.                                                            *)

Onward == \A j \in Jobs : source'[j[1]] \in Before(j[2]) => source[j[1]] \in Before(j[2])
SameJobs == \A p \in Procs : proc'[p].job \in {proc[p].job, None}

LEMMA MovesOn ==
    ASSUME Types, NEW e \in Entities, NEW s \in Sources, source' = [source EXCEPT ![e] = s],
           \A j \in Jobs : j[1] = e /\ s \in Before(j[2]) => source[e] \in Before(j[2])
    PROVE  Onward /\ source'[e] = s
<1>1. source \in [Entities -> Sources] /\ \A j \in Jobs : j[1] \in Entities
  BY JobParts DEF Types, Data
<1>. QED
  BY <1>1 DEF Onward

Queued(j) == Queue(j) /\ source[j[1]] \in Before(j[2]) /\ source'[j[1]] \notin Before(j[2])

LEMMA ChooseQueues ==
    ASSUME Types, NEW c \in Choices, NEW choice, Chooses(c, choice)
    PROVE  Onward /\ \E j \in Jobs : Queued(j)
<1>1. c \in Entities /\ source'[c] = "live" /\ source[c] = "none"
  BY DEF Chooses, Entities
<1>2. \A e \in Entities : e # c => source'[e] \in {source[e], "revoked"}
  BY DEF Chooses
<1>3. \A e \in Entities : e # c /\ source'[e] = "revoked" => e \in Offers \/ source[e] = "revoked"
  BY DEF Chooses
<1>4. PICK j0 \in Jobs : j0 = <<c, "chosen">>
  BY JobsMade
<1>5. ASSUME NEW j \in Jobs, source'[j[1]] \in Before(j[2])
      PROVE  source[j[1]] \in Before(j[2])
  <2>1. /\ j[1] \in Entities /\ (j[1] = c => j[2] = "chosen")
        /\ j[2] \in {"submitted", "removed", "offered", "paid", "dispatched", "refunded", "chosen"}
    BY JobParts DEF Jobs
  <2>2. CASE j[1] = c
    BY <1>1, <1>5, <2>1, <2>2 DEF Before
  <2>3. CASE j[1] # c
    <3>1. source'[j[1]] # "revoked"
      BY <1>5, <2>1 DEF Before
    <3>. QED
      BY <1>2, <1>5, <2>1, <2>3, <3>1
  <2>. QED
    BY <2>2, <2>3
<1>6. Queued(j0)
  BY <1>1, <1>4 DEF Queued, Chooses, Before
<1>. QED
  BY <1>5, <1>6 DEF Onward

LEMMA ShopQueues ==
    ASSUME Types, ShopStep
    PROVE  /\ UNCHANGED <<proc, faults>> /\ Onward
           /\ UNCHANGED job \/ \E j \in Jobs : Queued(j)
<1>1. UNCHANGED <<proc, faults>>
  BY DEF ShopStep, Submit, Redact, highlevel_capture_offer, Changes, OrderMoves, Chooses,
     SwitchMarketing, JourneyAges, ShopOnly
<1>2. ASSUME NEW e \in Entities, NEW s \in Sources, NEW j0 \in Jobs, j0[1] = e,
             source' = [source EXCEPT ![e] = s], Queue(j0),
             source[e] \in Before(j0[2]), s \notin Before(j0[2]),
             \A j \in Jobs : j[1] = e /\ s \in Before(j[2]) => source[e] \in Before(j[2])
      PROVE  Onward /\ Queued(j0)
  BY <1>2, MovesOn DEF Queued
<1>3. ASSUME NEW i \in Inquiries, Submit(i)
      PROVE  Onward /\ \E j \in Jobs : Queued(j)
  <2>1. PICK j0 \in Jobs : j0 = <<i, "submitted">>
    BY JobsMade
  <2>2. \A j \in Jobs : j[1] = i => j[2] \in {"submitted", "removed"}
    BY JobParts
  <2>3. source[i] = "none" /\ source' = [source EXCEPT ![i] = "live"] /\ Queue(j0)
    BY <1>3, <2>1 DEF Submit
  <2>4. i \in Entities /\ "live" \in Sources
    BY DEF Entities, Sources
  <2>5. j0[1] = i /\ source[i] \in Before(j0[2]) /\ "live" \notin Before(j0[2])
    BY <2>1, <2>3 DEF Before
  <2>6. \A j \in Jobs : j[1] = i /\ "live" \in Before(j[2]) => source[i] \in Before(j[2])
    BY <2>2, <2>3 DEF Before
  <2>. QED
    BY <1>2, <2>3, <2>4, <2>5, <2>6
<1>4. ASSUME NEW i \in Inquiries, Redact(i)
      PROVE  Onward /\ \E j \in Jobs : Queued(j)
  <2>1. PICK j0 \in Jobs : j0 = <<i, "removed">>
    BY JobsMade
  <2>2. \A j \in Jobs : j[1] = i => j[2] \in {"submitted", "removed"}
    BY JobParts
  <2>3. source[i] = "live" /\ source' = [source EXCEPT ![i] = "removed"] /\ Queue(j0)
    BY <1>4, <2>1 DEF Redact
  <2>4. i \in Entities /\ "removed" \in Sources
    BY DEF Entities, Sources
  <2>5. j0[1] = i /\ source[i] \in Before(j0[2]) /\ "removed" \notin Before(j0[2])
    BY <2>1, <2>3 DEF Before
  <2>6. \A j \in Jobs : j[1] = i /\ "removed" \in Before(j[2]) => source[i] \in Before(j[2])
    BY <2>2, <2>3 DEF Before
  <2>. QED
    BY <1>2, <2>3, <2>4, <2>5, <2>6
<1>5. ASSUME NEW d \in Offers, highlevel_capture_offer(d)
      PROVE  Onward /\ \E j \in Jobs : Queued(j)
  <2>1. PICK j0 \in Jobs : j0 = <<d, "offered">>
    BY JobsMade
  <2>2. \A j \in Jobs : j[1] = d => j[2] = "offered"
    BY JobParts
  <2>3. source[d] = "none" /\ source' = [source EXCEPT ![d] = "live"] /\ Queue(j0)
    BY <1>5, <2>1 DEF highlevel_capture_offer
  <2>4. d \in Entities /\ "live" \in Sources
    BY DEF Entities, Sources
  <2>5. j0[1] = d /\ source[d] \in Before(j0[2]) /\ "live" \notin Before(j0[2])
    BY <2>1, <2>3 DEF Before
  <2>6. \A j \in Jobs : j[1] = d /\ "live" \in Before(j[2]) => source[d] \in Before(j[2])
    BY <2>2, <2>3 DEF Before
  <2>. QED
    BY <1>2, <2>3, <2>4, <2>5, <2>6
<1>6. ASSUME NEW o \in Orders, Changes(o)
      PROVE  Onward /\ \E j \in Jobs : Queued(j)
  <2>1. PICK s \in {"paid", "dispatched", "refunded"} :
          /\ source[o] \in Before(s) /\ (s # "paid" => source[o] # "none")
          /\ source' = [source EXCEPT ![o] = s] /\ Queue(<<o, s>>)
    BY <1>6 DEF Changes, OrderMoves, Before
  <2>2. PICK j0 \in Jobs : j0 = <<o, s>>
    BY JobsMade
  <2>3. \A j \in Jobs : j[1] = o => j[2] \in {"paid", "dispatched", "refunded"}
    BY JobParts
  <2>4. o \in Entities /\ s \in Sources /\ s \notin Before(s)
    BY DEF Entities, Sources, Before
  <2>5. \A kind \in {"paid", "dispatched", "refunded"} :
          s \in Before(kind) => source[o] \in Before(kind)
    BY <2>1 DEF Before
  <2>6. j0[1] = o /\ j0[2] = s /\ Queue(j0)
    BY <2>1, <2>2
  <2>7. \A j \in Jobs : j[1] = o /\ s \in Before(j[2]) => source[o] \in Before(j[2])
    BY <2>3, <2>5
  <2>. QED
    BY <1>2, <2>1, <2>4, <2>6, <2>7
<1>7. CASE SwitchMarketing \/ \E k \in Journeys : JourneyAges(k)
  BY <1>1, <1>7 DEF SwitchMarketing, JourneyAges, shopVars, Onward
<1>. QED
  BY <1>1, <1>3, <1>4, <1>5, <1>6, <1>7, ChooseQueues DEF ShopStep

LEMMA OthersOnward == ASSUME Types, Next PROVE Onward
<1>1. CASE ShopStep
  BY <1>1, ShopQueues
<1>2. ASSUME NEW w \in Workers, handOff(w)
      PROVE  Onward
  <2>1. Entity(w) \in Offers /\ Entity(w) \in Entities
    BY <1>2, HandOffMoves DEF Entity, Entities
  <2>2. \A j \in Jobs : j[1] = Entity(w) => j[2] = "offered"
    BY <2>1, JobParts
  <2>3. PICK s \in Sources : s = IF source[Entity(w)] = "live" THEN "sent" ELSE source[Entity(w)]
    BY <2>1 DEF Types, Data, Sources
  <2>4. source' = [source EXCEPT ![Entity(w)] = s]
    BY <1>2, <2>3 DEF handOff
  <2>5. "sent" \notin Before("offered")
    BY DEF Before
  <2>6. \A j \in Jobs : j[1] = Entity(w) /\ s \in Before(j[2]) => source[Entity(w)] \in Before(j[2])
    BY <2>2, <2>3, <2>5
  <2>. QED
    BY <2>1, <2>4, <2>6, MovesOn
<1>3. ASSUME NEW p \in Staff, tombstone(p)
      PROVE  Onward
  <2>1. ASSUME NEW j \in Jobs
        PROVE  source'[j[1]] = source[j[1]] \/ (source'[j[1]] = "removed" /\ j[2] = "chosen")
    BY <1>3, JobParts DEF tombstone
  <2>. QED
    BY <2>1 DEF Onward, Before
<1>4. CASE UNCHANGED source
  BY <1>4 DEF Onward
<1>5. \/ ShopStep \/ UNCHANGED source
      \/ \E w \in Workers : handOff(w)
      \/ \E p \in Staff : tombstone(p)
  <2>1. CASE StaffStep
    BY <2>1 DEF StaffStep, deleteReviewedCrmCopy, deleteContact, replayHighLevelJob,
       resolveHighLevelEffect, shopVars
  <2>2. ASSUME NEW w \in Workers, WorkerStep(w)
        PROVE  UNCHANGED source \/ handOff(w)
    BY <2>2 DEF WorkerStep, finishJob, getContact, insertContact, selectContact, findContact,
       upsert, readContact, putContact, commitSync, loadContact, lockEffects, durableEffect,
       postEffect, recordEffect, searchOpportunity, consultConsent,
       decideJourney, offerFields, reconcileRemovedSource, deleteNote, cancelNote,
       loadRetainedSource, clearContact, shopVars
  <2>. QED
    BY <2>1, <2>2 DEF Next, claimJobs, pauseMarketing, PostUnanswered, DbFails, LockTimesOut,
       stopJourney, cancelJourney, CallRefused, CallUnanswered, Crash, LeaseExpires, LateCall,
       LateRepeatable, shopVars
<1>. QED
  BY <1>1, <1>2, <1>3, <1>4, <1>5

(* Who takes a job, and who lets go of one.                                *)
KeptJobs == \A p \in Procs : proc'[p].job = proc[p].job

LEMMA OneKeeps ==
    ASSUME NEW p, Only(p), proc'[p].job = proc[p].job
    PROVE  KeptJobs
BY DEF KeptJobs, Only

LEMMA GivenUp == ASSUME NEW p, GivesUp(p) PROVE SameJobs
BY DEF GivesUp, SameJobs, Only

LEMMA WorkerKeeps ==
    ASSUME Types, NEW w \in Workers, WorkerStep(w)
    PROVE  KeptJobs \/ finishJob(w)
<1>1. CASE \/ getContact(w) \/ insertContact(w) \/ selectContact(w) \/ findContact(w)
           \/ upsert(w) \/ readContact(w) \/ putContact(w) \/ commitSync(w)
  BY <1>1, GetMoves, FindMoves, UpsertMoves, ReadMoves, PutMoves, CommitMoves, OneKeeps DEF Same
<1>2. CASE \/ loadContact(w) \/ lockEffects(w) \/ searchOpportunity(w) \/ consultConsent(w)
           \/ decideJourney(w) \/ offerFields(w) \/ handOff(w)
  BY <1>2, LoadMoves, LockMoves, SearchMoves, ConsultMoves, DecideMoves, OfferMoves, HandOffMoves,
     OneKeeps
<1>3. CASE durableEffect(w) \/ postEffect(w) \/ recordEffect(w)
  BY <1>3, EffectMoves, PostMoves, RecordMoves, AfterMoves, OneKeeps
<1>4. CASE \/ reconcileRemovedSource(w) \/ deleteNote(w) \/ cancelNote(w)
           \/ loadRetainedSource(w) \/ clearContact(w)
  BY <1>4, RetireMoves, NoteMoves, ClearMoves, OneKeeps
<1>. QED
  BY <1>1, <1>2, <1>3, <1>4 DEF WorkerStep

LEMMA BeginKeeps ==
    ASSUME Types, NEW p \in Procs,
           \/ pauseMarketing(p) \/ deleteReviewedCrmCopy(p) \/ deleteContact(p) \/ tombstone(p)
    PROVE  KeptJobs
<1>1. CASE pauseMarketing(p) \/ deleteReviewedCrmCopy(p)
  <2>1. PICK to \in {"idle", "deleting"} :
          /\ proc[p].at = "idle" /\ proc' = [proc EXCEPT ![p] = Stopping(Idle, Journeys, to)]
          /\ UNCHANGED <<shopVars, job, ledgerVars, remoteVars, faults>>
    BY <1>1 DEF pauseMarketing, deleteReviewedCrmCopy
  <2>. QED
    BY <2>1, BeginMoves, OneKeeps
<1>2. CASE deleteContact(p) \/ tombstone(p)
  BY <1>2, EraseMoves, TombstoneMoves, OneKeeps
<1>. QED
  BY <1>1, <1>2

LEMMA FaultDrops ==
    ASSUME Types, NEW p \in Procs,
           \/ CallRefused(p) \/ CallUnanswered(p) \/ DbFails(p) \/ LockTimesOut(p) \/ Crash(p)
           \/ PostUnanswered(p) /\ p \in Workers
    PROVE  KeptJobs \/ (Fault /\ SameJobs)
<1>1. CASE LockTimesOut(p)
  <2>1. proc[p].job \in Jobs
    BY <1>1, FitsNow DEF LockTimesOut, Fits, Unemployed, Stoppers
  <2>2. "retry" \in Verdicts /\ Ends(p, "retry")
    BY <1>1 DEF Verdicts, LockTimesOut
  <2>. QED
    BY <2>1, <2>2, EndsIs, OneKeeps
<1>2. CASE ~LockTimesOut(p)
  BY <1>2, RefusedMoves, NoAnswerMoves, FailMoves, UnansweredMoves, GivenUp
     DEF CallRefused, CallUnanswered, DbFails, Crash, PostUnanswered
<1>. QED
  BY <1>1, <1>2

LEMMA NextJobs ==
    ASSUME Types, Next
    PROVE  \/ KeptJobs \/ (Fault /\ SameJobs)
           \/ \E w \in Workers : finishJob(w) \/ \E j \in Jobs : claimJobs(w, j)
<1>1. CASE ShopStep
  BY <1>1, ShopQueues DEF KeptJobs
<1>2. CASE StaffStep
  <2>1. ASSUME NEW j \in Jobs, replayHighLevelJob(j)
        PROVE  KeptJobs
    BY <2>1 DEF replayHighLevelJob, KeptJobs
  <2>2. ASSUME NEW k \in Keys, resolveHighLevelEffect(k)
        PROVE  KeptJobs
    BY <2>2 DEF resolveHighLevelEffect, KeptJobs
  <2>. QED
    BY <1>2, <2>1, <2>2, BeginKeeps, ProcsAre DEF StaffStep
<1>3. ASSUME NEW w \in Workers,
             WorkerStep(w) \/ pauseMarketing(w) \/ PostUnanswered(w) \/ DbFails(w)
             \/ LockTimesOut(w)
      PROVE  KeptJobs \/ (Fault /\ SameJobs) \/ finishJob(w)
  BY <1>3, WorkerKeeps, BeginKeeps, FaultDrops, ProcsAre
<1>4. ASSUME NEW p \in Procs, \/ stopJourney(p) \/ cancelJourney(p) \/ CallRefused(p)
                              \/ CallUnanswered(p) \/ Crash(p)
      PROVE  KeptJobs \/ (Fault /\ SameJobs)
  BY <1>4, StopMoves, CancelMoves, OneKeeps, FaultDrops
<1>5. CASE \/ \E j \in Jobs : LeaseExpires(j)
           \/ \E k \in inflight : LateCall(k)
           \/ \E c \in late : LateRepeatable(c)
  BY <1>5 DEF LeaseExpires, LateCall, LateRepeatable, KeptJobs
<1>. QED
  BY <1>1, <1>2, <1>3, <1>4, <1>5 DEF Next

(* The steps that write the table of the jobs.                             *)
LEMMA NextRows ==
    ASSUME Types, Next
    PROVE  \/ UNCHANGED job /\ (KeptJobs \/ (Fault /\ SameJobs))
                            /\ (UNCHANGED faults \/ Fault)
           \/ ShopStep
           \/ \E w \in Workers : finishJob(w) \/ \E j \in Jobs : claimJobs(w, j)
           \/ \E j \in Jobs : replayHighLevelJob(j) \/ LeaseExpires(j)
<1>1. \/ UNCHANGED job /\ (UNCHANGED faults \/ Fault)
      \/ ShopStep
      \/ \E w \in Workers : finishJob(w) \/ \E j \in Jobs : claimJobs(w, j)
      \/ \E j \in Jobs : replayHighLevelJob(j) \/ LeaseExpires(j)
  <2>1. CASE StaffStep
    BY <2>1 DEF StaffStep, deleteReviewedCrmCopy, deleteContact, tombstone, resolveHighLevelEffect
  <2>2. ASSUME NEW w \in Workers, WorkerStep(w)
        PROVE  UNCHANGED <<job, faults>> \/ finishJob(w)
    BY <2>2 DEF WorkerStep, getContact, insertContact, selectContact, findContact, upsert,
       readContact, putContact, commitSync, loadContact, lockEffects, durableEffect,
       postEffect, recordEffect, searchOpportunity, consultConsent,
       decideJourney, offerFields, handOff, reconcileRemovedSource, deleteNote, cancelNote,
       loadRetainedSource, clearContact
  <2>. QED
    BY <2>1, <2>2 DEF Next, pauseMarketing, PostUnanswered, DbFails, LockTimesOut,
       stopJourney, cancelJourney, CallRefused, CallUnanswered, Crash, LateCall,
       LateRepeatable
<1>. QED
  BY <1>1, NextJobs

(* A job has no row, and nobody runs it, before the change that queues it. *)
LEMMA FreshStep ==
    ASSUME Fresh, Onward, KeptJobs \/ SameJobs,
           \A j \in Jobs : job[j] = NoJob => job'[j] = NoJob
    PROVE  Fresh'
BY NoneIsNoJob DEF Fresh, Onward, KeptJobs, SameJobs

LEMMA NextFresh == ASSUME Types, Fresh, Next PROVE Fresh'
<1>1. Onward
  BY OthersOnward
<1>2. CASE UNCHANGED job /\ (KeptJobs \/ (Fault /\ SameJobs))
  BY <1>1, <1>2, FreshStep
<1>3. CASE ShopStep
  <2>1. KeptJobs
    BY <1>3, ShopQueues DEF KeptJobs
  <2>2. CASE UNCHANGED job
    BY <1>1, <2>1, <2>2, FreshStep
  <2>3. ASSUME NEW j0 \in Jobs, Queued(j0)
        PROVE  Fresh'
    <3>1. \A j \in Jobs : j # j0 => job'[j] = job[j]
      BY <2>3 DEF Queued, Queue, Types, Data
    <3>2. source'[j0[1]] \notin Before(j0[2])
      BY <2>3 DEF Queued
    <3>. QED
      BY <1>1, <2>1, <3>1, <3>2 DEF Fresh, Onward, KeptJobs
  <2>. QED
    BY <1>3, <2>2, <2>3, ShopQueues
<1>4. ASSUME NEW w \in Workers, finishJob(w)
      PROVE  Fresh'
  <2>1. \A j \in Jobs : job[j] = NoJob => job'[j] = NoJob
    BY <1>4, FinishMoves DEF Held, NoJob
  <2>2. SameJobs
    BY <1>4, FinishMoves DEF SameJobs, Only
  <2>. QED
    BY <1>1, <2>1, <2>2, FreshStep
<1>5. ASSUME NEW w \in Workers, NEW j0 \in Jobs, claimJobs(w, j0)
      PROVE  Fresh'
  <2>1. job[j0].state # "none"
    BY <1>5 DEF claimJobs, Due
  <2>2. source[j0[1]] \notin Before(j0[2])
    BY <2>1 DEF Fresh, NoJob
  <2>3. \A j \in Jobs : j # j0 => job'[j] = job[j]
    BY <1>5 DEF claimJobs, Types, Data
  <2>4. \A p \in Procs : proc'[p].job = proc[p].job \/ proc'[p].job = j0
    BY <1>5, ClaimMoves DEF Only
  <2>5. UNCHANGED source
    BY <1>5 DEF claimJobs, shopVars
  <2>. QED
    BY <2>2, <2>3, <2>4, <2>5 DEF Fresh
<1>6. ASSUME NEW j0 \in Jobs, replayHighLevelJob(j0) \/ LeaseExpires(j0)
      PROVE  Fresh'
  <2>1. job[j0].state # "none" /\ \A j \in Jobs : j # j0 => job'[j] = job[j]
    BY <1>6 DEF replayHighLevelJob, LeaseExpires, Types, Data
  <2>2. \A j \in Jobs : job[j] = NoJob => job'[j] = NoJob
    BY <2>1 DEF NoJob
  <2>3. KeptJobs
    BY <1>6 DEF replayHighLevelJob, LeaseExpires, KeptJobs
  <2>. QED
    BY <1>1, <2>2, <2>3, FreshStep
<1>. QED
  BY <1>2, <1>3, <1>4, <1>5, <1>6, NextRows

(* The bound on the attempts.                                              *)
ChargedFor(j) ==
    IF job[j].state = "processing"
    THEN /\ job[j].attempts <= MaxAttempts + faults
         /\ job[j].over \/ proc[job[j].by].job # j
            => job[j].attempts < MaxAttempts + faults
    ELSE job[j].attempts < MaxAttempts + faults

LEMMA ChargedJobs == Charged <=> \A j \in Jobs : ChargedFor(j)
BY DEF Charged, ChargedFor

LEMMA Counts ==
    ASSUME Types
    PROVE  /\ faults \in Nat /\ MaxAttempts \in Nat \ {0}
           /\ \A j \in Jobs : /\ job[j].attempts \in Nat /\ job[j].over \in BOOLEAN
                              /\ job[j].state = "processing"
                                 => job[j].by \in Workers /\ job[j].by \in Procs
BY HighLevelAssumption, ProcsAre DEF Types, Data, JobRecords

LEMMA ChargedKeeps ==
    ASSUME Types, NEW j \in Jobs, ChargedFor(j), job'[j] = job[j],
           \/ faults' = faults /\ proc'[job[j].by].job = proc[job[j].by].job
           \/ faults' = faults /\ job[j].state # "processing"
           \/ faults' = faults + 1
    PROVE  ChargedFor(j)'
BY Counts DEF ChargedFor

LEMMA ChargedSame ==
    ASSUME Types, Charged, UNCHANGED job, KeptJobs \/ (Fault /\ SameJobs), UNCHANGED faults \/ Fault
    PROVE  Charged'
<1>1. ASSUME NEW j \in Jobs
      PROVE  ChargedFor(j)'
  BY Counts, ChargedJobs, ChargedKeeps DEF KeptJobs, Fault
<1>. QED
  BY <1>1, ChargedJobs DEF Charged, ChargedFor

LEMMA ChargedShop == ASSUME Types, Fresh, Charged, ShopStep PROVE Charged'
<1>1. UNCHANGED <<proc, faults>>
  BY ShopQueues
<1>2. ASSUME NEW j0 \in Jobs, Queued(j0), NEW j \in Jobs
      PROVE  ChargedFor(j)'
  <2>1. CASE j # j0
    <3>1. job'[j] = job[j]
      BY <1>2, <2>1 DEF Queued, Queue, Types, Data
    <3>. QED
      BY <1>1, <3>1, ChargedJobs, ChargedKeeps
  <2>2. CASE j = j0
    <3>1. job[j0] = NoJob
      BY <1>2 DEF Queued, Fresh
    <3>2. job'[j0] = [NoJob EXCEPT !.state = "queued"]
      BY <1>2, <3>1 DEF Queued, Queue, Types, Data
    <3>3. job'[j0].state = "queued" /\ job'[j0].attempts = 0
      BY <3>2 DEF NoJob
    <3>. QED
      BY <1>1, <2>2, <3>3, Counts DEF ChargedFor
  <2>. QED
    BY <2>1, <2>2
<1>3. CASE UNCHANGED job
  BY <1>1, <1>3, ChargedSame DEF KeptJobs
<1>4. (\E j0 \in Jobs : Queued(j0)) => Charged'
  BY <1>2 DEF Charged, ChargedFor
<1>. QED
  BY <1>3, <1>4, ShopQueues

LEMMA ChargedClaim ==
    ASSUME Types, Charged, NEW w \in Workers, NEW j0 \in Jobs, claimJobs(w, j0)
    PROVE  Charged'
<1>. w \in Procs
  BY ProcsAre
<1>1. /\ job'[j0].state = "processing" /\ job'[j0].by = w /\ ~job'[j0].over
      /\ job'[j0].attempts = job[j0].attempts + 1
      /\ \A j \in Jobs : j # j0 => job'[j] = job[j]
  <2>1. job' = [job EXCEPT ![j0] = [state |-> "processing", by |-> w, over |-> FALSE,
                                    attempts |-> job[j0].attempts + 1]]
    BY DEF claimJobs
  <2>. QED
    BY <2>1 DEF Types, Data
<1>2. Only(w) /\ proc'[w].job = j0 /\ faults' = faults /\ proc[w].job = None
  <2>1. proc[w].at = "idle" /\ faults' = faults
    BY DEF claimJobs
  <2>. QED
    BY <2>1, ClaimMoves, FitsNow DEF Fits, Unemployed
<1>3. job[j0].attempts < MaxAttempts + faults
  BY Counts DEF claimJobs, Due, Charged
<1>4. ChargedFor(j0)'
  BY <1>1, <1>2, <1>3, Counts DEF ChargedFor
<1>5. ASSUME NEW j \in Jobs, j # j0
      PROVE  ChargedFor(j)'
  <2>1. job'[j] = job[j] /\ ChargedFor(j)
    BY <1>1, <1>5, ChargedJobs
  <2>2. CASE job[j].state = "processing" /\ job[j].by = w
    <3>1. proc[w].job # j /\ proc'[w].job # j
      BY <1>2, <1>5, NoneIsNoJob
    <3>. QED
      BY <1>2, <2>1, <2>2, <3>1 DEF ChargedFor
  <2>3. CASE ~(job[j].state = "processing" /\ job[j].by = w)
    BY <1>2, <2>1, <2>3, Counts, ChargedKeeps DEF Only
  <2>. QED
    BY <2>2, <2>3
<1>. QED
  BY <1>4, <1>5 DEF Charged, ChargedFor

LEMMA ChargedFinish ==
    ASSUME Types, Charged, NEW w \in Workers, finishJob(w)
    PROVE  Charged'
<1>. w \in Procs
  BY ProcsAre
<1>. PICK j0 \in Jobs : j0 = proc[w].job
  BY FinishMoves
<1>1. Only(w) /\ proc'[w].job = None /\ faults' = faults
  BY FinishMoves DEF finishJob
<1>2. ASSUME Held(w)
      PROVE  ChargedFor(j0)'
  <2>1. job[j0].state = "processing" /\ job[j0].attempts <= MaxAttempts + faults
    BY <1>2 DEF Held, Charged
  <2>2. /\ job'[j0].state # "processing"
        /\ \/ job'[j0].attempts = 0 \/ job'[j0].attempts = job[j0].attempts - 1
           \/ job'[j0].attempts = job[j0].attempts /\ job[j0].attempts < MaxAttempts
    BY <1>2, FinishMoves
  <2>. QED
    BY <1>1, <2>1, <2>2, Counts DEF ChargedFor
<1>3. ASSUME NEW j \in Jobs, j # j0 \/ ~Held(w)
      PROVE  ChargedFor(j)'
  <2>1. job'[j] = job[j] /\ ChargedFor(j)
    BY <1>3, FinishMoves, ChargedJobs
  <2>2. CASE job[j].state = "processing" /\ job[j].by = w
    <3>1. proc[w].job # j
      BY <1>3, <2>2 DEF Held
    <3>2. proc'[w].job # j
      BY <1>1, NoneIsNoJob
    <3>. QED
      BY <1>1, <2>1, <2>2, <3>1, <3>2 DEF ChargedFor
  <2>3. CASE ~(job[j].state = "processing" /\ job[j].by = w)
    BY <1>1, <2>1, <2>3, Counts, ChargedKeeps DEF Only
  <2>. QED
    BY <2>2, <2>3
<1>. QED
  BY <1>2, <1>3 DEF Charged, ChargedFor

LEMMA ChargedRow ==
    ASSUME Types, Charged, NEW j0 \in Jobs, replayHighLevelJob(j0) \/ LeaseExpires(j0)
    PROVE  Charged'
<1>1. UNCHANGED proc /\ (faults' = faults \/ faults' = faults + 1)
  BY DEF replayHighLevelJob, LeaseExpires, Fault
<1>2. ASSUME NEW j \in Jobs, j # j0
      PROVE  ChargedFor(j)'
  <2>1. job'[j] = job[j]
    BY <1>2 DEF replayHighLevelJob, LeaseExpires, Types, Data
  <2>. QED
    BY <1>1, <2>1, ChargedJobs, ChargedKeeps
<1>3. CASE replayHighLevelJob(j0)
  <2>1. [job[j0] EXCEPT !.state = "queued", !.attempts = 0] \in JobRecords
    BY DEF Types, Data, JobRecords, JobStates
  <2>2. PICK b \in JobRecords : b = [job[j0] EXCEPT !.state = "queued", !.attempts = 0]
    BY <2>1
  <2>3. b.state = "queued" /\ b.attempts = 0
    BY <2>2 DEF Types, Data, JobRecords
  <2>4. job'[j0] = b
    BY <1>3, <2>2 DEF replayHighLevelJob, Types, Data
  <2>5. faults' = faults
    BY <1>3 DEF replayHighLevelJob
  <2>6. ChargedFor(j0)'
    BY <2>3, <2>4, <2>5, Counts DEF ChargedFor
  <2>. QED
    BY <1>2, <2>6 DEF Charged, ChargedFor
<1>4. CASE LeaseExpires(j0)
  <2>1. job[j0].state = "processing" /\ job[j0].attempts <= MaxAttempts + faults
    BY <1>4 DEF LeaseExpires, Charged
  <2>2. [job[j0] EXCEPT !.over = TRUE] \in JobRecords
    BY <2>1 DEF Types, Data, JobRecords, JobStates
  <2>3. PICK b \in JobRecords : b = [job[j0] EXCEPT !.over = TRUE]
    BY <2>2
  <2>4. b.state = "processing" /\ b.attempts = job[j0].attempts
    BY <2>1, <2>3 DEF Types, Data, JobRecords
  <2>5. job'[j0] = b
    BY <1>4, <2>3 DEF LeaseExpires, Types, Data
  <2>6. job[j0].attempts < MaxAttempts + faults'
    <3>1. CASE \E w \in Workers : proc[w].job = j0
      BY <1>4, <2>1, <3>1, Counts DEF LeaseExpires, Fault
    <3>2. CASE ~ \E w \in Workers : proc[w].job = j0
      <4>1. proc[job[j0].by].job # j0 /\ faults' = faults
        BY <1>4, <2>1, <3>2, Counts DEF LeaseExpires
      <4>. QED
        BY <2>1, <4>1, Counts DEF Charged
    <3>. QED
      BY <3>1, <3>2
  <2>7. ChargedFor(j0)'
    BY <1>1, <2>4, <2>5, <2>6, Counts DEF ChargedFor
  <2>. QED
    BY <1>2, <2>7 DEF Charged, ChargedFor
<1>. QED
  BY <1>3, <1>4

LEMMA NextCharged == ASSUME Types, Fresh, Charged, Next PROVE Charged'
BY NextRows, ChargedSame, ChargedShop, ChargedClaim, ChargedFinish, ChargedRow

-----------------------------------------------------------------------------
(* The withdrawal.                                                         *)

Unsub == consent = "unsubscribed"
Settled == job[Withdrawal].state = "succeeded" \/ \E p \in Procs : Succeeding(proc[p])
Stated == job[Withdrawal].state = "succeeded" \/ \E p \in Procs : Wrote(proc[p])

(* What HighLevel has noted it keeps.                                      *)
Heeds == Noted => Noted'

LEMMA Heeded ==
    ASSUME dnd => dnd', remote' = remote \/ remote' = "recreated"
    PROVE  Heeds
BY DEF Heeds, Noted

LEMMA ArrivedHeeded == ASSUME Types, NEW c \in Calls, Arrives(c) PROVE Heeds
BY ArrivesIs DEF Heeds, Noted

LEMMA WorkHeeded ==
    ASSUME Types, NEW w \in Workers, WorkerStep(w)
    PROVE  Heeds
<1>1. CASE putContact(w) \/ clearContact(w)
  <2>1. remote' = remote /\ (dnd => dnd')
    BY <1>1 DEF putContact, clearContact, PutContact, remoteVars
  <2>. QED
    BY <2>1, Heeded
<1>2. CASE upsert(w)
  <2>1. UpsertCall \in Calls /\ Arrives(UpsertCall)
    BY <1>2 DEF upsert, Arrives, UpsertCall, Calls
  <2>. QED
    BY <2>1, ArrivedHeeded
<1>3. CASE \/ getContact(w) \/ insertContact(w) \/ selectContact(w) \/ findContact(w)
           \/ readContact(w) \/ commitSync(w) \/ loadContact(w) \/ lockEffects(w)
           \/ finishJob(w)
  BY <1>3, Heeded DEF getContact, insertContact, selectContact, findContact, readContact,
     commitSync, loadContact, lockEffects, finishJob, remoteVars
<1>4. CASE \/ durableEffect(w) \/ postEffect(w) \/ recordEffect(w) \/ searchOpportunity(w)
           \/ consultConsent(w) \/ decideJourney(w) \/ offerFields(w) \/ handOff(w)
  BY <1>4, Heeded DEF durableEffect, postEffect, Performs, recordEffect, searchOpportunity,
     consultConsent, decideJourney, offerFields, handOff, remoteVars
<1>5. CASE \/ reconcileRemovedSource(w) \/ deleteNote(w) \/ cancelNote(w)
           \/ loadRetainedSource(w)
  BY <1>5, Heeded DEF reconcileRemovedSource, deleteNote, cancelNote, loadRetainedSource,
     remoteVars
<1>. QED
  BY <1>1, <1>2, <1>3, <1>4, <1>5 DEF WorkerStep

LEMMA NextHeeded == ASSUME Types, Next PROVE Heeds
<1>1. CASE ShopStep
  <2>1. UNCHANGED <<dnd, remote>>
    BY <1>1 DEF ShopStep, Submit, Redact, highlevel_capture_offer, Changes, OrderMoves,
       Chooses, SwitchMarketing, JourneyAges, ShopOnly, remoteVars
  <2>. QED
    BY <2>1, Heeded
<1>2. CASE StaffStep
  <2>1. ASSUME NEW p \in Staff, deleteContact(p)
        PROVE  Heeds
    BY <2>1 DEF deleteContact, Heeds, Noted
  <2>2. ASSUME NEW p \in Staff, deleteReviewedCrmCopy(p) \/ tombstone(p)
        PROVE  Heeds
    BY <2>2, Heeded DEF deleteReviewedCrmCopy, tombstone, remoteVars
  <2>3. CASE \/ \E j \in Jobs : replayHighLevelJob(j)
             \/ \E k \in Keys : resolveHighLevelEffect(k)
    <3>1. UNCHANGED <<dnd, remote>>
      BY <2>3 DEF replayHighLevelJob, resolveHighLevelEffect, remoteVars
    <3>. QED
      BY <3>1, Heeded
  <2>. QED
    BY <1>2, <2>1, <2>2, <2>3 DEF StaffStep
<1>3. ASSUME NEW w \in Workers,
             \/ \E j \in Jobs : claimJobs(w, j)
             \/ pauseMarketing(w) \/ PostUnanswered(w) \/ DbFails(w) \/ LockTimesOut(w)
      PROVE  Heeds
  <2>1. UNCHANGED <<dnd, remote>>
    BY <1>3 DEF claimJobs, pauseMarketing, PostUnanswered, Performs, DbFails, LockTimesOut,
       remoteVars
  <2>. QED
    BY <2>1, Heeded
<1>4. ASSUME NEW p \in Procs,
             stopJourney(p) \/ cancelJourney(p) \/ CallRefused(p) \/ Crash(p)
      PROVE  Heeds
  <2>1. UNCHANGED <<dnd, remote>>
    BY <1>4 DEF stopJourney, RemoveFrom, cancelJourney, CallRefused, Crash, remoteVars
  <2>. QED
    BY <2>1, Heeded
<1>5. ASSUME NEW p \in Procs, CallUnanswered(p)
      PROVE  Heeds
  BY <1>5, NoAnswerMoves, ArrivedHeeded, Heeded
<1>6. CASE (\E j \in Jobs : LeaseExpires(j)) \/ (\E k \in inflight : LateCall(k))
  BY <1>6, Heeded DEF LeaseExpires, LateCall, Performs, remoteVars
<1>7. ASSUME NEW c \in late, LateRepeatable(c)
      PROVE  Heeds
  BY <1>7, LateAgain, ArrivedHeeded
<1>. QED
  BY <1>1, <1>2, <1>3, <1>4, <1>5, <1>6, <1>7, WorkHeeded DEF Next

(* What the step of a process must respect after a withdrawal.             *)
Minds(p) == /\ proc'[p].job = Withdrawal => Carries(proc'[p])
            /\ Wrote(proc'[p]) => Stated
            /\ Succeeding(proc'[p]) => Settled
            /\ Settled => ~Admitting(proc'[p])
Steady == /\ UNCHANGED <<consent, latest, erased>> /\ source'[latest] = source[latest]
          /\ job'[Withdrawal].state = "succeeded" => Settled
          /\ Heeds
          /\ Settled => Fewer

LEMMA LatestIs ==
    ASSUME latest \in Choices
    PROVE  /\ Withdrawal \in Jobs /\ latest \in Entities /\ Withdrawal[1] = latest
           /\ latest \notin Inquiries \cup Offers \cup Orders
BY HighLevelAssumption DEF Withdrawal, Jobs, Entities

LEMMA SettledStated == Settled => Stated
BY DEF Settled, Stated, Succeeding, Wrote

LEMMA CarriesOn ==
    ASSUME Heeds, UNCHANGED erased, NEW p
    PROVE  Carries(proc'[p]) => Carries(proc[p])'
BY DEF Heeds, Carries

LEMMA WithdrawnKeeps ==
    ASSUME Types, Withdrawn, Unsub, Steady, \A p \in Procs : Minds(p)
    PROVE  Withdrawn'
<1>. USE DEF Unsub
<1>1. Withdrawal' = Withdrawal
  BY DEF Withdrawal, Steady
<1>2. latest' \in Choices /\ source'[latest'] = "live"
  BY DEF Withdrawn, Steady
<1>3. \A p \in Procs : proc'[p].job = Withdrawal => Carries(proc'[p])
  BY DEF Minds
<1>4. ASSUME job'[Withdrawal].state = "succeeded" \/ \E p \in Procs : Wrote(proc'[p])
      PROVE  ~erased' /\ Noted'
  <2>1. Stated
    BY <1>4, SettledStated DEF Steady, Minds
  <2>. QED
    BY <2>1 DEF Withdrawn, Stated, Steady, Heeds
<1>5. ASSUME job'[Withdrawal].state = "succeeded" \/ \E p \in Procs : Succeeding(proc'[p])
      PROVE  Runs' = {} /\ \A q \in Procs : ~Admitting(proc'[q])
  <2>1. Settled
    BY <1>5 DEF Steady, Minds
  <2>2. Runs = {}
    BY <2>1 DEF Withdrawn, Settled, Runs
  <2>3. Runs' = {}
    BY <2>1, <2>2, RunsNext DEF Steady, Fewer
  <2>. QED
    BY <2>1, <2>3 DEF Minds
<1>6. UNCHANGED <<consent, latest, erased>>
  BY DEF Steady
<1>7. \A p \in Procs : Wrote(proc[p])' <=> Wrote(proc'[p])
  BY <1>1 DEF Wrote, Succeeding
<1>8. \A p \in Procs : Succeeding(proc[p])' <=> Succeeding(proc'[p])
  BY <1>1 DEF Succeeding
<1>9. \A p \in Procs : Carries(proc'[p]) => Carries(proc[p])'
  BY <1>6, CarriesOn DEF Steady
<1>10. \A p \in Procs : Admitting(proc[p])' <=> Admitting(proc'[p])
  BY DEF Admitting
<1>. QED
  BY <1>1, <1>2, <1>3, <1>4, <1>5, <1>6, <1>7, <1>8, <1>9, <1>10 DEF Withdrawn, Runs

LEMMA StandsStill ==
    ASSUME Types, Withdrawn, Unsub, NEW p \in Procs, proc'[p] = proc[p]
    PROVE  Minds(p)
BY DEF Withdrawn, Unsub, Minds, Settled, Stated

LEMMA WithdrawnOnly ==
    ASSUME Types, Withdrawn, Unsub, Steady, NEW p, Only(p), Minds(p)
    PROVE  Withdrawn'
BY WithdrawnKeeps, StandsStill DEF Only

LEMMA WithdrawnStill ==
    ASSUME Types, Withdrawn, Unsub, Steady, UNCHANGED proc
    PROVE  Withdrawn'
BY WithdrawnKeeps, StandsStill

(* A process whose job is another one, and one that is done with nothing.  *)
LEMMA MindsOther ==
    ASSUME NEW p, proc'[p].job # Withdrawal, Settled => ~Admitting(proc'[p])
    PROVE  Minds(p)
BY DEF Minds, Wrote, Succeeding

LEMMA NotAdmitting ==
    ASSUME NEW x, x.at \notin Keyed \cup {"deciding", "offering"} \cup Stoppers
    PROVE  ~Admitting(x)
BY DEF Admitting

LEMMA MindsFailing ==
    ASSUME Types, Withdrawn, Unsub, NEW p, GivesUp(p)
    PROVE  Minds(p)
<1>1. ~Admitting(proc'[p])
  BY NotAdmitting DEF GivesUp, Keyed, Stoppers
<1>2. CASE proc'[p].at = "finishing" /\ proc'[p].verdict \in {"retry", "review"}
  BY <1>1, <1>2 DEF Minds, Carries, Wrote, Succeeding, Retiring, Following, Stoppers
<1>3. CASE proc'[p].at = "idle" /\ proc'[p].job = None
  <2>1. ~Wrote(proc'[p]) /\ ~Succeeding(proc'[p])
    BY <1>3 DEF Wrote, Succeeding, Stoppers
  <2>2. proc'[p].job # Withdrawal
    BY <1>3, LatestIs, NoneIsNoJob DEF Withdrawn, Unsub
  <2>. QED
    BY <1>1, <1>3, <2>1, <2>2 DEF Minds
<1>. QED
  BY <1>2, <1>3 DEF GivesUp

LEMMA SyncMinds ==
    ASSUME Types, Withdrawn, Unsub, NEW w \in Workers,
           \/ getContact(w) \/ insertContact(w) \/ selectContact(w) \/ findContact(w)
           \/ upsert(w) \/ readContact(w) \/ commitSync(w) \/ loadContact(w) \/ lockEffects(w)
    PROVE  Minds(w)
<1>. w \in Procs
  BY ProcsAre
<1>1. proc[w].job = Withdrawal => Carries(proc[w])
  BY DEF Withdrawn, Unsub
<1>2. CASE getContact(w) \/ selectContact(w)
  <2>1. /\ proc[w].at \in {"mapping", "selecting"} /\ proc'[w].job = proc[w].job
        /\ \/ proc'[w].at = "finishing" /\ proc'[w].verdict \in {"review", "retry"}
           \/ /\ ~erased /\ Same(proc[w], proc'[w])
              /\ proc'[w].at \in {"inserting", "projecting"}
    BY <1>2, GetMoves DEF getContact, selectContact
  <2>2. ~Admitting(proc'[w])
    BY <2>1, NotAdmitting DEF Keyed, Stoppers
  <2>. QED
    BY <1>1, <2>1, <2>2 DEF Minds, Carries, Same, Wrote, Succeeding, Retiring, Following, Stoppers
<1>3. CASE insertContact(w) \/ findContact(w) \/ upsert(w)
  <2>1. /\ proc[w].at \in Syncing /\ Same(proc[w], proc'[w])
        /\ proc'[w].at \in {"selecting", "finding", "upserting", "projecting"}
    BY <1>3, FindMoves, UpsertMoves DEF upsert, Syncing
  <2>2. ~Admitting(proc'[w])
    BY <2>1, NotAdmitting DEF Keyed, Stoppers
  <2>. QED
    BY <1>1, <2>1, <2>2
       DEF Minds, Carries, Same, Wrote, Succeeding, Syncing, Retiring, Following, Stoppers
<1>4. CASE readContact(w)
  <2>1. /\ proc[w].at = "projecting" /\ proc'[w].job = proc[w].job
        /\ \/ proc'[w].at = "finishing" /\ proc'[w].verdict = "review"
           \/ /\ proc'[w].at = "putting" /\ proc'[w].read = proc[w].read
              /\ proc'[w].barred \/ dnd
    BY <1>4, ReadMoves DEF readContact, Unsub, Types, Data
  <2>2. ~Admitting(proc'[w])
    BY <2>1, NotAdmitting DEF Keyed, Stoppers
  <2>. QED
    BY <1>1, <2>1, <2>2
       DEF Minds, Carries, Noted, Wrote, Succeeding, Retiring, Following, Stoppers
<1>5. CASE commitSync(w)
  <2>1. /\ proc[w].at = "committing" /\ proc'[w].job = proc[w].job
        /\ \/ proc'[w].at = "finishing" /\ proc'[w].verdict = "skipped"
           \/ proc'[w].at = "following" /\ Same(proc[w], proc'[w])
    BY <1>5, CommitMoves DEF commitSync
  <2>2. ~Admitting(proc'[w])
    BY <2>1, NotAdmitting DEF Keyed, Stoppers
  <2>3. Wrote(proc'[w]) => Stated
    BY <2>1 DEF Wrote, Stated
  <2>. QED
    BY <1>1, <2>1, <2>2, <2>3
       DEF Minds, Carries, Same, Succeeding, Retiring, Following, Stoppers
<1>6. CASE loadContact(w)
  <2>1. /\ proc[w].at = "following" /\ proc'[w].job = proc[w].job
        /\ \/ erased /\ proc'[w].at = "finishing"
           \/ proc'[w].at = "awaiting" /\ Same(proc[w], proc'[w])
    BY <1>6, LoadMoves DEF loadContact
  <2>2. ~Admitting(proc'[w])
    BY <2>1, NotAdmitting DEF Keyed, Stoppers
  <2>3. Wrote(proc'[w]) => Stated
    BY <2>1 DEF Wrote, Stated
  <2>4. proc[w].job = Withdrawal => proc'[w].at = "awaiting"
    BY <1>1, <2>1 DEF Carries
  <2>. QED
    BY <1>1, <2>1, <2>2, <2>3, <2>4
       DEF Minds, Carries, Same, Succeeding, Retiring, Following, Stoppers
<1>7. CASE lockEffects(w)
  <2>1. /\ proc[w].at = "awaiting" /\ proc'[w].job = proc[w].job
        /\ \/ /\ proc'[w].at = "claiming" /\ proc'[w].key \notin Journeys
              /\ proc[w].job[1] \in Inquiries
           \/ proc'[w].at = "consulting" /\ Same(proc[w], proc'[w])
    BY <1>7, LockMoves DEF lockEffects
  <2>2. ~Admitting(proc'[w])
    BY <2>1 DEF Admitting, Keyed, Stoppers
  <2>3. Wrote(proc'[w]) => Stated
    BY <2>1 DEF Wrote, Stated
  <2>4. proc[w].job = Withdrawal => proc'[w].at # "claiming"
    BY <2>1, LatestIs DEF Withdrawn, Unsub
  <2>. QED
    BY <1>1, <2>1, <2>2, <2>3, <2>4
       DEF Minds, Carries, Same, Succeeding, Retiring, Following, Stoppers
<1>. QED
  BY <1>2, <1>3, <1>4, <1>5, <1>6, <1>7

LEMMA TakeMinds ==
    ASSUME Types, Withdrawn, Unsub, NEW w \in Workers, NEW j \in Jobs, claimJobs(w, j)
    PROVE  Minds(w)
<1>1. /\ proc'[w].job = j /\ proc'[w].read = source[j[1]]
      /\ proc'[w].at = IF source[j[1]] \in Gone THEN "retiring" ELSE "mapping"
  BY ClaimMoves
<1>2. ~Admitting(proc'[w])
  BY <1>1, NotAdmitting DEF Keyed, Stoppers
<1>3. j = Withdrawal => source[j[1]] = "live" /\ proc'[w].at = "mapping"
  BY <1>1, LatestIs DEF Withdrawn, Unsub, Gone
<1>. QED
  BY <1>1, <1>2, <1>3 DEF Minds, Carries, Wrote, Succeeding, Retiring, Following, Stoppers

(* The job of the withdrawal is at no effect and no redacted source.       *)
LEMMA NotThere ==
    ASSUME Types, Withdrawn, Unsub, NEW p \in Procs,
           proc[p].at \in Retiring \cup (Following \ {"consulting"})
    PROVE  proc[p].job # Withdrawal
BY DEF Withdrawn, Unsub, Carries

LEMMA RetireMinds ==
    ASSUME Types, Withdrawn, Unsub, NEW w \in Workers,
           \/ reconcileRemovedSource(w) \/ deleteNote(w) \/ cancelNote(w)
           \/ loadRetainedSource(w) \/ clearContact(w)
    PROVE  Minds(w)
<1>. w \in Procs
  BY ProcsAre
<1>1. proc[w].at \in Retiring
  BY DEF reconcileRemovedSource, deleteNote, cancelNote, loadRetainedSource, clearContact, Retiring
<1>2. proc'[w].job = proc[w].job
  BY RetireMoves, NoteMoves, ClearMoves
<1>3. ~Admitting(proc'[w])
  <2>1. ASSUME NEW x, NEW ks, NEW to \in {"mapping", "clearing"}, Halts(x, ks, to, proc'[w])
        PROVE  ~Admitting(proc'[w])
    BY <2>1 DEF Halts, Reached, Stops, Admitting, Ending, Keyed, Stoppers
  <2>2. ASSUME proc'[w].at \in {"finishing", "unnoting", "unnoted", "weighing"}
        PROVE  ~Admitting(proc'[w])
    BY <2>2, NotAdmitting DEF Keyed, Stoppers
  <2>3. CASE reconcileRemovedSource(w) \/ loadRetainedSource(w)
    BY <2>1, <2>2, <2>3, RetireMoves
  <2>4. CASE deleteNote(w) \/ cancelNote(w) \/ clearContact(w)
    BY <2>2, <2>4, NoteMoves, ClearMoves
  <2>. QED
    BY <2>3, <2>4
<1>. QED
  BY <1>1, <1>2, <1>3, NotThere, MindsOther

LEMMA EffectMinds ==
    ASSUME Types, Withdrawn, Unsub, NEW w \in Workers,
           \/ durableEffect(w) \/ postEffect(w) \/ recordEffect(w) \/ searchOpportunity(w)
           \/ handOff(w)
    PROVE  Minds(w)
<1>. w \in Procs
  BY ProcsAre
<1>1. proc[w].at \in Following \ {"consulting"}
  BY DEF durableEffect, postEffect, recordEffect, searchOpportunity, handOff, Following
<1>2. proc'[w].job = proc[w].job
  BY EffectMoves, PostMoves, RecordMoves, AfterMoves, SearchMoves, HandOffMoves DEF Keyed
<1>3. CASE searchOpportunity(w) \/ handOff(w)
  <2>1. \/ proc'[w].at = "finishing"
        \/ proc'[w].at = "claiming" /\ proc'[w].key \notin Journeys
    BY <1>3, SearchMoves, HandOffMoves
  <2>2. ~Admitting(proc'[w])
    BY <2>1 DEF Admitting, Keyed, Stoppers
  <2>. QED
    BY <1>1, <1>2, <2>1, <2>2, NotThere, MindsOther
<1>4. CASE durableEffect(w) \/ postEffect(w) \/ recordEffect(w)
  <2>1. proc[w].at \in Keyed
    BY <1>4 DEF durableEffect, postEffect, recordEffect, Keyed
  <2>2. \/ proc'[w].at \in {"finishing", "searching", "consulting", "handing_off"}
        \/ proc'[w].at = "claiming" /\ proc'[w].key \notin Journeys
        \/ proc'[w].at \in {"posting", "recording"} /\ proc'[w].key = proc[w].key
    BY <1>4, <2>1, EffectMoves, PostMoves, RecordMoves, AfterMoves DEF Same
  <2>3. Settled => proc[w].key \notin Journeys
    BY <2>1 DEF Withdrawn, Unsub, Settled, Admitting
  <2>4. Settled => ~Admitting(proc'[w])
    BY <2>2, <2>3 DEF Admitting, Keyed, Stoppers
  <2>. QED
    BY <1>1, <1>2, <2>2, <2>4, NotThere, MindsOther
<1>. QED
  BY <1>3, <1>4

(* Without consent nothing is decided but to end what runs.                *)
LEMMA Refuses ==
    ASSUME NEW w, NEW x, ~x.agreed, NEW y, Decided(w, x, y)
    PROVE  /\ ~Admitting(y) /\ y.at \in {"finishing", "stopping"} /\ y.job = x.job
           /\ y.at = "stopping" => y.then = "succeeded" /\ y.read = x.read /\ ~y.agreed
           /\ y.at = "finishing" => Runs = {} /\ y.verdict = "succeeded"
<1>1. \/ Running(Journeys) = {} /\ Reached(x, "succeeded", y)
      \/ Running(Journeys) # {} /\ Stops(x, Journeys, "succeeded", y)
  BY DEF Decided
<1>2. CASE Running(Journeys) = {} /\ Reached(x, "succeeded", y)
  BY <1>2 DEF Reached, Ending, Admitting, Keyed, Stoppers, Runs
<1>3. CASE Running(Journeys) # {} /\ Stops(x, Journeys, "succeeded", y)
  BY <1>3 DEF Stops, Admitting, Keyed, Stoppers
<1>. QED
  BY <1>1, <1>2, <1>3

LEMMA DecideMinds ==
    ASSUME Types, Withdrawn, Unsub, NEW w \in Workers, decideJourney(w) \/ offerFields(w)
    PROVE  Minds(w)
<1>. w \in Procs
  BY ProcsAre
<1>1. proc[w].at \in Following \ {"consulting"} /\ proc'[w].job = proc[w].job
  BY DecideMoves, OfferMoves DEF decideJourney, offerFields, Following
<1>2. CASE decideJourney(w)
  <2>1. Decided(w, proc[w], proc'[w]) /\ proc[w].at = "deciding"
    BY <1>2, DecideMoves DEF decideJourney
  <2>2. Settled => ~proc[w].agreed
    BY <2>1 DEF Withdrawn, Unsub, Settled, Admitting
  <2>. QED
    BY <1>1, <2>1, <2>2, Refuses, NotThere, MindsOther
<1>3. CASE offerFields(w)
  <2>1. ~Settled
    BY <1>3 DEF offerFields, Withdrawn, Unsub, Settled, Admitting
  <2>. QED
    BY <1>1, <2>1, NotThere, MindsOther
<1>. QED
  BY <1>2, <1>3

(* The job of the withdrawal finds nothing running, or has ended the last, *)
(* under the lock.                                                         *)
LEMMA SettlesNow ==
    ASSUME Types, OneHolder, Withdrawn, Unsub, Stated,
           UNCHANGED <<consent, latest, erased, source>>, Heeds,
           NEW w \in Procs, Only(w), Holds(proc[w]), Runs' = {},
           Carries(proc'[w]), ~Admitting(proc'[w])
    PROVE  Withdrawn'
<1>1. ASSUME NEW q \in Procs
      PROVE  ~Admitting(proc'[q])
  <2>1. CASE q = w
    BY <2>1
  <2>2. CASE q # w
    <3>1. ~Holds(proc[q]) /\ proc'[q] = proc[q]
      BY <2>2 DEF OneHolder, Only
    <3>. QED
      BY <3>1 DEF Holds, Admitting, Keyed, Following
  <2>. QED
    BY <2>1, <2>2
<1>2. ~erased' /\ Noted'
  BY DEF Withdrawn, Unsub, Stated, Heeds
<1>3. \A q \in Procs : proc'[q].job = Withdrawal => Carries(proc'[q])
  BY DEF Only, Withdrawn, Unsub
<1>4. latest' \in Choices /\ source'[latest'] = "live" /\ Withdrawal' = Withdrawal
  BY DEF Withdrawn, Unsub, Withdrawal
<1>5. \A p \in Procs : Carries(proc'[p]) => Carries(proc[p])'
  BY CarriesOn
<1>6. \A p \in Procs : Admitting(proc[p])' <=> Admitting(proc'[p])
  BY DEF Admitting
<1>. QED
  BY <1>1, <1>2, <1>3, <1>4, <1>5, <1>6 DEF Withdrawn, Unsub, Runs

LEMMA ConsultWithdrawn ==
    ASSUME Types, OneHolder, Withdrawn, Unsub, Heeds, NEW w \in Workers, consultConsent(w)
    PROVE  Withdrawn'
<1>. w \in Procs
  BY ProcsAre
<1>1. /\ proc[w].at = "consulting" /\ Only(w) /\ proc'[w].job = proc[w].job
      /\ UNCHANGED <<consent, latest, erased, source, job, effect>>
  BY ConsultMoves DEF consultConsent, shopVars, ledgerVars
<1>2. PICK x \in Records :
        /\ x.job = proc[w].job /\ x.read = proc[w].read /\ ~x.agreed
        /\ \/ Stops(x, Sales, "deciding", proc'[w]) /\ proc[w].read \in {"paid", "dispatched"}
           \/ Decided(w, x, proc'[w])
  BY ConsultMoves DEF Unsub
<1>3. proc[w].job = Withdrawal => Carries(proc[w])
  BY DEF Withdrawn, Unsub
<1>4. Steady
  BY <1>1, SameEffects DEF Steady, Settled
<1>5. ~Admitting(proc'[w])
  <2>1. CASE Stops(x, Sales, "deciding", proc'[w])
    BY <1>2, <2>1 DEF Stops, Admitting, Keyed, Stoppers
  <2>. QED
    BY <1>2, <2>1, Refuses
<1>6. CASE proc[w].job # Withdrawal
  BY <1>1, <1>4, <1>5, <1>6, MindsOther, WithdrawnOnly
<1>7. CASE proc[w].job = Withdrawal
  <2>1. Decided(w, x, proc'[w])
    BY <1>1, <1>2, <1>3, <1>7 DEF Carries
  <2>2. Stated /\ ~erased
    BY <1>1, <1>7 DEF Stated, Wrote, Withdrawn, Unsub
  <2>3. Carries(proc'[w])
    BY <1>1, <1>2, <1>3, <1>7, <2>1, <2>2, Refuses DEF Carries, Retiring, Following, Stoppers
  <2>4. CASE Succeeding(proc'[w]) /\ ~Settled
    <3>1. Runs = {}
      BY <1>2, <2>1, <2>4, Refuses DEF Succeeding
    <3>2. Runs' = Runs /\ Holds(proc[w])
      BY <1>1 DEF Runs, Running, Holds, Following
    <3>. QED
      BY <1>1, <1>5, <2>2, <2>3, <3>1, <3>2, SettlesNow
  <2>5. CASE ~(Succeeding(proc'[w]) /\ ~Settled)
    <3>1. Minds(w)
      BY <1>5, <2>2, <2>3, <2>5 DEF Minds
    <3>. QED
      BY <1>1, <1>4, <3>1, WithdrawnOnly
  <2>. QED
    BY <2>4, <2>5
<1>. QED
  BY <1>6, <1>7

LEMMA StopMinds ==
    ASSUME Types, Withdrawn, Unsub, NEW p \in Procs, stopJourney(p)
    PROVE  Minds(p)
<1>1. /\ proc[p].at = "stopping" /\ proc'[p].at = "cancelling" /\ proc'[p].job = proc[p].job
      /\ proc'[p].then = proc[p].then /\ proc'[p].read = proc[p].read
      /\ proc'[p].agreed = proc[p].agreed
  BY StopMoves DEF stopJourney
<1>2. proc[p].job = Withdrawal => Carries(proc[p])
  BY DEF Withdrawn, Unsub
<1>3. Wrote(proc'[p]) => Stated
  BY <1>1 DEF Wrote, Succeeding, Stated, Stoppers
<1>4. Admitting(proc'[p]) => Admitting(proc[p])
  BY <1>1 DEF Admitting, Keyed, Stoppers
<1>5. proc'[p].job = Withdrawal => Carries(proc'[p])
  BY <1>1, <1>2 DEF Carries, Retiring, Following, Stoppers
<1>. QED
  BY <1>1, <1>3, <1>4, <1>5 DEF Minds, Succeeding, Withdrawn, Unsub, Settled

LEMMA CancelWithdrawn ==
    ASSUME Types, OneHolder, Single, Withdrawn, Unsub, Heeds, NEW p \in Procs, cancelJourney(p)
    PROVE  Withdrawn'
<1>1. PICK k \in Journeys : k = proc[p].key
  BY CancelMoves
<1>2. /\ Only(p) /\ proc[p].at = "cancelling" /\ proc'[p].job = proc[p].job
      /\ effect' = [effect EXCEPT ![k] = "cancelled"]
      /\ UNCHANGED <<consent, latest, erased, source, job>>
  BY <1>1, CancelMoves DEF cancelJourney, shopVars
<1>3. Runs' = Runs \ {k} /\ Fewer
  BY <1>2, KeysMade, RunsNext DEF Types, Data, Fewer, Runs, Running
<1>4. Steady
  BY <1>2, <1>3 DEF Steady, Settled
<1>5. proc[p].then \in Reasons
  BY FitsNow DEF Records
<1>6. CASE proc[p].job # Withdrawal
  <2>1. CASE proc[p].todo = {} /\ Reached(proc[p], proc[p].then, proc'[p])
    <3>1. Admitting(proc'[p]) => Admitting(proc[p])
      BY <1>2, <1>5, <2>1 DEF Reached, Reasons, Ending, Admitting, Keyed, Stoppers
    <3>. QED
      BY <1>2, <1>4, <1>6, <3>1, MindsOther, WithdrawnOnly DEF Withdrawn, Unsub, Settled
  <2>2. CASE /\ proc'[p].at = "stopping" /\ proc'[p].then = proc[p].then
             /\ Same(proc[p], proc'[p])
    <3>1. Admitting(proc'[p]) => Admitting(proc[p])
      BY <1>2, <2>2 DEF Same, Admitting, Keyed, Stoppers
    <3>. QED
      BY <1>2, <1>4, <1>6, <2>2, <3>1, MindsOther, WithdrawnOnly DEF Withdrawn, Unsub, Settled
  <2>. QED
    BY <2>1, <2>2, CancelMoves
<1>7. CASE proc[p].job = Withdrawal
  <2>1. Carries(proc[p]) /\ proc[p].then = "succeeded"
    BY <1>2, <1>7 DEF Withdrawn, Unsub, Carries, Stoppers
  <2>2. Stated /\ Holds(proc[p])
    BY <1>2, <1>7, <2>1 DEF Stated, Wrote, Stoppers, Holds
  <2>3. CASE proc[p].todo = {} /\ Reached(proc[p], proc[p].then, proc'[p])
    <3>1. proc'[p].at = "finishing"
      BY <2>1, <2>3 DEF Reached, Ending
    <3>2. Runs \subseteq {k}
      BY <1>1, <1>2, <2>1, <2>3 DEF Single, Allows, Left, Stoppers, Runs
    <3>3. Carries(proc'[p]) /\ ~Admitting(proc'[p])
      BY <3>1, NotAdmitting DEF Carries, Retiring, Following, Stoppers, Keyed
    <3>. QED
      BY <1>2, <1>3, <2>2, <3>1, <3>2, <3>3, SettlesNow
  <2>4. CASE /\ proc'[p].at = "stopping" /\ proc'[p].then = proc[p].then
             /\ Same(proc[p], proc'[p])
    <3>1. ~Admitting(proc'[p]) /\ ~Succeeding(proc'[p])
      BY <2>1, <2>4 DEF Admitting, Succeeding, Keyed, Stoppers
    <3>2. Carries(proc'[p])
      BY <1>2, <2>1, <2>4 DEF Carries, Same, Retiring, Following, Stoppers
    <3>3. Minds(p)
      BY <2>2, <2>4, <3>1, <3>2 DEF Minds
    <3>. QED
      BY <1>2, <1>4, <3>3, WithdrawnOnly
  <2>. QED
    BY <2>3, <2>4, CancelMoves
<1>. QED
  BY <1>6, <1>7

(* The job of the withdrawal has do not disturb set, unless it was or the  *)
(* contact is gone.                                                        *)
LEMMA PutWithdrawn ==
    ASSUME Types, Withdrawn, Unsub, Heeds, NEW w \in Workers, putContact(w)
    PROVE  Withdrawn'
<1>. w \in Procs
  BY ProcsAre
<1>1. /\ proc[w].at = "putting" /\ Only(w) /\ proc'[w].job = proc[w].job
      /\ UNCHANGED <<consent, latest, erased, source, job, effect>>
  BY PutMoves DEF putContact, shopVars, ledgerVars
<1>2. \/ proc'[w].at = "finishing" /\ proc'[w].verdict = "review"
      \/ /\ proc'[w].at = "committing" /\ proc'[w].read = proc[w].read
         /\ dnd' = (dnd \/ proc[w].barred)
  BY PutMoves
<1>3. proc[w].job = Withdrawal => Carries(proc[w])
  BY DEF Withdrawn, Unsub
<1>4. ~Admitting(proc'[w])
  BY <1>2, NotAdmitting DEF Keyed, Stoppers
<1>5. proc'[w].job = Withdrawal => Carries(proc'[w])
  BY <1>1, <1>2, <1>3 DEF Carries, Retiring, Following, Stoppers
<1>6. Steady
  BY <1>1, SameEffects DEF Steady, Settled
<1>7. CASE Wrote(proc'[w]) => Stated
  <2>1. Minds(w)
    BY <1>2, <1>4, <1>5, <1>7 DEF Minds, Succeeding
  <2>. QED
    BY <1>1, <1>6, <2>1, WithdrawnOnly
<1>8. CASE Wrote(proc'[w]) /\ ~Stated
  <2>1. proc[w].job = Withdrawal /\ proc'[w].at = "committing"
    BY <1>1, <1>2, <1>8 DEF Wrote, Succeeding, Stoppers
  <2>2. ~erased' /\ Noted'
    <3>1. ~erased /\ (proc[w].barred \/ Noted)
      BY <1>1, <1>3, <2>1 DEF Carries
    <3>2. proc[w].barred => dnd'
      BY <1>2, <2>1
    <3>. QED
      BY <1>1, <3>1, <3>2 DEF Noted, Heeds
  <2>3. ~Settled /\ \A q \in Procs : ~Succeeding(proc'[q])
    BY <1>1, <1>8, <2>1, SettledStated DEF Only, Succeeding, Settled
  <2>4. \A q \in Procs : proc'[q].job = Withdrawal => Carries(proc'[q])
    BY <1>1, <1>5 DEF Only, Withdrawn, Unsub
  <2>5. latest' \in Choices /\ source'[latest'] = "live" /\ Withdrawal' = Withdrawal
    BY <1>1 DEF Withdrawn, Unsub, Withdrawal
  <2>6. \A p \in Procs : Carries(proc'[p]) => Carries(proc[p])'
    BY <1>1, CarriesOn
  <2>7. \A p \in Procs : Succeeding(proc[p])' <=> Succeeding(proc'[p])
    BY <2>5 DEF Succeeding
  <2>8. job'[Withdrawal].state # "succeeded"
    BY <1>1, <2>3 DEF Settled
  <2>. QED
    BY <2>2, <2>3, <2>4, <2>5, <2>6, <2>7, <2>8 DEF Withdrawn
<1>. QED
  BY <1>7, <1>8

LEMMA ChooseWithdrawn ==
    ASSUME Types, Fresh, NEW c \in Choices, NEW choice \in {"opted_in", "unsubscribed"},
           Chooses(c, choice)
    PROVE  Withdrawn'
<1>1. CASE choice = "opted_in"
  BY <1>1 DEF Chooses, Withdrawn
<1>2. CASE choice = "unsubscribed"
  <2>1. PICK j0 \in Jobs : j0 = <<c, "chosen">> /\ j0[1] = c /\ j0[2] = "chosen"
    BY JobsMade
  <2>2. job[j0] = NoJob /\ \A p \in Procs : proc[p].job # j0
    BY <2>1 DEF Chooses, Fresh, Before
  <2>3. /\ latest' = c /\ source'[c] = "live" /\ Withdrawal' = j0 /\ UNCHANGED proc
        /\ Queue(j0)
    BY <2>1 DEF Chooses, Withdrawal, ShopOnly, Entities
  <2>4. job'[j0].state = "queued"
    <3>1. job' = [job EXCEPT ![j0] = [NoJob EXCEPT !.state = "queued"]]
      BY <2>2, <2>3 DEF Queue
    <3>. QED
      BY <3>1 DEF NoJob, Types, Data
  <2>5. \A p \in Procs : ~Wrote(proc[p])' /\ ~Succeeding(proc[p])'
    BY <2>2, <2>3 DEF Wrote, Succeeding
  <2>. QED
    BY <2>2, <2>3, <2>4, <2>5 DEF Withdrawn
<1>. QED
  BY <1>1, <1>2

LEMMA ShopWithdrawn ==
    ASSUME Types, Fresh, Withdrawn, Unsub, Heeds, ShopStep
    PROVE  Withdrawn'
<1>1. CASE \E c \in Choices : Chooses(c, "opted_in") \/ Chooses(c, "unsubscribed")
  BY <1>1, ChooseWithdrawn
<1>2. CASE ~ \E c \in Choices : Chooses(c, "opted_in") \/ Chooses(c, "unsubscribed")
  <2>1. UNCHANGED <<consent, latest, erased, effect, proc>>
    BY <1>2 DEF ShopStep, Submit, Redact, highlevel_capture_offer, Changes, OrderMoves,
       SwitchMarketing, JourneyAges, ShopOnly, ledgerVars, shopVars, flagVars
  <2>2. source'[latest] = source[latest]
    BY <1>2, LatestIs DEF Withdrawn, Unsub, ShopStep, Submit, Redact, highlevel_capture_offer,
       Changes, OrderMoves, SwitchMarketing, JourneyAges, shopVars, Types, Data
  <2>3. job'[Withdrawal].state = "succeeded" => job[Withdrawal].state = "succeeded"
    <3>1. ASSUME NEW j0 \in Jobs, Queued(j0)
          PROVE  job'[Withdrawal].state = "succeeded" => job[Withdrawal].state = "succeeded"
      <4>1. job' = [job EXCEPT ![j0] = [NoJob EXCEPT !.state = "queued"]]
        BY <3>1 DEF Queued, Queue, Fresh
      <4>2. [NoJob EXCEPT !.state = "queued"].state = "queued"
        BY DEF NoJob
      <4>3. Withdrawal \in Jobs
        BY LatestIs DEF Withdrawn, Unsub
      <4>. QED
        BY <4>1, <4>2, <4>3 DEF Types, Data
    <3>. QED
      BY <3>1, ShopQueues
  <2>. QED
    BY <2>1, <2>2, <2>3, SameEffects, WithdrawnStill DEF Steady, Settled
<1>. QED
  BY <1>1, <1>2

LEMMA FinishWithdrawn ==
    ASSUME Types, Withdrawn, Unsub, Heeds, NEW w \in Workers, finishJob(w)
    PROVE  Withdrawn'
<1>. w \in Procs
  BY ProcsAre
<1>1. /\ proc[w].at = "finishing" /\ Only(w) /\ proc'[w].at = "idle" /\ proc'[w].job = None
      /\ UNCHANGED <<consent, latest, erased, source, effect>>
  BY FinishMoves DEF finishJob, shopVars, ledgerVars
<1>2. Withdrawal \in Jobs
  BY LatestIs DEF Withdrawn, Unsub
<1>3. job'[Withdrawal].state = "succeeded" => Settled
  <2>1. CASE proc[w].job = Withdrawal /\ Held(w)
    <3>1. job'[Withdrawal].state \in {"retry", "dead_letter", proc[w].verdict}
      BY <2>1, FinishMoves
    <3>. QED
      BY <1>1, <2>1, <3>1 DEF Settled, Succeeding
  <2>2. CASE ~(proc[w].job = Withdrawal /\ Held(w))
    BY <1>2, <2>2, FinishMoves DEF Settled
  <2>. QED
    BY <2>1, <2>2
<1>4. Steady
  BY <1>1, <1>3, SameEffects DEF Steady
<1>5. Minds(w)
  BY <1>1, <1>2, NoneIsNoJob, NotAdmitting, MindsOther DEF Keyed, Stoppers
<1>. QED
  BY <1>1, <1>4, <1>5, WithdrawnOnly

LEMMA WorkWithdrawn ==
    ASSUME Types, Withdrawn, Unsub, Heeds, NEW w \in Workers,
           \/ getContact(w) \/ insertContact(w) \/ selectContact(w) \/ findContact(w)
           \/ upsert(w) \/ readContact(w) \/ commitSync(w) \/ loadContact(w) \/ lockEffects(w)
           \/ reconcileRemovedSource(w) \/ deleteNote(w) \/ cancelNote(w)
           \/ loadRetainedSource(w) \/ clearContact(w)
           \/ decideJourney(w) \/ offerFields(w)
           \/ searchOpportunity(w) \/ handOff(w) \/ (\E j \in Jobs : claimJobs(w, j))
    PROVE  Withdrawn'
<1>1. Minds(w)
  BY SyncMinds, RetireMinds, DecideMinds, EffectMinds, TakeMinds
<1>2. Only(w)
  BY GetMoves, FindMoves, UpsertMoves, ReadMoves, CommitMoves, LoadMoves, LockMoves,
     RetireMoves, NoteMoves,
     ClearMoves, DecideMoves, OfferMoves, SearchMoves, HandOffMoves, ClaimMoves
<1>3. UNCHANGED <<consent, latest, erased>>
  <2>1. CASE upsert(w) \/ clearContact(w)
    BY <2>1 DEF upsert, clearContact, shopVars, ledgerVars
  <2>2. ASSUME NEW j \in Jobs, claimJobs(w, j)
        PROVE  UNCHANGED <<consent, latest, erased>>
    BY <2>2 DEF claimJobs, shopVars, ledgerVars
  <2>3. CASE \/ getContact(w) \/ insertContact(w) \/ selectContact(w) \/ findContact(w)
             \/ readContact(w) \/ commitSync(w) \/ loadContact(w) \/ lockEffects(w)
    BY <2>3 DEF getContact, insertContact, selectContact, findContact, readContact, commitSync,
       loadContact, lockEffects, shopVars, ledgerVars
  <2>4. CASE \/ reconcileRemovedSource(w) \/ deleteNote(w) \/ cancelNote(w)
             \/ loadRetainedSource(w) \/ decideJourney(w) \/ offerFields(w)
             \/ searchOpportunity(w) \/ handOff(w)
    BY <2>4 DEF reconcileRemovedSource, deleteNote, cancelNote, loadRetainedSource,
       decideJourney, offerFields, searchOpportunity, handOff, shopVars, ledgerVars
  <2>. QED
    BY <2>1, <2>2, <2>3, <2>4
<1>4. source'[latest] = source[latest]
  <2>1. CASE handOff(w)
    BY <2>1, HandOffMoves, LatestIs DEF Withdrawn, Unsub, handOff, Entity, Types, Data
  <2>2. CASE ~handOff(w)
    BY <2>2 DEF getContact, insertContact, selectContact, findContact, upsert, readContact,
       commitSync, loadContact, lockEffects,
       reconcileRemovedSource, deleteNote, cancelNote, loadRetainedSource, clearContact,
       decideJourney, offerFields, searchOpportunity, claimJobs, shopVars
  <2>. QED
    BY <2>1, <2>2
<1>5. job'[Withdrawal].state = "succeeded" => job[Withdrawal].state = "succeeded"
  <2>1. ASSUME NEW j \in Jobs, claimJobs(w, j)
        PROVE  job'[Withdrawal].state = "succeeded" => job[Withdrawal].state = "succeeded"
    BY <2>1, LatestIs DEF Withdrawn, Unsub, claimJobs, Types, Data
  <2>2. CASE UNCHANGED job
    BY <2>2
  <2>. QED
    BY <2>1, <2>2 DEF getContact, insertContact, selectContact, findContact, upsert,
       readContact, commitSync, loadContact, lockEffects,
       reconcileRemovedSource, deleteNote, cancelNote, loadRetainedSource, clearContact,
       decideJourney, offerFields, searchOpportunity, handOff
<1>6. Fewer
  <2>1. CASE deleteNote(w) \/ cancelNote(w)
    BY <2>1, KeysMade DEF deleteNote, cancelNote, ledgerVars, Types, Data, Fewer, Runs, Running
  <2>2. CASE UNCHANGED effect
    BY <2>2, SameEffects
  <2>. QED
    BY <2>1, <2>2 DEF getContact, insertContact, selectContact, findContact, upsert,
       readContact, commitSync, loadContact, lockEffects,
       reconcileRemovedSource, loadRetainedSource, clearContact,
       decideJourney, offerFields, searchOpportunity, handOff, claimJobs, ledgerVars
<1>. QED
  BY <1>1, <1>2, <1>3, <1>4, <1>5, <1>6, WithdrawnOnly DEF Steady, Settled

LEMMA LedgerWithdrawn ==
    ASSUME Types, Withdrawn, Unsub, Heeds, NEW w \in Workers,
           durableEffect(w) \/ postEffect(w) \/ recordEffect(w)
    PROVE  Withdrawn'
<1>1. PICK k \in Keys : k = proc[w].key
  BY EffectMoves, PostMoves, RecordMoves DEF KeyFits
<1>2. Only(w) /\ proc[w].at \in Keyed /\ Minds(w) /\ w \in Procs
  BY EffectMoves, PostMoves, RecordMoves, AfterMoves, EffectMinds, ProcsAre
     DEF durableEffect, postEffect, recordEffect, Keyed
<1>3. UNCHANGED <<consent, latest, erased, source, job>>
  BY DEF durableEffect, postEffect, recordEffect, shopVars, ledgerVars
<1>4. Settled => Fewer
  <2>1. \A l \in Keys : l # k => effect'[l] = effect[l]
    BY <1>1 DEF durableEffect, postEffect, recordEffect, Unclaim, ledgerVars, Types, Data
  <2>2. Settled => k \notin Journeys
    BY <1>1, <1>2 DEF Withdrawn, Unsub, Settled, Admitting
  <2>. QED
    BY <2>1, <2>2, KeysMade DEF Fewer, Runs, Running
<1>. QED
  BY <1>2, <1>3, <1>4, WithdrawnOnly DEF Steady, Settled

LEMMA StopWithdrawn ==
    ASSUME Types, Withdrawn, Unsub, Heeds, NEW p \in Procs, stopJourney(p)
    PROVE  Withdrawn'
<1>1. UNCHANGED <<consent, latest, erased, source, job, effect>>
  BY DEF stopJourney, shopVars, ledgerVars
<1>. QED
  BY <1>1, SameEffects, StopMoves, StopMinds, WithdrawnOnly DEF Steady, Settled

LEMMA BeginWithdrawn ==
    ASSUME Types, Withdrawn, Unsub, Heeds, NEW p \in Procs,
           pauseMarketing(p) \/ deleteReviewedCrmCopy(p) \/ deleteContact(p)
    PROVE  Withdrawn'
<1>1. UNCHANGED <<consent, latest, erased, source, job, effect>>
  BY DEF pauseMarketing, deleteReviewedCrmCopy, deleteContact, shopVars, ledgerVars
<1>2. Withdrawal # None
  BY LatestIs, NoneIsNoJob DEF Withdrawn, Unsub
<1>3. Only(p) /\ Minds(p)
  <2>1. CASE deleteContact(p)
    BY <1>2, <2>1, EraseMoves, NotAdmitting, MindsOther DEF Keyed, Stoppers
  <2>2. CASE pauseMarketing(p) \/ deleteReviewedCrmCopy(p)
    <3>1. PICK to \in {"idle", "deleting"} :
            /\ proc[p].at = "idle" /\ proc' = [proc EXCEPT ![p] = Stopping(Idle, Journeys, to)]
            /\ UNCHANGED <<shopVars, job, ledgerVars, remoteVars, faults>>
      BY <2>2 DEF pauseMarketing, deleteReviewedCrmCopy
    <3>2. Only(p) /\ proc'[p].job = None /\ Halts(Idle, Journeys, to, proc'[p])
      BY <3>1, BeginMoves
    <3>3. ~Admitting(proc'[p])
      BY <3>2 DEF Halts, Reached, Stops, Admitting, Ending, Keyed, Stoppers
    <3>. QED
      BY <1>2, <3>2, <3>3, MindsOther
  <2>. QED
    BY <2>1, <2>2
<1>. QED
  BY <1>1, <1>3, SameEffects, WithdrawnOnly DEF Steady, Settled

LEMMA FaultWithdrawn ==
    ASSUME Types, Withdrawn, Unsub, Heeds, NEW p \in Procs,
           \/ CallRefused(p) \/ CallUnanswered(p) \/ DbFails(p) \/ LockTimesOut(p) \/ Crash(p)
           \/ PostUnanswered(p) /\ p \in Workers
    PROVE  Withdrawn'
<1>1. UNCHANGED <<consent, latest, erased, source, job>>
  BY DEF CallRefused, CallUnanswered, DbFails, LockTimesOut, Crash, PostUnanswered,
     shopVars, ledgerVars
<1>2. Fewer
  BY DEF CallRefused, CallUnanswered, DbFails, LockTimesOut, Crash, PostUnanswered, Unclaim,
     ledgerVars, Types, Data, Fewer, Runs, Running, Keys
<1>3. GivesUp(p)
  BY RefusedMoves, NoAnswerMoves, FailMoves, UnansweredMoves
<1>. QED
  BY <1>1, <1>2, <1>3, MindsFailing, WithdrawnOnly DEF Steady, Settled, GivesUp

LEMMA RowWithdrawn ==
    ASSUME Types, Withdrawn, Unsub, Heeds,
           \/ \E j \in Jobs : replayHighLevelJob(j) \/ LeaseExpires(j)
           \/ \E k \in Keys : resolveHighLevelEffect(k)
           \/ \E k \in inflight : LateCall(k)
           \/ \E c \in late : LateRepeatable(c)
    PROVE  Withdrawn'
<1>1. UNCHANGED <<consent, latest, erased, source, proc>>
  BY DEF replayHighLevelJob, LeaseExpires, resolveHighLevelEffect, LateCall, LateRepeatable,
     shopVars, ledgerVars
<1>2. Fewer
  <2>1. ASSUME NEW k \in Keys, resolveHighLevelEffect(k)
        PROVE  Fewer
    BY <2>1 DEF resolveHighLevelEffect, Types, Data, Fewer, Runs, Running
  <2>2. CASE UNCHANGED effect
    BY <2>2, SameEffects
  <2>. QED
    BY <2>1, <2>2 DEF replayHighLevelJob, LeaseExpires, LateCall, LateRepeatable, ledgerVars
<1>3. job'[Withdrawal].state = "succeeded" => job[Withdrawal].state = "succeeded"
  <2>1. ASSUME NEW j \in Jobs, replayHighLevelJob(j) \/ LeaseExpires(j)
        PROVE  job'[Withdrawal].state = "succeeded" => job[Withdrawal].state = "succeeded"
    <3>1. Withdrawal \in Jobs
      BY LatestIs DEF Withdrawn, Unsub
    <3>2. job[j] \in JobRecords
      BY DEF Types, Data
    <3>. QED
      BY <2>1, <3>1, <3>2 DEF replayHighLevelJob, LeaseExpires, Types, Data, JobRecords
  <2>2. CASE UNCHANGED job
    BY <2>2
  <2>. QED
    BY <2>1, <2>2 DEF resolveHighLevelEffect, LateCall, LateRepeatable
<1>. QED
  BY <1>1, <1>2, <1>3, WithdrawnStill DEF Steady, Settled

LEMMA NextWithdrawn ==
    ASSUME Types, Fresh, OneHolder, Single, Withdrawn, Next
    PROVE  Withdrawn'
<1>. Heeds
  BY NextHeeded
<1>1. CASE \E c \in Choices : Chooses(c, "opted_in") \/ Chooses(c, "unsubscribed")
  BY <1>1, ChooseWithdrawn
<1>2. CASE \E p \in Staff : tombstone(p)
  BY <1>2 DEF tombstone, Withdrawn
<1>3. CASE ~Unsub /\ UNCHANGED consent
  BY <1>3 DEF Unsub, Withdrawn
<1>4. CASE Unsub /\ ~ \E p \in Staff : tombstone(p)
  <2>1. CASE ShopStep
    BY <1>4, <2>1, ShopWithdrawn
  <2>2. CASE StaffStep
    BY <1>4, <2>2, BeginWithdrawn, RowWithdrawn, ProcsAre DEF StaffStep
  <2>3. ASSUME NEW w \in Workers, WorkerStep(w)
        PROVE  Withdrawn'
    BY <1>4, <2>3, FinishWithdrawn, WorkWithdrawn, LedgerWithdrawn, PutWithdrawn,
       ConsultWithdrawn DEF WorkerStep
  <2>4. ASSUME NEW w \in Workers,
               \/ \E j \in Jobs : claimJobs(w, j)
               \/ pauseMarketing(w) \/ PostUnanswered(w) \/ DbFails(w) \/ LockTimesOut(w)
        PROVE  Withdrawn'
    BY <1>4, <2>4, WorkWithdrawn, BeginWithdrawn, FaultWithdrawn, ProcsAre
  <2>5. ASSUME NEW p \in Procs, \/ stopJourney(p) \/ cancelJourney(p) \/ CallRefused(p)
                                \/ CallUnanswered(p) \/ Crash(p)
        PROVE  Withdrawn'
    BY <1>4, <2>5, StopWithdrawn, CancelWithdrawn, FaultWithdrawn
  <2>6. ASSUME \/ \E j \in Jobs : LeaseExpires(j)
               \/ \E k \in inflight : LateCall(k)
               \/ \E c \in late : LateRepeatable(c)
        PROVE  Withdrawn'
    BY <1>4, <2>6, RowWithdrawn
  <2>. QED
    BY <2>1, <2>2, <2>3, <2>4, <2>5, <2>6 DEF Next
<1>5. \/ UNCHANGED consent \/ (\E p \in Staff : tombstone(p))
      \/ \E c \in Choices : Chooses(c, "opted_in") \/ Chooses(c, "unsubscribed")
  <2>1. CASE ShopStep
    BY <2>1 DEF ShopStep, Submit, Redact, highlevel_capture_offer, Changes, OrderMoves,
       SwitchMarketing, JourneyAges, shopVars
  <2>2. CASE StaffStep
    BY <2>2 DEF StaffStep, deleteReviewedCrmCopy, deleteContact, replayHighLevelJob,
       resolveHighLevelEffect, shopVars
  <2>3. ASSUME NEW w \in Workers, WorkerStep(w)
        PROVE  UNCHANGED consent
    BY <2>3 DEF WorkerStep, finishJob, getContact, insertContact, selectContact, findContact,
       upsert, readContact, putContact, commitSync, loadContact, lockEffects, durableEffect,
       postEffect, recordEffect, searchOpportunity, consultConsent,
       decideJourney, offerFields, handOff, reconcileRemovedSource, deleteNote, cancelNote,
       loadRetainedSource, clearContact, shopVars
  <2>. QED
    BY <2>1, <2>2, <2>3 DEF Next, claimJobs, pauseMarketing, PostUnanswered, DbFails,
       LockTimesOut, stopJourney, cancelJourney, CallRefused, CallUnanswered, Crash,
       LeaseExpires, LateCall, LateRepeatable, shopVars
<1>. QED
  BY <1>1, <1>2, <1>3, <1>4, <1>5

-----------------------------------------------------------------------------
(* The invariant.                                                          *)

HighLevelInv == /\ Types /\ Fresh /\ Charged /\ Once /\ Known
                /\ OneHolder /\ Single /\ Covered /\ Withdrawn

LEMMA InitInv == Init => HighLevelInv
<1>. SUFFICES ASSUME Init
              PROVE  HighLevelInv
  OBVIOUS
<1>1. Types
  BY InitTypes
<1>2. \A p \in Procs : proc[p] = Idle
  BY DEF Init
<1>3. Idle.at = "idle" /\ Idle.job = None
  BY DEF Idle
<1>4. \A p \in Procs : proc[p].at = "idle" /\ proc[p].job = None
  BY <1>2, <1>3
<1>5. \A p \in Procs : ~Holds(proc[p]) /\ ~Erasing(proc[p])
  BY <1>4 DEF Holds, Erasing, Following, Stoppers
<1>6. Fresh
  BY <1>4, NoneIsNoJob DEF Init, Fresh
<1>7. Charged
  <2>1. \A j \in Jobs : job[j].state = "none" /\ job[j].attempts = 0
    BY DEF Init, NoJob
  <2>. QED
    BY <2>1, HighLevelAssumption DEF Charged, Init
<1>8. Once
  BY <1>4 DEF Init, Once, OnceFor, Posting
<1>9. OneHolder
  BY <1>5 DEF OneHolder
<1>10. Known
  BY <1>4, <1>5, HighLevelAssumption DEF Init, Known
<1>11. Single
  <2>1. Running(Journeys) = {}
    BY KeysMade DEF Init, Running
  <2>. QED
    BY <1>5, <2>1, IdleAllows DEF Single
<1>12. Covered /\ Withdrawn
  BY DEF Init, Covered, Withdrawn
<1>. QED
  BY <1>1, <1>6, <1>7, <1>8, <1>9, <1>10, <1>11, <1>12 DEF HighLevelInv

LEMMA StutterInv == ASSUME HighLevelInv, UNCHANGED vars PROVE HighLevelInv'
<1>. USE DEF HighLevelInv, vars, shopVars, flagVars, ledgerVars, remoteVars
<1>1. Types'
  BY ProcSame DEF Types, Data
<1>2. Fresh' /\ Charged' /\ Once'
  BY DEF Fresh, Charged, Once, OnceFor, Posting
<1>3. Known' /\ OneHolder'
  BY DEF Known, Erasing, OneHolder, Holds
<1>4. Single' /\ Covered'
  BY DEF Single, Allows, Left, Covered, Covers, Cancelling, Running
<1>5. Withdrawn'
  BY DEF Withdrawn, Withdrawal, Carries, Noted, Wrote, Succeeding, Admitting, Running
<1>. QED
  BY <1>1, <1>2, <1>3, <1>4, <1>5

(* The ledger has the key of every call that was, or may yet be, carried   *)
(* out; one worker at a time admits the contact to a journey; what         *)
(* HighLevel shows of the journeys is in the ledger; and what the job of a *)
(* withdrawal has done stays.                                              *)
THEOREM HighLevelInvariant == Spec => []HighLevelInv
<1>1. HighLevelInv /\ [Next]_vars => HighLevelInv'
  <2>. SUFFICES ASSUME HighLevelInv, [Next]_vars
                PROVE  HighLevelInv'
    OBVIOUS
  <2>1. CASE Next
    BY <2>1, NextTypes, NextFresh, NextCharged, NextOnce, NextKnown, NextSingle, NextCovered,
       NextWithdrawn DEF HighLevelInv
  <2>2. CASE UNCHANGED vars
    BY <2>2, StutterInv
  <2>. QED
    BY <2>1, <2>2
<1>. QED
  BY <1>1, InitInv, PTL DEF Spec

(* The state of the ledger, of the jobs and of the contact has its types,  *)
(* and no job has more attempts than the bound and the faults allow.       *)
THEOREM HighLevelTypes == Spec => []TypeOK
<1>1. HighLevelInv => TypeOK
  <2>. SUFFICES ASSUME HighLevelInv
                PROVE  TypeOK
    OBVIOUS
  <2>1. ASSUME NEW j \in Jobs
        PROVE  /\ job[j].state \in JobStates
               /\ job[j].attempts \in 0..(MaxAttempts + MaxFaults)
    <3>1. job[j].attempts <= MaxAttempts + faults
      BY Counts DEF HighLevelInv, Charged
    <3>2. faults <= MaxFaults /\ MaxFaults \in Nat /\ job[j].state \in JobStates
      BY HighLevelAssumption DEF HighLevelInv, Types, Data, JobRecords
    <3>. QED
      BY <3>1, <3>2, Counts DEF HighLevelInv
  <2>. QED
    BY <2>1 DEF HighLevelInv, Types, Data, TypeOK, Sources, JobStates, Remotes
<1>. QED
  BY <1>1, HighLevelInvariant, PTL

(* No note, deal, task or admission is carried out twice.                  *)
THEOREM HighLevelOnce == Spec => []EffectOnce
<1>1. HighLevelInv => EffectOnce
  BY DEF HighLevelInv, Once, OnceFor, EffectOnce
<1>. QED
  BY <1>1, HighLevelInvariant, PTL

(* A contact is in one journey at a time: each workflow it is in has a row *)
(* of its own that runs, and one row runs.                                 *)
THEOREM HighLevelOneJourney == Spec => []OneJourney
<1>1. HighLevelInv => OneJourney
  <2>. SUFFICES ASSUME HighLevelInv, stray = {}
                PROVE  ~(Cardinality(enrolled) > 1)
    BY DEF OneJourney
  <2>1. \A f, g \in enrolled : f = g
    BY DEF HighLevelInv, Covered, Covers, Single
  <2>2. CASE enrolled = {}
    BY <2>2, FS_EmptySet
  <2>3. CASE enrolled # {}
    <3>1. PICK f : enrolled = {f}
      BY <2>1, <2>3
    <3>. QED
      BY <3>1, FS_Singleton
  <2>. QED
    BY <2>2, <2>3
<1>. QED
  BY <1>1, HighLevelInvariant, PTL

(* When the job of a withdrawal is done, HighLevel may not mail the        *)
(* contact, whatever a worker that read the consent before, or a call that *)
(* arrives late, writes to it, and has it in no journey.                   *)
THEOREM HighLevelWithdrawal == Spec => []WithdrawalReaches
<1>1. HighLevelInv => WithdrawalReaches
  <2>. SUFFICES ASSUME HighLevelInv, consent = "unsubscribed", stray = {},
                       job[<<latest, "chosen">>].state = "succeeded"
                PROVE  (~eligible \/ dnd) /\ enrolled = {}
    BY DEF WithdrawalReaches
  <2>1. ~erased /\ Noted /\ Running(Journeys) = {}
    BY DEF HighLevelInv, Withdrawn, Withdrawal
  <2>2. ~eligible \/ dnd
    BY <2>1 DEF HighLevelInv, Known, Noted
  <2>3. enrolled = {}
    BY <2>1 DEF HighLevelInv, Covered, Covers
  <2>. QED
    BY <2>2, <2>3
<1>. QED
  BY <1>1, HighLevelInvariant, PTL

=============================================================================
