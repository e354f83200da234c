----------------------- MODULE ShippingOperationsProofs -----------------------
(***************************************************************************)
(* Proofs about one shipment, for any number of workers, polls, drafts and *)
(* faults.                                                                 *)
(***************************************************************************)
EXTENDS ShippingOperations, FiniteSetTheorems, TLAPS

-----------------------------------------------------------------------------
WorkerRecords == [at : Places, job : Jobs \cup {None}, unknown : BOOLEAN,
                  saw : Statuses, draft : Drafts \cup {None},
                  answer : CarrierStatuses, late : BOOLEAN]
JobRecords == [state : {"none", "queued", "processing", "retry", "done", "dead"},
               unknown : BOOLEAN, attempts : 0..MaxAttempts,
               owner : Workers \cup {None}, leaseOver : BOOLEAN]

-----------------------------------------------------------------------------
(* What a worker has in each place.                                        *)

(* On the way to the postage, with the shipment's draft.                   *)
OnWay == {"reloading", "refreshing", "selecting", "choosing", "funding", "intending"}
BuyPath == OnWay \cup {"buying"}
WithDraft == BuyPath \cup {"drafting", "checking", "saving", "refunding", "deleting"}
Creators == {"create", "purchase"}

(* The job that may create the carrier's draft.                            *)
Creator == IF flatRate THEN "purchase" ELSE "create"

Placed(x) ==
    /\ x.at = "idle" => x = Idle
    /\ x.at # "idle" => x.job \in Jobs /\ job[x.job].state # "none"
    /\ x.at \in BuyPath => x.job = "purchase" /\ draft # None
    /\ x.at = "creating" => ~x.unknown /\ x.job = Creator
    /\ x.at = "quoting" => x.job = "create" /\ draft # None
    /\ x.at = "drafting" => x.job \in Creators
    /\ x.at = "finding" => x.job \in Creators \cup Cleanups
    /\ x.at = "finding" /\ ~x.unknown /\ x.job \in Creators => draft # None
    /\ x.at = "checking" /\ x.job \in Creators => draft # None
    /\ x.at \in WithDraft => x.draft # None
    /\ x.draft # None => carrier[x.draft] # "none"
    /\ x.at = "saving" => x.answer \in DOMAIN EventRank
    /\ x.late => order = "lost"
    /\ x.at \in {"intending", "buying"} => ~x.late

(* A worker that knows the present version knows what was dispatched.      *)
Ending == {"retrying", "failing", "burying", "completing"}
Fresh(w) ==
    w \in seen /\ worker[w].at \notin Ending =>
        /\ worker[w].at \notin {"idle", "claimed", "reading"}
        /\ status \in DOMAIN Progress => worker[w].saw = status

Shared ==
    /\ draft # None => carrier[draft] # "none"
    /\ status = "none" => \A j \in Jobs : job[j].state = "none"
    /\ order \in {"none", "pending"} \/ status = "ready_for_staff" =>
          job["purchase"].state = "none"
    /\ job["create"].state # "none" => ~flatRate

(* A mutation that nobody may have made.                                   *)
Sure(w) == worker[w].at # "idle" /\ ~worker[w].unknown
Waiting(j) == job[j].state \in {"queued", "retry"} /\ ~job[j].unknown

Single ==
    \A j \in Creators :
        /\ \A w \in Workers : Sure(w) /\ My(w) = j => ~Waiting(j)
        /\ \A w, v \in Workers : Sure(w) /\ Sure(v) /\ My(w) = j /\ My(v) = j => w = v

Created == "create" \in inflight \/ \E d \in Drafts : carrier[d] # "none"
OneCreation ==
    /\ \A d, e \in Drafts : carrier[d] # "none" /\ carrier[e] # "none" => d = e
    /\ "create" \in inflight => \A d \in Drafts : carrier[d] = "none"
    /\ Created => job[Creator].state # "none"
    /\ \A w \in Workers : worker[w].at = "creating" => ~Created
    /\ Created /\ draft = None =>
          /\ ~Waiting(Creator)
          /\ \A w \in Workers :
                Sure(w) /\ My(w) = Creator =>
                    worker[w].at \notin {"claimed", "reading", "creating", "retrying"}

Committed == buys > 0 \/ \E w \in Workers : worker[w].at = "buying"

(* The holder of a purchase that may yet buy: it is on its way, or at its  *)
(* look at the shipment and sure that nobody has.                          *)
Ready(x) == \/ x.at \in OnWay \cup {"creating", "drafting", "finding"}
            \/ x.at \in {"claimed", "reading", "retrying", "checking"} /\ ~x.unknown
MayBuy(w) == My(w) = "purchase" /\ Holds(w) /\ Ready(worker[w])
OneBuyer ==
    /\ buys <= 1
    /\ \A w \in Workers : worker[w].at = "buying" =>
          buys = 0 /\ \A v \in Workers \ {w} : worker[v].at # "buying"
    /\ Committed =>
          /\ draft # None /\ job["purchase"].state # "none" /\ ~Waiting("purchase")
          /\ \A w \in Workers : ~MayBuy(w)

ShipInv ==
    /\ TypeOK
    /\ \A w \in Workers : Placed(worker[w]) /\ Fresh(w)
    /\ Shared /\ Single /\ OneCreation /\ OneBuyer

-----------------------------------------------------------------------------
(* The records.                                                            *)

LEMMA IdleIs == /\ Idle \in WorkerRecords /\ Idle.at = "idle" /\ Idle.job = None
                /\ Idle.draft = None /\ Idle.late = FALSE
BY DEF Idle, WorkerRecords, Places, Statuses, CarrierStatuses

LEMMA AtIs ==
    ASSUME NEW r \in WorkerRecords, NEW place \in Places
    PROVE  /\ At(r, place) \in WorkerRecords
           /\ At(r, place).at = place
           /\ At(r, place).job = r.job /\ At(r, place).unknown = r.unknown
           /\ place \in Ending => At(r, place).draft = None /\ At(r, place).late = FALSE
           /\ place \notin Ending =>
                 /\ At(r, place).saw = r.saw /\ At(r, place).draft = r.draft
                 /\ At(r, place).answer = r.answer /\ At(r, place).late = r.late
BY DEF At, Ending, Idle, WorkerRecords, Statuses, CarrierStatuses

LEMMA Domains ==
    /\ DOMAIN EventRank = {"unpaid", "requested", "failed", "ready", "travelling",
                           "delivered", "voided"}
    /\ DOMAIN Progress = {"purchase_pending", "label_ready", "travelling",
                          "refund_pending", "delivered", "voided"}
BY DEF EventRank, Progress

LEMMA NamesDiffer ==
    /\ {"create", "purchase", "refund", "expiryCleanup", "draftCleanup"} \subseteq Jobs
    /\ None \notin Jobs /\ \A j \in Polls : j \in Jobs /\ j \notin Mutating
BY JobsAssumption DEF Jobs, Mutating, Cleanups

-----------------------------------------------------------------------------
(* What a step keeps of the others.                                        *)

(* Nothing that was made is unmade.                                        *)
Grows ==
    /\ flatRate' = flatRate /\ (order = "lost" => order' = "lost")
    /\ draft' = draft \/ (draft = None /\ draft' \in Drafts /\ carrier'[draft'] # "none")
    /\ \A d \in Drafts : carrier[d] # "none" => carrier'[d] # "none"
    /\ \A j \in Jobs : job[j].state # "none" => job'[j].state # "none"

LEMMA PlacedStays ==
    ASSUME TypeOK, Grows, NEW w \in Workers, worker'[w] = worker[w], Placed(worker[w])
    PROVE  Placed(worker[w])'
BY ShippingAssumption DEF TypeOK, Grows, Placed, Creator

LEMMA FreshStays ==
    ASSUME NEW w \in Workers, Fresh(w), worker'[w] = worker[w], w \in seen' => w \in seen,
           w \in seen' /\ status' \in DOMAIN Progress => status' = status
    PROVE  Fresh(w)'
BY DEF Fresh

(* Nobody becomes sure of a mutation.                                      *)
LEMMA SingleStays ==
    ASSUME Single, \A j \in Creators : Waiting(j)' => Waiting(j),
           \A w \in Workers : Sure(w)' /\ My(w)' \in Creators => Sure(w) /\ My(w)' = My(w)
    PROVE  Single'
BY DEF Single

(* Nothing is created at the carrier.                                      *)
Creating == {"claimed", "reading", "creating", "retrying"}
LEMMA CreationStays ==
    ASSUME TypeOK, OneCreation, Grows, TypeOK',
           \A d \in Drafts : (carrier'[d] = "none") <=> (carrier[d] = "none"),
           "create" \in inflight' <=> "create" \in inflight,
           \A w \in Workers : worker'[w].at = "creating" =>
               worker[w].at = "creating" \/ ~Created,
           Waiting(Creator)' => Waiting(Creator) \/ draft' # None \/ ~Created,
           \A w \in Workers :
               Sure(w)' /\ My(w)' = Creator /\ worker'[w].at \in Creating =>
                   \/ Sure(w) /\ My(w) = Creator /\ worker[w].at \in Creating
                   \/ draft' # None \/ ~Created
    PROVE  OneCreation'
<1>1. Creator' = Creator /\ Creator \in Jobs
  BY NamesDiffer DEF Grows, Creator
<1>2. Created' <=> Created
  BY DEF Created
<1>3. draft' = None => draft = None
  BY DEF Grows
<1>. QED
  BY <1>1, <1>2, <1>3 DEF OneCreation, Creating, Grows

(* No postage is bought, and nobody comes closer to it.                    *)
LEMMA BuyerStays ==
    ASSUME TypeOK, OneBuyer, Grows, buys' = buys,
           \A w \in Workers : worker'[w].at = "buying" => worker[w].at = "buying",
           Waiting("purchase")' => Waiting("purchase") \/ ~Committed,
           \A w \in Workers : MayBuy(w)' => MayBuy(w) \/ ~Committed
    PROVE  OneBuyer'
<1>1. Committed' => Committed
  BY DEF Committed
<1>2. Committed' => draft' # None /\ job'["purchase"].state # "none"
  BY <1>1, NamesDiffer, ShippingAssumption DEF OneBuyer, Grows
<1>. QED
  BY <1>1, <1>2 DEF OneBuyer, MayBuy

-----------------------------------------------------------------------------
(* A worker with a job goes on to a place with it.                         *)

LEMMA WorkerGoes ==
    ASSUME ShipInv, TypeOK', Grows, NEW w \in Workers, worker[w].at # "idle",
           NEW y \in WorkerRecords, worker' = [worker EXCEPT ![w] = y],
           y.at \notin {"idle", "buying"}, y.job = My(w), worker[w].unknown => y.unknown,
           UNCHANGED <<order, buys, inflight>>, \A j \in Creators : job'[j] = job[j],
           \A d \in Drafts : (carrier'[d] = "none") <=> (carrier[d] = "none"),
           status' # "none", status' = "ready_for_staff" => status = "ready_for_staff",
           \A v \in seen' \ {w} :
               v \in seen /\ (status' \in DOMAIN Progress => status' = status),
           Placed(y)', Fresh(w)',
           y.at = "creating" => ~Created,
           y.at \in Creating /\ ~y.unknown /\ y.job = Creator =>
               worker[w].at \in Creating \/ draft' # None,
           y.job = "purchase" /\ Ready(y) => Ready(worker[w]) \/ draft = None
    PROVE  ShipInv'
<1>1. worker'[w] = y /\ \A v \in Workers \ {w} : worker'[v] = worker[v]
  BY DEF ShipInv, TypeOK
<1>2. Creator' = Creator /\ Creator \in Creators /\ Creators \subseteq Jobs
  BY NamesDiffer DEF Grows, Creator, Creators
<1>3. ASSUME NEW v \in Workers PROVE Placed(worker[v])' /\ Fresh(v)'
  <2>1. CASE v = w
    BY <1>1, <2>1
  <2>2. CASE v # w
    BY <1>1, <2>2, PlacedStays, FreshStays DEF ShipInv
  <2>. QED
    BY <2>1, <2>2
<1>4. Shared'
  <2>1. status # "none"
    BY <1>2, NamesDiffer DEF ShipInv, Shared, Placed
  <2>2. draft' # None => carrier'[draft'] # "none"
    BY DEF ShipInv, TypeOK, Shared, Grows
  <2>. QED
    BY <1>2, <2>1, <2>2, NamesDiffer DEF ShipInv, Shared, Creators, Grows
<1>5. \A v \in Workers : My(v)' = My(v) /\ (Sure(v)' => Sure(v))
  BY <1>1 DEF Sure, My
<1>6. \A j \in Creators : Waiting(j)' => Waiting(j)
  BY DEF Waiting
<1>7. Single'
  <2>1. \A v \in Workers : Sure(v)' /\ My(v)' \in Creators => Sure(v) /\ My(v)' = My(v)
    BY <1>5
  <2>. QED
    BY <1>6, <2>1, SingleStays DEF ShipInv
<1>8. OneCreation'
  <2>1. \A v \in Workers : worker'[v].at = "creating" => worker[v].at = "creating" \/ ~Created
    BY <1>1
  <2>2. ASSUME NEW v \in Workers, Sure(v)', My(v)' = Creator, worker'[v].at \in Creating
        PROVE  \/ Sure(v) /\ My(v) = Creator /\ worker[v].at \in Creating
               \/ draft' # None \/ ~Created
    BY <1>1, <1>5, <2>2 DEF Sure
  <2>. QED
    BY <1>2, <1>6, <2>1, <2>2, CreationStays DEF ShipInv
<1>9. OneBuyer'
  <2>1. \A v \in Workers : worker'[v].at = "buying" => worker[v].at = "buying"
    BY <1>1
  <2>2. draft = None => ~Committed
    BY DEF ShipInv, OneBuyer
  <2>3. ASSUME NEW v \in Workers, MayBuy(v)' PROVE MayBuy(v) \/ ~Committed
    BY <1>1, <2>2, <2>3 DEF MayBuy, Holds, Ready, Creators, My
  <2>. QED
    BY <1>6, <2>1, <2>3, BuyerStays DEF ShipInv, Creators
<1>. QED
  BY <1>3, <1>4, <1>7, <1>8, <1>9 DEF ShipInv

(* It has only to end the job.                                             *)
LEMMA WorkerToEnd ==
    ASSUME ShipInv, TypeOK', Grows, NEW w \in Workers, worker[w].at # "idle",
           NEW y \in WorkerRecords, worker' = [worker EXCEPT ![w] = y],
           y.at \in Ending, y.draft = None, y.late = FALSE,
           y.job = My(w), worker[w].unknown => y.unknown,
           UNCHANGED <<order, buys, inflight>>, \A j \in Creators : job'[j] = job[j],
           \A d \in Drafts : (carrier'[d] = "none") <=> (carrier[d] = "none"),
           status' # "none", status' = "ready_for_staff" => status = "ready_for_staff",
           \A v \in seen' \ {w} :
               v \in seen /\ (status' \in DOMAIN Progress => status' = status),
           y.at = "retrying" =>
               \/ y.unknown
               \/ worker[w].at \in OnWay \cup {"reading", "finding", "checking", "quoting"}
    PROVE  ShipInv'
<1>1. Placed(worker[w]) /\ worker'[w] = y
  BY DEF ShipInv, TypeOK
<1>2. Placed(y)'
  BY <1>1 DEF Placed, Grows, Ending, OnWay, BuyPath, WithDraft, My
<1>3. Fresh(w)'
  BY <1>1 DEF Fresh
<1>4. y.at # "creating"
  BY DEF Ending
<1>5. Creator \in Creators
  BY DEF Creator, Creators
<1>6. y.at \in Creating /\ ~y.unknown /\ y.job = Creator =>
          worker[w].at \in Creating \/ draft' # None
  BY <1>1, <1>5, ShippingAssumption DEF Ending, Creating, Placed, OnWay, BuyPath, My, Grows
<1>7. y.job = "purchase" /\ Ready(y) => Ready(worker[w])
  BY <1>1 DEF Ready, Ending, OnWay, Placed, My
<1>. QED
  BY <1>2, <1>3, <1>4, <1>6, <1>7, WorkerGoes DEF Ending

(* Only the worker moves, and what is known of the version may change.     *)
Quiet == /\ UNCHANGED <<quoteVars, status, draft, lastEvent, job, carrierVars>>
         /\ current' \in SUBSET Jobs /\ seen' \in SUBSET Workers /\ faults' \in 0..MaxFaults

LEMMA FaultIs ==
    ASSUME TypeOK, faults' = faults \/ Fault
    PROVE  faults' \in 0..MaxFaults
BY ShippingAssumption DEF TypeOK, Fault

LEMMA QuietTypes ==
    ASSUME TypeOK, Quiet, NEW w \in Workers, NEW y \in WorkerRecords,
           worker' = [worker EXCEPT ![w] = y]
    PROVE  TypeOK' /\ Grows
<1>. USE DEF quoteVars, carrierVars
<1>1. worker' \in [Workers -> WorkerRecords]
  BY DEF TypeOK, WorkerRecords
<1>2. TypeOK'
  BY <1>1 DEF TypeOK, Quiet, WorkerRecords
<1>. QED
  BY <1>2 DEF Quiet, Grows

LEMMA NotNone ==
    ASSUME ShipInv, NEW w \in Workers, worker[w].at # "idle"
    PROVE  status # "none" /\ My(w) \in Jobs
BY DEF ShipInv, Placed, Shared, My

LEMMA Moves ==
    ASSUME ShipInv, NEW w \in Workers, worker[w].at # "idle",
           NEW y \in WorkerRecords, worker' = [worker EXCEPT ![w] = y],
           Quiet, seen' \subseteq seen \cup {w},
           y.at \notin {"idle", "buying"}, y.job = My(w), y.unknown = worker[w].unknown,
           Placed(y),
           w \in seen' => /\ y.at \notin {"claimed", "reading"}
                          /\ status \in DOMAIN Progress => y.saw = status,
           y.at = "creating" => ~Created,
           y.at \in Creating /\ ~y.unknown /\ y.job = Creator =>
               worker[w].at \in Creating \/ draft # None,
           y.job = "purchase" /\ Ready(y) => Ready(worker[w]) \/ draft = None
    PROVE  ShipInv'
<1>1. TypeOK' /\ Grows /\ worker'[w] = y
  BY QuietTypes DEF ShipInv, TypeOK
<1>2. /\ UNCHANGED <<order, flatRate, status, draft, job, carrier, inflight, buys>>
  BY DEF Quiet, quoteVars, carrierVars
<1>3. Placed(y)'
  BY <1>2 DEF Placed, Creator
<1>4. Fresh(w)'
  BY <1>1, <1>2 DEF Fresh
<1>. QED
  BY <1>1, <1>2, <1>3, <1>4, NotNone, WorkerGoes

LEMMA Ends ==
    ASSUME ShipInv, NEW w \in Workers, worker[w].at # "idle",
           NEW y \in WorkerRecords, worker' = [worker EXCEPT ![w] = y],
           Quiet, seen' \subseteq seen \cup {w},
           y.at \in Ending, y.draft = None, y.late = FALSE,
           y.job = My(w), worker[w].unknown => y.unknown,
           y.at = "retrying" =>
               \/ y.unknown
               \/ worker[w].at \in OnWay \cup {"reading", "finding", "checking", "quoting"}
    PROVE  ShipInv'
<1>1. TypeOK' /\ Grows
  BY QuietTypes DEF ShipInv
<1>2. /\ UNCHANGED <<order, flatRate, status, draft, job, carrier, inflight, buys>>
  BY DEF Quiet, quoteVars, carrierVars
<1>. QED
  BY <1>1, <1>2, NotNone, WorkerToEnd

(* The same by the model's operators.                                      *)
LEMMA GoesToEnd ==
    ASSUME ShipInv, NEW w \in Workers, worker[w].at # "idle",
           NEW place \in Ending \ {"retrying"}, Goes(w, place), Quiet,
           seen' \subseteq seen \cup {w}
    PROVE  ShipInv'
<1>1. PICK x \in WorkerRecords : x = worker[w]
  BY DEF ShipInv, TypeOK, WorkerRecords
<1>. place \in Places /\ place \in Ending
  BY DEF Ending, Places
<1>2. PICK y \in WorkerRecords : y = At(x, place)
  BY AtIs
<1>3. worker' = [worker EXCEPT ![w] = y]
  BY <1>1, <1>2 DEF Goes
<1>4. y.at = place /\ y.job = My(w) /\ y.unknown = worker[w].unknown /\ y.draft = None
      /\ y.late = FALSE
  BY <1>1, <1>2, AtIs DEF My
<1>. QED
  BY <1>3, <1>4, Ends

LEMMA RetriesLater ==
    ASSUME ShipInv, NEW w \in Workers, worker[w].at # "idle",
           NEW u \in BOOLEAN, RetryLater(w, u), Quiet, seen' \subseteq seen \cup {w},
           u \/ worker[w].at \in OnWay \cup {"reading", "finding", "checking", "quoting"}
    PROVE  ShipInv'
<1>1. PICK x \in WorkerRecords : x = worker[w]
  BY DEF ShipInv, TypeOK, WorkerRecords
<1>2. PICK z \in WorkerRecords : z = [x EXCEPT !.unknown = x.unknown \/ u]
  BY <1>1 DEF WorkerRecords
<1>. "retrying" \in Places /\ "retrying" \in Ending
  BY DEF Ending, Places
<1>3. PICK y \in WorkerRecords : y = At(z, "retrying")
  BY AtIs
<1>4. worker' = [worker EXCEPT ![w] = y]
  BY <1>1, <1>2, <1>3 DEF RetryLater
<1>5. z.job = x.job /\ z.unknown = (x.unknown \/ u)
  BY <1>2 DEF WorkerRecords
<1>6. y.at = "retrying" /\ y.job = My(w) /\ y.unknown = z.unknown /\ y.draft = None
      /\ y.late = FALSE
  BY <1>1, <1>3, <1>5, AtIs DEF My
<1>. QED
  BY <1>1, <1>4, <1>5, <1>6, Ends DEF Ending

-----------------------------------------------------------------------------
(* The claim is over: the worker announces its mutation, reads, looks.     *)

LEMMA dispatchStep ==
    ASSUME ShipInv, NEW w \in Workers, dispatch(w)
    PROVE  ShipInv'
<1>1. PICK x \in WorkerRecords : x = worker[w]
  BY DEF ShipInv, TypeOK, WorkerRecords
<1>2. x.at = "reading" /\ Placed(x) /\ Quiet /\ x.job \in Jobs /\ x.job = My(w)
  BY <1>1 DEF dispatch, ShipInv, TypeOK, Quiet, Placed, processCreate, processPurchase,
              processTracking, processRefund, processDelete, Reads, My
<1>3. \/ processCreate(w) \/ processPurchase(w) \/ processTracking(w)
      \/ processRefund(w) \/ processDelete(w)
  BY DEF dispatch
<1>4. PICK place \in Places :
        /\ Reads(w, place)
        /\ \/ place \in {"fencing", "failing", "completing"}
           \/ place = "finding" /\ x.job \in Creators \cup Cleanups
                 /\ (x.job \in Creators => draft # None \/ x.unknown)
                 /\ (x.job = "purchase" => draft = None)
           \/ place = "creating" /\ x.job = Creator /\ ~x.unknown /\ draft = None
           \/ place = "refreshing" /\ x.job = "purchase" /\ draft # None /\ ~x.unknown
           \/ place = "checking" /\ draft # None /\ (x.job = "purchase" => x.unknown)
           \/ place = "refunding" /\ draft # None
  <2>. USE <1>1, <1>2 DEF Places, My, Creators, Cleanups
  <2>1. CASE processCreate(w)
    <3>1. ~flatRate
      BY <2>1 DEF processCreate, ShipInv, Shared, Placed
    <3>. QED
      BY <2>1, <3>1 DEF processCreate, Creator
  <2>2. CASE processPurchase(w)
    BY <2>2 DEF processPurchase, Creator
  <2>3. CASE processTracking(w)
    BY <2>3, NamesDiffer DEF processTracking, Mutating
  <2>4. CASE processRefund(w)
    BY <2>4 DEF processRefund
  <2>5. CASE processDelete(w)
    BY <2>5 DEF processDelete
  <2>. QED
    BY <1>3, <2>1, <2>2, <2>3, <2>4, <2>5
<1>5. PICK z \in WorkerRecords : z = [x EXCEPT !.saw = status, !.draft = draft]
  BY DEF WorkerRecords, ShipInv, TypeOK
<1>6. PICK y \in WorkerRecords : y = At(z, place)
  BY AtIs
<1>7. worker' = [worker EXCEPT ![w] = y] /\ seen' = seen \cup {w}
  BY <1>1, <1>4, <1>5, <1>6 DEF Reads
<1>8. /\ z.job = x.job /\ z.unknown = x.unknown /\ z.saw = status /\ z.draft = draft
      /\ z.late = x.late /\ z.answer = x.answer
  BY <1>5 DEF WorkerRecords
<1>9. y.at = place /\ y.job = x.job /\ y.unknown = x.unknown
  BY <1>6, <1>8, AtIs
<1>10. CASE place \in Ending
  <2>1. y.draft = None /\ y.late = FALSE
    BY <1>6, <1>10, AtIs
  <2>2. y.at # "retrying"
    BY <1>4, <1>9
  <2>. QED
    BY <1>1, <1>2, <1>7, <1>9, <1>10, <2>1, <2>2, Ends
<1>11. CASE place \notin Ending
  <2>1. y.saw = status /\ y.draft = draft /\ y.late = x.late
    BY <1>6, <1>8, <1>11, AtIs
  <2>2. Placed(y)
    <3>1. draft # None => carrier[draft] # "none"
      BY DEF ShipInv, Shared
    <3>2. x.job \in Jobs /\ job[x.job].state # "none" /\ (x.late => order = "lost")
      BY <1>2 DEF Placed
    <3>. QED
      BY <1>4, <1>9, <2>1, <3>1, <3>2
         DEF Placed, OnWay, BuyPath, WithDraft, Creators, Cleanups
  <2>3. place = "creating" => ~Created
    BY <1>1, <1>2, <1>4 DEF ShipInv, OneCreation, Sure, My
  <2>4. y.job = "purchase" /\ Ready(y) => Ready(worker[w]) \/ draft = None
    BY <1>1, <1>2, <1>4, <1>9 DEF Ready, OnWay, Cleanups
  <2>. QED
    BY <1>1, <1>2, <1>4, <1>7, <1>9, <2>1, <2>2, <2>3, <2>4, Moves DEF Creating
<1>. QED
  BY <1>10, <1>11

LEMMA GoesTo ==
    ASSUME TypeOK, NEW w \in Workers, NEW place \in Places, Goes(w, place)
    PROVE  \E y \in WorkerRecords :
               /\ worker' = [worker EXCEPT ![w] = y]
               /\ y.at = place /\ y.job = My(w) /\ y.unknown = worker[w].unknown
               /\ place \in Ending => y.draft = None /\ y.late = FALSE
               /\ place \notin Ending =>
                     /\ y.saw = worker[w].saw /\ y.draft = worker[w].draft
                     /\ y.answer = worker[w].answer /\ y.late = worker[w].late
<1>1. PICK x \in WorkerRecords : x = worker[w]
  BY DEF TypeOK, WorkerRecords
<1>2. PICK y \in WorkerRecords : y = At(x, place)
  BY AtIs
<1>3. worker' = [worker EXCEPT ![w] = y]
  BY <1>1, <1>2 DEF Goes
<1>4. /\ y.at = place /\ y.job = x.job /\ y.unknown = x.unknown
      /\ place \in Ending => y.draft = None /\ y.late = FALSE
      /\ place \notin Ending => /\ y.saw = x.saw /\ y.draft = x.draft
                                /\ y.answer = x.answer /\ y.late = x.late
  BY <1>2, AtIs
<1>. QED
  BY <1>1, <1>3, <1>4 DEF My

LEMMA RetryIs ==
    ASSUME TypeOK, NEW w \in Workers, RetryLater(w, TRUE)
    PROVE  \E y \in WorkerRecords :
               /\ worker' = [worker EXCEPT ![w] = y]
               /\ y.at = "retrying" /\ y.at \in Ending /\ y.job = My(w) /\ y.unknown
               /\ y.draft = None /\ y.late = FALSE
<1>1. PICK x \in WorkerRecords : x = worker[w]
  BY DEF TypeOK, WorkerRecords
<1>2. PICK z \in WorkerRecords : z = [x EXCEPT !.unknown = x.unknown \/ TRUE]
  BY DEF WorkerRecords
<1>. "retrying" \in Places /\ "retrying" \in Ending
  BY DEF Ending, Places
<1>3. PICK y \in WorkerRecords : y = At(z, "retrying")
  BY AtIs
<1>4. worker' = [worker EXCEPT ![w] = y]
  BY <1>1, <1>2, <1>3 DEF RetryLater
<1>5. z.job = x.job /\ z.unknown
  BY <1>2 DEF WorkerRecords
<1>6. y.at = "retrying" /\ y.job = My(w) /\ y.unknown = z.unknown /\ y.draft = None
      /\ y.late = FALSE
  BY <1>1, <1>3, <1>5, AtIs DEF My
<1>. QED
  BY <1>4, <1>5, <1>6

LEMMA ReadsTo ==
    ASSUME TypeOK, NEW w \in Workers, NEW place \in Places, Reads(w, place)
    PROVE  /\ seen' = seen \cup {w}
           /\ \E y \in WorkerRecords :
               /\ worker' = [worker EXCEPT ![w] = y]
               /\ y.at = place /\ y.job = My(w) /\ y.unknown = worker[w].unknown
               /\ place \in Ending => y.draft = None /\ y.late = FALSE
               /\ place \notin Ending =>
                     /\ y.saw = status /\ y.draft = draft
                     /\ y.answer = worker[w].answer /\ y.late = worker[w].late
<1>1. PICK x \in WorkerRecords : x = worker[w]
  BY DEF TypeOK, WorkerRecords
<1>2. PICK z \in WorkerRecords : z = [x EXCEPT !.saw = status, !.draft = draft]
  BY DEF WorkerRecords, TypeOK
<1>3. PICK y \in WorkerRecords : y = At(z, place)
  BY AtIs
<1>4. worker' = [worker EXCEPT ![w] = y] /\ seen' = seen \cup {w}
  BY <1>1, <1>2, <1>3 DEF Reads
<1>5. /\ z.job = x.job /\ z.unknown = x.unknown /\ z.saw = status /\ z.draft = draft
      /\ z.late = x.late /\ z.answer = x.answer
  BY <1>2 DEF WorkerRecords
<1>6. /\ y.at = place /\ y.job = z.job /\ y.unknown = z.unknown
      /\ place \in Ending => y.draft = None /\ y.late = FALSE
      /\ place \notin Ending => /\ y.saw = z.saw /\ y.draft = z.draft
                                /\ y.answer = z.answer /\ y.late = z.late
  BY <1>3, AtIs
<1>. QED
  BY <1>1, <1>4, <1>5, <1>6 DEF My

LEMMA AnsweredTo ==
    ASSUME TypeOK, NEW w \in Workers, NEW place \in Places, Answered(w, place),
           worker[w].draft \in Drafts
    PROVE  \E y \in WorkerRecords :
               /\ worker' = [worker EXCEPT ![w] = y]
               /\ y.at = place /\ y.job = My(w)
               /\ y.unknown = (worker[w].unknown \/ place = "retrying")
               /\ place \in Ending => y.draft = None /\ y.late = FALSE
               /\ place \notin Ending => /\ y.saw = worker[w].saw /\ y.draft = worker[w].draft
                                         /\ y.late = worker[w].late
               /\ place = "saving" => y.answer = carrier[worker[w].draft]
<1>1. PICK x \in WorkerRecords : x = worker[w]
  BY DEF TypeOK, WorkerRecords
<1>2. PICK a \in CarrierStatuses :
          a = IF place = "saving" THEN carrier[worker[w].draft] ELSE "none"
  BY DEF TypeOK, CarrierStatuses
<1>3. PICK z \in WorkerRecords :
          z = [x EXCEPT !.answer = a, !.unknown = x.unknown \/ place = "retrying"]
  BY DEF WorkerRecords
<1>4. PICK y \in WorkerRecords : y = At(z, place)
  BY AtIs
<1>5. worker' = [worker EXCEPT ![w] = y]
  BY <1>1, <1>2, <1>3, <1>4 DEF Answered
<1>6. /\ z.job = x.job /\ z.unknown = (x.unknown \/ place = "retrying") /\ z.saw = x.saw
      /\ z.draft = x.draft /\ z.late = x.late /\ z.answer = a
  BY <1>3 DEF WorkerRecords
<1>7. /\ y.at = place /\ y.job = z.job /\ y.unknown = z.unknown
      /\ place \in Ending => y.draft = None /\ y.late = FALSE
      /\ place \notin Ending => /\ y.saw = z.saw /\ y.draft = z.draft
                                /\ y.answer = z.answer /\ y.late = z.late
  BY <1>4, AtIs
<1>. QED
  BY <1>1, <1>2, <1>5, <1>6, <1>7 DEF My, Ending

-----------------------------------------------------------------------------
(* A worker rests: it is done, it gives up or it is gone.                  *)
LEMMA WorkerRests ==
    ASSUME ShipInv, Grows, TypeOK', NEW w \in Workers, worker[w].at # "idle", Rests(w),
           UNCHANGED <<order, carrier, inflight, buys>>, w \notin seen', seen' \subseteq seen,
           status' = status \/ (status' = "manual_review" /\ seen' = {}),
           \A j \in Jobs : job[j].state = "none" => job'[j].state = "none",
           \A j \in Creators : Waiting(j)' => \/ Waiting(j)
                                              \/ /\ j = My(w) /\ Holds(w) /\ Sure(w)
                                                 /\ worker[w].at = "retrying",
           \A v \in Workers \ {w} : My(v) = "purchase" /\ Holds(v)' => Holds(v)
    PROVE  ShipInv'
<1>1. worker'[w] = Idle /\ \A v \in Workers \ {w} : worker'[v] = worker[v]
  BY DEF ShipInv, TypeOK, Rests
<1>2. Creator' = Creator /\ Creator \in Creators /\ Creators \subseteq Jobs
  BY NamesDiffer DEF Grows, Creator, Creators
<1>3. ASSUME NEW v \in Workers PROVE Placed(worker[v])' /\ Fresh(v)'
  <2>1. CASE v = w
    <3>1. Fresh(v)'
      BY <2>1 DEF Fresh
    <3>2. Placed(Idle)'
      BY DEF Placed, Idle, BuyPath, OnWay, WithDraft
    <3>. QED
      BY <1>1, <2>1, <3>1, <3>2
  <2>2. CASE v # w
    <3>1. v \in seen' => v \in seen /\ status' = status
      OBVIOUS
    <3>. QED
      BY <1>1, <2>2, <3>1, PlacedStays, FreshStays DEF ShipInv
  <2>. QED
    BY <2>1, <2>2
<1>4. Shared'
  BY NotNone, NamesDiffer DEF ShipInv, Shared, Creators, Grows, TypeOK
<1>5. \A v \in Workers : Sure(v)' => v # w /\ Sure(v)
  BY <1>1, IdleIs DEF Sure
<1>6. \A v \in Workers \ {w} : My(v)' = My(v)
  BY <1>1 DEF My
<1>7. Single'
  <2>1. ASSUME NEW j \in Creators, NEW v \in Workers, Sure(v)', My(v)' = j PROVE ~Waiting(j)'
    <3>1. v # w /\ Sure(v) /\ My(v) = j
      BY <1>5, <1>6, <2>1
    <3>2. ~Waiting(j)
      BY <3>1 DEF ShipInv, Single
    <3>3. ~(j = My(w) /\ Sure(w))
      BY <3>1 DEF ShipInv, Single
    <3>. QED
      BY <3>2, <3>3
  <2>2. ASSUME NEW j \in Creators, NEW v \in Workers, NEW u \in Workers,
               Sure(v)', Sure(u)', My(v)' = j, My(u)' = j
        PROVE  v = u
    <3>1. v # w /\ Sure(v) /\ My(v) = j /\ u # w /\ Sure(u) /\ My(u) = j
      BY <1>5, <1>6, <2>2
    <3>. QED
      BY <3>1 DEF ShipInv, Single
  <2>. QED
    BY <2>1, <2>2 DEF Single
<1>8. OneCreation'
  <2>1. \A v \in Workers : worker'[v].at = "creating" => worker[v].at = "creating"
    BY <1>1, IdleIs
  <2>2. Waiting(Creator)' => Waiting(Creator) \/ draft' # None \/ ~Created
    BY <1>2 DEF ShipInv, OneCreation, Creating, Grows
  <2>3. ASSUME NEW v \in Workers, Sure(v)', My(v)' = Creator, worker'[v].at \in Creating
        PROVE  Sure(v) /\ My(v) = Creator /\ worker[v].at \in Creating
    BY <1>1, <1>5, <1>6, <2>3
  <2>. QED
    BY <2>1, <2>2, <2>3, CreationStays DEF ShipInv
<1>9. OneBuyer'
  <2>1. \A v \in Workers : worker'[v].at = "buying" => worker[v].at = "buying"
    BY <1>1, IdleIs
  <2>2. Waiting("purchase")' => Waiting("purchase") \/ ~Committed
    <3>1. ASSUME My(w) = "purchase", Holds(w), Sure(w), worker[w].at = "retrying"
          PROVE  MayBuy(w)
      BY <3>1 DEF MayBuy, Ready, Sure
    <3>. QED
      BY <3>1 DEF ShipInv, OneBuyer, Creators
  <2>3. ASSUME NEW v \in Workers, MayBuy(v)' PROVE MayBuy(v)
    <3>1. v # w
      BY <1>1, <2>3, IdleIs, NamesDiffer DEF MayBuy, My
    <3>. QED
      BY <1>1, <2>3, <3>1 DEF MayBuy, My
  <2>. QED
    BY <2>1, <2>2, <2>3, BuyerStays DEF ShipInv
<1>. QED
  BY <1>3, <1>4, <1>7, <1>8, <1>9 DEF ShipInv

LEMMA intentStep ==
    ASSUME ShipInv, NEW w \in Workers, markShipmentMutationIntent(w)
    PROVE  ShipInv'
<1>. USE DEF quoteVars, shipVars, carrierVars
<1>1. /\ worker[w].at = "claimed" /\ w \notin seen /\ Placed(worker[w])
      /\ UNCHANGED <<quoteVars, shipVars, job, carrierVars, faults>>
  BY DEF markShipmentMutationIntent, ShipInv, Fresh, Ending
<1>2. Quiet
  BY <1>1 DEF Quiet, ShipInv, TypeOK
<1>3. CASE Goes(w, "reading")
  <2>1. "reading" \in Places /\ "reading" \notin Ending
    BY DEF Places, Ending
  <2>2. PICK y \in WorkerRecords :
            /\ worker' = [worker EXCEPT ![w] = y]
            /\ y.at = "reading" /\ y.job = My(w) /\ y.unknown = worker[w].unknown
            /\ y.draft = worker[w].draft /\ y.late = worker[w].late
    BY <1>3, <2>1, GoesTo DEF ShipInv
  <2>3. Placed(y)
    BY <1>1, <2>2 DEF Placed, OnWay, BuyPath, WithDraft, My
  <2>. QED
    BY <1>1, <1>2, <2>2, <2>3, Moves DEF Creating, Ready, OnWay
<1>4. CASE Rests(w)
  <2>1. TypeOK' /\ Grows
    BY <1>2, <1>4, IdleIs, QuietTypes DEF ShipInv, Rests
  <2>2. \A j \in Creators : Waiting(j)' => Waiting(j)
    BY <1>1 DEF Waiting
  <2>3. \A v \in Workers \ {w} : Holds(v)' => Holds(v)
    BY <1>1, <1>4 DEF Holds, My, Rests, ShipInv, TypeOK
  <2>. QED
    BY <1>1, <1>4, <2>1, <2>2, <2>3, WorkerRests
<1>. QED
  BY <1>3, <1>4 DEF markShipmentMutationIntent

LEMMA reconcileStep ==
    ASSUME ShipInv, NEW w \in Workers, reconcileCreate(w)
    PROVE  ShipInv'
<1>. USE DEF quoteVars, shipVars, carrierVars
<1>1. /\ worker[w].at = "finding" /\ Placed(worker[w]) /\ Quiet /\ seen' = seen
      /\ UNCHANGED status
  BY DEF reconcileCreate, ShipInv, Quiet, TypeOK
<1>2. CASE Goes(w, "completing") \/ Goes(w, "failing")
  BY <1>1, <1>2, GoesToEnd DEF Ending
<1>3. CASE RetryLater(w, TRUE)
  BY <1>1, <1>3, RetriesLater
<1>4. ASSUME NEW d \in Existing,
             worker' = [worker EXCEPT ![w].at = IF My(w) \in Cleanups THEN "checking"
                                                                      ELSE "drafting",
                                      ![w].draft = d]
      PROVE  ShipInv'
  <2>1. PICK x \in WorkerRecords : x = worker[w]
    BY DEF ShipInv, TypeOK, WorkerRecords
  <2>2. PICK p \in Places : p = IF My(w) \in Cleanups THEN "checking" ELSE "drafting"
    BY DEF Places
  <2>3. d \in Drafts /\ carrier[d] # "none"
    BY DEF Existing
  <2>4. PICK y \in WorkerRecords : y = [x EXCEPT !.at = p, !.draft = d]
    BY <2>3 DEF WorkerRecords
  <2>5. worker' = [worker EXCEPT ![w] = y]
    BY <1>4, <2>1, <2>2, <2>4 DEF ShipInv, TypeOK
  <2>6. y.at = p /\ y.draft = d /\ y.job = x.job /\ y.unknown = x.unknown /\ y.saw = x.saw
        /\ y.late = x.late
    BY <2>4 DEF WorkerRecords
  <2>7. Placed(y)
    BY <1>1, <2>1, <2>2, <2>3, <2>6, ShippingAssumption
       DEF Placed, My, Creators, Cleanups, OnWay, BuyPath, WithDraft
  <2>8. w \in seen => (status \in DOMAIN Progress => y.saw = status)
    BY <1>1, <2>1, <2>6 DEF ShipInv, Fresh, Ending
  <2>. QED
    BY <1>1, <2>1, <2>2, <2>5, <2>6, <2>7, <2>8, Moves DEF Creating, Ready, OnWay, My, Cleanups
<1>. QED
  BY <1>2, <1>3, <1>4 DEF reconcileCreate

(* A look at the shipment, on its own or as a refresh.                     *)
LEMMA LookSteps ==
    ASSUME ShipInv, NEW w \in Workers, RefreshShipment(w) \/ GetShipment(w)
    PROVE  ShipInv'
<1>. USE DEF quoteVars, shipVars, carrierVars
<1>1. PICK x \in WorkerRecords : x = worker[w]
  BY DEF ShipInv, TypeOK, WorkerRecords
<1>2. /\ x.at \in {"refreshing", "checking"} /\ Placed(x) /\ Quiet /\ seen' = seen
      /\ x.job = My(w) /\ worker[w].at # "idle"
  BY <1>1 DEF RefreshShipment, GetShipment, ShipInv, Quiet, TypeOK, My
<1>3. x.draft \in Drafts /\ carrier[x.draft] \in CarrierStatuses \ {"none"}
  BY <1>2, ShippingAssumption
     DEF WorkerRecords, Placed, BuyPath, OnWay, WithDraft, ShipInv, TypeOK
<1>4. PICK place \in Places :
        /\ Answered(w, place)
        /\ \/ place \in {"completing", "failing", "retrying"}
           \/ place = "deleting"
           \/ place = "saving" /\ carrier[x.draft] # "deleted"
           \/ place = "selecting" /\ x.at = "refreshing"
  <2>1. CASE RefreshShipment(w)
    BY <1>1, <1>3, <2>1 DEF RefreshShipment, classifyProviderPurchaseAction, Places
  <2>2. CASE GetShipment(w)
    <3>1. x.at = "checking"
      BY <1>1, <2>2 DEF GetShipment
    <3>. QED
      BY <1>1, <1>3, <2>2, <3>1 DEF GetShipment, classifyProviderPurchaseAction, Places
  <2>. QED
    BY <2>1, <2>2
<1>5. PICK y \in WorkerRecords :
        /\ worker' = [worker EXCEPT ![w] = y]
        /\ y.at = place /\ y.job = My(w)
        /\ y.unknown = (worker[w].unknown \/ place = "retrying")
        /\ place \in Ending => y.draft = None /\ y.late = FALSE
        /\ place \notin Ending => /\ y.saw = worker[w].saw /\ y.draft = worker[w].draft
                                  /\ y.late = worker[w].late
        /\ place = "saving" => y.answer = carrier[worker[w].draft]
  <2>1. worker[w].draft \in Drafts /\ TypeOK
    BY <1>1, <1>3 DEF ShipInv
  <2>. QED
    BY <1>4, <2>1, AnsweredTo
<1>6. CASE place \in Ending
  BY <1>1, <1>2, <1>5, <1>6, Ends
<1>7. CASE place \notin Ending
  <2>1. Placed(y)
    BY <1>1, <1>2, <1>3, <1>4, <1>5, <1>7, Domains
       DEF Placed, Ending, OnWay, BuyPath, WithDraft, CarrierStatuses
  <2>2. w \in seen => (status \in DOMAIN Progress => y.saw = status)
    BY <1>1, <1>2, <1>5, <1>7 DEF ShipInv, Fresh, Ending
  <2>3. y.at \in {"deleting", "saving", "selecting"} /\ (Ready(y) => Ready(worker[w]))
    BY <1>1, <1>4, <1>5, <1>7 DEF Ending, Ready, OnWay
  <2>4. y.unknown = worker[w].unknown
    BY <1>1, <1>5, <1>7 DEF Ending, WorkerRecords
  <2>. QED
    BY <1>1, <1>2, <1>5, <1>7, <2>4, <2>1, <2>2, <2>3, Moves DEF Creating
<1>. QED
  BY <1>6, <1>7

LEMMA FailingReads ==
    ASSUME ShipInv, NEW w \in Workers, ReadFails(w) \/ OperationFails(w)
    PROVE  ShipInv'
<1>. USE DEF quoteVars, shipVars, carrierVars
<1>1. Quiet /\ seen' = seen
  BY FaultIs DEF ReadFails, OperationFails, Quiet, ShipInv, TypeOK
<1>2. CASE ReadFails(w)
  <2>1. worker[w].at \in {"finding", "checking", "refreshing"}
    BY <1>2 DEF ReadFails
  <2>2. CASE Goes(w, "failing")
    BY <1>1, <2>1, <2>2, GoesToEnd DEF Ending
  <2>3. CASE RetryLater(w, worker[w].at = "refreshing")
    BY <1>1, <2>1, <2>3, RetriesLater DEF OnWay
  <2>. QED
    BY <1>2, <2>2, <2>3 DEF ReadFails
<1>3. CASE OperationFails(w)
  <2>1. /\ RetryLater(w, FALSE)
        /\ worker[w].at \in {"reading", "quoting", "selecting", "choosing", "funding",
                             "intending"}
    BY <1>3 DEF OperationFails
  <2>. QED
    BY <1>1, <2>1, RetriesLater DEF OnWay
<1>. QED
  BY <1>2, <1>3

(* The shipment is read again on the way.                                  *)
LEMMA ReadAgainSteps ==
    ASSUME ShipInv, NEW w \in Workers,
           requireShipment(w) \/ ChooseRate(w) \/ getShipmentForOperation(w)
    PROVE  ShipInv'
<1>. USE DEF quoteVars, shipVars, carrierVars
<1>1. PICK x \in WorkerRecords : x = worker[w]
  BY DEF ShipInv, TypeOK, WorkerRecords
<1>2. /\ x.at \in {"reloading", "choosing", "failing"} /\ Placed(x) /\ x.job = My(w)
  BY <1>1 DEF requireShipment, ChooseRate, getShipmentForOperation, ShipInv, My
<1>3. PICK place \in {"failing", "refreshing", "funding", "fencing", "marking"} :
        /\ Reads(w, place)
        /\ UNCHANGED faults \/ Fault
        /\ UNCHANGED <<quoteVars, status, draft, lastEvent, current, job, carrierVars>>
        /\ place \in {"refreshing", "funding"} => x.at \in OnWay
  BY <1>1 DEF requireShipment, ChooseRate, getShipmentForOperation, OnWay
<1>4. TypeOK /\ place \in Places
  BY DEF ShipInv, Places
<1>5. PICK y \in WorkerRecords :
        /\ worker' = [worker EXCEPT ![w] = y]
        /\ y.at = place /\ y.job = My(w) /\ y.unknown = worker[w].unknown
        /\ place \in Ending => y.draft = None /\ y.late = FALSE
        /\ place \notin Ending =>
              /\ y.saw = status /\ y.draft = draft
              /\ y.answer = worker[w].answer /\ y.late = worker[w].late
  BY <1>3, <1>4, ReadsTo
<1>6. seen' = seen \cup {w}
  BY <1>3, <1>4, ReadsTo
<1>7. Quiet
  BY <1>3, <1>6, FaultIs DEF Quiet, ShipInv, TypeOK
<1>8. worker[w].at # "idle"
  BY <1>1, <1>2
<1>9. CASE place = "failing"
  BY <1>5, <1>6, <1>7, <1>8, <1>9, Ends DEF Ending
<1>10. CASE place # "failing"
  <2>1. /\ y.saw = status /\ y.draft = draft /\ y.late = x.late
        /\ y.job = x.job /\ y.unknown = x.unknown
    BY <1>1, <1>2, <1>3, <1>5, <1>10 DEF Ending
  <2>2. draft # None => carrier[draft] # "none"
    BY DEF ShipInv, Shared
  <2>3. Placed(y)
    BY <1>2, <1>3, <1>5, <2>1, <2>2 DEF Placed, OnWay, BuyPath, WithDraft
  <2>4. Ready(y) => Ready(worker[w])
    BY <1>1, <1>3, <1>5 DEF Ready, OnWay
  <2>. QED
    BY <1>3, <1>5, <1>6, <1>7, <1>8, <2>1, <2>3, <2>4, Moves DEF Creating
<1>. QED
  BY <1>9, <1>10

LEMMA refreshedQuoteStep ==
    ASSUME ShipInv, NEW w \in Workers, persistRefreshedProviderQuote(w)
    PROVE  ShipInv'
<1>. USE DEF quoteVars, carrierVars
<1>1. /\ worker[w].at = "selecting" /\ Placed(worker[w]) /\ seen' \subseteq seen \cup {w}
      /\ Quiet
  BY DEF persistRefreshedProviderQuote, Bump, Quiet, ShipInv, TypeOK
<1>2. CASE Goes(w, "failing")
  BY <1>1, <1>2, GoesToEnd DEF Ending
<1>3. CASE RetryLater(w, TRUE)
  BY <1>1, <1>3, RetriesLater
<1>4. CASE w \in seen /\ Goes(w, "choosing")
  <2>1. "choosing" \in Places /\ "choosing" \notin Ending
    BY DEF Places, Ending
  <2>2. PICK y \in WorkerRecords :
            /\ worker' = [worker EXCEPT ![w] = y]
            /\ y.at = "choosing" /\ y.job = My(w) /\ y.unknown = worker[w].unknown
            /\ y.saw = worker[w].saw /\ y.draft = worker[w].draft /\ y.late = worker[w].late
    BY <1>4, <2>1, GoesTo DEF ShipInv
  <2>3. Placed(y)
    BY <1>1, <2>2 DEF Placed, OnWay, BuyPath, WithDraft, My
  <2>4. status \in DOMAIN Progress => y.saw = status
    BY <1>1, <1>4, <2>2 DEF ShipInv, Fresh, Ending
  <2>. QED
    BY <1>1, <2>2, <2>3, <2>4, Moves DEF Creating, Ready, OnWay
<1>. QED
  BY <1>2, <1>3, <1>4 DEF persistRefreshedProviderQuote

LEMMA fundingStep ==
    ASSUME ShipInv, NEW w \in Workers, recheckShipmentPurchaseFunding(w)
    PROVE  ShipInv'
<1>. USE DEF quoteVars, shipVars, carrierVars
<1>1. /\ worker[w].at = "funding" /\ Placed(worker[w]) /\ seen' = seen /\ Quiet
  BY DEF recheckShipmentPurchaseFunding, Quiet, ShipInv, TypeOK
<1>2. CASE Goes(w, "failing")
  BY <1>1, <1>2, GoesToEnd DEF Ending
<1>3. CASE order = "paid" /\ Goes(w, "intending")
  <2>1. "intending" \in Places /\ "intending" \notin Ending
    BY DEF Places, Ending
  <2>2. PICK y \in WorkerRecords :
            /\ worker' = [worker EXCEPT ![w] = y]
            /\ y.at = "intending" /\ y.job = My(w) /\ y.unknown = worker[w].unknown
            /\ y.saw = worker[w].saw /\ y.draft = worker[w].draft /\ y.late = worker[w].late
    BY <1>3, <2>1, GoesTo DEF ShipInv
  <2>3. Placed(y)
    BY <1>1, <1>3, <2>2 DEF Placed, OnWay, BuyPath, WithDraft, My, WorkerRecords
  <2>4. w \in seen => (status \in DOMAIN Progress => y.saw = status)
    BY <1>1, <2>2 DEF ShipInv, Fresh, Ending
  <2>. QED
    BY <1>1, <2>2, <2>3, <2>4, Moves DEF Creating, Ready, OnWay
<1>. QED
  BY <1>2, <1>3 DEF recheckShipmentPurchaseFunding

-----------------------------------------------------------------------------
(* Steps that write the shipment.                                          *)

(* Of the shared state only the shipment's own row changes.                *)
Writes == /\ UNCHANGED <<quoteVars, job, carrierVars>>
          /\ status' \in Statuses \ {"none"} /\ lastEvent' \in 0..5
          /\ draft' = draft \/ (draft = None /\ draft' \in Drafts /\ carrier[draft'] # "none")
          /\ current' \in SUBSET Jobs /\ seen' \in SUBSET Workers /\ faults' \in 0..MaxFaults

LEMMA WritesTypes ==
    ASSUME TypeOK, Writes, NEW w \in Workers, NEW y \in WorkerRecords,
           worker' = [worker EXCEPT ![w] = y]
    PROVE  TypeOK' /\ Grows
<1>. USE DEF quoteVars, carrierVars
<1>1. worker' \in [Workers -> WorkerRecords]
  BY DEF TypeOK, WorkerRecords
<1>2. draft' \in Drafts \cup {None}
  BY DEF TypeOK, Writes
<1>3. TypeOK'
  BY <1>1, <1>2 DEF TypeOK, Writes, WorkerRecords
<1>. QED
  BY <1>3 DEF Writes, Grows

(* The version is bumped, or the row rests, and the worker goes to an end. *)
LEMMA WritesToEnd ==
    ASSUME ShipInv, NEW w \in Workers, worker[w].at # "idle",
           NEW place \in Ending \ {"retrying"}, Goes(w, place), Writes, draft' = draft,
           status' = "ready_for_staff" => status = "ready_for_staff",
           seen' = {} \/ (seen' = seen /\ status' = status)
    PROVE  ShipInv'
<1>1. place \in Places /\ place \in Ending
  BY DEF Ending, Places
<1>2. PICK y \in WorkerRecords :
          /\ worker' = [worker EXCEPT ![w] = y]
          /\ y.at = place /\ y.job = My(w) /\ y.unknown = worker[w].unknown
          /\ y.draft = None /\ y.late = FALSE
  <2>1. TypeOK
    BY DEF ShipInv
  <2>2. \E y \in WorkerRecords :
            /\ worker' = [worker EXCEPT ![w] = y]
            /\ y.at = place /\ y.job = My(w) /\ y.unknown = worker[w].unknown
            /\ place \in Ending => y.draft = None /\ y.late = FALSE
            /\ place \notin Ending =>
                  /\ y.saw = worker[w].saw /\ y.draft = worker[w].draft
                  /\ y.answer = worker[w].answer /\ y.late = worker[w].late
    BY <1>1, <2>1, GoesTo
  <2>. QED
    BY <1>1, <2>2
<1>3. TypeOK' /\ Grows
  BY <1>2, WritesTypes DEF ShipInv
<1>4. UNCHANGED <<order, buys, inflight, job, carrier>>
  BY DEF Writes, quoteVars, carrierVars
<1>. QED
  BY <1>1, <1>2, <1>3, <1>4, WorkerToEnd DEF Writes

(* The same when the worker will ask again, for all it knows may be done.  *)
LEMMA WritesAndRetries ==
    ASSUME ShipInv, NEW w \in Workers, worker[w].at # "idle",
           RetryLater(w, TRUE), Writes, draft' = draft,
           status' = "ready_for_staff" => status = "ready_for_staff",
           seen' = {} \/ (seen' = seen /\ status' = status)
    PROVE  ShipInv'
<1>1. PICK x \in WorkerRecords : x = worker[w]
  BY DEF ShipInv, TypeOK, WorkerRecords
<1>2. PICK z \in WorkerRecords : z = [x EXCEPT !.unknown = x.unknown \/ TRUE]
  BY <1>1 DEF WorkerRecords
<1>. "retrying" \in Places /\ "retrying" \in Ending
  BY DEF Ending, Places
<1>3. PICK y \in WorkerRecords : y = At(z, "retrying")
  BY AtIs
<1>4. worker' = [worker EXCEPT ![w] = y]
  BY <1>1, <1>2, <1>3 DEF RetryLater
<1>5. z.job = x.job /\ z.unknown
  BY <1>2 DEF WorkerRecords
<1>6. y.at = "retrying" /\ y.job = My(w) /\ y.unknown /\ y.draft = None /\ y.late = FALSE
  BY <1>1, <1>3, <1>5, AtIs DEF My
<1>7. TypeOK' /\ Grows
  BY <1>4, WritesTypes DEF ShipInv
<1>8. UNCHANGED <<order, buys, inflight, job, carrier>>
  BY DEF Writes, quoteVars, carrierVars
<1>. QED
  BY <1>4, <1>6, <1>7, <1>8, WorkerToEnd DEF Writes

LEMMA ManualStep ==
    ASSUME ShipInv, NEW w \in Workers, markShipmentOperationManualReview(w)
    PROVE  ShipInv'
<1>. USE DEF quoteVars, carrierVars
<1>1. /\ worker[w].at = "marking" /\ Goes(w, "burying") /\ status # "none"
  BY NotNone DEF markShipmentOperationManualReview
<1>2. Writes /\ draft' = draft /\ (seen' = {} \/ (seen' = seen /\ status' = status))
      /\ status' \in {status, "manual_review"}
  BY <1>1 DEF markShipmentOperationManualReview, Writes, Bump, ShipInv, TypeOK, Statuses
<1>. QED
  BY <1>1, <1>2, WritesToEnd DEF Ending

LEMMA completeQuoteStep ==
    ASSUME ShipInv, NEW w \in Workers, completeQuote(w)
    PROVE  ShipInv'
<1>. USE DEF quoteVars, carrierVars
<1>1. worker[w].at = "quoting" /\ Placed(worker[w]) /\ status # "none"
  BY NotNone DEF completeQuote, ShipInv
<1>2. CASE Goes(w, "completing") /\ faults' = faults
  <2>1. Writes /\ draft' = draft /\ (seen' = {} \/ (seen' = seen /\ status' = status))
        /\ status' \in {status, "quoted"}
    BY <1>1, <1>2 DEF completeQuote, Writes, Bump, ShipInv, TypeOK, Statuses
  <2>. QED
    BY <1>1, <1>2, <2>1, WritesToEnd DEF Ending
<1>3. CASE Goes(w, "fencing") /\ UNCHANGED <<status, current, seen>>
  <2>1. "fencing" \in Places /\ "fencing" \notin Ending
    BY DEF Places, Ending
  <2>2. PICK y \in WorkerRecords :
            /\ worker' = [worker EXCEPT ![w] = y]
            /\ y.at = "fencing" /\ y.job = My(w) /\ y.unknown = worker[w].unknown
            /\ y.saw = worker[w].saw /\ y.draft = worker[w].draft /\ y.late = worker[w].late
    BY <1>3, <2>1, GoesTo DEF ShipInv
  <2>3. Quiet
    BY <1>3, FaultIs DEF completeQuote, Unquotable, Quiet, ShipInv, TypeOK
  <2>4. Placed(y)
    BY <1>1, <2>2 DEF Placed, OnWay, BuyPath, WithDraft, My
  <2>5. w \in seen => (status \in DOMAIN Progress => y.saw = status)
    BY <1>1, <2>2 DEF ShipInv, Fresh, Ending
  <2>. QED
    BY <1>1, <1>3, <2>2, <2>3, <2>4, <2>5, Moves DEF Creating, Ready, OnWay
<1>. QED
  BY <1>2, <1>3 DEF completeQuote

LEMMA QueueIs ==
    ASSUME TypeOK, NEW j \in Jobs, Queue(j)
    PROVE  /\ job' \in [Jobs -> JobRecords]
           /\ \A i \in Jobs \ {j} : job'[i] = job[i]
           /\ job'[j].state = "queued" /\ ~job'[j].unknown
<1>1. [NoJob EXCEPT !.state = "queued"] \in JobRecords
  <2>1. 0 \in 0..MaxAttempts
    BY ShippingAssumption
  <2>2. NoJob \in JobRecords
    BY <2>1 DEF NoJob, JobRecords
  <2>3. \A r \in JobRecords : [r EXCEPT !.state = "queued"] \in JobRecords
    BY DEF JobRecords
  <2>. QED
    BY <2>2, <2>3
<1>2. [NoJob EXCEPT !.state = "queued"].unknown = FALSE
      /\ [NoJob EXCEPT !.state = "queued"].state = "queued"
  BY DEF NoJob
<1>. QED
  BY <1>1, <1>2 DEF TypeOK, Queue, JobRecords

LEMMA fenceStep ==
    ASSUME ShipInv, NEW w \in Workers, fenceProviderDraftAndEnqueueCleanup(w)
    PROVE  ShipInv'
<1>. USE DEF quoteVars, carrierVars
<1>1. /\ worker[w].at = "fencing" /\ Goes(w, "completing") /\ status # "none" /\ TypeOK
      /\ UNCHANGED <<quoteVars, draft, lastEvent, carrierVars, faults>>
  BY NotNone DEF fenceProviderDraftAndEnqueueCleanup, ShipInv
<1>2. /\ status' \in {status, "abandoned", "manual_review"} /\ current' \in SUBSET Jobs
      /\ seen' = {} \/ (seen' = seen /\ status' = status)
      /\ UNCHANGED job \/ Queue("draftCleanup")
  BY <1>1, NamesDiffer DEF fenceProviderDraftAndEnqueueCleanup, Bump, TypeOK
<1>3. "completing" \in Places /\ "completing" \in Ending /\ "draftCleanup" \in Jobs
  BY NamesDiffer DEF Ending, Places
<1>4. PICK y \in WorkerRecords :
          /\ worker' = [worker EXCEPT ![w] = y]
          /\ y.at = "completing" /\ y.job = My(w) /\ y.unknown = worker[w].unknown
          /\ y.draft = None /\ y.late = FALSE
  BY <1>1, <1>3, GoesTo
<1>5. /\ job' \in [Jobs -> JobRecords]
      /\ \A j \in Jobs : j # "draftCleanup" => job'[j] = job[j]
      /\ \A j \in Jobs : job[j].state # "none" => job'[j].state # "none"
  <2>1. CASE UNCHANGED job
    BY <1>1, <2>1 DEF TypeOK, JobRecords
  <2>2. CASE Queue("draftCleanup")
    BY <1>1, <1>3, <2>2, QueueIs
  <2>. QED
    BY <1>2, <2>1, <2>2
<1>6. TypeOK'
  <2>1. worker' \in [Workers -> WorkerRecords]
    BY <1>1, <1>4 DEF TypeOK, WorkerRecords
  <2>2. status' \in Statuses /\ seen' \in SUBSET Workers
    BY <1>1, <1>2 DEF TypeOK, Statuses
  <2>. QED
    BY <1>1, <1>2, <1>5, <2>1, <2>2 DEF TypeOK, WorkerRecords, JobRecords
<1>7. Grows
  BY <1>1, <1>5 DEF Grows
<1>8. \A j \in Creators : job'[j] = job[j]
  BY <1>5, NamesDiffer DEF Creators
<1>. QED
  BY <1>1, <1>2, <1>3, <1>4, <1>6, <1>7, <1>8, WorkerToEnd

(* The draft is recorded, or another one was.                              *)
LEMMA draftStep ==
    ASSUME ShipInv, NEW w \in Workers, persistKnownProviderDraft(w)
    PROVE  ShipInv'
<1>. USE DEF quoteVars, carrierVars
<1>1. PICK x \in WorkerRecords : x = worker[w]
  BY DEF ShipInv, TypeOK, WorkerRecords
<1>2. /\ x.at = "drafting" /\ Placed(x) /\ x.job = My(w) /\ TypeOK /\ status # "none"
      /\ worker[w].at # "idle"
  BY <1>1, NotNone DEF persistKnownProviderDraft, ShipInv, My
<1>3. x.draft \in Drafts /\ carrier[x.draft] # "none" /\ x.job \in Creators
  BY <1>2 DEF Placed, WithDraft, WorkerRecords
<1>4. CASE draft \in {None, x.draft}
  <2>1. PICK p \in Places : p = IF My(w) = "create" THEN "quoting" ELSE "reloading"
    BY DEF Places
  <2>2. PICK y \in WorkerRecords : y = [x EXCEPT !.at = p, !.saw = status]
    BY <1>2 DEF WorkerRecords, TypeOK
  <2>3. worker' = [worker EXCEPT ![w] = y]
    BY <1>1, <1>2, <1>4, <2>1, <2>2 DEF persistKnownProviderDraft, TypeOK
  <2>4. y.at = p /\ y.saw = status /\ y.job = x.job /\ y.unknown = x.unknown
        /\ y.draft = x.draft /\ y.late = x.late
    BY <2>2 DEF WorkerRecords
  <2>5. /\ draft' = x.draft /\ (draft' = draft \/ draft = None)
        /\ UNCHANGED <<quoteVars, status, lastEvent, job, carrierVars, faults>>
        /\ seen' \subseteq seen \cup {w} /\ current' \in SUBSET Jobs
    BY <1>1, <1>2, <1>3, <1>4, ShippingAssumption
       DEF persistKnownProviderDraft, Bump, TypeOK
  <2>6. Writes
    BY <1>2, <1>3, <2>5 DEF Writes, TypeOK
  <2>7. TypeOK' /\ Grows /\ worker'[w] = y
    BY <1>2, <2>3, <2>6, WritesTypes DEF TypeOK
  <2>8. Placed(y)'
    <3>1. x.job \in Jobs /\ job[x.job].state # "none" /\ (x.late => order = "lost")
      BY <1>2 DEF Placed
    <3>2. draft' # None
      BY <1>3, <2>5, ShippingAssumption
    <3>. QED
      BY <1>2, <1>3, <2>1, <2>4, <2>5, <3>1, <3>2
         DEF Placed, OnWay, BuyPath, WithDraft, Creators
  <2>9. Fresh(w)'
    BY <2>1, <2>4, <2>5, <2>7 DEF Fresh
  <2>10. Ready(worker[w])
    BY <1>1, <1>2 DEF Ready
  <2>. QED
    BY <1>1, <1>2, <2>1, <2>3, <2>4, <2>5, <2>7, <2>8, <2>9, <2>10, WorkerGoes DEF Creating
<1>5. CASE draft \notin {None, x.draft}
  <2>1. RetryLater(w, TRUE) /\ Quiet /\ seen' = seen
    BY <1>1, <1>2, <1>5 DEF persistKnownProviderDraft, Quiet, TypeOK
  <2>. QED
    BY <1>2, <2>1, RetriesLater
<1>. QED
  BY <1>4, <1>5

(* What the carrier said is recorded, if it may be.                        *)
LEMMA providerStateStep ==
    ASSUME ShipInv, NEW w \in Workers, persistProviderState(w)
    PROVE  ShipInv'
<1>. USE DEF quoteVars, carrierVars
<1>1. /\ worker[w].at = "saving" /\ Placed(worker[w]) /\ TypeOK /\ status # "none"
      /\ UNCHANGED <<quoteVars, draft, job, carrierVars>>
  BY NotNone DEF persistProviderState, ShipInv
<1>2. CASE Fault /\ RetryLater(w, TRUE) /\ UNCHANGED <<status, lastEvent, current, seen>>
  <2>1. Quiet
    BY <1>1, <1>2, FaultIs DEF Quiet, TypeOK
  <2>. QED
    BY <1>1, <1>2, <2>1, RetriesLater
<1>3. CASE updateShipmentFromProvider(w) /\ UNCHANGED faults
  <2>1. worker[w].answer \in DOMAIN EventRank
    BY <1>1 DEF Placed
  <2>2. EventRank[worker[w].answer] \in 0..5 /\ lastEvent \in 0..5 /\ status \in Statuses
    BY <1>1, <2>1 DEF EventRank, TypeOK
  <2>3. PICK n \in {normalizeChitChatsTransition(worker[w].saw, worker[w].answer),
                    "manual_review"} :
        \/ /\ status' = n /\ Bump({}, {}) /\ Goes(w, "completing")
           /\ lastEvent' = IF EventRank[worker[w].answer] > lastEvent
                           THEN EventRank[worker[w].answer] ELSE lastEvent
        \/ /\ Goes(w, "completing") \/ RetryLater(w, TRUE)
           /\ UNCHANGED <<status, lastEvent, current, seen>>
    BY <1>3 DEF updateShipmentFromProvider
  <2>4. n \in Statuses \ {"none", "ready_for_staff"}
    <3>1. normalizeChitChatsStatus(worker[w].answer)
              \in Statuses \ {"none", "ready_for_staff"}
      BY <2>1, Domains DEF normalizeChitChatsStatus, Statuses, Purchased
    <3>2. "manual_review" \in Statuses /\ "refund_pending" \in Statuses
          /\ "delivered" \in Statuses /\ "voided" \in Statuses
      BY DEF Statuses, Purchased
    <3>. QED
      BY <2>3, <3>1, <3>2 DEF normalizeChitChatsTransition
  <2>5. CASE /\ status' = n /\ Bump({}, {}) /\ Goes(w, "completing")
             /\ lastEvent' = IF EventRank[worker[w].answer] > lastEvent
                             THEN EventRank[worker[w].answer] ELSE lastEvent
    <3>1. Writes
      BY <1>1, <1>3, <2>2, <2>4, <2>5 DEF Writes, Bump, TypeOK
    <3>. QED
      BY <1>1, <2>4, <2>5, <3>1, WritesToEnd DEF Ending, Bump
  <2>6. CASE /\ Goes(w, "completing") \/ RetryLater(w, TRUE)
             /\ UNCHANGED <<status, lastEvent, current, seen>>
    <3>1. Quiet
      BY <1>1, <1>3, <2>6 DEF Quiet, TypeOK
    <3>2. CASE Goes(w, "completing")
      BY <1>1, <2>6, <3>1, <3>2, GoesToEnd DEF Ending
    <3>3. CASE RetryLater(w, TRUE)
      BY <1>1, <2>6, <3>1, <3>3, RetriesLater
    <3>. QED
      BY <2>6, <3>2, <3>3
  <2>. QED
    BY <2>3, <2>5, <2>6
<1>4. CASE Fault /\ recordUnsettledProviderAccountingEvidence(w)
  <2>1. /\ RetryLater(w, TRUE) /\ status' \in {status, "manual_review"}
        /\ seen' = {} \/ (seen' = seen /\ status' = status)
    BY <1>4 DEF recordUnsettledProviderAccountingEvidence, Bump
  <2>2. Writes
    BY <1>1, <1>4, <2>1, FaultIs
       DEF Writes, recordUnsettledProviderAccountingEvidence, Bump, TypeOK, Statuses
  <2>. QED
    BY <1>1, <2>1, <2>2, WritesAndRetries
<1>. QED
  BY <1>1, <1>2, <1>3, <1>4 DEF persistProviderState

-----------------------------------------------------------------------------
(* Calls that change a shipment the carrier has.                           *)

Calls == /\ UNCHANGED <<quoteVars, shipVars, job>>
         /\ carrier' \in [Drafts -> CarrierStatuses]
         /\ \A d \in Drafts : carrier[d] # "none" => carrier'[d] # "none"
         /\ inflight' \in SUBSET {"create", "buy", "refund", "delete"}
         /\ buys' \in 0..2 /\ faults' \in 0..MaxFaults

LEMMA CallTypes ==
    ASSUME TypeOK, Calls, NEW w \in Workers, NEW y \in WorkerRecords,
           worker' = [worker EXCEPT ![w] = y]
    PROVE  TypeOK' /\ Grows
<1>. USE DEF quoteVars, shipVars
<1>1. worker' \in [Workers -> WorkerRecords]
  BY DEF TypeOK, WorkerRecords
<1>2. TypeOK'
  BY <1>1 DEF TypeOK, Calls, WorkerRecords
<1>. QED
  BY <1>2 DEF Calls, Grows

(* The draft is neither created nor paid for.                              *)
Touches == /\ Calls /\ UNCHANGED <<inflight, buys>>
           /\ \A d \in Drafts : (carrier'[d] = "none") <=> (carrier[d] = "none")

LEMMA TouchesToEnd ==
    ASSUME ShipInv, NEW w \in Workers, worker[w].at # "idle", Touches,
           NEW place \in Ending \ {"retrying"}, Goes(w, place)
    PROVE  ShipInv'
<1>. USE DEF shipVars, quoteVars
<1>1. place \in Places /\ place \in Ending /\ TypeOK /\ status # "none"
  BY NotNone DEF Ending, Places, ShipInv
<1>2. \E y \in WorkerRecords :
          /\ worker' = [worker EXCEPT ![w] = y]
          /\ y.at = place /\ y.job = My(w) /\ y.unknown = worker[w].unknown
          /\ place \in Ending => y.draft = None /\ y.late = FALSE
          /\ place \notin Ending =>
                /\ y.saw = worker[w].saw /\ y.draft = worker[w].draft
                /\ y.answer = worker[w].answer /\ y.late = worker[w].late
  BY <1>1, GoesTo
<1>3. PICK y \in WorkerRecords :
          /\ worker' = [worker EXCEPT ![w] = y]
          /\ y.at = place /\ y.job = My(w) /\ y.unknown = worker[w].unknown
          /\ y.draft = None /\ y.late = FALSE
  BY <1>1, <1>2
<1>4. TypeOK' /\ Grows
  BY <1>1, <1>3, CallTypes DEF Touches
<1>5. /\ UNCHANGED <<order, status, seen, job, buys, inflight>>
      /\ \A d \in Drafts : (carrier'[d] = "none") <=> (carrier[d] = "none")
  BY DEF Touches, Calls
<1>. QED
  BY <1>1, <1>3, <1>4, <1>5, WorkerToEnd

LEMMA deleteStep ==
    ASSUME ShipInv, NEW w \in Workers, DeleteShipment(w)
    PROVE  ShipInv'
<1>. USE DEF quoteVars, shipVars
<1>1. worker[w].at = "deleting" /\ Placed(worker[w]) /\ TypeOK
  BY DEF DeleteShipment, ShipInv
<1>2. PICK d \in Drafts : d = worker[w].draft /\ carrier[d] # "none"
  BY <1>1 DEF Placed, WithDraft, TypeOK
<1>3. /\ carrier' = [carrier EXCEPT ![d] = IF carrier[d] = "unpaid" THEN "deleted"
                                                                   ELSE carrier[d]]
      /\ Goes(w, "completing") \/ Goes(w, "failing")
      /\ UNCHANGED <<quoteVars, shipVars, job, inflight, buys, faults>>
  BY <1>2 DEF DeleteShipment
<1>4. /\ carrier' \in [Drafts -> CarrierStatuses]
      /\ \A e \in Drafts : (carrier'[e] = "none") <=> (carrier[e] = "none")
  BY <1>1, <1>2, <1>3 DEF TypeOK, CarrierStatuses
<1>5. Touches
  BY <1>1, <1>3, <1>4 DEF Touches, Calls, TypeOK
<1>. QED
  BY <1>1, <1>3, <1>5, TouchesToEnd DEF Ending

LEMMA refundStep ==
    ASSUME ShipInv, NEW w \in Workers, RefundShipment(w)
    PROVE  ShipInv'
<1>. USE DEF quoteVars, shipVars
<1>1. PICK x \in WorkerRecords : x = worker[w]
  BY DEF ShipInv, TypeOK, WorkerRecords
<1>2. x.at = "refunding" /\ Placed(x) /\ TypeOK /\ x.job = My(w) /\ worker[w].at # "idle"
      /\ status # "none" /\ UNCHANGED <<quoteVars, shipVars, job, inflight, buys, faults>>
  BY <1>1, NotNone DEF RefundShipment, ShipInv, My
<1>3. PICK d \in Drafts : d = x.draft /\ carrier[d] # "none"
  BY <1>2 DEF Placed, WithDraft, WorkerRecords
<1>4. CASE Goes(w, "failing") /\ UNCHANGED carrier
  <2>1. Touches
    BY <1>2, <1>4 DEF Touches, Calls, TypeOK
  <2>. QED
    BY <1>2, <1>4, <2>1, TouchesToEnd DEF Ending
<1>5. ASSUME carrier[d] \in {"ready", "travelling"}, NEW s \in {carrier[d], "voided"},
             carrier' = [carrier EXCEPT ![d] = s],
             worker' = [worker EXCEPT ![w].at = "saving", ![w].answer = s]
      PROVE  ShipInv'
  <2>1. s \in {"ready", "travelling", "voided"} /\ s \in CarrierStatuses
    BY <1>5 DEF CarrierStatuses
  <2>2. PICK y \in WorkerRecords : y = [x EXCEPT !.at = "saving", !.answer = s]
    BY <2>1 DEF WorkerRecords, Places
  <2>3. worker' = [worker EXCEPT ![w] = y]
    BY <1>1, <1>2, <1>5, <2>2 DEF TypeOK
  <2>4. /\ y.at = "saving" /\ y.answer = s /\ y.job = x.job /\ y.unknown = x.unknown
        /\ y.draft = x.draft /\ y.late = x.late /\ y.saw = x.saw
    BY <2>2 DEF WorkerRecords
  <2>5. Touches
    BY <1>2, <1>3, <1>5, <2>1 DEF Touches, Calls, TypeOK
  <2>6. TypeOK' /\ Grows /\ worker'[w] = y
    BY <1>2, <2>3, <2>5, CallTypes DEF Touches, TypeOK
  <2>7. Placed(y)'
    <3>1. x.job \in Jobs /\ job[x.job].state # "none" /\ (x.late => order = "lost")
      BY <1>2 DEF Placed
    <3>2. carrier'[d] # "none"
      BY <1>3, <2>5 DEF Touches, Calls
    <3>. QED
      BY <1>2, <1>3, <2>1, <2>4, <3>1, <3>2, ShippingAssumption, Domains
         DEF Placed, OnWay, BuyPath, WithDraft
  <2>8. Fresh(w)'
    BY <1>1, <1>2, <2>4, <2>6 DEF Fresh, ShipInv, Ending
  <2>9. ~Ready(y)
    BY <2>4 DEF Ready, OnWay
  <2>. QED
    BY <1>1, <1>2, <2>3, <2>4, <2>5, <2>6, <2>7, <2>8, <2>9, WorkerGoes
       DEF Touches, Creating
<1>. QED
  BY <1>1, <1>3, <1>4, <1>5 DEF RefundShipment

-----------------------------------------------------------------------------
(* The job is ended, or left to another worker.                            *)

LEMMA EndedIs ==
    ASSUME NEW s \in {"none", "queued", "done", "dead", "retry"}
    PROVE  /\ [NoJob EXCEPT !.state = s] \in JobRecords
           /\ [NoJob EXCEPT !.state = s].state = s
           /\ [NoJob EXCEPT !.state = s].unknown = FALSE
<1>1. 0 \in 0..MaxAttempts
  BY ShippingAssumption
<1>2. NoJob \in JobRecords /\ NoJob.unknown = FALSE
  BY <1>1 DEF NoJob, JobRecords
<1>. QED
  BY <1>2 DEF JobRecords

LEMMA JobRests ==
    ASSUME ShipInv, NEW w \in Workers, worker[w].at # "idle", Rests(w),
           UNCHANGED <<quoteVars, draft, lastEvent, carrierVars>>,
           faults' \in 0..MaxFaults, current' \in SUBSET Jobs,
           w \notin seen', seen' \subseteq seen,
           status' = status \/ (status' = "manual_review" /\ seen' = {}),
           NEW r \in JobRecords, r.state \in {"done", "dead", "retry"},
           r.state = "retry" => worker[w].at = "retrying" /\ r.unknown = worker[w].unknown,
           job' = job \/ (Holds(w) /\ job' = [job EXCEPT ![My(w)] = r])
    PROVE  ShipInv'
<1>. USE DEF quoteVars, carrierVars
<1>1. TypeOK /\ My(w) \in Jobs
  BY NotNone DEF ShipInv
<1>2. /\ job' \in [Jobs -> JobRecords]
      /\ \A j \in Jobs \ {My(w)} : job'[j] = job[j]
      /\ job'[My(w)] = job[My(w)] \/ (Holds(w) /\ job'[My(w)] = r)
  BY <1>1 DEF TypeOK, JobRecords
<1>3. TypeOK'
  <2>1. worker' \in [Workers -> WorkerRecords]
    BY <1>1, IdleIs DEF TypeOK, WorkerRecords, Rests
  <2>2. status' \in Statuses
    BY <1>1 DEF TypeOK, Statuses
  <2>. QED
    BY <1>1, <1>2, <2>1, <2>2 DEF TypeOK, WorkerRecords, JobRecords
<1>4. Grows
  BY <1>1, <1>2 DEF Grows
<1>5. \A j \in Jobs : job[j].state = "none" => job'[j].state = "none"
  BY <1>1, <1>2 DEF Holds
<1>6. \A j \in Creators : Waiting(j)' => \/ Waiting(j)
                                         \/ /\ j = My(w) /\ Holds(w) /\ Sure(w)
                                            /\ worker[w].at = "retrying"
  BY <1>1, <1>2, NamesDiffer DEF Waiting, Sure, Creators
<1>7. ASSUME NEW v \in Workers \ {w}, My(v) = "purchase", Holds(v)' PROVE Holds(v)
  <2>1. My(v)' = My(v)
    BY <1>1 DEF My, Rests, TypeOK
  <2>. QED
    BY <1>1, <1>2, <1>7, <2>1, NamesDiffer DEF Holds
<1>. QED
  BY <1>3, <1>4, <1>5, <1>6, <1>7, WorkerRests

LEMMA completeStep ==
    ASSUME ShipInv, NEW w \in Workers, completeShipmentJob(w)
    PROVE  ShipInv'
<1>1. /\ worker[w].at # "idle" /\ Rests(w) /\ seen' = seen \ {w} /\ TypeOK
      /\ UNCHANGED <<quoteVars, status, draft, lastEvent, carrierVars, faults>>
  BY DEF completeShipmentJob, ShipInv
<1>2. PICK s \in {"done", "dead"} : EndJob(w, s)
  BY DEF completeShipmentJob
<1>3. PICK r \in JobRecords : r = [NoJob EXCEPT !.state = s]
  BY EndedIs
<1>4. r.state = s
  BY <1>3, EndedIs
<1>5. /\ job' = job \/ (Holds(w) /\ job' = [job EXCEPT ![My(w)] = r])
      /\ current' \in SUBSET Jobs /\ faults' \in 0..MaxFaults
  BY <1>1, <1>2, <1>3 DEF EndJob, TypeOK
<1>. QED
  BY <1>1, <1>4, <1>5, JobRests

LEMMA retryStep ==
    ASSUME ShipInv, NEW w \in Workers, retryShipmentJob(w)
    PROVE  ShipInv'
<1>1. /\ worker[w].at = "retrying" /\ Rests(w) /\ TypeOK /\ My(w) \in Jobs
      /\ UNCHANGED <<quoteVars, draft, lastEvent, carrierVars, faults>>
  BY NotNone DEF retryShipmentJob, ShipInv
<1>2. /\ current' \in SUBSET Jobs /\ faults' \in 0..MaxFaults /\ w \notin seen'
      /\ seen' \subseteq seen
      /\ status' = status \/ (status' = "manual_review" /\ seen' = {})
  BY <1>1 DEF retryShipmentJob, Bump, TypeOK
<1>3. PICK a \in 0..MaxAttempts : a = job[My(w)].attempts
  BY <1>1 DEF TypeOK
<1>4. PICK u \in BOOLEAN : u = worker[w].unknown
  BY <1>1 DEF TypeOK
<1>5. PICK q \in JobRecords : q = [NoJob EXCEPT !.state = "dead"]
  BY EndedIs
<1>6. PICK p \in JobRecords : p = NoJob
  <2>1. 0 \in 0..MaxAttempts
    BY ShippingAssumption
  <2>. QED
    BY <2>1 DEF NoJob, JobRecords
<1>7. PICK r \in JobRecords : r = [p EXCEPT !.state = "retry", !.attempts = a, !.unknown = u]
  BY DEF JobRecords
<1>8. q.state = "dead" /\ r.state = "retry" /\ r.unknown = u
  BY <1>5, <1>7, EndedIs DEF JobRecords
<1>9. \/ job' = job
      \/ Holds(w) /\ job' = [job EXCEPT ![My(w)] = q]
      \/ Holds(w) /\ job' = [job EXCEPT ![My(w)] = r]
  BY <1>3, <1>4, <1>5, <1>6, <1>7 DEF retryShipmentJob
<1>10. CASE job' = job \/ (Holds(w) /\ job' = [job EXCEPT ![My(w)] = q])
  BY <1>1, <1>2, <1>8, <1>10, JobRests
<1>11. CASE Holds(w) /\ job' = [job EXCEPT ![My(w)] = r]
  BY <1>1, <1>2, <1>4, <1>8, <1>11, JobRests
<1>. QED
  BY <1>9, <1>10, <1>11

-----------------------------------------------------------------------------
(* A job is claimed: a sure attempt is only taken from a waiting job.      *)
LEMMA claimStep ==
    ASSUME ShipInv, NEW w \in Workers, NEW j \in Jobs, claimShipmentOperationJobs(w, j)
    PROVE  ShipInv'
<1>. USE DEF quoteVars, shipVars, carrierVars
<1>1. /\ worker[w].at = "idle" /\ TypeOK /\ Due(j) /\ job[j].state # "none" /\ w \notin seen
      /\ UNCHANGED <<quoteVars, shipVars, carrierVars, faults>>
  BY DEF claimShipmentOperationJobs, ShipInv, Due, Fresh, Ending
<1>2. PICK u \in BOOLEAN : u = UnknownAfterClaim(j)
  BY <1>1 DEF UnknownAfterClaim, TypeOK
<1>3. PICK y \in WorkerRecords : y = [Idle EXCEPT !.at = "claimed", !.job = j, !.unknown = u,
                                                  !.late = j = "purchase" /\ order = "lost"]
  BY IdleIs DEF WorkerRecords, Places
<1>4. /\ worker' = [worker EXCEPT ![w] = y]
      /\ y.at = "claimed" /\ y.job = j /\ y.unknown = u /\ y.draft = None
      /\ y.late => order = "lost"
  <2>1. worker' = [worker EXCEPT ![w] = y]
    BY <1>2, <1>3 DEF claimShipmentOperationJobs
  <2>. QED
    BY <1>3, <2>1, IdleIs DEF WorkerRecords
<1>5. PICK a \in 0..MaxAttempts : a = IF job[j].attempts < MaxAttempts
                                      THEN job[j].attempts + 1 ELSE MaxAttempts
  BY <1>1, ShippingAssumption DEF TypeOK
<1>6. PICK r \in JobRecords : r = [state |-> "processing", unknown |-> u, attempts |-> a,
                                   owner |-> w, leaseOver |-> FALSE]
  BY DEF JobRecords
<1>7. /\ job' = [job EXCEPT ![j] = r] /\ r.state = "processing" /\ r.owner = w
      /\ job'[j] = r /\ \A i \in Jobs \ {j} : job'[i] = job[i]
  BY <1>1, <1>2, <1>5, <1>6 DEF claimShipmentOperationJobs, TypeOK
<1>8. worker'[w] = y /\ \A v \in Workers \ {w} : worker'[v] = worker[v]
  BY <1>1, <1>4 DEF TypeOK
<1>9. TypeOK'
  <2>1. worker' \in [Workers -> WorkerRecords] /\ job' \in [Jobs -> JobRecords]
    BY <1>1, <1>4, <1>7 DEF TypeOK, WorkerRecords, JobRecords
  <2>. QED
    BY <1>1, <2>1 DEF TypeOK, WorkerRecords, JobRecords
<1>10. Grows
  BY <1>1, <1>7 DEF Grows
<1>11. ASSUME NEW i \in Creators PROVE ~Waiting(i)' \/ (i # j /\ Waiting(i))
  BY <1>7, <1>11, NamesDiffer DEF Waiting, Creators
<1>12. j \in Creators /\ ~u => Waiting(j)
  BY <1>1, <1>2 DEF UnknownAfterClaim, Due, Waiting, Creators, Mutating
<1>13. \A v \in Workers \ {w} : (Sure(v)' <=> Sure(v)) /\ My(v)' = My(v)
  BY <1>8 DEF Sure, My
<1>14. (Sure(w)' <=> ~u) /\ My(w)' = j
  BY <1>4, <1>8 DEF Sure, My
<1>15. ASSUME NEW v \in Workers PROVE Placed(worker[v])' /\ Fresh(v)'
  <2>1. CASE v # w
    <3>1. v \in seen' => v \in seen /\ status' = status
      BY <1>1
    <3>. QED
      BY <1>8, <1>1, <1>10, <2>1, <3>1, PlacedStays, FreshStays DEF ShipInv
  <2>2. CASE v = w
    <3>1. Placed(y)'
      BY <1>1, <1>4, <1>7 DEF Placed, OnWay, BuyPath, WithDraft
    <3>2. Fresh(w)'
      BY <1>1 DEF Fresh
    <3>. QED
      BY <1>8, <2>2, <3>1, <3>2
  <2>. QED
    BY <2>1, <2>2
<1>16. Shared'
  <2>1. status # "none" /\ draft' = draft /\ carrier' = carrier /\ status' = status
    BY <1>1 DEF ShipInv, Shared
  <2>2. \A i \in Jobs : job'[i].state = "none" <=> job[i].state = "none"
    BY <1>1, <1>7
  <2>. QED
    BY <1>1, <2>1, <2>2, NamesDiffer DEF ShipInv, Shared
<1>17. Single'
  <2>1. ASSUME NEW i \in Creators, NEW v \in Workers, Sure(v)', My(v)' = i PROVE ~Waiting(i)'
    BY <1>11, <1>13, <1>14, <2>1 DEF ShipInv, Single
  <2>2. ASSUME NEW i \in Creators, NEW v \in Workers, NEW x \in Workers,
               Sure(v)', Sure(x)', My(v)' = i, My(x)' = i
        PROVE  v = x
    <3>1. CASE v = w \/ x = w
      <4>1. i = j /\ Waiting(i)
        BY <1>12, <1>14, <2>2, <3>1
      <4>2. \A z \in Workers \ {w} : ~(Sure(z)' /\ My(z)' = i)
        BY <1>13, <4>1 DEF ShipInv, Single
      <4>. QED
        BY <2>2, <3>1, <4>2
    <3>2. CASE v # w /\ x # w
      BY <1>13, <2>2, <3>2 DEF ShipInv, Single
    <3>. QED
      BY <3>1, <3>2
  <2>. QED
    BY <2>1, <2>2 DEF Single
<1>18. OneCreation'
  <2>1. Creator \in Creators
    BY DEF Creator, Creators
  <2>2. \A v \in Workers : worker'[v].at = "creating" => worker[v].at = "creating"
    BY <1>4, <1>8
  <2>3. Waiting(Creator)' => Waiting(Creator)
    <3>1. Creator' = Creator
      BY <1>1 DEF Creator
    <3>. QED
      BY <1>11, <2>1, <3>1
  <2>4. ASSUME NEW v \in Workers, Sure(v)', My(v)' = Creator, worker'[v].at \in Creating
        PROVE  \/ Sure(v) /\ My(v) = Creator /\ worker[v].at \in Creating
               \/ draft' # None \/ ~Created
    <3>1. CASE v = w
      <4>1. Waiting(Creator)
        BY <1>12, <1>14, <2>1, <2>4, <3>1
      <4>. QED
        BY <1>1, <4>1 DEF ShipInv, OneCreation
    <3>2. CASE v # w
      BY <1>8, <1>13, <2>4, <3>2
    <3>. QED
      BY <3>1, <3>2
  <2>5. UNCHANGED <<carrier, inflight>>
    BY <1>1
  <2>. QED
    BY <1>1, <1>9, <1>10, <2>2, <2>3, <2>4, <2>5, CreationStays DEF ShipInv
<1>19. OneBuyer'
  <2>1. \A v \in Workers : worker'[v].at = "buying" => worker[v].at = "buying"
    BY <1>4, <1>8
  <2>2. Waiting("purchase")' => Waiting("purchase")
    BY <1>11 DEF Creators
  <2>3. ASSUME NEW v \in Workers, MayBuy(v)' PROVE MayBuy(v) \/ ~Committed
    <3>1. CASE v = w
      <4>1. j = "purchase" /\ ~u
        BY <1>4, <1>8, <1>14, <2>3, <3>1 DEF MayBuy, Ready, OnWay
      <4>2. Waiting("purchase")
        BY <1>12, <4>1 DEF Creators
      <4>. QED
        BY <4>2 DEF ShipInv, OneBuyer
    <3>2. CASE v # w
      <4>1. My(v)' = My(v) /\ worker'[v] = worker[v]
        BY <1>8, <1>13, <3>2
      <4>2. My(v) # j
        BY <1>7, <2>3, <3>2, <4>1 DEF MayBuy, Holds
      <4>. QED
        BY <1>7, <2>3, <4>1, <4>2, NamesDiffer DEF MayBuy, Holds
    <3>. QED
      BY <3>1, <3>2
  <2>. QED
    BY <1>1, <1>10, <2>1, <2>2, <2>3, BuyerStays DEF ShipInv
<1>. QED
  BY <1>9, <1>15, <1>16, <1>17, <1>18, <1>19 DEF ShipInv

(* The draft of a sure attempt is the carrier's only one.                  *)
LEMMA createStep ==
    ASSUME ShipInv, NEW w \in Workers, CreateShipment(w)
    PROVE  ShipInv'
<1>. USE DEF quoteVars, shipVars
<1>1. PICK x \in WorkerRecords : x = worker[w]
  BY DEF ShipInv, TypeOK, WorkerRecords
<1>2. /\ x.at = "creating" /\ Placed(x) /\ TypeOK /\ x.job = My(w) /\ ~Created
      /\ UNCHANGED <<quoteVars, shipVars, job, inflight, buys, faults>>
  BY <1>1 DEF CreateShipment, ShipInv, My, OneCreation
<1>3. /\ x.job = Creator /\ ~x.unknown /\ x.job \in Jobs /\ job[x.job].state # "none"
      /\ x.late => order = "lost"
  BY <1>2 DEF Placed
<1>4. PICK d \in Drafts :
          /\ carrier[d] = "none" /\ carrier' = [carrier EXCEPT ![d] = "unpaid"]
          /\ worker' = [worker EXCEPT ![w].at = "drafting", ![w].draft = d]
  BY DEF CreateShipment
<1>5. PICK y \in WorkerRecords : y = [x EXCEPT !.at = "drafting", !.draft = d]
  BY DEF WorkerRecords, Places
<1>6. /\ worker' = [worker EXCEPT ![w] = y] /\ worker'[w] = y
      /\ \A v \in Workers \ {w} : worker'[v] = worker[v]
  BY <1>1, <1>2, <1>4, <1>5 DEF TypeOK
<1>7. /\ y.at = "drafting" /\ y.draft = d /\ y.job = x.job /\ y.unknown = x.unknown
      /\ y.late = x.late /\ y.saw = x.saw
  BY <1>5 DEF WorkerRecords
<1>8. /\ carrier'[d] = "unpaid" /\ \A e \in Drafts \ {d} : carrier'[e] = carrier[e]
      /\ carrier' \in [Drafts -> CarrierStatuses]
  BY <1>2, <1>4 DEF TypeOK, CarrierStatuses
<1>9. Calls
  BY <1>2, <1>4, <1>8 DEF Calls, TypeOK
<1>10. TypeOK' /\ Grows
  BY <1>2, <1>6, <1>9, CallTypes
<1>11. Creator' = Creator /\ Creator \in Creators /\ d # None
  BY <1>2, ShippingAssumption DEF Creator, Creators
<1>12. \A v \in Workers : (Sure(v)' <=> Sure(v)) /\ My(v)' = My(v)
  BY <1>1, <1>2, <1>6, <1>7 DEF Sure, My
<1>13. Sure(w) /\ My(w) = Creator
  BY <1>1, <1>2, <1>3 DEF Sure
<1>14. ASSUME NEW v \in Workers PROVE Placed(worker[v])' /\ Fresh(v)'
  <2>1. CASE v # w
    <3>1. v \in seen' => v \in seen /\ status' = status
      BY <1>2
    <3>. QED
      BY <1>2, <1>6, <1>10, <2>1, <3>1, PlacedStays, FreshStays DEF ShipInv
  <2>2. CASE v = w
    <3>1. Placed(y)'
      BY <1>2, <1>3, <1>7, <1>8, <1>11 DEF Placed, OnWay, BuyPath, WithDraft
    <3>2. Fresh(w)'
      BY <1>1, <1>2, <1>6, <1>7 DEF Fresh, ShipInv, Ending
    <3>. QED
      BY <1>6, <2>2, <3>1, <3>2
  <2>. QED
    BY <2>1, <2>2
<1>15. Shared'
  BY <1>2, <1>8 DEF ShipInv, Shared, TypeOK
<1>16. \A j \in Creators : Waiting(j)' <=> Waiting(j)
  BY <1>2 DEF Waiting
<1>17. Single'
  BY <1>12, <1>16, SingleStays DEF ShipInv
<1>18. OneCreation'
  <2>1. \A e \in Drafts : carrier[e] = "none"
    BY <1>2 DEF Created
  <2>2. "create" \notin inflight'
    BY <1>2 DEF Created
  <2>3. \A v \in Workers : worker'[v].at # "creating"
    <3>1. ASSUME NEW v \in Workers \ {w}, worker[v].at = "creating" PROVE FALSE
      <4>1. Sure(v) /\ My(v) = Creator
        BY <3>1 DEF ShipInv, Placed, Sure, My
      <4>. QED
        BY <1>11, <1>13, <4>1 DEF ShipInv, Single
    <3>. QED
      BY <1>6, <1>7, <3>1
  <2>4. ~Waiting(Creator)
    BY <1>11, <1>13 DEF ShipInv, Single
  <2>5. ASSUME NEW v \in Workers, Sure(v)', My(v)' = Creator PROVE v = w
    BY <1>11, <1>12, <1>13, <2>5 DEF ShipInv, Single
  <2>6. \A e \in Drafts : carrier'[e] # "none" => e = d
    BY <1>8, <2>1
  <2>7. job'[Creator].state # "none"
    BY <1>2, <1>3
  <2>8. ASSUME NEW v \in Workers, Sure(v)', My(v)' = Creator
        PROVE  worker'[v].at \notin {"claimed", "reading", "creating", "retrying"}
    BY <1>6, <1>7, <2>5, <2>8
  <2>9. ~Waiting(Creator)'
    BY <1>11, <1>16, <2>4
  <2>. QED
    BY <1>11, <2>2, <2>3, <2>6, <2>7, <2>8, <2>9 DEF OneCreation
<1>19. OneBuyer'
  <2>1. \A v \in Workers : worker'[v].at = "buying" => worker[v].at = "buying"
    BY <1>6, <1>7
  <2>2. \A v \in Workers : MayBuy(v)' => MayBuy(v)
    BY <1>1, <1>2, <1>6, <1>12 DEF MayBuy, Holds, Ready
  <2>3. Waiting("purchase")' => Waiting("purchase")
    BY <1>16 DEF Creators
  <2>. QED
    BY <1>2, <1>10, <2>1, <2>2, <2>3, BuyerStays DEF ShipInv
<1>. QED
  BY <1>10, <1>14, <1>15, <1>17, <1>18, <1>19 DEF ShipInv

-----------------------------------------------------------------------------
(* A call went out and the worker is past it, or gone.                     *)
Calling == {"creating", "buying", "refunding", "deleting"}

LEMMA CallLeaves ==
    ASSUME ShipInv, TypeOK', Grows, NEW w \in Workers, worker[w].at \in Calling,
           NEW y \in WorkerRecords, worker' = [worker EXCEPT ![w] = y],
           UNCHANGED <<order, status, draft, job>>, seen' \subseteq seen,
           \A d \in Drafts : (carrier'[d] = "none") <=> (carrier[d] = "none"),
           "create" \in inflight => "create" \in inflight',
           "create" \in inflight' => "create" \in inflight \/ worker[w].at = "creating",
           buys' = IF worker[w].at = "buying" THEN 1 ELSE buys,
           Placed(y)', Fresh(w)', y.at \in {"idle", "saving"} \cup Ending,
           y.at # "idle" => y.job = My(w) /\ (worker[w].unknown => y.unknown),
           y.at = "retrying" => y.unknown
    PROVE  ShipInv'
<1>1. worker'[w] = y /\ \A v \in Workers \ {w} : worker'[v] = worker[v]
  BY DEF ShipInv, TypeOK
<1>2. /\ y.at \notin {"buying", "creating"} /\ ~Ready(y)
      /\ y.at \in Creating => y.unknown
  BY DEF Ending, Creating, Ready, OnWay
<1>3. Creator' = Creator /\ Creator \in Creators /\ Creators \subseteq Jobs
  BY NamesDiffer DEF Grows, Creator, Creators
<1>4. ASSUME NEW v \in Workers PROVE Placed(worker[v])' /\ Fresh(v)'
  <2>1. CASE v = w
    BY <1>1, <2>1
  <2>2. CASE v # w
    BY <1>1, <2>2, PlacedStays, FreshStays DEF ShipInv
  <2>. QED
    BY <2>1, <2>2
<1>5. Shared'
  BY DEF ShipInv, Shared, TypeOK, Grows
<1>6. \A v \in Workers : Sure(v)' => Sure(v) /\ My(v)' = My(v)
  BY <1>1 DEF Sure, My, Calling
<1>7. \A j \in Creators : Waiting(j)' <=> Waiting(j)
  BY DEF Waiting
<1>8. Single'
  BY <1>6, <1>7, SingleStays DEF ShipInv
<1>9. OneCreation'
  <2>1. CASE "create" \in inflight' <=> "create" \in inflight
    <3>1. \A v \in Workers : worker'[v].at = "creating" => worker[v].at = "creating"
      BY <1>1, <1>2
    <3>2. ASSUME NEW v \in Workers, Sure(v)', My(v)' = Creator, worker'[v].at \in Creating
          PROVE  Sure(v) /\ My(v) = Creator /\ worker[v].at \in Creating
      BY <1>1, <1>2, <1>6, <3>2 DEF Sure
    <3>. QED
      BY <1>3, <1>7, <2>1, <3>1, <3>2, CreationStays DEF ShipInv
  <2>2. CASE "create" \in inflight' /\ "create" \notin inflight
    <3>1. worker[w].at = "creating" /\ Placed(worker[w]) /\ ~Created
      BY <2>2 DEF ShipInv, OneCreation
    <3>2. Sure(w) /\ My(w) = Creator /\ job[Creator].state # "none"
      BY <3>1 DEF Placed, Sure, My
    <3>3. \A d \in Drafts : carrier'[d] = "none"
      BY <3>1 DEF Created
    <3>4. ASSUME NEW v \in Workers, Sure(v), My(v) = Creator PROVE v = w
      BY <1>3, <3>2, <3>4 DEF ShipInv, Single
    <3>5. \A v \in Workers : worker'[v].at # "creating"
      <4>1. ASSUME NEW v \in Workers \ {w}, worker[v].at = "creating" PROVE FALSE
        <5>1. Sure(v) /\ My(v) = Creator
          BY <4>1 DEF ShipInv, Placed, Sure, My
        <5>. QED
          BY <3>4, <5>1
      <4>. QED
        BY <1>1, <1>2, <4>1
    <3>6. ~Waiting(Creator)'
      BY <1>3, <1>7, <3>2 DEF ShipInv, Single
    <3>7. ASSUME NEW v \in Workers, Sure(v)', My(v)' = Creator
          PROVE  worker'[v].at \notin {"claimed", "reading", "creating", "retrying"}
      <4>1. v = w
        BY <1>6, <3>4, <3>7
      <4>. QED
        BY <1>1, <1>2, <3>7, <4>1 DEF Sure, Creating
    <3>. QED
      BY <1>3, <2>2, <3>2, <3>3, <3>5, <3>6, <3>7 DEF OneCreation
  <2>. QED
    BY <2>1, <2>2
<1>10. OneBuyer'
  <2>1. \A v \in Workers : worker'[v].at = "buying" => worker[v].at = "buying" /\ v # w
    BY <1>1, <1>2
  <2>2. \A v \in Workers : MayBuy(v)' => MayBuy(v)
    BY <1>1, <1>2 DEF MayBuy, Holds, My
  <2>3. Waiting("purchase")' <=> Waiting("purchase")
    BY DEF Waiting
  <2>4. CASE worker[w].at = "buying"
    <3>1. /\ buys' = 1 /\ Committed /\ \A v \in Workers : worker'[v].at # "buying"
      BY <2>1, <2>4 DEF ShipInv, OneBuyer, Committed
    <3>2. draft' # None /\ job'["purchase"].state # "none"
      BY <3>1 DEF ShipInv, OneBuyer
    <3>. QED
      BY <2>2, <2>3, <3>1, <3>2 DEF ShipInv, OneBuyer
  <2>5. CASE worker[w].at # "buying"
    BY <2>1, <2>2, <2>3, <2>5, BuyerStays DEF ShipInv
  <2>. QED
    BY <2>4, <2>5
<1>. QED
  BY <1>4, <1>5, <1>8, <1>9, <1>10 DEF ShipInv

LEMMA CallNames ==
    /\ DOMAIN CallOf = Calling
    /\ CallOf["creating"] = "create" /\ CallOf["buying"] = "buy"
    /\ CallOf["refunding"] = "refund" /\ CallOf["deleting"] = "delete"
BY DEF CallOf, Calling

(* The first call of a purchase is the only one.                           *)
LEMMA SentIs ==
    ASSUME ShipInv, NEW w \in Workers, worker[w].at \in Calling, Sent(CallOf[worker[w].at])
    PROVE  buys' = (IF worker[w].at = "buying" THEN 1 ELSE buys) /\ buys' \in 0..2
<1>1. worker[w].at = "buying" => buys = 0
  BY DEF ShipInv, OneBuyer
<1>2. CallOf[worker[w].at] = "buy" <=> worker[w].at = "buying"
  BY CallNames DEF Calling
<1>. QED
  BY <1>1, <1>2 DEF Sent, ShipInv, TypeOK

LEMMA mutationFailsStep ==
    ASSUME ShipInv, NEW w \in Workers, MutationFails(w)
    PROVE  ShipInv'
<1>. USE DEF quoteVars, shipVars
<1>1. /\ worker[w].at \in Calling /\ TypeOK /\ Fault /\ Placed(worker[w])
      /\ UNCHANGED <<quoteVars, shipVars, job, carrier>> /\ Sent(CallOf[worker[w].at])
  BY CallNames DEF MutationFails, ShipInv
<1>2. buys' = (IF worker[w].at = "buying" THEN 1 ELSE buys) /\ buys' \in 0..2
  BY <1>1, SentIs
<1>3. /\ CallOf[worker[w].at] \in {"create", "buy", "refund", "delete"}
      /\ CallOf[worker[w].at] = "create" => worker[w].at = "creating"
  BY <1>1, CallNames DEF Calling
<1>4. \/ Goes(w, "failing") /\ UNCHANGED inflight
      \/ RetryLater(w, TRUE) /\ inflight' = inflight \cup {CallOf[worker[w].at]}
  BY DEF MutationFails
<1>5. PICK y \in WorkerRecords :
          /\ worker' = [worker EXCEPT ![w] = y]
          /\ y.at \in Ending /\ y.job = My(w) /\ (worker[w].unknown => y.unknown)
          /\ y.draft = None /\ y.late = FALSE /\ (y.at = "retrying" => y.unknown)
  <2>1. CASE Goes(w, "failing")
    <3>1. "failing" \in Places /\ "failing" \in Ending
      BY DEF Places, Ending
    <3>2. \E y \in WorkerRecords :
             /\ worker' = [worker EXCEPT ![w] = y]
             /\ y.at = "failing" /\ y.job = My(w) /\ y.unknown = worker[w].unknown
             /\ y.draft = None /\ y.late = FALSE
      BY <1>1, <2>1, <3>1, GoesTo
    <3>. QED
      BY <3>1, <3>2
  <2>2. CASE RetryLater(w, TRUE)
    BY <1>1, <2>2, RetryIs
  <2>. QED
    BY <1>4, <2>1, <2>2
<1>6. Calls
  BY <1>1, <1>2, <1>3, <1>4, FaultIs DEF Calls, TypeOK
<1>7. TypeOK' /\ Grows
  BY <1>1, <1>5, <1>6, CallTypes
<1>8. Placed(y)' /\ Fresh(w)'
  <2>1. worker'[w] = y
    BY <1>1, <1>5 DEF TypeOK
  <2>2. My(w) \in Jobs /\ job[My(w)].state # "none"
    BY <1>1 DEF Placed, My, Calling
  <2>3. Placed(y)'
    BY <1>1, <1>5, <2>2 DEF Placed, Ending, OnWay, BuyPath, WithDraft
  <2>. QED
    BY <1>5, <2>1, <2>3 DEF Fresh
<1>. QED
  BY <1>1, <1>2, <1>3, <1>4, <1>5, <1>7, <1>8, CallLeaves

(* Postage is bought, or acknowledged.                                     *)
LEMMA buyStep ==
    ASSUME ShipInv, NEW w \in Workers, BuyShipment(w)
    PROVE  ShipInv'
<1>. USE DEF quoteVars, shipVars
<1>1. PICK x \in WorkerRecords : x = worker[w]
  BY DEF ShipInv, TypeOK, WorkerRecords
<1>2. /\ x.at = "buying" /\ Placed(x) /\ TypeOK /\ x.job = My(w)
      /\ UNCHANGED <<quoteVars, shipVars, job, inflight, faults>> /\ Sent("buy")
  BY <1>1 DEF BuyShipment, ShipInv, My
<1>3. PICK d \in Drafts : d = x.draft /\ carrier[d] # "none"
  BY <1>2 DEF Placed, BuyPath, WithDraft, WorkerRecords
<1>4. buys' = 1
  BY <1>1, <1>2 DEF Sent, ShipInv, OneBuyer
<1>5. PICK y \in WorkerRecords :
          /\ worker' = [worker EXCEPT ![w] = y]
          /\ y.job = My(w) /\ (worker[w].unknown => y.unknown)
          /\ \/ /\ y.at \in Ending /\ y.draft = None /\ y.late = FALSE
                /\ y.at = "retrying" => y.unknown
             \/ /\ y.at = "saving" /\ y.answer = "ready" /\ y.draft = x.draft
                /\ y.late = x.late /\ y.saw = x.saw
  <2>1. CASE Goes(w, "failing")
    <3>1. "failing" \in Places /\ "failing" \in Ending
      BY DEF Places, Ending
    <3>2. \E y \in WorkerRecords :
             /\ worker' = [worker EXCEPT ![w] = y]
             /\ y.at = "failing" /\ y.job = My(w) /\ y.unknown = worker[w].unknown
             /\ y.draft = None /\ y.late = FALSE
      BY <1>2, <2>1, <3>1, GoesTo
    <3>. QED
      BY <3>1, <3>2
  <2>2. CASE RetryLater(w, TRUE)
    BY <1>2, <2>2, RetryIs
  <2>3. CASE worker' = [worker EXCEPT ![w].answer = "ready", ![w].at = "saving"]
    <3>1. PICK y \in WorkerRecords : y = [x EXCEPT !.answer = "ready", !.at = "saving"]
      BY DEF WorkerRecords, Places, CarrierStatuses
    <3>2. worker' = [worker EXCEPT ![w] = y]
      BY <1>1, <1>2, <2>3, <3>1 DEF TypeOK
    <3>3. /\ y.at = "saving" /\ y.answer = "ready" /\ y.job = x.job /\ y.unknown = x.unknown
          /\ y.draft = x.draft /\ y.late = x.late /\ y.saw = x.saw
      BY <3>1 DEF WorkerRecords
    <3>. QED
      BY <1>1, <1>2, <3>2, <3>3
  <2>. QED
    BY <2>1, <2>2, <2>3 DEF BuyShipment
<1>6. /\ carrier' \in [Drafts -> CarrierStatuses]
      /\ \A e \in Drafts : (carrier'[e] = "none") <=> (carrier[e] = "none")
  BY <1>1, <1>2, <1>3 DEF BuyShipment, TypeOK, CarrierStatuses
<1>7. Calls
  BY <1>2, <1>4, <1>6 DEF Calls, TypeOK
<1>8. TypeOK' /\ Grows /\ worker'[w] = y
  BY <1>2, <1>5, <1>7, CallTypes DEF TypeOK
<1>9. Placed(y)'
  <2>1. My(w) \in Jobs /\ job[My(w)].state # "none" /\ (x.late => order = "lost")
    BY <1>2 DEF Placed
  <2>2. x.draft # None /\ carrier'[x.draft] # "none"
    BY <1>3, <1>6, ShippingAssumption
  <2>. QED
    BY <1>2, <1>5, <2>1, <2>2, Domains DEF Placed, Ending, OnWay, BuyPath, WithDraft
<1>10. Fresh(w)'
  BY <1>1, <1>2, <1>5, <1>8 DEF Fresh, ShipInv, Ending
<1>11. /\ worker[w].at = "buying" /\ worker[w].at \in Calling
       /\ buys' = IF worker[w].at = "buying" THEN 1 ELSE buys
  BY <1>1, <1>2, <1>4 DEF Calling
<1>. QED
  BY <1>2, <1>5, <1>6, <1>8, <1>9, <1>10, <1>11, CallLeaves

(* The last look at the lease before the postage.                          *)
LEMMA purchaseIntentStep ==
    ASSUME ShipInv, NEW w \in Workers, markShipmentPurchaseProviderCallIntent(w)
    PROVE  ShipInv'
<1>. USE DEF quoteVars, shipVars, carrierVars
<1>1. /\ worker[w].at = "intending" /\ Placed(worker[w]) /\ seen' = seen /\ Quiet /\ TypeOK
      /\ UNCHANGED <<quoteVars, shipVars, job, carrierVars, faults>>
  BY DEF markShipmentPurchaseProviderCallIntent, Quiet, ShipInv, TypeOK
<1>2. CASE Goes(w, "failing")
  BY <1>1, <1>2, GoesToEnd DEF Ending
<1>3. CASE Live(w) /\ Goes(w, "buying")
  <2>1. "buying" \in Places /\ "buying" \notin Ending
    BY DEF Places, Ending
  <2>2. PICK y \in WorkerRecords :
            /\ worker' = [worker EXCEPT ![w] = y]
            /\ y.at = "buying" /\ y.job = My(w) /\ y.unknown = worker[w].unknown
            /\ y.saw = worker[w].saw /\ y.draft = worker[w].draft /\ y.late = worker[w].late
    BY <1>1, <1>3, <2>1, GoesTo
  <2>3. /\ worker'[w] = y /\ TypeOK' /\ Grows
        /\ \A v \in Workers \ {w} : worker'[v] = worker[v]
    BY <1>1, <2>2, QuietTypes DEF TypeOK
  <2>4. My(w) = "purchase" /\ draft # None /\ My(w) \in Jobs /\ job[My(w)].state # "none"
    BY <1>1 DEF Placed, OnWay, BuyPath, My
  <2>5. Placed(y)'
    BY <1>1, <2>2, <2>4 DEF Placed, OnWay, BuyPath, WithDraft
  <2>6. Fresh(w)'
    BY <1>1, <2>2, <2>3 DEF ShipInv, Fresh, Ending
  <2>7. MayBuy(w) /\ job["purchase"].state = "processing" /\ job["purchase"].owner = w
    BY <1>1, <1>3, <2>4 DEF MayBuy, Live, Holds, Ready, OnWay
  <2>8. ~Committed /\ buys = 0 /\ \A v \in Workers : worker[v].at # "buying"
    BY <1>1, <2>7 DEF ShipInv, OneBuyer, Committed, TypeOK
  <2>9. ASSUME NEW v \in Workers PROVE Placed(worker[v])' /\ Fresh(v)'
    <3>1. CASE v = w
      BY <2>3, <2>5, <2>6, <3>1
    <3>2. CASE v # w
      <4>1. v \in seen' => v \in seen /\ status' = status
        BY <1>1
      <4>. QED
        BY <1>1, <2>3, <3>2, <4>1, PlacedStays, FreshStays DEF ShipInv
    <3>. QED
      BY <3>1, <3>2
  <2>10. Shared'
    BY <1>1 DEF ShipInv, Shared
  <2>11. \A v \in Workers : (Sure(v)' => Sure(v)) /\ My(v)' = My(v)
    BY <1>1, <2>2, <2>3 DEF Sure, My
  <2>12. \A j \in Creators : Waiting(j)' <=> Waiting(j)
    BY <1>1 DEF Waiting
  <2>13. Single'
    BY <2>11, <2>12, SingleStays DEF ShipInv
  <2>14. OneCreation'
    <3>1. Creator' = Creator /\ Creator \in Creators
      BY <1>1 DEF Creator, Creators
    <3>2. \A v \in Workers : worker'[v].at = "creating" => worker[v].at = "creating"
      BY <2>2, <2>3
    <3>3. draft' # None
      BY <1>1, <2>4
    <3>4. UNCHANGED <<carrier, inflight>>
      BY <1>1
    <3>. QED
      BY <2>3, <2>12, <3>1, <3>2, <3>3, <3>4, CreationStays DEF ShipInv
  <2>15. OneBuyer'
    <3>1. buys' = 0 /\ draft' # None /\ job'["purchase"].state = "processing"
      BY <1>1, <2>4, <2>7, <2>8
    <3>2. \A v \in Workers : worker'[v].at = "buying" => v = w
      BY <2>3, <2>8
    <3>3. ASSUME NEW v \in Workers, MayBuy(v)' PROVE FALSE
      <4>1. job'["purchase"].owner = v
        BY <3>3 DEF MayBuy, Holds
      <4>2. v = w
        BY <1>1, <2>7, <4>1
      <4>. QED
        BY <2>2, <2>3, <3>3, <4>2 DEF MayBuy, Ready, OnWay
    <3>4. ~Waiting("purchase")'
      BY <3>1 DEF Waiting
    <3>. QED
      BY <3>1, <3>2, <3>3, <3>4 DEF OneBuyer
  <2>. QED
    BY <2>3, <2>9, <2>10, <2>13, <2>14, <2>15 DEF ShipInv
<1>. QED
  BY <1>2, <1>3 DEF markShipmentPurchaseProviderCallIntent

LEMMA crashStep ==
    ASSUME ShipInv, NEW w \in Workers, Crash(w)
    PROVE  ShipInv'
<1>. USE DEF quoteVars, carrierVars
<1>1. /\ worker[w].at # "idle" /\ TypeOK /\ Fault /\ Rests(w) /\ seen' = seen \ {w}
      /\ UNCHANGED <<quoteVars, status, draft, lastEvent, current, job, carrier>>
  BY DEF Crash, ShipInv
<1>2. CASE UNCHANGED <<inflight, buys>>
  <2>1. faults' \in 0..MaxFaults /\ current' \in SUBSET Jobs
    BY <1>1, FaultIs DEF TypeOK
  <2>2. PICK r \in JobRecords : r = [NoJob EXCEPT !.state = "done"]
    BY EndedIs
  <2>3. r.state = "done"
    BY <2>2, EndedIs
  <2>. QED
    BY <1>1, <1>2, <2>1, <2>3, JobRests
<1>3. CASE /\ worker[w].at \in DOMAIN CallOf
           /\ inflight' = inflight \cup {CallOf[worker[w].at]}
           /\ Sent(CallOf[worker[w].at])
  <2>1. worker[w].at \in Calling
    BY <1>3, CallNames
  <2>2. buys' = (IF worker[w].at = "buying" THEN 1 ELSE buys) /\ buys' \in 0..2
    BY <1>3, <2>1, SentIs
  <2>3. /\ CallOf[worker[w].at] \in {"create", "buy", "refund", "delete"}
        /\ CallOf[worker[w].at] = "create" => worker[w].at = "creating"
    BY <2>1, CallNames DEF Calling
  <2>4. worker' = [worker EXCEPT ![w] = Idle] /\ worker'[w] = Idle
    BY <1>1 DEF Rests, TypeOK
  <2>5. TypeOK'
    <3>1. worker' \in [Workers -> WorkerRecords]
      BY <1>1, <2>4, IdleIs DEF TypeOK, WorkerRecords
    <3>2. /\ inflight' \in SUBSET {"create", "buy", "refund", "delete"}
          /\ faults' \in 0..MaxFaults /\ seen' \in SUBSET Workers
      BY <1>1, <1>3, <2>3, FaultIs DEF TypeOK
    <3>. QED
      BY <1>1, <2>2, <3>1, <3>2 DEF TypeOK, WorkerRecords
  <2>6. Grows
    BY <1>1 DEF Grows
  <2>7. Placed(Idle)' /\ Fresh(w)'
    BY <1>1 DEF Placed, Fresh, Idle, BuyPath, OnWay, WithDraft
  <2>. QED
    BY <1>1, <1>3, <2>1, <2>2, <2>3, <2>4, <2>5, <2>6, <2>7, IdleIs, CallLeaves
<1>. QED
  BY <1>2, <1>3 DEF Crash

-----------------------------------------------------------------------------
(* The shop and the carrier move; the workers stay where they are.         *)

LEMMA OthersMove ==
    ASSUME ShipInv, TypeOK', Grows, worker' = worker,
           \A d \in Drafts : (carrier'[d] = "none") <=> (carrier[d] = "none"),
           "create" \in inflight' <=> "create" \in inflight, buys' = buys,
           \A v \in seen' : v \in seen /\ (status' \in DOMAIN Progress => status' = status),
           Shared',
           \A j \in Creators : Waiting(j)' => Waiting(j) \/ job[j].state = "none",
           \A v \in Workers : My(v) \in Jobs => (Holds(v)' => Holds(v))
    PROVE  ShipInv'
<1>1. Creator' = Creator /\ Creator \in Creators /\ Creators \subseteq Jobs
  BY NamesDiffer DEF Grows, Creator, Creators
<1>2. ASSUME NEW v \in Workers PROVE Placed(worker[v])' /\ Fresh(v)'
  BY PlacedStays, FreshStays DEF ShipInv
<1>3. \A v \in Workers : (Sure(v)' <=> Sure(v)) /\ My(v)' = My(v)
  BY DEF Sure, My
<1>4. \A v \in Workers : Sure(v) => job[My(v)].state # "none"
  BY DEF ShipInv, Placed, Sure, My
<1>5. Single'
  BY <1>3, <1>4 DEF ShipInv, Single
<1>6. OneCreation'
  <2>1. Waiting(Creator)' => Waiting(Creator) \/ draft' # None \/ ~Created
    BY <1>1 DEF ShipInv, OneCreation
  <2>. QED
    BY <1>1, <1>3, <2>1, CreationStays DEF ShipInv
<1>7. OneBuyer'
  <2>1. Waiting("purchase")' => Waiting("purchase") \/ ~Committed
    BY DEF ShipInv, OneBuyer, Creators
  <2>2. \A v \in Workers : MayBuy(v)' => MayBuy(v)
    BY <1>3, NamesDiffer DEF MayBuy
  <2>. QED
    BY <2>1, <2>2, BuyerStays DEF ShipInv
<1>. QED
  BY <1>2, <1>5, <1>6, <1>7 DEF ShipInv

(* A job that was not at work is queued.                                   *)
LEMMA QueueKeeps ==
    ASSUME TypeOK, worker' = worker,
           UNCHANGED job \/ \E j \in Jobs : Queue(j) /\ (j \in Creators => job[j].state = "none")
    PROVE  /\ job' \in [Jobs -> JobRecords]
           /\ \A j \in Jobs : job[j].state # "none" => job'[j].state # "none"
           /\ \A j \in Creators : Waiting(j)' => Waiting(j) \/ job[j].state = "none"
           /\ \A v \in Workers : My(v) \in Jobs => (Holds(v)' => Holds(v))
<1>1. CASE UNCHANGED job
  BY <1>1 DEF TypeOK, JobRecords, Waiting, Holds, My
<1>2. ASSUME NEW j \in Jobs, Queue(j), j \in Creators => job[j].state = "none"
      PROVE  /\ job' \in [Jobs -> JobRecords]
             /\ \A i \in Jobs : job[i].state # "none" => job'[i].state # "none"
             /\ \A i \in Creators : Waiting(i)' => Waiting(i) \/ job[i].state = "none"
             /\ \A v \in Workers : My(v) \in Jobs => (Holds(v)' => Holds(v))
  <2>1. /\ job' \in [Jobs -> JobRecords] /\ job'[j].state = "queued"
        /\ \A i \in Jobs \ {j} : job'[i] = job[i]
    BY <1>2, QueueIs
  <2>2. \A i \in Jobs : job[i].state # "none" => job'[i].state # "none"
    BY <2>1
  <2>3. ASSUME NEW i \in Creators, Waiting(i)' PROVE Waiting(i) \/ job[i].state = "none"
    BY <1>2, <2>1, <2>3, NamesDiffer DEF Waiting, Creators
  <2>4. ASSUME NEW v \in Workers, My(v) \in Jobs, Holds(v)' PROVE Holds(v)
    BY <2>1, <2>4 DEF Holds, My
  <2>. QED
    BY <2>1, <2>2, <2>3, <2>4
<1>. QED
  BY <1>1, <1>2

LEMMA ShopMoves ==
    ASSUME ShipInv, UNCHANGED <<flatRate, draft, lastEvent, worker, carrierVars, faults>>,
           status' \in Statuses, status' = "none" => status = "none" /\ UNCHANGED job,
           order' \in {"none", "pending", "paid", "lost", "cancelled"},
           expired' \in BOOLEAN, policyMoved' \in BOOLEAN, current' \in SUBSET Jobs,
           order = "lost" => order' = "lost",
           seen' = {} \/ (seen' = seen /\ (status' = status \/ status' \notin DOMAIN Progress)),
           \/ UNCHANGED job
           \/ \E j \in Jobs : /\ Queue(j) /\ (j \in Creators => job[j].state = "none")
                              /\ j = "create" => ~flatRate
                              /\ j = "purchase" => order' \notin {"none", "pending"}
                                                   /\ status' # "ready_for_staff",
           order' \in {"none", "pending"} \/ status' = "ready_for_staff" =>
               order \in {"none", "pending"} \/ status = "ready_for_staff"
    PROVE  ShipInv'
<1>. USE DEF carrierVars
<1>1. TypeOK /\ "purchase" \in Jobs /\ "create" \in Jobs
  BY NamesDiffer DEF ShipInv
<1>2. /\ job' \in [Jobs -> JobRecords]
      /\ \A j \in Jobs : job[j].state # "none" => job'[j].state # "none"
      /\ \A j \in Creators : Waiting(j)' => Waiting(j) \/ job[j].state = "none"
      /\ \A v \in Workers : My(v) \in Jobs => (Holds(v)' => Holds(v))
  <2>1. UNCHANGED job \/ \E j \in Jobs : Queue(j) /\ (j \in Creators => job[j].state = "none")
    OBVIOUS
  <2>. QED
    BY <1>1, <2>1, QueueKeeps
<1>3. TypeOK'
  BY <1>1, <1>2 DEF TypeOK, JobRecords
<1>4. Grows
  BY <1>2 DEF Grows
<1>5. Shared'
  <2>1. /\ order' \in {"none", "pending"} \/ status' = "ready_for_staff" =>
              job'["purchase"].state = "none"
        /\ job'["create"].state # "none" => ~flatRate
    <3>1. CASE UNCHANGED job
      BY <3>1 DEF ShipInv, Shared
    <3>2. ASSUME NEW j \in Jobs, Queue(j), j = "create" => ~flatRate,
                 j = "purchase" => order' \notin {"none", "pending"}
                                   /\ status' # "ready_for_staff"
          PROVE  /\ order' \in {"none", "pending"} \/ status' = "ready_for_staff" =>
                        job'["purchase"].state = "none"
                 /\ job'["create"].state # "none" => ~flatRate
      <4>1. \A i \in Jobs \ {j} : job'[i] = job[i]
        BY <1>1, <3>2, QueueIs
      <4>. QED
        BY <1>1, <3>2, <4>1 DEF ShipInv, Shared
    <3>. QED
      BY <3>1, <3>2
  <2>. QED
    BY <2>1 DEF ShipInv, Shared
<1>6. /\ \A v \in seen' : v \in seen /\ (status' \in DOMAIN Progress => status' = status)
  OBVIOUS
<1>. QED
  BY <1>2, <1>3, <1>4, <1>5, <1>6, OthersMove

LEMMA quoteSteps ==
    ASSUME ShipInv, createQuoteOperation \/ createFlatRateQuote \/ abandonExpiredQuotes
    PROVE  ShipInv'
<1>. USE DEF quoteVars, carrierVars
<1>1. TypeOK /\ "expiryCleanup" \in Jobs /\ "create" \in Jobs
      /\ (status = "none" => job["create"].state = "none")
  BY NamesDiffer DEF ShipInv, Shared
<1>2. CASE createQuoteOperation
  <2>1. Queue("create") /\ ~flatRate /\ job["create"].state = "none"
    BY <1>1, <1>2 DEF createQuoteOperation
  <2>. QED
    BY <1>1, <1>2, <2>1, ShopMoves DEF createQuoteOperation, Bump, TypeOK, Statuses
<1>3. CASE createFlatRateQuote
  BY <1>1, <1>3, ShopMoves, Domains DEF createFlatRateQuote, TypeOK, Statuses
<1>4. CASE abandonExpiredQuotes
  <2>1. Queue("expiryCleanup") /\ "expiryCleanup" \notin Creators
    BY <1>4 DEF abandonExpiredQuotes, Creators
  <2>. QED
    BY <1>1, <1>4, <2>1, ShopMoves DEF abandonExpiredQuotes, Bump, TypeOK, Statuses
<1>. QED
  BY <1>2, <1>3, <1>4

LEMMA orderSteps ==
    ASSUME ShipInv, \/ PlaceOrder \/ PaymentFails \/ OrderSwept
                    \/ activateShipmentForPaidOrder \/ FundingLost
    PROVE  ShipInv'
<1>. USE DEF quoteVars, carrierVars
<1>1. TypeOK
  BY DEF ShipInv
<1>2. CASE PlaceOrder
  BY <1>1, <1>2, ShopMoves, Domains DEF PlaceOrder, TypeOK, Statuses
<1>3. CASE PaymentFails
  BY <1>1, <1>3, ShopMoves, Domains DEF PaymentFails, TypeOK, Statuses
<1>4. CASE OrderSwept
  <2>1. /\ status' \in Statuses /\ (status' = status \/ status' \notin DOMAIN Progress)
        /\ status' \in {status, "abandoned"}
    BY <1>1, <1>4, Domains DEF OrderSwept, TypeOK, Statuses
  <2>. QED
    BY <1>1, <1>4, <2>1, ShopMoves DEF OrderSwept, TypeOK
<1>5. CASE activateShipmentForPaidOrder
  BY <1>1, <1>5, ShopMoves, Domains DEF activateShipmentForPaidOrder, Bump, TypeOK, Statuses
<1>6. CASE FundingLost
  <2>1. /\ status' \in Statuses /\ status' \in {status, "manual_review"}
        /\ seen' = {} \/ (seen' = seen /\ status' = status)
        /\ current' \in SUBSET Jobs
    BY <1>1, <1>6 DEF FundingLost, Bump, TypeOK, Statuses
  <2>. QED
    BY <1>1, <1>6, <2>1, ShopMoves DEF FundingLost, TypeOK
<1>. QED
  BY <1>2, <1>3, <1>4, <1>5, <1>6

LEMMA enqueueSteps ==
    ASSUME ShipInv, \/ enqueuePurchaseOperationForOrder \/ enqueueRefundOperationForOrder
                    \/ \E j \in Polls : listShipmentsDueForPolling(j)
    PROVE  ShipInv'
<1>. USE DEF quoteVars, carrierVars
<1>1. TypeOK /\ "purchase" \in Jobs /\ "refund" \in Jobs
  BY NamesDiffer DEF ShipInv
<1>2. CASE enqueuePurchaseOperationForOrder
  <2>1. Queue("purchase") /\ job["purchase"].state = "none"
    BY <1>2 DEF enqueuePurchaseOperationForOrder, ShipInv, Shared
  <2>. QED
    BY <1>1, <1>2, <2>1, ShopMoves
       DEF enqueuePurchaseOperationForOrder, Bump, TypeOK, Statuses
<1>3. CASE enqueueRefundOperationForOrder
  <2>1. Queue("refund") /\ "refund" \notin Creators
    BY <1>3 DEF enqueueRefundOperationForOrder, Creators
  <2>. QED
    BY <1>1, <1>3, <2>1, ShopMoves
       DEF enqueueRefundOperationForOrder, Bump, TypeOK, Statuses
<1>4. ASSUME NEW j \in Polls, listShipmentsDueForPolling(j) PROVE ShipInv'
  <2>1. Queue(j) /\ j \in Jobs /\ j \notin Creators /\ j \notin {"create", "purchase"}
    BY <1>4, NamesDiffer DEF listShipmentsDueForPolling, Creators, Mutating
  <2>2. status # "none" /\ current' \in SUBSET Jobs
    BY <1>1, <1>4, <2>1 DEF listShipmentsDueForPolling, DueForPolling, TypeOK
  <2>. QED
    BY <1>1, <1>4, <2>1, <2>2, ShopMoves DEF listShipmentsDueForPolling, TypeOK
<1>. QED
  BY <1>2, <1>3, <1>4

LEMMA ClockSteps ==
    ASSUME ShipInv, QuoteExpires \/ PolicyMoves
    PROVE  ShipInv'
<1>1. /\ UNCHANGED <<flatRate, draft, lastEvent, worker, carrierVars, faults>>
      /\ UNCHANGED <<status, order, current, seen, job>> /\ status # "none" /\ TypeOK
      /\ expired' \in BOOLEAN /\ policyMoved' \in BOOLEAN
  BY DEF QuoteExpires, PolicyMoves, shipVars, ShipInv, TypeOK
<1>. QED
  BY <1>1, ShopMoves DEF TypeOK

LEMMA leaseStep ==
    ASSUME ShipInv, NEW j \in Jobs, LeaseExpires(j)
    PROVE  ShipInv'
<1>. USE DEF quoteVars, shipVars, carrierVars
<1>1. /\ TypeOK /\ job' = [job EXCEPT ![j].leaseOver = TRUE]
      /\ UNCHANGED <<quoteVars, shipVars, worker, carrierVars>> /\ faults' \in 0..MaxFaults
  BY FaultIs DEF LeaseExpires, ShipInv
<1>2. PICK r \in JobRecords : r = job[j]
  BY <1>1 DEF TypeOK, JobRecords
<1>3. PICK q \in JobRecords : q = [r EXCEPT !.leaseOver = TRUE]
  BY DEF JobRecords
<1>4. /\ job' = [job EXCEPT ![j] = q]
      /\ q.state = r.state /\ q.unknown = r.unknown /\ q.owner = r.owner
  BY <1>1, <1>2, <1>3 DEF TypeOK, JobRecords
<1>5. /\ job' \in [Jobs -> JobRecords]
      /\ \A i \in Jobs : /\ job'[i].state = job[i].state /\ job'[i].unknown = job[i].unknown
                         /\ job'[i].owner = job[i].owner
  <2>1. /\ job' \in [Jobs -> JobRecords] /\ job'[j] = q
        /\ \A i \in Jobs \ {j} : job'[i] = job[i]
    <3>1. job \in [Jobs -> JobRecords]
      BY <1>1 DEF TypeOK, JobRecords
    <3>. QED
      BY <1>4, <3>1
  <2>. QED
    BY <1>2, <1>4, <2>1
<1>6. TypeOK' /\ Grows
  BY <1>1, <1>5 DEF TypeOK, Grows, JobRecords
<1>7. Shared'
  BY <1>1, <1>5, NamesDiffer DEF ShipInv, Shared
<1>8. \A i \in Creators : Waiting(i)' => Waiting(i)
  BY <1>5, NamesDiffer DEF Waiting, Creators
<1>9. \A v \in Workers : My(v) \in Jobs => (Holds(v)' => Holds(v))
  BY <1>1, <1>5 DEF Holds, My
<1>. QED
  BY <1>1, <1>6, <1>7, <1>8, <1>9, OthersMove

LEMMA CarrierKeeps ==
    ASSUME ShipInv, UNCHANGED <<quoteVars, shipVars, job, worker, buys, faults>>,
           inflight' \subseteq inflight, carrier' \in [Drafts -> CarrierStatuses],
           \A d \in Drafts : (carrier'[d] = "none") <=> (carrier[d] = "none"),
           "create" \in inflight' <=> "create" \in inflight
    PROVE  ShipInv'
<1>. USE DEF quoteVars, shipVars
<1>1. TypeOK' /\ Grows
  BY DEF ShipInv, TypeOK, Grows
<1>2. Shared'
  BY DEF ShipInv, Shared, TypeOK
<1>3. \A v \in Workers : My(v) \in Jobs => (Holds(v)' => Holds(v))
  BY DEF Holds, My
<1>4. \A i \in Creators : Waiting(i)' => Waiting(i)
  BY DEF Waiting
<1>. QED
  BY <1>1, <1>2, <1>3, <1>4, OthersMove

(* A call nobody waits for is processed after all.                         *)
LEMMA lateStep ==
    ASSUME ShipInv, NEW d \in Drafts, NEW c \in inflight, LateCall(c, d)
    PROVE  ShipInv'
<1>. USE DEF quoteVars, shipVars
<1>1. /\ TypeOK /\ inflight' = inflight \ {c}
      /\ UNCHANGED <<quoteVars, shipVars, job, worker, buys, faults>>
  BY DEF LateCall, ShipInv
<1>2. CASE c # "create"
  <2>1. /\ carrier' \in [Drafts -> CarrierStatuses]
        /\ \A e \in Drafts : (carrier'[e] = "none") <=> (carrier[e] = "none")
    BY <1>1, <1>2 DEF LateCall, TypeOK, CarrierStatuses
  <2>. QED
    BY <1>1, <1>2, <2>1, CarrierKeeps
<1>3. CASE c = "create"
  <2>1. /\ carrier'[d] = "unpaid" /\ \A e \in Drafts \ {d} : carrier'[e] = carrier[e]
        /\ carrier' \in [Drafts -> CarrierStatuses]
    BY <1>1, <1>3 DEF LateCall, TypeOK, CarrierStatuses
  <2>2. Created /\ \A e \in Drafts : carrier[e] = "none"
    BY <1>3 DEF ShipInv, OneCreation, Created
  <2>3. "create" \notin inflight' /\ \A e \in Drafts : carrier'[e] # "none" => e = d
    BY <1>1, <1>3, <2>1, <2>2
  <2>4. TypeOK' /\ Grows
    BY <1>1, <2>1, <2>2 DEF TypeOK, Grows
  <2>5. ASSUME NEW v \in Workers PROVE Placed(worker[v])' /\ Fresh(v)'
    <3>1. worker'[v] = worker[v] /\ (v \in seen' => v \in seen /\ status' = status)
      BY <1>1
    <3>. QED
      BY <1>1, <2>4, <3>1, PlacedStays, FreshStays DEF ShipInv
  <2>6. Shared'
    <3>1. draft = None
      BY <1>1, <2>2 DEF ShipInv, Shared, TypeOK
    <3>. QED
      BY <1>1, <3>1 DEF ShipInv, Shared
  <2>7. /\ Creator' = Creator /\ \A v \in Workers : (Sure(v)' <=> Sure(v)) /\ My(v)' = My(v)
        /\ \A j \in Creators : Waiting(j)' <=> Waiting(j)
    BY <1>1 DEF Sure, My, Creator, Waiting
  <2>8. Single'
    BY <2>7, SingleStays DEF ShipInv
  <2>9. OneCreation'
    <3>1. Creator \in Creators
      BY DEF Creator, Creators
    <3>. QED
      BY <1>1, <2>2, <2>3, <2>7, <3>1 DEF ShipInv, OneCreation
  <2>10. OneBuyer'
    <3>1. \A v \in Workers : MayBuy(v)' => MayBuy(v)
      BY <1>1, <2>7 DEF MayBuy, Holds
    <3>2. Waiting("purchase")' => Waiting("purchase")
      BY <2>7 DEF Creators
    <3>. QED
      BY <1>1, <2>4, <3>1, <3>2, BuyerStays DEF ShipInv
  <2>. QED
    BY <2>4, <2>5, <2>6, <2>8, <2>9, <2>10 DEF ShipInv
<1>. QED
  BY <1>2, <1>3

LEMMA carrierStep ==
    ASSUME ShipInv, NEW d \in Drafts, CarrierMoves(d)
    PROVE  ShipInv'
<1>1. /\ UNCHANGED <<quoteVars, shipVars, job, worker, inflight, buys, faults>> /\ TypeOK
  BY DEF CarrierMoves, ShipInv
<1>2. /\ carrier' \in [Drafts -> CarrierStatuses]
      /\ \A e \in Drafts : (carrier'[e] = "none") <=> (carrier[e] = "none")
  BY <1>1 DEF CarrierMoves, TypeOK, CarrierStatuses
<1>. QED
  BY <1>1, <1>2, CarrierKeeps

-----------------------------------------------------------------------------
(* The invariant, and what follows from it.                                *)

LEMMA ShipInit == Init => ShipInv
<1>. SUFFICES ASSUME Init PROVE ShipInv
  OBVIOUS
<1>1. NoJob \in JobRecords /\ NoJob.state = "none"
  <2>1. 0 \in 0..MaxAttempts
    BY ShippingAssumption
  <2>. QED
    BY <2>1 DEF NoJob, JobRecords
<1>2. TypeOK
  <2>1. job \in [Jobs -> JobRecords] /\ worker \in [Workers -> WorkerRecords]
    BY <1>1, IdleIs DEF Init
  <2>2. flatRate \in BOOLEAN /\ faults \in 0..MaxFaults
    BY ShippingAssumption DEF Init
  <2>3. /\ status \in Statuses /\ carrier \in [Drafts -> CarrierStatuses]
        /\ order \in {"none", "pending", "paid", "lost", "cancelled"}
        /\ expired \in BOOLEAN /\ policyMoved \in BOOLEAN /\ draft \in Drafts \cup {None}
    BY DEF Init, Statuses, CarrierStatuses
  <2>4. /\ current \in SUBSET Jobs /\ seen \in SUBSET Workers /\ lastEvent \in 0..5
        /\ inflight \in SUBSET {"create", "buy", "refund", "delete"} /\ buys \in 0..2
    BY DEF Init
  <2>. QED
    BY <2>1, <2>2, <2>3, <2>4 DEF TypeOK, JobRecords, WorkerRecords
<1>3. \A w \in Workers : worker[w] = Idle /\ worker[w].at = "idle"
  BY IdleIs DEF Init
<1>4. \A j \in Jobs : job[j].state = "none"
  BY <1>1 DEF Init
<1>5. ASSUME NEW w \in Workers PROVE Placed(worker[w]) /\ Fresh(w)
  <2>1. Placed(Idle)
    BY IdleIs DEF Placed, BuyPath, OnWay, WithDraft
  <2>. QED
    BY <1>3, <2>1 DEF Fresh, Init
<1>6. Shared
  BY <1>4, NamesDiffer DEF Shared, Init
<1>7. \A w \in Workers : ~Sure(w) /\ ~MayBuy(w)
  BY <1>3, IdleIs, NamesDiffer DEF Sure, MayBuy, My
<1>8. Single /\ OneCreation
  <2>1. ~Created
    BY DEF Init, Created
  <2>. QED
    BY <1>3, <1>7, <1>4, <2>1, NamesDiffer DEF Single, OneCreation, Creators, Waiting, Init
<1>9. OneBuyer
  BY <1>3 DEF OneBuyer, Committed, Init
<1>. QED
  BY <1>2, <1>5, <1>6, <1>8, <1>9 DEF ShipInv

LEMMA ShipRests == ShipInv /\ UNCHANGED vars => ShipInv'
<1>. SUFFICES ASSUME ShipInv, UNCHANGED vars PROVE ShipInv'
  OBVIOUS
<1>1. /\ UNCHANGED <<quoteVars, shipVars, job, worker, buys, faults>>
      /\ inflight' = inflight /\ carrier' = carrier /\ carrier \in [Drafts -> CarrierStatuses]
  BY DEF vars, carrierVars, ShipInv, TypeOK
<1>. QED
  BY <1>1, CarrierKeeps

LEMMA ShopSteps ==
    ASSUME ShipInv, ShopStep
    PROVE  ShipInv'
BY quoteSteps, orderSteps, enqueueSteps, ClockSteps DEF ShopStep

LEMMA WorkerSteps ==
    ASSUME ShipInv, NEW w \in Workers, WorkerStep(w)
    PROVE  ShipInv'
BY intentStep, dispatchStep, createStep, reconcileStep, LookSteps, buyStep, refundStep,
   deleteStep, draftStep, completeQuoteStep, fenceStep, ReadAgainSteps, refreshedQuoteStep,
   fundingStep, purchaseIntentStep, providerStateStep, completeStep, ManualStep, retryStep
   DEF WorkerStep

LEMMA ShipNext == ShipInv /\ [Next]_vars => ShipInv'
<1>. SUFFICES ASSUME ShipInv, [Next]_vars PROVE ShipInv'
  OBVIOUS
<1>1. CASE ShopStep
  BY <1>1, ShopSteps
<1>2. ASSUME NEW w \in Workers, NEW j \in Jobs, claimShipmentOperationJobs(w, j)
      PROVE  ShipInv'
  BY <1>2, claimStep
<1>3. ASSUME NEW w \in Workers, \/ WorkerStep(w) \/ MutationFails(w) \/ ReadFails(w)
                                \/ OperationFails(w) \/ Crash(w)
      PROVE  ShipInv'
  BY <1>3, WorkerSteps, mutationFailsStep, FailingReads, crashStep
<1>4. ASSUME NEW j \in Jobs, LeaseExpires(j) PROVE ShipInv'
  BY <1>4, leaseStep
<1>5. ASSUME NEW d \in Drafts, CarrierMoves(d) \/ \E c \in inflight : LateCall(c, d)
      PROVE  ShipInv'
  BY <1>5, carrierStep, lateStep
<1>. QED
  BY <1>1, <1>2, <1>3, <1>4, <1>5, ShipRests DEF Next

(* A shipment's jobs, its one creation and its one purchase stay in step   *)
(* with what the carrier has, whatever fails in between.                   *)
THEOREM ShippingInvariant == Spec => []ShipInv
BY ShipInit, ShipNext, PTL DEF Spec

(* The types of the shipment's state.                                      *)
THEOREM ShippingTypes == Spec => []TypeOK
BY ShippingInvariant, PTL DEF ShipInv

(* Postage is bought at most once, whatever a worker knows of an earlier   *)
(* call: no claim is sure of a purchase that was committed to.             *)
THEOREM PostageBoughtOnce == Spec => []BuyOnce
<1>1. ShipInv => BuyOnce
  BY DEF ShipInv, OneBuyer, BuyOnce
<1>. QED
  BY <1>1, ShippingInvariant, PTL

(* The carrier holds one shipment for this one: a creation nobody saw the  *)
(* end of is looked up, never repeated.                                    *)
THEOREM DraftCreatedOnce == Spec => []OneDraft
<1>1. ShipInv => OneDraft
  <2>. SUFFICES ASSUME ShipInv PROVE OneDraft
    OBVIOUS
  <2>. DEFINE made == {d \in Drafts : carrier[d] # "none"}
  <2>1. \A d, e \in made : d = e
    BY DEF ShipInv, OneCreation
  <2>2. CASE made = {}
    BY <2>2, FS_EmptySet DEF OneDraft
  <2>3. ASSUME NEW d \in made PROVE OneDraft
    <3>1. made = {d}
      BY <2>1, <2>3
    <3>. QED
      BY <3>1, FS_Singleton DEF OneDraft
  <2>. QED
    BY <2>2, <2>3
<1>. QED
  BY <1>1, ShippingInvariant, PTL

(* A worker that took its purchase after the order's money was lost never  *)
(* calls for the postage.                                                  *)
THEOREM LabelsAreFunded == Spec => []LabelFunded
<1>1. ShipInv => LabelFunded
  BY DEF ShipInv, Placed, LabelFunded
<1>. QED
  BY <1>1, ShippingInvariant, PTL

-----------------------------------------------------------------------------
(* What is known of a dispatched shipment.                                 *)

(* The carrier's word, read as a transition from what was dispatched.      *)
LEMMA TransitionAdvances ==
    ASSUME NEW was \in DOMAIN Progress, NEW s \in DOMAIN EventRank,
           NEW n, n = normalizeChitChatsTransition(was, s)
    PROVE  n = "manual_review" \/ (n \in DOMAIN Progress /\ Progress[n] >= Progress[was])
<1>. DEFINE m == normalizeChitChatsStatus(s)
<1>1. m \in {"quoted", "manual_review"} \cup (DOMAIN Progress \ {"refund_pending"})
  BY Domains DEF normalizeChitChatsStatus
<1>2. \/ n \in {"manual_review", was}
      \/ /\ n = m /\ m # "quoted" /\ was # "refund_pending"
         /\ was \in allowedShipmentSourceStatuses(m)
      \/ n = m /\ m \in {"voided", "manual_review"}
  BY Domains DEF normalizeChitChatsTransition
<1>3. \A a \in DOMAIN Progress : Progress[a] \in 1..5
  BY Domains DEF Progress
<1>4. m = "voided" => Progress[m] >= Progress[was]
  BY <1>3 DEF Progress
<1>5. ASSUME m \in DOMAIN Progress, was \in allowedShipmentSourceStatuses(m),
             m # "refund_pending"
      PROVE  Progress[m] >= Progress[was]
  BY <1>4, <1>5, Domains DEF Progress, allowedShipmentSourceStatuses, Purchased
<1>. QED
  BY <1>1, <1>2, <1>3, <1>4, <1>5

Keeps == status \in DOMAIN Progress => status' = status \/ Advances

LEMMA ShopAdvances ==
    ASSUME ShipInv, ShopStep
    PROVE  Keeps
<1>1. ASSUME enqueueRefundOperationForOrder, status \in DOMAIN Progress PROVE Advances
  BY <1>1 DEF enqueueRefundOperationForOrder, Advances, Progress
<1>2. ASSUME ~enqueueRefundOperationForOrder, status \in DOMAIN Progress PROVE status' = status
  BY <1>2, Domains DEF ShopStep, createQuoteOperation, createFlatRateQuote, PlaceOrder,
     PaymentFails, OrderSwept, activateShipmentForPaidOrder, FundingLost,
     enqueuePurchaseOperationForOrder, abandonExpiredQuotes, QuoteExpires, PolicyMoves,
     listShipmentsDueForPolling, shipVars
<1>. QED
  BY <1>1, <1>2 DEF Keeps

LEMMA WorkerAdvances ==
    ASSUME ShipInv, NEW w \in Workers, WorkerStep(w)
    PROVE  Keeps
<1>1. CASE fenceProviderDraftAndEnqueueCleanup(w)
  BY <1>1, Domains DEF fenceProviderDraftAndEnqueueCleanup, Fenceable, Keeps, Advances
<1>2. CASE persistProviderState(w)
  <2>1. worker[w].at = "saving" /\ worker[w].answer \in DOMAIN EventRank
    BY <1>2 DEF persistProviderState, ShipInv, Placed
  <2>2. CASE status' # status /\ status \in DOMAIN Progress
    <3>. SUFFICES ASSUME status' # "manual_review"
                  PROVE  Keeps
      BY DEF Keeps, Advances
    <3>1. updateShipmentFromProvider(w)
      BY <1>2, <2>2 DEF persistProviderState, recordUnsettledProviderAccountingEvidence
    <3>2. PICK n \in {normalizeChitChatsTransition(worker[w].saw, worker[w].answer),
                      "manual_review"} : status' = n /\ w \in seen
      BY <2>2, <3>1 DEF updateShipmentFromProvider, Updates
    <3>3. worker[w].saw = status
      BY <2>1, <2>2, <3>2 DEF ShipInv, Fresh, Ending
    <3>4. \/ status' = "manual_review"
          \/ status' \in DOMAIN Progress /\ Progress[status'] >= Progress[status]
      <4>1. CASE n = "manual_review"
        BY <3>2, <4>1
      <4>2. CASE n = normalizeChitChatsTransition(status, worker[w].answer)
        BY <2>1, <2>2, <3>2, <4>2, TransitionAdvances
      <4>. QED
        BY <3>2, <3>3, <4>1, <4>2
    <3>. QED
      BY <3>4 DEF Keeps, Advances
  <2>. QED
    BY <2>2 DEF Keeps
<1>3. CASE completeQuote(w)
  BY <1>3, Domains DEF completeQuote, Keeps
<1>4. CASE markShipmentOperationManualReview(w)
  BY <1>4 DEF markShipmentOperationManualReview, Keeps, Advances
<1>5. CASE retryShipmentJob(w)
  BY <1>5 DEF retryShipmentJob, Keeps, Advances
<1>6. CASE \/ markShipmentMutationIntent(w) \/ CreateShipment(w) \/ reconcileCreate(w)
           \/ RefreshShipment(w) \/ GetShipment(w) \/ BuyShipment(w) \/ RefundShipment(w)
           \/ DeleteShipment(w) \/ recheckShipmentPurchaseFunding(w)
           \/ markShipmentPurchaseProviderCallIntent(w)
  <2>1. UNCHANGED shipVars
    BY <1>6 DEF markShipmentMutationIntent, CreateShipment, reconcileCreate, RefreshShipment,
       GetShipment, BuyShipment, RefundShipment, DeleteShipment,
       recheckShipmentPurchaseFunding, markShipmentPurchaseProviderCallIntent
  <2>. QED
    BY <2>1 DEF shipVars, Keeps
<1>7. CASE \/ dispatch(w) \/ persistKnownProviderDraft(w) \/ requireShipment(w)
           \/ persistRefreshedProviderQuote(w) \/ ChooseRate(w) \/ completeShipmentJob(w)
           \/ getShipmentForOperation(w)
  BY <1>7 DEF dispatch, persistKnownProviderDraft, requireShipment,
     persistRefreshedProviderQuote, ChooseRate, completeShipmentJob, getShipmentForOperation,
     Keeps
<1>. QED
  BY <1>1, <1>2, <1>3, <1>4, <1>5, <1>6, <1>7 DEF WorkerStep

LEMMA NextAdvances ==
    ASSUME ShipInv, Next
    PROVE  Keeps
<1>1. ASSUME NEW w \in Workers, \/ \E j \in Jobs : claimShipmentOperationJobs(w, j)
                                \/ MutationFails(w) \/ ReadFails(w) \/ OperationFails(w)
                                \/ Crash(w)
      PROVE  status' = status
  BY <1>1 DEF claimShipmentOperationJobs, MutationFails, ReadFails, OperationFails, Crash,
     shipVars
<1>2. ASSUME \/ \E j \in Jobs : LeaseExpires(j)
             \/ \E d \in Drafts : CarrierMoves(d) \/ \E c \in inflight : LateCall(c, d)
      PROVE  status' = status
  BY <1>2 DEF LeaseExpires, CarrierMoves, LateCall, shipVars
<1>. QED
  BY <1>1, <1>2, ShopAdvances, WorkerAdvances DEF Next, Keeps

(* An answer read before a refund was asked for, or before a later event   *)
(* was recorded, does not take a dispatched shipment back.                 *)
THEOREM ShippingNeverGoesBack == Spec => NeverBackwards
<1>1. ShipInv /\ [Next]_vars => [(status \in DOMAIN Progress) => Advances]_status
  <2>. SUFFICES ASSUME ShipInv, [Next]_vars
                PROVE  [(status \in DOMAIN Progress) => Advances]_status
    OBVIOUS
  <2>1. CASE Next
    BY <2>1, NextAdvances DEF Keeps
  <2>2. CASE UNCHANGED vars
    BY <2>2 DEF vars, shipVars
  <2>. QED
    BY <2>1, <2>2
<1>. QED
  BY <1>1, ShippingInvariant, PTL DEF Spec, NeverBackwards

=============================================================================
