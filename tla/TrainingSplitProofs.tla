--------------------------- MODULE TrainingSplitProofs ---------------------------
(***************************************************************************)
(* Proofs about the training place paid with two tenders, for any          *)
(* reservations, any number of runs of every kind and any faults.          *)
(*                                                                         *)
(* The invariant says what the holder of a reservation's lock knows in     *)
(* each place (Knows) and what the stored stage stands for (Recorded).     *)
(* Calls whose caller is gone may still land: Void says which portion is   *)
(* not captured and never will be, and Steady that no step of another run, *)
(* and no such call, takes anything back.                                  *)
(***************************************************************************)
EXTENDS TrainingSplit, TLAPS

-----------------------------------------------------------------------------
Pcs == {"idle", "enroll", "load", "fail", "tell", "save", "order", "card", "afterpay",
        "read", "pay", "complete", "finalize", "cancel", "notify"}
Plans == {"none", "card", "afterpay", "cancel", "finalize", "pay", "reread", "onward",
          "authorized", "retry", "decide", "complete", "verify", "paid"}
Statuses == {"none", "APPROVED", "COMPLETED", "CANCELED", "FAILED"}
States == [stage : Stages, order : BOOLEAN, ids : SUBSET Legs]
Records == [pc : Pcs, next : Plans, key : Reservations \cup {None},
            kind : {"none", "post", "status", "event", "cron"}, st : States,
            seen : [Legs -> Statuses \cup {"unseen", "void", "rejected"}], caught : BOOLEAN]
Calls == {"authorize", "pay", "complete", "cancel"}

RowsTyped ==
    /\ status \in [Reservations -> {"none", "pending", "paid", "verification_failed"}]
    /\ enrolled \in [Reservations -> BOOLEAN]
    /\ notice \in [Reservations -> {"none", "claimed", "sent"}]
    /\ split \in [Reservations -> States]
    /\ payment \in [Reservations -> [Legs -> Statuses]]
    /\ settled \in [Reservations -> BOOLEAN]
    /\ late \subseteq Reservations \X Calls \X Legs
    /\ asked \in [Reservations -> [Legs -> Nat]]
    /\ told \in [Reservations -> SUBSET {"paid", "retry"}]

Typed ==
    /\ RowsTyped
    /\ run \in [Runs -> Records]
    /\ \A p \in Runs : run[p].pc # "idle" => run[p].key \in Reservations

-----------------------------------------------------------------------------
(* No call that captures is under way for r.                               *)
NoCapture(r) == \A m \in late : m[1] = r => m[2] \notin {"pay", "complete"}

(* The portion is not captured and never will be: it is dead, or nobody    *)
(* asks for it.                                                            *)
Void(r, leg) ==
    /\ payment[r][leg] # "COMPLETED"
    /\ payment[r][leg] \in {"CANCELED", "FAILED"} \/ NoCapture(r)

(* The split has, or may have, used the payment key of a leg.              *)
Spent(st, leg) ==
    \/ leg \in st.ids \/ st.stage = Authorizing(leg)
    \/ st.stage \in {"capturing", "completing", "canceling", "canceled", "paid"}

(* The reservation is given up and nobody is at work on it.                *)
Over(r) == split[r].stage = "canceled" /\ \A p \in Runs : ~Holds(p, r)

OneHolder == \A p, q \in Runs : \A r \in Reservations : Holds(p, r) /\ Holds(q, r) => p = q

(* What is true of a state of the split, stored or in memory.              *)
Bought(r, st) ==
    /\ \A leg \in st.ids : payment[r][leg] # "none"
    /\ st.ids # {} => enrolled[r]
Backed(r, st) ==
    /\ Bought(r, st)
    /\ st.stage \in {"capturing", "completing"} => st.ids = Legs
    /\ \A leg \in Legs : asked[r][leg] # 0 => Spent(st, leg)

Going == {"reserved", "authorizing_card", "authorizing_afterpay", "capturing", "completing"}

(* Where a run that holds the lock is, and what it is about to do.         *)
Planned(x) ==
    /\ x.pc = "save" =>
          /\ x.next \in {"cancel", "card", "afterpay", "finalize", "pay", "reread",
                         "onward", "authorized", "retry"}
          /\ (x.next = "retry") <=> (x.st.stage = "canceled")
          /\ x.next = "cancel" => x.st.stage = "canceling"
          /\ x.next = "reread" => x.st.stage = "completing"
          /\ x.next \in {"pay", "finalize"} => x.st.stage = "capturing"
    /\ x.pc = "order" \/ (x.pc = "save" /\ x.next \in {"onward", "authorized"}) =>
          x.st.stage \in Going /\ ~Interrupted(x.st)
    /\ x.pc = "read" =>
          /\ x.next \in {"decide", "complete", "verify"}
          /\ x.st.ids = Legs
          /\ x.next # "decide" => x.st.stage = "completing"
    /\ x.pc = "cancel" => x.st.stage = "canceling"
    /\ x.pc = "pay" => x.st.stage = "capturing"
    /\ x.pc = "complete" => x.st.stage = "completing"
    /\ x.pc = "finalize" => x.st.stage \in {"capturing", "completing"}
    /\ \A leg \in Legs : x.seen[leg] = "void" =>
          x.pc = "cancel" \/ (x.pc = "save" /\ x.next = "retry")

(* It is about to capture, or to give up, both portions, ...               *)
Sighted(x, r) ==
    /\ \A leg \in Legs :
          /\ x.seen[leg] = "COMPLETED" => payment[r][leg] = "COMPLETED"
          /\ x.seen[leg] = "void" => Void(r, leg)
    /\ x.pc = "save" /\ x.next = "retry" => \A leg \in Legs : x.seen[leg] = "void"
    /\ x.pc = "finalize" \/ (x.pc = "save" /\ x.next = "finalize") =>
          \A leg \in Legs : payment[r][leg] = "COMPLETED"

(* ... or to authorise one it never asked for.                             *)
Unasked(x, r) ==
    /\ \A leg \in Legs : x.pc = leg \/ (x.pc = "save" /\ x.next = leg) =>
          /\ x.st.stage = Authorizing(leg) /\ leg \notin x.st.ids
          /\ asked[r][leg] = 0 /\ x.kind = "post"
    /\ x.pc \in Legs => split[r] = x.st
    /\ split[r].stage = "canceled" =>
          x.pc = "save" /\ x.st.stage \in {"canceling", "canceled"}
    /\ x.pc = "notify" => status[r] = "paid"

HolderKnows(x, r) ==
    Backed(r, x.st) /\ Planned(x) /\ Sighted(x, r) /\ Unasked(x, r)

Knows(p) ==
    LET x == run[p]
        r == run[p].key IN
    /\ x.kind = "post" /\ x.pc \notin {"idle", "enroll"} => enrolled[r]
    /\ x.pc \in {"enroll", "load"} => x.seen = Unseen
    /\ x.pc \notin Unlocked => HolderKnows(x, r)
    /\ x.pc \in {"fail", "tell"} => x.next \in {"paid", "retry"}
    /\ x.pc = "fail" => x.next = "retry"
    /\ x.pc = "tell" /\ x.next = "paid" => status[r] = "paid"
    /\ x.pc \in {"fail", "tell"} /\ x.next = "retry" => Over(r)

(* What the rows of a reservation, and Square, stand for.                  *)
Rows(r) ==
    /\ Backed(r, split[r])
    /\ (status[r] = "paid") <=> (split[r].stage = "paid")
    /\ status[r] = "paid" =>
          enrolled[r] /\ \A leg \in Legs : payment[r][leg] = "COMPLETED"
    /\ split[r].stage = "canceled" => \A leg \in Legs : Void(r, leg)
    /\ \A leg \in Legs : asked[r][leg] <= 1
    /\ settled[r] => \A leg \in Legs : payment[r][leg] # "none"
    /\ NoCapture(r) \/ \A leg \in Legs : payment[r][leg] # "none"
    /\ "paid" \in told[r] => status[r] = "paid"

Recorded(r) == Rows(r) /\ ("retry" \in told[r] => Over(r))

SplitInv ==
    /\ Typed /\ OneHolder
    /\ \A p \in Runs : Knows(p)
    /\ \A r \in Reservations : Recorded(r)

-----------------------------------------------------------------------------
(* What a step may do to what others rely on.                              *)

SteadyAt(r) ==
    /\ enrolled[r] => enrolled'[r]
    /\ status[r] = "paid" => status'[r] = "paid"
    /\ \A leg \in Legs :
          /\ payment[r][leg] = "COMPLETED" => payment'[r][leg] = "COMPLETED"
          /\ payment[r][leg] # "none" => payment'[r][leg] # "none"
    /\ (\A p \in Runs : run[p].key = r => run[p].pc \notin {"pay", "complete"}) =>
          \A leg \in Legs : Void(r, leg) => Void(r, leg)'

Steady == \A r \in Reservations : SteadyAt(r)

(* Only the holder of a reservation writes its state or asks for payment,  *)
(* and the lock is taken while nobody holds it and there is work left.     *)
ByHolder(p) ==
    \A r \in Reservations :
        /\ split'[r] # split[r] \/ asked'[r] # asked[r] => Holds(p, r)
        /\ Holds(p, r)' => \/ Holds(p, r)
                           \/ split[r].stage # "canceled" /\ \A q \in Runs : ~Holds(q, r)

LEMMA HolderRests ==
    ASSUME SplitInv, Steady, NEW x \in Records, NEW r \in Reservations,
           split'[r] = split[r], asked'[r] = asked[r], HolderKnows(x, r),
           x.pc \notin {"pay", "complete"} => \A leg \in Legs : Void(r, leg) => Void(r, leg)'
    PROVE  HolderKnows(x, r)'
<1>1. Backed(r, x.st)'
  BY DEF HolderKnows, Backed, Bought, Spent, Steady, SteadyAt, Records, States
<1>2. Sighted(x, r)'
  BY DEF HolderKnows, Planned, Sighted, Steady, SteadyAt
<1>3. Unasked(x, r)'
  BY DEF HolderKnows, Unasked, Steady, SteadyAt
<1>. QED
  BY <1>1, <1>2, <1>3 DEF HolderKnows, Planned

LEMMA OthersKnow ==
    ASSUME SplitInv, Steady, NEW p \in Runs, ByHolder(p),
           \A q \in Runs \ {p} : run'[q] = run[q]
    PROVE  /\ OneHolder'
           /\ \A r \in Reservations : Over(r) => Over(r)'
           /\ \A q \in Runs \ {p} : Knows(q)'
<1>. USE DEF SplitInv
<1>1. OneHolder'
  BY DEF OneHolder, Holds, ByHolder
<1>2. ASSUME NEW r \in Reservations, Over(r) PROVE Over(r)'
  BY <1>2 DEF Over, Holds, ByHolder
<1>3. ASSUME NEW q \in Runs \ {p} PROVE Knows(q)'
  <2>. DEFINE x == run[q]
              r == run[q].key
  <2>1. CASE run[q].pc = "idle"
    BY <1>3, <2>1 DEF Knows, Unlocked
  <2>2. CASE run[q].pc # "idle" /\ run[q].pc \in Unlocked
    <3>1. r \in Reservations
      BY <2>2 DEF Typed
    <3>. QED
      BY <1>2, <1>3, <2>2, <3>1 DEF Knows, Steady, SteadyAt
  <2>3. CASE run[q].pc \notin Unlocked
    <3>1. r \in Reservations /\ Holds(q, r)
      BY <2>3 DEF Typed, Holds, Unlocked
    <3>2. split'[r] = split[r] /\ asked'[r] = asked[r]
      BY <3>1 DEF ByHolder, OneHolder
    <3>3. HolderKnows(x, r) /\ x \in Records
      BY <2>3 DEF Knows, Typed
    <3>4. PICK y \in Records, s \in Reservations : y = run[q] /\ s = y.key
      BY <3>1, <3>3
    <3>5. y.pc \notin {"pay", "complete"} => \A leg \in Legs : Void(s, leg) => Void(s, leg)'
      <4>1. \A o \in Runs : run[o].key = s /\ run[o].pc \in {"pay", "complete"} => o = q
        BY <3>1, <3>4 DEF OneHolder, Holds, Unlocked
      <4>. QED
        BY <3>4, <4>1 DEF Steady, SteadyAt
    <3>6. HolderKnows(y, s)'
      BY <3>2, <3>3, <3>4, <3>5, HolderRests
    <3>. QED
      BY <1>3, <2>3, <3>1, <3>4, <3>6 DEF Knows, Steady, SteadyAt, Unlocked
  <2>. QED
    BY <2>1, <2>2, <2>3
<1>. QED
  BY <1>1, <1>2, <1>3

-----------------------------------------------------------------------------
(* Where a run goes.                                                       *)

LEMMA RecordParts ==
    ASSUME NEW x \in Records
    PROVE  /\ x.pc \in Pcs /\ x.next \in Plans /\ x.st \in States
           /\ x.st.stage \in Stages /\ x.st.ids \subseteq Legs
           /\ x.seen \in [Legs -> Statuses \cup {"unseen", "void", "rejected"}]
BY DEF Records, States

LEMMA IdleIs ==
    /\ Idle \in Records /\ Idle.pc = "idle" /\ Idle.key = None
<1>1. Nothing \in States
  BY DEF Nothing, States, Stages
<1>2. Unseen \in [Legs -> Statuses \cup {"unseen", "void", "rejected"}]
  BY DEF Unseen
<1>. QED
  BY <1>1, <1>2 DEF Idle, Records, Pcs, Plans

LEMMA IdleKnows ==
    ASSUME NEW p \in Runs, run'[p] = Idle
    PROVE  Knows(p)'
BY DEF Knows, Idle, Unlocked

LEMMA SavingIs ==
    ASSUME NEW x \in Records, NEW stage \in Stages, NEW next \in Plans
    PROVE  LET y == Saving(x, stage, next)
           IN /\ y \in Records
              /\ y.pc = "save" /\ y.next = next /\ y.st.stage = stage
              /\ y.st.ids = x.st.ids /\ y.st.order = x.st.order /\ y.seen = x.seen
              /\ y.key = x.key /\ y.kind = x.kind /\ y.caught = x.caught
<1>. DEFINE y == Saving(x, stage, next)
<1>1. y.st = [x.st EXCEPT !.stage = stage]
  BY DEF Saving, Records, States
<1>2. y.st \in States /\ y.st.stage = stage /\ y.st.ids = x.st.ids /\ y.st.order = x.st.order
  BY <1>1 DEF Records, States
<1>3. /\ y.pc = "save" /\ y.next = next /\ y.seen = x.seen
      /\ y.key = x.key /\ y.kind = x.kind /\ y.caught = x.caught
  BY DEF Saving, Records
<1>4. y \in Records
  BY <1>2 DEF Saving, Records, Pcs
<1>. QED
  BY <1>2, <1>3, <1>4

LEMMA CancelingIs ==
    ASSUME NEW x \in Records
    PROVE  LET y == Canceling(x)
           IN /\ y \in Records
              /\ y.pc = "save" /\ y.next = "cancel" /\ y.st.stage = "canceling"
              /\ y.st.ids = x.st.ids /\ y.key = x.key /\ y.kind = x.kind
              /\ \A leg \in Legs : y.seen[leg] = "unseen"
<1>. DEFINE z == [x EXCEPT !.seen = Unseen]
<1>1. /\ z \in Records /\ z.seen = Unseen /\ z.st = x.st /\ z.key = x.key
      /\ z.kind = x.kind
  BY DEF Records, Unseen
<1>. HIDE DEF z
<1>2. Canceling(x) = Saving(z, "canceling", "cancel")
  BY DEF Canceling, z
<1>. QED
  BY <1>1, <1>2, SavingIs DEF Stages, Plans, Unseen

LEMMA CancelingHolds ==
    ASSUME NEW x \in Records, NEW r \in Reservations, Bought(r, x.st)'
    PROVE  HolderKnows(Canceling(x), r)'
<1>. DEFINE y == Canceling(x)
<1>1. /\ y.pc = "save" /\ y.next = "cancel" /\ y.st.stage = "canceling" /\ y.st.ids = x.st.ids
      /\ \A leg \in Legs : y.seen[leg] = "unseen"
  BY CancelingIs
<1>. HIDE DEF y
<1>2. Backed(r, y.st)'
  BY <1>1 DEF Backed, Bought, Spent
<1>3. Planned(y)
  BY <1>1 DEF Planned
<1>4. Sighted(y, r)'
  BY <1>1 DEF Sighted
<1>5. Unasked(y, r)'
  BY <1>1 DEF Unasked, Legs
<1>. QED
  BY <1>2, <1>3, <1>4, <1>5 DEF HolderKnows, y

LEMMA BoughtRests ==
    ASSUME Steady, NEW x \in Records, NEW r \in Reservations, Bought(r, x.st)
    PROVE  Bought(r, x.st)'
BY RecordParts DEF Bought, Steady, SteadyAt

(* The record of a run that goes on at work, or ends.                      *)
LEMMA WorkerKnows ==
    ASSUME NEW p \in Runs, NEW r \in Reservations, NEW y \in Records, run'[p] = y,
           y.key = r, y.pc \notin Unlocked, HolderKnows(y, r)', y.kind = "post" => enrolled'[r]
    PROVE  Knows(p)'
BY DEF Knows, Unlocked

LEMMA HolderOf ==
    ASSUME SplitInv, NEW p \in Runs, run[p].pc \notin Unlocked
    PROVE  /\ run[p] \in Records /\ run[p].key \in Reservations
           /\ HolderKnows(run[p], run[p].key) /\ Holds(p, run[p].key)
           /\ run[p].kind = "post" => enrolled[run[p].key]
BY DEF SplitInv, Typed, Knows, Unlocked, Holds

LEMMA ThrownIs ==
    ASSUME NEW x \in Records
    PROVE  \/ Thrown(x) = Idle
           \/ /\ ~x.caught /\ x.st.stage \notin {"capturing", "completing"}
              /\ Thrown(x) = Canceling([x EXCEPT !.caught = TRUE])
BY DEF Thrown

LEMMA ThrownKnows ==
    ASSUME SplitInv, Steady, NEW p \in Runs, run[p].pc \notin Unlocked,
           run'[p] = Thrown(run[p])
    PROVE  Knows(p)'
<1>. DEFINE x == run[p]
            r == run[p].key
            z == [x EXCEPT !.caught = TRUE]
<1>1. x \in Records /\ r \in Reservations /\ Bought(r, x.st) /\ (x.kind = "post" => enrolled[r])
  BY HolderOf DEF HolderKnows, Backed
<1>2. CASE Thrown(x) = Idle
  BY <1>2, IdleKnows
<1>3. CASE Thrown(x) = Canceling(z)
  <2>1. z \in Records /\ z.st = x.st /\ z.key = r /\ z.kind = x.kind
    BY <1>1 DEF Records
  <2>. HIDE DEF z
  <2>2. PICK v \in Records : v = z
    BY <2>1
  <2>3. PICK s \in Reservations : s = r
    BY <1>1
  <2>4. Bought(s, v.st)'
    BY <1>1, <2>1, <2>2, <2>3, BoughtRests
  <2>5. HolderKnows(Canceling(v), s)'
    BY <2>4, CancelingHolds
  <2>6. PICK y \in Records : y = Canceling(v)
    BY CancelingIs
  <2>7. /\ run'[p] = y /\ y.key = s /\ y.pc \notin Unlocked /\ y.kind = v.kind
        /\ HolderKnows(y, s)'
    BY <1>3, <2>1, <2>2, <2>3, <2>5, <2>6, CancelingIs DEF Unlocked
  <2>8. y.kind = "post" => enrolled'[s]
    BY <1>1, <2>1, <2>2, <2>3, <2>7 DEF Steady, SteadyAt
  <2>. QED
    BY <2>7, <2>8, WorkerKnows
<1>. QED
  BY <1>1, <1>2, <1>3, ThrownIs

(* Somewhere at work, knowing what the place asks for.                     *)
AtWork(y, x, r) ==
    /\ y \in Records /\ y.key = x.key /\ y.kind = x.kind /\ y.pc \notin Unlocked
    /\ HolderKnows(y, r)

(* What it saw of the payments is so, and it is not giving them up.        *)
Aware(x, r) ==
    \A leg \in Legs : /\ x.seen[leg] = "COMPLETED" => payment[r][leg] = "COMPLETED"
                      /\ x.seen[leg] # "void"

LEMMA CancelingWorks ==
    ASSUME NEW x \in Records, NEW r \in Reservations, Bought(r, x.st)'
    PROVE  AtWork(Canceling(x), x, r)'
BY CancelingIs, CancelingHolds DEF AtWork, Unlocked

LEMMA SavingWorks ==
    ASSUME NEW x \in Records, NEW r \in Reservations, NEW stage \in Stages, NEW next \in Plans,
           Planned(Saving(x, stage, next)), Sighted(Saving(x, stage, next), r)',
           Unasked(Saving(x, stage, next), r)', Backed(r, Saving(x, stage, next).st)'
    PROVE  AtWork(Saving(x, stage, next), x, r)'
BY SavingIs DEF AtWork, Unlocked, HolderKnows

LEMMA ReadingWorks ==
    ASSUME NEW x \in Records, NEW r \in Reservations, Backed(r, x.st)', x.st.ids = Legs,
           NEW next \in {"decide", "complete", "verify"},
           next # "decide" => x.st.stage = "completing",
           split'[r].stage # "canceled"
    PROVE  AtWork(Reading(x, next), x, r)'
<1>. DEFINE y == Reading(x, next)
<1>1. /\ y \in Records /\ y.pc = "read" /\ y.next = next /\ y.st = x.st
      /\ y.key = x.key /\ y.kind = x.kind /\ \A leg \in Legs : y.seen[leg] = "unseen"
  BY DEF Reading, Records, Unseen, Pcs, Plans
<1>. HIDE DEF y
<1>2. Planned(y) /\ Sighted(y, r)' /\ Unasked(y, r)'
  BY <1>1 DEF Planned, Sighted, Unasked, Legs
<1>. QED
  BY <1>1, <1>2 DEF AtWork, HolderKnows, Unlocked, y

LEMMA OnwardWorks ==
    ASSUME NEW x \in Records, NEW r \in Reservations, Backed(r, x.st)', Aware(x, r)',
           x.st.stage \in Going, ~Interrupted(x.st), split'[r].stage # "canceled"
    PROVE  AtWork(Onward(x), x, r)'
<1>1. CASE x.st.order /\ x.st.ids = Legs
  BY <1>1, ReadingWorks DEF Onward
<1>2. CASE ~(x.st.order /\ x.st.ids = Legs) /\ x.kind # "post"
  BY <1>2, CancelingWorks DEF Onward, Backed
<1>3. CASE x.kind = "post" /\ ~x.st.order
  <2>. DEFINE y == At(x, "order")
  <2>1. Onward(x) = y
    BY <1>3 DEF Onward
  <2>2. /\ y \in Records /\ y.pc = "order" /\ y.next = x.next /\ y.st = x.st
        /\ y.key = x.key /\ y.kind = x.kind /\ y.seen = x.seen
    BY DEF At, Records, Pcs
  <2>. HIDE DEF y
  <2>3. Planned(y) /\ Sighted(y, r)' /\ Unasked(y, r)'
    BY <2>2 DEF Planned, Sighted, Unasked, Legs, Aware
  <2>. QED
    BY <2>1, <2>2, <2>3 DEF AtWork, HolderKnows, Unlocked
<1>4. CASE x.kind = "post" /\ x.st.order /\ x.st.ids # Legs
  <2>. DEFINE leg == IF "card" \in x.st.ids THEN "afterpay" ELSE "card"
              y == Saving(x, Authorizing(leg), leg)
  <2>1. Onward(x) = y
    BY <1>4 DEF Onward
  <2>2. leg \in Legs /\ leg \notin x.st.ids
    BY <1>4, RecordParts DEF Legs
  <2>. HIDE DEF leg
  <2>3. Authorizing(leg) \in Stages /\ leg \in Plans
    BY <2>2 DEF Authorizing, Legs, Stages, Plans
  <2>4. /\ y \in Records /\ y.pc = "save" /\ y.next = leg /\ y.st.stage = Authorizing(leg)
        /\ y.st.ids = x.st.ids /\ y.seen = x.seen /\ y.key = x.key /\ y.kind = x.kind
    BY <2>3, SavingIs
  <2>. HIDE DEF y
  <2>5. \A l \in Legs : asked'[r][l] # 0 => l \in x.st.ids
    BY <1>4 DEF Backed, Spent, Interrupted, Going
  <2>6. Backed(r, y.st)'
    BY <2>2, <2>4, <2>5 DEF Backed, Bought, Spent, Authorizing
  <2>7. Planned(y)
    BY <2>2, <2>4, <1>4 DEF Planned, Legs, Authorizing, Aware
  <2>8. Sighted(y, r)'
    BY <2>2, <2>4, <1>4 DEF Sighted, Legs, Aware
  <2>9. Unasked(y, r)'
    BY <2>2, <2>4, <2>5, <1>4 DEF Unasked, Legs
  <2>. QED
    BY <2>1, <2>4, <2>6, <2>7, <2>8, <2>9 DEF AtWork, HolderKnows, Unlocked
<1>. QED
  BY <1>1, <1>2, <1>3, <1>4

-----------------------------------------------------------------------------
(* A step of a run that holds the lock.                                    *)

Answered(y, x, r) ==
    /\ y \in Records /\ y.key = x.key /\ y.kind = x.kind
    /\ \/ y.pc = "tell" /\ y.next = "paid" /\ status[r] = "paid"
       \/ y.pc \in {"fail", "tell"} /\ y.next = "retry" /\ split[r].stage = "canceled"

GoesOn(y, x, r) == y = Idle \/ AtWork(y, x, r) \/ Answered(y, x, r)

(* It changes nothing of another reservation.                              *)
Only(r) ==
    /\ \A s \in Reservations \ {r} :
          /\ status'[s] = status[s] /\ enrolled'[s] = enrolled[s] /\ split'[s] = split[s]
          /\ payment'[s] = payment[s] /\ settled'[s] = settled[s] /\ asked'[s] = asked[s]
          /\ NoCapture(s) => NoCapture(s)'
    /\ told' = told

LEMMA HolderStep ==
    ASSUME SplitInv, NEW p \in Runs, run[p].pc \notin Unlocked,
           NEW x \in Records, NEW r \in Reservations, x = run[p], r = x.key,
           NEW y, run' = [run EXCEPT ![p] = y], GoesOn(y, x, r)',
           RowsTyped', Only(r), SteadyAt(r), Rows(r)'
    PROVE  SplitInv'
<1>. USE DEF SplitInv
<1>1. /\ Holds(p, r) /\ HolderKnows(x, r) /\ (x.kind = "post" => enrolled[r])
      /\ \A q \in Runs \ {p} : ~Holds(q, r)
  BY HolderOf DEF OneHolder
<1>2. Steady
  BY DEF Steady, SteadyAt, Only, Void
<1>3. run'[p] = y /\ \A q \in Runs \ {p} : run'[q] = run[q]
  BY DEF Typed
<1>4. y \in Records /\ (y.pc # "idle" => y.key = r)
  BY IdleIs DEF GoesOn, AtWork, Answered
<1>5. Typed'
  BY <1>3, <1>4 DEF Typed
<1>6. ByHolder(p)
  BY <1>1, <1>3, <1>4 DEF ByHolder, Only, Holds, Unlocked
<1>7. /\ OneHolder' /\ \A s \in Reservations : Over(s) => Over(s)'
      /\ \A q \in Runs \ {p} : Knows(q)'
  BY <1>2, <1>3, <1>6, OthersKnow
<1>8. Knows(p)'
  <2>1. CASE y = Idle
    BY <2>1, <1>3, IdleKnows
  <2>2. CASE AtWork(y, x, r)'
    BY <2>2, <1>1, <1>3, <1>4, WorkerKnows DEF AtWork, SteadyAt
  <2>3. CASE Answered(y, x, r)'
    <3>1. y.next = "retry" => Over(r)'
      BY <2>3, <1>1, <1>3 DEF Answered, Over, Holds, Unlocked
    <3>. QED
      BY <2>3, <3>1, <1>1, <1>3 DEF Answered, Knows, Unlocked, SteadyAt
  <2>. QED
    BY <2>1, <2>2, <2>3 DEF GoesOn
<1>9. ASSUME NEW s \in Reservations PROVE Recorded(s)'
  <2>1. "retry" \in told'[s] => Over(s)'
    BY <1>7 DEF Only, Recorded
  <2>2. CASE s # r
    <3>1. Rows(s)'
      BY <2>2 DEF Recorded, Rows, Only, Backed, Bought, Void
    <3>. QED
      BY <2>1, <3>1 DEF Recorded
  <2>. QED
    BY <2>1, <2>2 DEF Recorded
<1>. QED
  BY <1>3, <1>5, <1>7, <1>8, <1>9

LEMMA ThrownGoes ==
    ASSUME NEW x \in Records, NEW r \in Reservations, Bought(r, x.st)'
    PROVE  GoesOn(Thrown(x), x, r)'
<1>1. CASE Thrown(x) = Idle
  BY <1>1 DEF GoesOn
<1>2. CASE Thrown(x) = Canceling([x EXCEPT !.caught = TRUE])
  <2>. DEFINE z == [x EXCEPT !.caught = TRUE]
  <2>1. z \in Records /\ z.st = x.st /\ z.key = x.key /\ z.kind = x.kind
    BY DEF Records
  <2>. HIDE DEF z
  <2>2. AtWork(Canceling(z), z, r)'
    BY <2>1, CancelingWorks
  <2>. QED
    BY <1>2, <2>1, <2>2 DEF GoesOn, AtWork, z
<1>. QED
  BY <1>1, <1>2, ThrownIs

LEMMA CapturingWorks ==
    ASSUME NEW x \in Records, NEW r \in Reservations, Backed(r, x.st)', Aware(x, r)',
           x.st.ids = Legs, split'[r].stage # "canceled",
           NEW stage \in {"capturing", "completing"}, NEW next \in {"pay", "finalize", "reread"},
           (next = "reread") <=> (stage = "completing"),
           next = "finalize" => \A leg \in Legs : payment'[r][leg] = "COMPLETED"
    PROVE  AtWork(Saving(x, stage, next), x, r)'
<1>. DEFINE y == Saving(x, stage, next)
<1>1. /\ y \in Records /\ y.pc = "save" /\ y.next = next /\ y.st.stage = stage
      /\ y.st.ids = x.st.ids /\ y.seen = x.seen /\ y.key = x.key /\ y.kind = x.kind
  BY SavingIs DEF Stages, Plans
<1>. HIDE DEF y
<1>2. Backed(r, y.st)'
  BY <1>1 DEF Backed, Bought, Spent
<1>3. Planned(y)
  BY <1>1 DEF Planned, Aware
<1>4. Sighted(y, r)'
  BY <1>1 DEF Sighted, Aware
<1>5. Unasked(y, r)'
  BY <1>1 DEF Unasked, Legs
<1>. QED
  BY <1>1, <1>2, <1>3, <1>4, <1>5 DEF AtWork, HolderKnows, Unlocked, y

-----------------------------------------------------------------------------
(* Steps of the holder that only change what it remembers.                 *)

InMemory == UNCHANGED <<order, split, square, told>>

LEMMA MemoryKept ==
    ASSUME SplitInv, NEW p \in Runs, run[p].pc \notin Unlocked, InMemory
    PROVE  \E x \in Records, r \in Reservations :
               /\ x = run[p] /\ r = x.key
               /\ HolderKnows(x, r) /\ HolderKnows(x, r)' /\ Rows(r)'
<1>. USE DEF InMemory, order, square
<1>1. PICK x \in Records, r \in Reservations : x = run[p] /\ r = x.key /\ HolderKnows(x, r)
  BY HolderOf
<1>2. HolderKnows(x, r)'
  BY <1>1 DEF HolderKnows, Backed, Bought, Planned, Sighted, Unasked, Void, NoCapture
<1>3. Rows(r)'
  BY DEF SplitInv, Recorded, Rows, Backed, Bought, Void, NoCapture
<1>. QED
  BY <1>1, <1>2, <1>3

LEMMA MemoryStep ==
    ASSUME SplitInv, NEW p \in Runs, run[p].pc \notin Unlocked, InMemory,
           NEW x \in Records, NEW r \in Reservations, x = run[p], r = x.key,
           NEW y, run' = [run EXCEPT ![p] = y], GoesOn(y, x, r)',
           notice' \in [Reservations -> {"none", "claimed", "sent"}]
    PROVE  SplitInv'
<1>. USE DEF InMemory, order, square
<1>1. Only(r)
  BY DEF Only, NoCapture
<1>2. SteadyAt(r)
  BY DEF SteadyAt, Void, NoCapture
<1>3. Rows(r)'
  BY DEF SplitInv, Recorded, Rows, Backed, Bought, Void, NoCapture
<1>4. RowsTyped'
  BY DEF SplitInv, Typed, RowsTyped
<1>. QED
  BY <1>1, <1>2, <1>3, <1>4, HolderStep

LEMMA ReadingStep ==
    ASSUME SplitInv, NEW p \in Runs,
           createOrder(p) \/ \E leg \in Legs : getPayment(p, leg)
    PROVE  SplitInv'
<1>1. run[p].pc \in {"order", "read"} /\ InMemory /\ notice' = notice
  BY DEF createOrder, getPayment, InMemory
<1>2. PICK x \in Records, r \in Reservations :
         x = run[p] /\ r = x.key /\ HolderKnows(x, r) /\ HolderKnows(x, r)' /\ Rows(r)'
  BY <1>1, MemoryKept DEF Unlocked
<1>3. PICK y : run' = [run EXCEPT ![p] = y] /\ AtWork(y, x, r)'
  <2>1. CASE createOrder(p)
    <3>. DEFINE y == [x EXCEPT !.pc = "save", !.st.order = TRUE, !.next = "onward"]
    <3>1. /\ y.pc = "save" /\ y.next = "onward" /\ y.st = [x.st EXCEPT !.order = TRUE]
          /\ y.key = x.key /\ y.kind = x.kind /\ y.seen = x.seen
      BY DEF Records
    <3>3. x.pc = "order" /\ run' = [run EXCEPT ![p] = y]
      BY <2>1, <1>2 DEF createOrder
    <3>. HIDE DEF y
    <3>2. y.st.stage = x.st.stage /\ y.st.ids = x.st.ids /\ y.st \in States
      BY <3>1, RecordParts DEF States
    <3>4. y \in Records
      BY <3>1, <3>2 DEF Records, Pcs, Plans, y
    <3>5. Backed(r, y.st)'
      BY <1>2, <3>2 DEF HolderKnows, Backed, Bought, Spent
    <3>6. Planned(y) /\ Sighted(y, r)' /\ Unasked(y, r)'
      BY <1>2, <3>1, <3>2, <3>3
         DEF HolderKnows, Planned, Sighted, Unasked, Interrupted, Going, Legs
    <3>. QED
      BY <1>2, <3>1, <3>3, <3>4, <3>5, <3>6 DEF HolderKnows, AtWork, Unlocked
  <2>2. ASSUME NEW leg \in Legs, getPayment(p, leg) PROVE
          \E y : run' = [run EXCEPT ![p] = y] /\ AtWork(y, x, r)'
    <3>1. PICK v \in Statuses : v = payment[r][leg]
      BY DEF SplitInv, Typed, RowsTyped
    <3>. DEFINE y == [x EXCEPT !.seen[leg] = v]
    <3>2. /\ y.pc = x.pc /\ y.next = x.next /\ y.st = x.st
          /\ y.key = x.key /\ y.kind = x.kind
          /\ y.seen = [x.seen EXCEPT ![leg] = v] /\ y \in Records
      BY <3>1 DEF Records
    <3>3. x.pc = "read" /\ payment' = payment /\ run' = [run EXCEPT ![p] = y]
      BY <2>2, <1>2, <3>1 DEF getPayment, square
    <3>. HIDE DEF y
    <3>4. \A l \in Legs : y.seen[l] = IF l = leg THEN v ELSE x.seen[l]
      BY <3>2, RecordParts
    <3>5. Planned(y)
      BY <1>2, <3>1, <3>2, <3>3, <3>4 DEF HolderKnows, Planned, Statuses
    <3>6. Sighted(y, r)'
      BY <1>2, <3>1, <3>2, <3>3, <3>4 DEF HolderKnows, Planned, Sighted, Statuses
    <3>7. Unasked(y, r)'
      BY <1>2, <3>2, <3>3 DEF HolderKnows, Unasked, Legs
    <3>. QED
      BY <1>2, <3>2, <3>3, <3>5, <3>6, <3>7 DEF AtWork, Unlocked, HolderKnows
  <2>. QED
    BY <2>1, <2>2
<1>. QED
  BY <1>1, <1>2, <1>3, MemoryStep DEF GoesOn, Unlocked, SplitInv, Typed, RowsTyped

LEMMA DecidedGoes ==
    ASSUME NEW x \in Records, NEW r \in Reservations, HolderKnows(x, r)',
           x.pc = "read"
    PROVE  GoesOn(Decided(x), x, r)'
<1>1. /\ Backed(r, x.st)' /\ Aware(x, r)' /\ x.st.ids = Legs
      /\ split'[r].stage # "canceled"
  BY DEF HolderKnows, Planned, Sighted, Unasked, Aware
<1>2. AtWork(Canceling(x), x, r)'
  BY <1>1, CancelingWorks DEF Backed
<1>3. CASE Seen(x, {"COMPLETED"})
  <2>1. \A leg \in Legs : payment'[r][leg] = "COMPLETED"
    BY <1>1, <1>3 DEF Seen, Aware
  <2>. QED
    BY <1>1, <1>3, <2>1, CapturingWorks DEF Decided, GoesOn
<1>4. CASE ~Seen(x, {"COMPLETED"}) /\ \E leg \in Legs : x.seen[leg] \in {"CANCELED", "FAILED"}
  BY <1>2, <1>4 DEF Decided, GoesOn
<1>5. CASE /\ ~Seen(x, {"COMPLETED"}) /\ ~\E leg \in Legs : x.seen[leg] \in {"CANCELED", "FAILED"}
           /\ x.st.stage # "completing"
  BY <1>1, <1>5, CapturingWorks DEF Decided, GoesOn
<1>6. CASE /\ ~Seen(x, {"COMPLETED"}) /\ ~\E leg \in Legs : x.seen[leg] \in {"CANCELED", "FAILED"}
           /\ x.st.stage = "completing"
  BY <1>1, <1>6, ReadingWorks DEF Decided, GoesOn
<1>. QED
  BY <1>3, <1>4, <1>5, <1>6

LEMMA AtWorks ==
    ASSUME NEW x \in Records, NEW r \in Reservations, Backed(r, x.st)', Aware(x, r)',
           split'[r].stage # "canceled", x.st.stage = "completing",
           NEW pc \in {"complete", "finalize"},
           pc = "finalize" => \A leg \in Legs : payment'[r][leg] = "COMPLETED"
    PROVE  AtWork(At(x, pc), x, r)'
<1>. DEFINE y == At(x, pc)
<1>1. /\ y \in Records /\ y.pc = pc /\ y.next = x.next /\ y.st = x.st
      /\ y.key = x.key /\ y.kind = x.kind /\ y.seen = x.seen
  BY DEF At, Records, Pcs
<1>. HIDE DEF y
<1>2. Planned(y) /\ Sighted(y, r)' /\ Unasked(y, r)'
  BY <1>1 DEF Planned, Sighted, Unasked, Legs, Aware
<1>. QED
  BY <1>1, <1>2 DEF AtWork, HolderKnows, Unlocked, y

LEMMA readPaymentsStep ==
    ASSUME SplitInv, NEW p \in Runs, readPayments(p)
    PROVE  SplitInv'
<1>1. run[p].pc = "read" /\ InMemory /\ notice' = notice
  BY DEF readPayments, InMemory
<1>2. PICK x \in Records, r \in Reservations :
         x = run[p] /\ r = x.key /\ HolderKnows(x, r) /\ HolderKnows(x, r)' /\ Rows(r)'
  BY <1>1, MemoryKept DEF Unlocked
<1>3. /\ Backed(r, x.st)' /\ Aware(x, r)' /\ split'[r].stage # "canceled"
      /\ x.next \in {"decide", "complete", "verify"}
      /\ x.next # "decide" => x.st.stage = "completing"
  BY <1>1, <1>2 DEF HolderKnows, Planned, Sighted, Unasked, Aware
<1>. DEFINE y == CASE x.next = "decide" -> Decided(x)
                   [] x.next = "complete" -> At(x, "complete")
                   [] OTHER -> Verified(x)
<1>4. run' = [run EXCEPT ![p] = y]
  BY <1>2 DEF readPayments
<1>5. GoesOn(y, x, r)'
  <2>1. CASE x.next = "decide"
    BY <1>1, <1>2, <2>1, DecidedGoes
  <2>2. CASE x.next = "complete"
    BY <1>3, <2>2, AtWorks DEF GoesOn
  <2>3. CASE x.next = "verify"
    BY <1>3, <2>3, AtWorks DEF GoesOn, Verified, Seen, Aware
  <2>. QED
    BY <1>3, <2>1, <2>2, <2>3
<1>. HIDE DEF y
<1>. QED
  BY <1>1, <1>2, <1>4, <1>5, MemoryStep DEF Unlocked, SplitInv, Typed, RowsTyped

LEMMA CompletedBothStep ==
    ASSUME SplitInv, NEW p \in Runs, CompletedBoth(p)
    PROVE  SplitInv'
<1>1. run[p].pc = "complete" /\ InMemory /\ notice' = notice
  BY DEF CompletedBoth, InMemory
<1>2. PICK x \in Records, r \in Reservations :
         x = run[p] /\ r = x.key /\ HolderKnows(x, r) /\ HolderKnows(x, r)' /\ Rows(r)'
  BY <1>1, MemoryKept DEF Unlocked
<1>3. /\ Backed(r, x.st)' /\ x.st.stage = "completing" /\ x.st.ids = Legs
      /\ split'[r].stage # "canceled"
  BY <1>1, <1>2 DEF HolderKnows, Planned, Unasked, Backed
<1>4. run' = [run EXCEPT ![p] = Reading(x, "verify")]
  BY <1>2 DEF CompletedBoth
<1>5. GoesOn(Reading(x, "verify"), x, r)'
  BY <1>3, ReadingWorks DEF GoesOn
<1>. QED
  BY <1>1, <1>2, <1>4, <1>5, MemoryStep DEF Unlocked, SplitInv, Typed, RowsTyped

LEMMA CanceledBothStep ==
    ASSUME SplitInv, NEW p \in Runs, CanceledBoth(p)
    PROVE  SplitInv'
<1>1. run[p].pc = "cancel" /\ InMemory /\ notice' = notice
  BY DEF CanceledBoth, InMemory
<1>2. PICK x \in Records, r \in Reservations :
         x = run[p] /\ r = x.key /\ HolderKnows(x, r) /\ HolderKnows(x, r)' /\ Rows(r)'
  BY <1>1, MemoryKept DEF Unlocked
<1>3. run' = [run EXCEPT ![p] = CancelSettled(x)]
  BY <1>2 DEF CanceledBoth
<1>4. GoesOn(CancelSettled(x), x, r)'
  <2>1. CASE ~Seen(x, {"void"})
    BY <2>1 DEF GoesOn, CancelSettled
  <2>2. CASE Seen(x, {"void"})
    <3>. DEFINE y == Saving(x, "canceled", "retry")
    <3>1. /\ y \in Records /\ y.pc = "save" /\ y.next = "retry" /\ y.st.stage = "canceled"
          /\ y.st.ids = x.st.ids /\ y.seen = x.seen /\ y.key = x.key /\ y.kind = x.kind
      BY SavingIs DEF Stages, Plans
    <3>. HIDE DEF y
    <3>2. Backed(r, y.st)'
      BY <1>2, <3>1 DEF HolderKnows, Backed, Bought, Spent
    <3>3. Planned(y)
      BY <3>1 DEF Planned
    <3>4. Sighted(y, r)'
      BY <1>2, <2>2, <3>1 DEF HolderKnows, Sighted, Seen
    <3>5. split'[r].stage # "canceled"
      BY <1>1, <1>2 DEF HolderKnows, Unasked
    <3>6. Unasked(y, r)'
      BY <3>1, <3>5 DEF Unasked, Legs
    <3>. QED
      BY <2>2, <3>1, <3>2, <3>3, <3>4, <3>6
         DEF GoesOn, AtWork, HolderKnows, Unlocked, CancelSettled, y
  <2>. QED
    BY <2>1, <2>2
<1>. QED
  BY <1>1, <1>2, <1>3, <1>4, MemoryStep DEF Unlocked, SplitInv, Typed, RowsTyped

LEMMA UnreadStep ==
    ASSUME SplitInv, NEW p \in Runs, Unread(p)
    PROVE  SplitInv'
<1>1. run[p].pc \in {"read", "order"} /\ InMemory /\ notice' = notice
  BY DEF Unread, InMemory
<1>2. PICK x \in Records, r \in Reservations :
         x = run[p] /\ r = x.key /\ HolderKnows(x, r) /\ HolderKnows(x, r)' /\ Rows(r)'
  BY <1>1, MemoryKept DEF Unlocked
<1>3. run' = [run EXCEPT ![p] = Thrown(x)]
  BY <1>2 DEF Unread
<1>4. GoesOn(Thrown(x), x, r)'
  BY <1>2, ThrownGoes DEF HolderKnows, Backed
<1>. QED
  BY <1>1, <1>2, <1>3, <1>4, MemoryStep DEF Unlocked, SplitInv, Typed, RowsTyped

LEMMA notifyPaidTrainingOrderStep ==
    ASSUME SplitInv, NEW p \in Runs, notifyPaidTrainingOrder(p)
    PROVE  SplitInv'
<1>1. /\ run[p].pc = "notify" /\ InMemory
      /\ notice' \in [Reservations -> {"none", "claimed", "sent"}]
  BY DEF notifyPaidTrainingOrder, InMemory, SplitInv, Typed, RowsTyped
<1>2. PICK x \in Records, r \in Reservations :
         x = run[p] /\ r = x.key /\ HolderKnows(x, r) /\ HolderKnows(x, r)' /\ Rows(r)'
  BY <1>1, MemoryKept DEF Unlocked
<1>3. run' = [run EXCEPT ![p] = Answering(x, "paid")]
  BY <1>2 DEF notifyPaidTrainingOrder
<1>4. GoesOn(Answering(x, "paid"), x, r)'
  <2>1. CASE x.kind \notin {"post", "status"}
    BY <2>1 DEF GoesOn, Answering
  <2>2. CASE x.kind \in {"post", "status"}
    <3>. DEFINE y == [x EXCEPT !.pc = "tell", !.next = "paid"]
    <3>1. /\ y \in Records /\ y.pc = "tell" /\ y.next = "paid" /\ y.key = x.key
          /\ y.kind = x.kind
      BY DEF Records, Pcs, Plans
    <3>2. Answering(x, "paid") = y
      BY <2>2 DEF Answering
    <3>. HIDE DEF y
    <3>3. status'[r] = "paid"
      BY <1>1, <1>2 DEF HolderKnows, Unasked
    <3>. QED
      BY <3>1, <3>2, <3>3 DEF GoesOn, Answered
  <2>. QED
    BY <2>1, <2>2
<1>. QED
  BY <1>1, <1>2, <1>3, <1>4, MemoryStep DEF Unlocked

-----------------------------------------------------------------------------
(* Steps of the holder that call Square.                                   *)

LEMMA HolderIs ==
    ASSUME SplitInv, NEW p \in Runs, run[p].pc \notin Unlocked
    PROVE  \E x \in Records, r \in Reservations :
               /\ x = run[p] /\ r = x.key /\ HolderKnows(x, r) /\ Rows(r)
               /\ x.kind = "post" => enrolled[r]
BY HolderOf DEF SplitInv, Recorded

Kept == UNCHANGED <<order, notice, split, told>>

(* What it does to Square is enough to know.                               *)
LEMMA SquareStep ==
    ASSUME SplitInv, NEW p \in Runs, run[p].pc \notin Unlocked,
           NEW x \in Records, NEW r \in Reservations, x = run[p], r = x.key,
           NEW y, run' = [run EXCEPT ![p] = y], GoesOn(y, x, r)',
           UNCHANGED <<order, split, told>>, RowsTyped', Only(r), SteadyAt(r),
           \A leg \in Legs : /\ asked'[r][leg] <= 1
                             /\ asked'[r][leg] # 0 => Spent(split[r], leg),
           settled'[r] \/ ~NoCapture(r)' => \A leg \in Legs : payment'[r][leg] # "none"
    PROVE  SplitInv'
<1>. USE DEF order
<1>1. HolderKnows(x, r) /\ Rows(r) /\ split[r] \in States
  BY HolderOf DEF SplitInv, Recorded, Typed, RowsTyped
<1>2. ASSUME split[r].stage = "canceled" PROVE \A leg \in Legs : Void(r, leg)'
  <2>1. \A q \in Runs : run[q].key = r => run[q].pc \notin {"pay", "complete"}
    BY <1>1, <1>2, HolderOf DEF HolderKnows, Unasked, SplitInv, OneHolder, Holds, Unlocked
  <2>. QED
    BY <1>1, <1>2, <2>1 DEF Rows, SteadyAt
<1>3. Backed(r, split[r])'
  BY <1>1 DEF Rows, Backed, Bought, SteadyAt, States, Spent
<1>4. Rows(r)'
  BY <1>1, <1>2, <1>3 DEF Rows, SteadyAt
<1>. QED
  BY <1>4, HolderStep

LEMMA authorizeStep ==
    ASSUME SplitInv, NEW p \in Runs, NEW leg \in Legs, authorize(p, leg) \/ Declined(p, leg)
    PROVE  SplitInv'
<1>1. run[p].pc = leg /\ leg \notin Unlocked
  BY DEF authorize, Declined, Legs, Unlocked
<1>2. PICK x \in Records, r \in Reservations :
         /\ x = run[p] /\ r = x.key /\ HolderKnows(x, r) /\ Rows(r)
         /\ x.kind = "post" => enrolled[r]
  BY <1>1, HolderIs
<1>3. /\ x.st.stage = Authorizing(leg) /\ leg \notin x.st.ids /\ asked[r][leg] = 0
      /\ x.kind = "post" /\ split[r] = x.st
      /\ Backed(r, x.st) /\ Aware(x, r)
  BY <1>1, <1>2 DEF HolderKnows, Unasked, Planned, Sighted, Aware, Legs
<1>4. PICK result \in {"APPROVED", "FAILED"} :
         payment' = [payment EXCEPT ![r][leg] = IF @ = "none" THEN result ELSE @]
  BY <1>2 DEF authorize, Declined, Authorized
<1>5. /\ Kept /\ settled' = settled /\ late' = late
      /\ asked' = [asked EXCEPT ![r][leg] = @ + 1]
  BY <1>2 DEF authorize, Declined, Authorized, Kept
<1>6. RowsTyped /\ RowsTyped'
  BY <1>4, <1>5 DEF SplitInv, Typed, RowsTyped, Kept, order, Statuses
<1>7. /\ \A s \in Reservations \ {r} : payment'[s] = payment[s] /\ asked'[s] = asked[s]
      /\ \A l \in Legs :
            /\ payment'[r][l] = IF l = leg /\ payment[r][l] = "none" THEN result
                                ELSE payment[r][l]
            /\ asked'[r][l] = IF l = leg THEN 1 ELSE asked[r][l]
  BY <1>3, <1>4, <1>5, <1>6 DEF RowsTyped
<1>8. Only(r) /\ SteadyAt(r)
  BY <1>5, <1>7 DEF Only, SteadyAt, NoCapture, Void, Kept, order
<1>9. /\ \A l \in Legs : asked'[r][l] <= 1 /\ (asked'[r][l] # 0 => Spent(split[r], l))
      /\ settled'[r] \/ ~NoCapture(r)' => \A l \in Legs : payment'[r][l] # "none"
  BY <1>2, <1>3, <1>5, <1>7 DEF Rows, Backed, Spent, NoCapture
<1>10. PICK v \in Statuses : v = payment'[r][leg] /\ v # "none"
  BY <1>4, <1>6, <1>7 DEF RowsTyped
<1>11. PICK y : run' = [run EXCEPT ![p] = y] /\ GoesOn(y, x, r)'
  <2>1. CASE authorize(p, leg)
    <3>. DEFINE st == [x.st EXCEPT !.ids = x.st.ids \cup {leg}]
                y == [x EXCEPT !.pc = "save", !.st.ids = @ \cup {leg}, !.seen[leg] = v,
                               !.next = "authorized"]
    <3>1. run' = [run EXCEPT ![p] = y]
      <4>1. run' = [run EXCEPT ![p] =
                      [run[p] EXCEPT !.pc = "save", !.st.ids = @ \cup {leg},
                                     !.seen[leg] = payment'[run[p].key][leg],
                                     !.next = "authorized"]]
        BY <2>1 DEF authorize
      <4>. QED
        BY <1>2, <1>10, <4>1
    <3>2. /\ y.pc = "save" /\ y.next = "authorized" /\ y.st = st
          /\ y.key = x.key /\ y.kind = x.kind /\ y.seen = [x.seen EXCEPT ![leg] = v]
      BY DEF Records
    <3>3. st \in States /\ st.stage = x.st.stage /\ st.ids = x.st.ids \cup {leg}
      BY RecordParts DEF States
    <3>4. y \in Records
      BY <3>3 DEF Records, Pcs, Plans
    <3>5. \A l \in Legs : y.seen[l] = IF l = leg THEN v ELSE x.seen[l]
      BY <3>2, RecordParts
    <3>. HIDE DEF y, st
    <3>6. Backed(r, y.st)'
      BY <1>2, <1>3, <1>5, <1>7, <1>10, <3>2, <3>3, RecordParts
         DEF Backed, Bought, Spent, Authorizing, Kept, order
    <3>7. Planned(y)
      BY <1>3, <1>10, <3>2, <3>3, <3>5
         DEF Planned, Aware, Interrupted, Going, Authorizing, Statuses, Legs
    <3>8. Sighted(y, r)'
      BY <1>3, <1>7, <1>10, <3>2, <3>5 DEF Sighted, Aware, Statuses
    <3>9. Unasked(y, r)'
      BY <1>3, <1>5, <3>2 DEF Unasked, Kept, Authorizing, Legs
    <3>. QED
      BY <3>1, <3>2, <3>4, <3>6, <3>7, <3>8, <3>9 DEF GoesOn, AtWork, HolderKnows, Unlocked
  <2>2. CASE Declined(p, leg)
    <3>1. Bought(r, x.st)'
      BY <1>3, <1>8, RecordParts DEF Backed, Bought, SteadyAt
    <3>. QED
      BY <1>2, <2>2, <3>1, ThrownGoes DEF Declined
  <2>. QED
    BY <2>1, <2>2
<1>. QED
  BY <1>1, <1>2, <1>5, <1>6, <1>8, <1>9, <1>11, SquareStep DEF Kept

(* A payment is captured by its holder only, once Square has both.         *)
LEMMA payOrderStep ==
    ASSUME SplitInv, NEW p \in Runs, payOrder(p)
    PROVE  SplitInv'
<1>1. run[p].pc = "pay"
  BY DEF payOrder
<1>2. PICK x \in Records, r \in Reservations :
         x = run[p] /\ r = x.key /\ HolderKnows(x, r) /\ Rows(r)
  BY <1>1, HolderIs DEF Unlocked
<1>3. /\ x.st.stage = "capturing" /\ x.st.ids = Legs /\ split[r].stage # "canceled"
      /\ Backed(r, x.st) /\ Aware(x, r) /\ x.pc = "pay"
      /\ \A leg \in Legs : payment[r][leg] # "none"
  BY <1>1, <1>2 DEF HolderKnows, Unasked, Planned, Sighted, Aware, Backed, Bought
<1>4. Kept /\ asked' = asked /\ late' = late
  BY DEF payOrder, Kept
<1>5. /\ \A s \in Reservations \ {r} : payment'[s] = payment[s] /\ settled'[s] = settled[s]
      /\ \A leg \in Legs : payment'[r][leg] \in {payment[r][leg], "COMPLETED"}
      /\ RowsTyped'
  <2>1. CASE UNCHANGED <<payment, settled>>
    BY <1>4, <2>1 DEF SplitInv, Typed, RowsTyped, Kept, order, Statuses
  <2>2. CASE \E taken \in BOOLEAN : OrderPaid(r, taken)
    BY <1>4, <2>2 DEF OrderPaid, SplitInv, Typed, RowsTyped, Kept, order, Statuses
  <2>. QED
    BY <1>2, <2>1, <2>2 DEF payOrder
<1>6. Only(r) /\ SteadyAt(r)
  BY <1>1, <1>2, <1>3, <1>4, <1>5 DEF Only, SteadyAt, NoCapture, Kept, order
<1>7. GoesOn(Thrown(x), x, r)'
  BY <1>3, <1>6, RecordParts, ThrownGoes DEF Backed, Bought, SteadyAt
<1>8. GoesOn(Saving(x, "completing", "reread"), x, r)'
  <2>1. Backed(r, x.st)' /\ Aware(x, r)' /\ split'[r].stage # "canceled"
    BY <1>3, <1>4, <1>6 DEF Backed, Bought, Aware, SteadyAt, Kept
  <2>. QED
    BY <1>3, <2>1, CapturingWorks DEF GoesOn
<1>9. \A leg \in Legs : /\ asked'[r][leg] <= 1
                        /\ asked'[r][leg] # 0 => Spent(split[r], leg)
  BY <1>2, <1>4 DEF Rows, Backed
<1>10. settled'[r] \/ ~NoCapture(r)' => \A leg \in Legs : payment'[r][leg] # "none"
  BY <1>3, <1>5
<1>11. CASE run' = [run EXCEPT ![p] = Thrown(x)]
  BY <1>1, <1>2, <1>4, <1>5, <1>6, <1>7, <1>9, <1>10, <1>11, SquareStep DEF Unlocked, Kept
<1>12. CASE run' = [run EXCEPT ![p] = Saving(x, "completing", "reread")]
  BY <1>1, <1>2, <1>4, <1>5, <1>6, <1>8, <1>9, <1>10, <1>12, SquareStep DEF Unlocked, Kept
<1>. QED
  BY <1>2, <1>11, <1>12 DEF payOrder

LEMMA completeStep ==
    ASSUME SplitInv, NEW p \in Runs, complete(p)
    PROVE  SplitInv'
<1>1. run[p].pc = "complete"
  BY DEF complete
<1>2. PICK x \in Records, r \in Reservations :
         x = run[p] /\ r = x.key /\ HolderKnows(x, r) /\ Rows(r)
  BY <1>1, HolderIs DEF Unlocked
<1>. DEFINE leg == FirstOf(Uncompleted(x))
<1>3. /\ x.st.stage = "completing" /\ x.st.ids = Legs /\ split[r].stage # "canceled"
      /\ Backed(r, x.st) /\ Aware(x, r) /\ x.pc = "complete"
      /\ \A l \in Legs : payment[r][l] # "none"
      /\ leg \in Legs
  BY <1>1, <1>2 DEF HolderKnows, Unasked, Planned, Sighted, Aware, Backed, Bought, FirstOf, Legs
<1>. HIDE DEF leg
<1>4. Kept /\ asked' = asked /\ late' = late /\ settled' = settled
  BY DEF complete, Completed, Kept
<1>5. \/ /\ payment' = payment /\ run' = [run EXCEPT ![p] = Thrown(x)]
      \/ /\ payment' = [payment EXCEPT ![r][leg] = "COMPLETED"]
         /\ run' = [run EXCEPT ![p].seen[leg] = "COMPLETED"]
  BY <1>2 DEF complete, Completed, leg
<1>6. /\ \A s \in Reservations \ {r} : payment'[s] = payment[s]
      /\ \A l \in Legs : payment'[r][l] \in {payment[r][l], "COMPLETED"}
      /\ RowsTyped'
  <2>1. CASE payment' = payment
    BY <1>4, <2>1 DEF SplitInv, Typed, RowsTyped, Kept, order
  <2>2. CASE payment' = [payment EXCEPT ![r][leg] = "COMPLETED"]
    <3>1. payment' \in [Reservations -> [Legs -> Statuses]]
      BY <1>3, <2>2 DEF SplitInv, Typed, RowsTyped, Statuses
    <3>2. RowsTyped'
      BY <1>4, <3>1 DEF SplitInv, Typed, RowsTyped, Kept, order
    <3>. QED
      BY <1>3, <2>2, <3>2 DEF SplitInv, Typed, RowsTyped
  <2>. QED
    BY <1>5, <2>1, <2>2
<1>7. Only(r) /\ SteadyAt(r)
  BY <1>1, <1>2, <1>3, <1>4, <1>6 DEF Only, SteadyAt, NoCapture, Kept, order
<1>8. /\ \A l \in Legs : asked'[r][l] <= 1 /\ (asked'[r][l] # 0 => Spent(split[r], l))
      /\ settled'[r] \/ ~NoCapture(r)' => \A l \in Legs : payment'[r][l] # "none"
  BY <1>2, <1>3, <1>4, <1>6 DEF Rows, Backed
<1>9. PICK y : run' = [run EXCEPT ![p] = y] /\ GoesOn(y, x, r)'
  <2>1. CASE run' = [run EXCEPT ![p] = Thrown(x)]
    BY <1>3, <1>7, <2>1, RecordParts, ThrownGoes DEF Backed, Bought, SteadyAt
  <2>2. CASE /\ payment' = [payment EXCEPT ![r][leg] = "COMPLETED"]
             /\ run' = [run EXCEPT ![p].seen[leg] = "COMPLETED"]
    <3>. DEFINE y == [x EXCEPT !.seen[leg] = "COMPLETED"]
    <3>1. /\ y.pc = x.pc /\ y.next = x.next /\ y.st = x.st /\ y.key = x.key
          /\ y.kind = x.kind /\ y.seen = [x.seen EXCEPT ![leg] = "COMPLETED"]
          /\ y \in Records
      BY <1>3 DEF Records, Statuses
    <3>2. run' = [run EXCEPT ![p] = y]
      BY <1>2, <2>2
    <3>. HIDE DEF y
    <3>3. \A l \in Legs : y.seen[l] = IF l = leg THEN "COMPLETED" ELSE x.seen[l]
      BY <3>1, RecordParts
    <3>4. payment'[r][leg] = "COMPLETED"
      BY <1>3, <2>2 DEF SplitInv, Typed, RowsTyped
    <3>5. Backed(r, y.st)'
      BY <1>3, <1>4, <1>7, <3>1 DEF Backed, Bought, SteadyAt
    <3>6. Planned(y) /\ Sighted(y, r)' /\ Unasked(y, r)'
      BY <1>3, <1>4, <1>6, <3>1, <3>3, <3>4
         DEF Planned, Sighted, Unasked, Aware, Kept, Legs
    <3>. QED
      BY <1>3, <3>1, <3>2, <3>5, <3>6 DEF GoesOn, AtWork, HolderKnows, Unlocked
  <2>. QED
    BY <1>5, <2>1, <2>2
<1>. QED
  BY <1>1, <1>2, <1>4, <1>6, <1>7, <1>8, <1>9, SquareStep DEF Unlocked, Kept

LEMMA cancelStep ==
    ASSUME SplitInv, NEW p \in Runs, NEW leg \in Legs, cancel(p, leg)
    PROVE  SplitInv'
<1>1. run[p].pc = "cancel"
  BY DEF cancel
<1>2. PICK x \in Records, r \in Reservations :
         x = run[p] /\ r = x.key /\ HolderKnows(x, r) /\ Rows(r)
  BY <1>1, HolderIs DEF Unlocked
<1>3. x.st.stage = "canceling" /\ split[r].stage # "canceled" /\ Backed(r, x.st) /\ x.pc = "cancel"
  BY <1>1, <1>2 DEF HolderKnows, Unasked, Planned
<1>4. Kept /\ asked' = asked /\ late' = late /\ settled' = settled
  BY DEF cancel, Canceled, Kept
<1>5. PICK seen \in {"void", "rejected"} :
         /\ run' = [run EXCEPT ![p].seen[leg] = seen]
         /\ \/ payment' = payment /\ seen = "rejected"
            \/ /\ seen = "void" /\ payment[r][leg] # "COMPLETED"
               /\ payment' = [payment EXCEPT ![r][leg] =
                                 IF @ = "APPROVED" THEN "CANCELED" ELSE @]
  BY <1>2 DEF cancel, Canceled
<1>6. RowsTyped'
  <2>1. PICK v \in Statuses : payment' \in {payment, [payment EXCEPT ![r][leg] = v]}
    <3>1. payment[r][leg] \in Statuses
      BY DEF SplitInv, Typed, RowsTyped
    <3>. QED
      BY <1>5, <3>1 DEF Statuses
  <2>2. payment' \in [Reservations -> [Legs -> Statuses]]
    <3>1. payment \in [Reservations -> [Legs -> Statuses]]
      BY DEF SplitInv, Typed, RowsTyped
    <3>2. [payment[r] EXCEPT ![leg] = v] \in [Legs -> Statuses]
      BY <3>1
    <3>3. [payment EXCEPT ![r][leg] = v] \in [Reservations -> [Legs -> Statuses]]
      BY <3>1, <3>2
    <3>. QED
      BY <2>1, <3>1, <3>3
  <2>. QED
    BY <1>4, <2>2 DEF SplitInv, Typed, RowsTyped, Kept, order
<1>7. /\ \A s \in Reservations \ {r} : payment'[s] = payment[s]
      /\ \A l \in Legs : \/ payment'[r][l] = payment[r][l]
                         \/ payment[r][l] = "APPROVED" /\ payment'[r][l] = "CANCELED"
      /\ seen = "void" => /\ payment'[r][leg] # "COMPLETED"
                          /\ payment'[r][leg] # "APPROVED"
  BY <1>5 DEF SplitInv, Typed, RowsTyped
<1>8. Only(r) /\ SteadyAt(r)
  BY <1>4, <1>7 DEF Only, SteadyAt, NoCapture, Void, Kept, order
<1>9. /\ \A l \in Legs : asked'[r][l] <= 1 /\ (asked'[r][l] # 0 => Spent(split[r], l))
      /\ settled'[r] \/ ~NoCapture(r)' => \A l \in Legs : payment'[r][l] # "none"
  BY <1>2, <1>4, <1>7 DEF Rows, Backed, NoCapture
<1>10. PICK y : run' = [run EXCEPT ![p] = y] /\ GoesOn(y, x, r)'
  <2>. DEFINE y == [x EXCEPT !.seen[leg] = seen]
  <2>1. /\ y.pc = x.pc /\ y.next = x.next /\ y.st = x.st /\ y.key = x.key
        /\ y.kind = x.kind /\ y.seen = [x.seen EXCEPT ![leg] = seen] /\ y \in Records
    BY DEF Records, Statuses
  <2>2. run' = [run EXCEPT ![p] = y]
    BY <1>2, <1>5
  <2>. HIDE DEF y
  <2>3. \A l \in Legs : y.seen[l] = IF l = leg THEN seen ELSE x.seen[l]
    BY <2>1, RecordParts
  <2>4. seen = "void" => Void(r, leg)'
    <3>1. payment'[r][leg] \in Statuses
      BY <1>6 DEF RowsTyped
    <3>2. payment'[r][leg] = "none" => NoCapture(r)'
      BY <1>2, <1>4, <1>7 DEF Rows, NoCapture
    <3>. QED
      BY <1>7, <3>1, <3>2 DEF Void, Statuses
  <2>5. \A l \in Legs : /\ Void(r, l) => Void(r, l)'
                        /\ payment[r][l] = "COMPLETED" => payment'[r][l] = "COMPLETED"
                        /\ payment[r][l] # "none" => payment'[r][l] # "none"
    BY <1>4, <1>7 DEF Void, NoCapture
  <2>6. Backed(r, y.st)'
    BY <1>3, <1>4, <2>1, <2>5, RecordParts DEF Backed, Bought, Kept, order
  <2>7. Planned(y)
    BY <1>2, <1>3, <2>1, <2>3 DEF HolderKnows, Planned
  <2>8. Sighted(y, r)'
    BY <1>2, <1>3, <2>1, <2>3, <2>4, <2>5 DEF HolderKnows, Sighted
  <2>9. Unasked(y, r)'
    BY <1>2, <1>3, <1>4, <2>1 DEF Unasked, Kept, Legs
  <2>. QED
    BY <1>3, <2>1, <2>2, <2>6, <2>7, <2>8, <2>9 DEF GoesOn, AtWork, HolderKnows, Unlocked
<1>. QED
  BY <1>1, <1>2, <1>4, <1>6, <1>8, <1>9, <1>10, SquareStep DEF Unlocked, Kept

(* Calls that lose their caller.                                           *)
LEMMA SentIs ==
    ASSUME NEW x \in Records, x.key \in Reservations
    PROVE  /\ Sent(x) \subseteq Reservations \X Calls \X Legs
           /\ \A m \in Sent(x) : /\ m[1] = x.key
                                 /\ m[2] \in {"pay", "complete"} => x.pc \in {"pay", "complete"}
           /\ x.pc \in Unlocked => Sent(x) = {}
<1>1. FirstOf(Uncompleted(x)) \in Legs
  BY DEF FirstOf, Legs
<1>2. \A leg \in Legs : leg \notin {"pay", "complete", "cancel"} \cup Unlocked
  BY DEF Legs, Unlocked
<1>. HIDE DEF Legs
<1>3. CASE x.pc \in Legs
  BY <1>2, <1>3 DEF Sent, Calls
<1>4. CASE x.pc = "pay"
  BY <1>2, <1>4 DEF Sent, Calls, Unlocked, Legs
<1>5. CASE x.pc = "complete"
  BY <1>1, <1>2, <1>5 DEF Sent, Calls, Unlocked
<1>6. CASE x.pc = "cancel"
  BY <1>2, <1>6 DEF Sent, Calls, Unlocked
<1>7. CASE x.pc \notin Legs \cup {"pay", "complete", "cancel"}
  BY <1>7 DEF Sent
<1>. QED
  BY <1>3, <1>4, <1>5, <1>6, <1>7

LEMMA LateStep ==
    ASSUME SplitInv, NEW p \in Runs, run[p].pc \notin Unlocked,
           NEW x \in Records, NEW r \in Reservations, x = run[p], r = x.key,
           NEW y, run' = [run EXCEPT ![p] = y], GoesOn(y, x, r)',
           UNCHANGED <<order, split, payment, settled, told>>, Asking(x),
           late \subseteq late', late' \subseteq late \cup Sent(x),
           notice' \in [Reservations -> {"none", "claimed", "sent"}]
    PROVE  SplitInv'
<1>. USE DEF order
<1>1. HolderKnows(x, r) /\ Rows(r) /\ RowsTyped
  BY HolderOf DEF SplitInv, Recorded, Typed
<1>2. /\ \A leg \in Legs : x.pc = leg => asked[r][leg] = 0 /\ split[r].stage = Authorizing(leg)
      /\ x.pc \in {"pay", "complete"} => \A leg \in Legs : payment[r][leg] # "none"
  BY <1>1 DEF HolderKnows, Unasked, Planned, Backed, Bought
<1>3. /\ \A s \in Reservations \ {r} : asked'[s] = asked[s]
      /\ \A leg \in Legs : asked'[r][leg] = IF x.pc = leg THEN asked[r][leg] + 1
                                            ELSE asked[r][leg]
      /\ asked' \in [Reservations -> [Legs -> Nat]]
  <2>1. CASE x.pc \notin Legs
    BY <1>1, <2>1 DEF Asking, RowsTyped
  <2>2. CASE x.pc \in Legs
    <3>1. PICK leg \in Legs : leg = x.pc
      BY <2>2
    <3>2. asked' = [asked EXCEPT ![r][leg] = @ + 1] /\ asked[r][leg] \in Nat
      BY <1>1, <3>1 DEF Asking, RowsTyped
    <3>3. [asked[r] EXCEPT ![leg] = @ + 1] \in [Legs -> Nat]
      BY <1>1, <3>2 DEF RowsTyped
    <3>. QED
      BY <1>1, <3>1, <3>2, <3>3 DEF RowsTyped
  <2>. QED
    BY <2>1, <2>2
<1>4. RowsTyped'
  BY <1>1, <1>3, SentIs DEF RowsTyped
<1>5. /\ \A s \in Reservations \ {r} : NoCapture(s) => NoCapture(s)'
      /\ x.pc \notin {"pay", "complete"} => (NoCapture(r) => NoCapture(r)')
  BY SentIs DEF NoCapture
<1>6. Only(r)
  BY <1>3, <1>5 DEF Only
<1>7. SteadyAt(r)
  BY <1>5 DEF SteadyAt, Void
<1>8. \A leg \in Legs : asked'[r][leg] <= 1 /\ (asked'[r][leg] # 0 => Spent(split[r], leg))
  BY <1>1, <1>2, <1>3 DEF Rows, Backed, Spent
<1>9. settled'[r] \/ ~NoCapture(r)' => \A leg \in Legs : payment'[r][leg] # "none"
  BY <1>1, <1>2, <1>5 DEF Rows
<1>. QED
  BY <1>4, <1>6, <1>7, <1>8, <1>9, SquareStep

LEMMA UnansweredStep ==
    ASSUME SplitInv, NEW p \in Runs, Unanswered(p)
    PROVE  SplitInv'
<1>1. PICK m \in Sent(run[p]) :
         /\ late' = late \cup {m}
         /\ run' = [run EXCEPT ![p] =
                       IF run[p].pc = "cancel" THEN [run[p] EXCEPT !.seen[m[3]] = "rejected"]
                       ELSE Thrown(run[p])]
  BY DEF Unanswered
<1>2. Kept /\ payment' = payment /\ settled' = settled /\ Asking(run[p])
  BY DEF Unanswered, Kept
<1>3. run[p] \in Records /\ (run[p].pc # "idle" => run[p].key \in Reservations)
  BY DEF SplitInv, Typed
<1>4. run[p].pc \notin Unlocked
  <2>1. run[p].pc # "idle"
    BY <1>1 DEF Sent, Legs
  <2>. QED
    BY <1>1, <1>3, <2>1, SentIs
<1>5. PICK x \in Records, r \in Reservations :
         x = run[p] /\ r = x.key /\ HolderKnows(x, r) /\ Rows(r)
  BY <1>4, HolderIs
<1>6. x.pc = "cancel" => HolderKnows(x, r)'
  <2>1. x.pc = "cancel" => (NoCapture(r) => NoCapture(r)')
    BY <1>1, <1>5, SentIs DEF NoCapture
  <2>2. x.pc = "cancel" => asked' = asked
    BY <1>2, <1>5 DEF Asking, Legs
  <2>. QED
    BY <1>2, <1>5, <2>1, <2>2
       DEF Kept, order, HolderKnows, Backed, Bought, Planned, Sighted, Unasked, Void
<1>7. PICK y : run' = [run EXCEPT ![p] = y] /\ GoesOn(y, x, r)'
  <2>1. CASE x.pc # "cancel"
    <3>1. Bought(r, x.st)'
      BY <1>2, <1>5 DEF HolderKnows, Backed, Bought, Kept, order
    <3>. QED
      BY <1>1, <1>5, <2>1, <3>1, ThrownGoes
  <2>2. CASE x.pc = "cancel"
    <3>1. m[3] \in Legs
      BY <1>1, <1>5, SentIs
    <3>. DEFINE y == [x EXCEPT !.seen[m[3]] = "rejected"]
    <3>2. /\ y.pc = x.pc /\ y.next = x.next /\ y.st = x.st /\ y.key = x.key
          /\ y.kind = x.kind /\ y.seen = [x.seen EXCEPT ![m[3]] = "rejected"]
          /\ y \in Records
      BY <3>1 DEF Records
    <3>3. run' = [run EXCEPT ![p] = y]
      BY <1>1, <1>5, <2>2
    <3>. HIDE DEF y
    <3>4. \A l \in Legs : y.seen[l] = IF l = m[3] THEN "rejected" ELSE x.seen[l]
      BY <3>2, RecordParts
    <3>5. HolderKnows(y, r)'
      BY <1>6, <2>2, <3>2, <3>4 DEF HolderKnows, Planned, Sighted, Unasked, Legs
    <3>. QED
      BY <2>2, <3>2, <3>3, <3>5 DEF GoesOn, AtWork, Unlocked
  <2>. QED
    BY <2>1, <2>2
<1>. QED
  BY <1>1, <1>2, <1>4, <1>5, <1>7, LateStep DEF Kept, SplitInv, Typed, RowsTyped

-----------------------------------------------------------------------------
(* The holder's writes.                                                    *)

LEMMA WriteStep ==
    ASSUME SplitInv, NEW p \in Runs, run[p].pc \notin Unlocked,
           NEW x \in Records, NEW r \in Reservations, x = run[p], r = x.key,
           NEW y, run' = [run EXCEPT ![p] = y], GoesOn(y, x, r)',
           UNCHANGED <<enrolled, notice, square, told>>, status[r] = "pending",
           status' \in {status, [status EXCEPT ![r] = "paid"]},
           NEW st \in States, split' = [split EXCEPT ![r] = st], Backed(r, st),
           (status'[r] = "paid") <=> (st.stage = "paid"),
           st.stage = "paid" =>
               enrolled[r] /\ \A leg \in Legs : payment[r][leg] = "COMPLETED",
           st.stage = "canceled" => \A leg \in Legs : Void(r, leg)
    PROVE  SplitInv'
<1>. USE DEF square
<1>1. Rows(r) /\ RowsTyped
  BY DEF SplitInv, Recorded, Typed
<1>2. RowsTyped'
  <2>1. status' \in [Reservations -> {"none", "pending", "paid", "verification_failed"}]
    BY <1>1 DEF RowsTyped
  <2>2. split' \in [Reservations -> States]
    BY <1>1 DEF RowsTyped
  <2>. QED
    BY <1>1, <2>1, <2>2 DEF RowsTyped
<1>3. /\ split'[r] = st
      /\ \A s \in Reservations \ {r} : split'[s] = split[s] /\ status'[s] = status[s]
  BY <1>1 DEF RowsTyped
<1>4. Only(r) /\ SteadyAt(r)
  BY <1>3 DEF Only, SteadyAt, NoCapture, Void
<1>5. Backed(r, st)'
  BY DEF Backed, Bought
<1>6. Rows(r)'
  BY <1>1, <1>3, <1>5 DEF Rows, NoCapture, Void
<1>. QED
  BY <1>2, <1>4, <1>6, HolderStep

(* A write that is refused, or fails, changes nothing but the run.         *)
LEMMA RefusedStep ==
    ASSUME SplitInv, NEW p \in Runs, run[p].pc \notin Unlocked, InMemory, notice' = notice,
           run' = [run EXCEPT ![p] = Thrown(@)]
    PROVE  SplitInv'
<1>1. PICK x \in Records, r \in Reservations :
         x = run[p] /\ r = x.key /\ HolderKnows(x, r) /\ HolderKnows(x, r)' /\ Rows(r)'
  BY MemoryKept
<1>2. run' = [run EXCEPT ![p] = Thrown(x)]
  BY <1>1
<1>3. GoesOn(Thrown(x), x, r)'
  BY <1>1, ThrownGoes DEF HolderKnows, Backed
<1>. QED
  BY <1>1, <1>2, <1>3, MemoryStep DEF SplitInv, Typed, RowsTyped

LEMMA AtWhatItSaved ==
    ASSUME NEW x \in Records, NEW r \in Reservations, HolderKnows(x, r)', x.pc = "save",
           x.next \in {"card", "afterpay", "cancel", "pay", "finalize"}, split'[r] = x.st
    PROVE  AtWork(At(x, x.next), x, r)'
<1>. DEFINE y == At(x, x.next)
<1>1. /\ y \in Records /\ y.pc = x.next /\ y.next = x.next /\ y.st = x.st
      /\ y.key = x.key /\ y.kind = x.kind /\ y.seen = x.seen
  BY DEF At, Records, Pcs
<1>. HIDE DEF y
<1>2. x.st.stage \notin {"canceled", "paid"}
  BY DEF HolderKnows, Planned, Unasked, Authorizing, Legs
<1>3. Planned(y)
  BY <1>1 DEF HolderKnows, Planned
<1>4. Sighted(y, r)'
  BY <1>1 DEF HolderKnows, Planned, Sighted
<1>5. Unasked(y, r)'
  BY <1>1, <1>2 DEF HolderKnows, Unasked, Legs
<1>. QED
  BY <1>1, <1>3, <1>4, <1>5 DEF AtWork, HolderKnows, Unlocked, y

LEMMA AfterSaveGoes ==
    ASSUME NEW x \in Records, NEW r \in Reservations, HolderKnows(x, r)', x.pc = "save",
           split'[r] = x.st
    PROVE  GoesOn(AfterSave(x), x, r)'
<1>1. /\ Backed(r, x.st)'
      /\ x.next \in {"cancel", "card", "afterpay", "finalize", "pay", "reread",
                     "onward", "authorized", "retry"}
  BY DEF HolderKnows, Planned
<1>2. CASE x.next = "retry"
  <2>. DEFINE y == [x EXCEPT !.pc = IF x.kind = "post" THEN "fail" ELSE "tell", !.next = "retry"]
  <2>1. /\ y \in Records /\ y.pc \in {"fail", "tell"} /\ y.next = "retry" /\ y.key = x.key
        /\ y.kind = x.kind
    BY DEF Records, Pcs, Plans
  <2>2. AfterSave(x) \in {Idle, y}
    BY <1>2 DEF AfterSave, Answering
  <2>. HIDE DEF y
  <2>3. split'[r].stage = "canceled"
    BY <1>2 DEF HolderKnows, Planned
  <2>. QED
    BY <2>1, <2>2, <2>3 DEF GoesOn, Answered
<1>3. CASE x.next = "reread"
  <2>1. x.st.stage = "completing" /\ x.st.ids = Legs /\ split'[r].stage # "canceled"
    BY <1>3 DEF HolderKnows, Planned, Backed
  <2>. QED
    BY <1>1, <1>3, <2>1, ReadingWorks DEF AfterSave, GoesOn
<1>4. CASE x.next \in {"onward", "authorized"}
  <2>1. /\ x.st.stage \in Going /\ ~Interrupted(x.st) /\ Aware(x, r)'
        /\ split'[r].stage # "canceled"
    BY <1>4 DEF HolderKnows, Planned, Sighted, Aware, Going
  <2>2. AtWork(Onward(x), x, r)' /\ AtWork(Canceling(x), x, r)'
    BY <1>1, <2>1, OnwardWorks, CancelingWorks DEF Backed
  <2>. QED
    BY <1>4, <2>2 DEF AfterSave, GoesOn
<1>5. CASE x.next \in {"card", "afterpay", "cancel", "pay", "finalize"}
  BY <1>5, AtWhatItSaved DEF AfterSave, GoesOn
<1>. QED
  BY <1>1, <1>2, <1>3, <1>4, <1>5

LEMMA SavedIs ==
    ASSUME SplitInv, NEW x \in Records, NEW r \in Reservations, HolderKnows(x, r),
           x.pc = "save"
    PROVE  /\ x.st.stage # "paid"
           /\ x.st.stage = "canceled" => \A leg \in Legs : Void(r, leg)
BY DEF HolderKnows, Planned, Sighted, Unasked, Going, Authorizing, Legs

LEMMA saveStep ==
    ASSUME SplitInv, NEW p \in Runs, run[p].pc = "save", Written(p, run[p].key),
           UNCHANGED <<order, notice, square, told>>,
           run' \in {[run EXCEPT ![p] = AfterSave(@)], [run EXCEPT ![p] = Thrown(@)]}
    PROVE  SplitInv'
<1>1. PICK x \in Records, r \in Reservations :
         x = run[p] /\ r = x.key /\ HolderKnows(x, r) /\ Rows(r)
  BY HolderIs DEF Unlocked
<1>2. /\ status[r] = "pending" /\ split' = [split EXCEPT ![r] = x.st] /\ split'[r] = x.st
      /\ x.st \in States /\ Backed(r, x.st)
  BY <1>1, RecordParts DEF Written, SplitInv, Typed, RowsTyped, HolderKnows
<1>3. HolderKnows(x, r)'
  <2>1. Backed(r, x.st)'
    BY <1>2 DEF Backed, Bought, order, square
  <2>2. Sighted(x, r)'
    BY <1>1 DEF HolderKnows, Sighted, Void, NoCapture, square
  <2>3. Unasked(x, r)'
    BY <1>1, <1>2 DEF HolderKnows, Planned, Unasked, order, square, Going, Authorizing, Legs
  <2>. QED
    BY <1>1, <2>1, <2>2, <2>3 DEF HolderKnows
<1>4. PICK y : run' = [run EXCEPT ![p] = y] /\ GoesOn(y, x, r)'
  BY <1>1, <1>2, <1>3, AfterSaveGoes, ThrownGoes DEF HolderKnows, Backed
<1>. QED
  BY <1>1, <1>2, <1>4, SavedIs, WriteStep DEF order, Unlocked

LEMMA finalizeStep ==
    ASSUME SplitInv, NEW p \in Runs, run[p].pc = "finalize", status[run[p].key] = "pending",
           status' = [status EXCEPT ![run[p].key] = "paid"],
           split' = [split EXCEPT ![run[p].key] = [run[p].st EXCEPT !.stage = "paid"]],
           UNCHANGED <<enrolled, notice, square, told>>,
           run' \in {[run EXCEPT ![p] = At(@, "notify")], [run EXCEPT ![p] = Thrown(@)]}
    PROVE  SplitInv'
<1>1. PICK x \in Records, r \in Reservations :
         x = run[p] /\ r = x.key /\ HolderKnows(x, r) /\ Rows(r)
  BY HolderIs DEF Unlocked
<1>2. /\ Backed(r, x.st) /\ x.st.ids = Legs /\ Aware(x, r)
      /\ \A leg \in Legs : payment[r][leg] = "COMPLETED"
      /\ enrolled[r]
  BY <1>1 DEF HolderKnows, Planned, Sighted, Backed, Bought, Aware, Legs
<1>. DEFINE st == [x.st EXCEPT !.stage = "paid"]
<1>3. st \in States /\ st.stage = "paid" /\ st.ids = Legs
  BY <1>2, RecordParts DEF States, Stages
<1>4. split' = [split EXCEPT ![r] = st] /\ status' = [status EXCEPT ![r] = "paid"]
  BY <1>1
<1>. HIDE DEF st
<1>5. Backed(r, st)
  BY <1>2, <1>3 DEF Backed, Bought, Spent
<1>6. status'[r] = "paid" /\ split'[r] = st
  BY <1>4 DEF SplitInv, Typed, RowsTyped
<1>7. Bought(r, x.st)' /\ Backed(r, x.st)' /\ Aware(x, r)'
  BY <1>2 DEF Backed, Bought, Aware, square
<1>8. GoesOn(Thrown(x), x, r)'
  BY <1>7, ThrownGoes
<1>9. GoesOn(At(x, "notify"), x, r)'
  <2>. DEFINE y == At(x, "notify")
  <2>1. /\ y \in Records /\ y.pc = "notify" /\ y.next = x.next /\ y.st = x.st
        /\ y.key = x.key /\ y.kind = x.kind /\ y.seen = x.seen
    BY DEF At, Records, Pcs
  <2>. HIDE DEF y
  <2>2. Planned(y) /\ Sighted(y, r)' /\ Unasked(y, r)'
    BY <1>3, <1>6, <1>7, <2>1 DEF Planned, Sighted, Unasked, Legs, Aware
  <2>. QED
    BY <1>7, <2>1, <2>2 DEF GoesOn, AtWork, HolderKnows, Unlocked, y
<1>10. PICK y : run' = [run EXCEPT ![p] = y] /\ GoesOn(y, x, r)'
  BY <1>1, <1>8, <1>9
<1>. QED
  BY <1>1, <1>2, <1>3, <1>4, <1>5, <1>6, <1>10, WriteStep DEF Unlocked

LEMMA WritesStep ==
    ASSUME SplitInv, NEW p \in Runs, save(p) \/ finalize(p) \/ Unwritten(p)
    PROVE  SplitInv'
<1>. DEFINE r == run[p].key
<1>1. run[p].pc \in {"save", "finalize"} /\ notice' = notice
  BY DEF save, finalize, Unwritten
<1>2. \/ InMemory /\ run' = [run EXCEPT ![p] = Thrown(@)]
      \/ /\ run[p].pc = "save" /\ Written(p, r) /\ UNCHANGED <<order, notice, square, told>>
         /\ run' \in {[run EXCEPT ![p] = AfterSave(@)], [run EXCEPT ![p] = Thrown(@)]}
      \/ /\ run[p].pc = "finalize" /\ status[r] = "pending"
         /\ status' = [status EXCEPT ![r] = "paid"]
         /\ split' = [split EXCEPT ![r] = [run[p].st EXCEPT !.stage = "paid"]]
         /\ UNCHANGED <<enrolled, notice, square, told>>
         /\ run' \in {[run EXCEPT ![p] = At(@, "notify")], [run EXCEPT ![p] = Thrown(@)]}
  BY DEF save, finalize, Unwritten, InMemory, order
<1>. QED
  BY <1>1, <1>2, RefusedStep, saveStep, finalizeStep DEF Unlocked

(* A run that dies at work, or before or after it.                         *)
LEMMA DiesAtWork ==
    ASSUME SplitInv, NEW p \in Runs, Dies(p), run[p].pc \notin Unlocked
    PROVE  SplitInv'
<1>1. PICK x \in Records, r \in Reservations : x = run[p] /\ r = x.key
  BY HolderIs
<1>2. GoesOn(Idle, x, r)'
  BY DEF GoesOn
<1>3. /\ UNCHANGED <<order, split, payment, settled, told>> /\ Asking(x)
      /\ late' = late \cup Sent(x) /\ run' = [run EXCEPT ![p] = Idle]
      /\ notice' \in [Reservations -> {"none", "claimed", "sent"}]
  BY <1>1 DEF Dies, SplitInv, Typed, RowsTyped
<1>. QED
  BY <1>1, <1>2, <1>3, LateStep

-----------------------------------------------------------------------------
(* Steps of a run that does not hold the lock.                             *)

LEMMA FreeStep ==
    ASSUME SplitInv, NEW p \in Runs, run[p].pc \in Unlocked,
           NEW y \in Records, run' = [run EXCEPT ![p] = y],
           y.pc # "idle" => y.key \in Reservations,
           y.pc \notin Unlocked => /\ split[y.key].stage # "canceled"
                                   /\ \A q \in Runs \ {p} : ~Holds(q, y.key),
           UNCHANGED <<split, square>>, RowsTyped', Steady,
           Steady /\ (\A r \in Reservations : Over(r) => Over(r)') => Knows(p)',
           \A r \in Reservations : Rows(r)' /\ ("retry" \in told'[r] => Over(r))
    PROVE  SplitInv'
<1>. USE DEF SplitInv, square
<1>1. run'[p] = y /\ \A q \in Runs \ {p} : run'[q] = run[q]
  BY DEF Typed
<1>2. Typed'
  BY <1>1 DEF Typed
<1>3. ByHolder(p)
  BY <1>1 DEF ByHolder, Holds
<1>4. /\ OneHolder' /\ \A r \in Reservations : Over(r) => Over(r)'
      /\ \A q \in Runs \ {p} : Knows(q)'
  BY <1>1, <1>3, OthersKnow
<1>. QED
  BY <1>2, <1>4 DEF Recorded

(* Only the status of an order, an enrolment or an answer is written.      *)
LEMMA Unmoved ==
    ASSUME SplitInv, UNCHANGED <<split, square>>,
           \A r \in Reservations :
               /\ enrolled[r] => enrolled'[r]
               /\ (status'[r] = "paid") <=> (status[r] = "paid")
               /\ "paid" \in told'[r] => status[r] = "paid"
    PROVE  Steady /\ \A r \in Reservations : Rows(r)'
<1>. USE DEF square
<1>1. Steady
  BY DEF Steady, SteadyAt, Void, NoCapture
<1>2. ASSUME NEW r \in Reservations PROVE Rows(r)'
  <2>1. Rows(r)
    BY DEF SplitInv, Recorded
  <2>2. Backed(r, split[r])'
    BY <2>1 DEF Rows, Backed, Bought
  <2>. QED
    BY <2>1, <2>2 DEF Rows, Void, NoCapture
<1>. QED
  BY <1>1, <1>2

LEMMA StartsStep ==
    ASSUME SplitInv, NEW p \in Runs, NEW r \in Reservations,
           Reserve(p, r) \/ \E kind \in {"status", "event", "cron"} : Resuming(p, r, kind)
    PROVE  SplitInv'
<1>1. run[p].pc = "idle" /\ UNCHANGED <<enrolled, notice, split, square, told>>
  BY DEF Reserve, Resuming, order
<1>2. /\ status' \in [Reservations -> {"none", "pending", "paid", "verification_failed"}]
      /\ \A s \in Reservations : (status'[s] = "paid") <=> (status[s] = "paid")
  BY DEF Reserve, Resuming, order, SplitInv, Typed, RowsTyped
<1>3. RowsTyped'
  BY <1>1, <1>2 DEF SplitInv, Typed, RowsTyped, square
<1>4. Steady /\ \A s \in Reservations : Rows(s)' /\ ("retry" \in told'[s] => Over(s))
  BY <1>1, <1>2, Unmoved DEF SplitInv, Recorded, Rows
<1>5. PICK kind \in {"post", "status", "event", "cron"} : \E pc \in {"enroll", "load"} :
         /\ run' = [run EXCEPT ![p] = [Idle EXCEPT !.pc = pc, !.key = r, !.kind = kind]]
         /\ kind = "post" => pc = "enroll"
  BY DEF Reserve, Resuming
<1>6. PICK pc \in {"enroll", "load"} :
         /\ run' = [run EXCEPT ![p] = [Idle EXCEPT !.pc = pc, !.key = r, !.kind = kind]]
         /\ kind = "post" => pc = "enroll"
  BY <1>5
<1>. DEFINE y == [Idle EXCEPT !.pc = pc, !.key = r, !.kind = kind]
<1>7. y \in Records /\ y.pc = pc /\ y.key = r /\ y.kind = kind /\ y.seen = Unseen
  <2>1. Idle \in Records /\ Idle.seen = Unseen
    BY IdleIs DEF Idle
  <2>. QED
    BY <2>1 DEF Records, Pcs
<1>. HIDE DEF y
<1>8. run' = [run EXCEPT ![p] = y] /\ run'[p] = y
  BY <1>6 DEF y, SplitInv, Typed
<1>9. Knows(p)'
  BY <1>6, <1>7, <1>8 DEF Knows, Unlocked
<1>. QED
  BY <1>1, <1>3, <1>4, <1>7, <1>8, <1>9, FreeStep DEF Unlocked

LEMMA StartedIs ==
    ASSUME SplitInv, NEW p \in Runs, run[p].pc # "idle"
    PROVE  \E x \in Records, r \in Reservations :
               x = run[p] /\ r = x.key /\ Knows(p) /\ Rows(r)
BY DEF SplitInv, Typed, Recorded

LEMMA EnrollStep ==
    ASSUME SplitInv, NEW p \in Runs, Enroll(p)
    PROVE  SplitInv'
<1>1. run[p].pc = "enroll" /\ UNCHANGED <<status, notice, split, square, told>>
  BY DEF Enroll
<1>2. PICK x \in Records, r \in Reservations : x = run[p] /\ r = x.key /\ Knows(p) /\ Rows(r)
  BY <1>1, StartedIs
<1>3. enrolled' = [enrolled EXCEPT ![r] = TRUE]
  BY <1>2 DEF Enroll
<1>4. enrolled' \in [Reservations -> BOOLEAN] /\ enrolled'[r]
      /\ \A s \in Reservations : enrolled[s] => enrolled'[s]
  BY <1>3 DEF SplitInv, Typed, RowsTyped
<1>5. RowsTyped'
  BY <1>1, <1>4 DEF SplitInv, Typed, RowsTyped, square
<1>6. Steady /\ \A s \in Reservations : Rows(s)' /\ ("retry" \in told'[s] => Over(s))
  BY <1>1, <1>4, Unmoved DEF SplitInv, Recorded, Rows
<1>. DEFINE y == At(x, "load")
<1>7. /\ y \in Records /\ y.pc = "load" /\ y.key = r /\ y.seen = x.seen
      /\ run' = [run EXCEPT ![p] = y] /\ run'[p] = y
  BY <1>2 DEF At, Records, Pcs, Enroll, SplitInv, Typed
<1>. HIDE DEF y
<1>8. Knows(p)'
  BY <1>1, <1>2, <1>4, <1>7 DEF Knows, Unlocked
<1>. QED
  BY <1>1, <1>5, <1>6, <1>7, <1>8, FreeStep DEF Unlocked

(* A run that has ended, however it did, knows nothing.                    *)
LEMMA EndsStep ==
    ASSUME SplitInv, NEW p \in Runs,
           \/ Contend(p) \/ Tell(p)
           \/ Dies(p) /\ run[p].pc \in Unlocked
    PROVE  SplitInv'
<1>1. /\ run[p].pc \in Unlocked \ {"idle"} /\ run' = [run EXCEPT ![p] = Idle]
      /\ UNCHANGED <<order, notice, split, payment, settled>>
  BY DEF Contend, Tell, Dies, Unlocked, square
<1>2. PICK x \in Records, r \in Reservations : x = run[p] /\ r = x.key /\ Knows(p) /\ Rows(r)
  BY <1>1, StartedIs
<1>3. late' = late /\ asked' = asked
  <2>1. Sent(x) = {} /\ x.pc \notin Legs
    BY <1>1, <1>2, SentIs DEF Unlocked, Legs
  <2>. QED
    BY <1>2, <2>1 DEF Contend, Tell, Dies, Asking, square
<1>4. told' = told \/ (x.pc = "tell" /\ told' = [told EXCEPT ![r] = @ \cup {x.next}])
  BY <1>2 DEF Contend, Tell, Dies
<1>5. /\ x.pc = "tell" => x.next \in {"paid", "retry"}
      /\ x.pc = "tell" /\ x.next = "paid" => status[r] = "paid"
      /\ x.pc = "tell" /\ x.next = "retry" => Over(r)
  BY <1>2 DEF Knows
<1>6. /\ told' \in [Reservations -> SUBSET {"paid", "retry"}]
      /\ \A s \in Reservations : \A a \in told'[s] : a \in told[s] \/ (s = r /\ x.pc = "tell"
                                                                      /\ a = x.next)
  BY <1>4, <1>5 DEF SplitInv, Typed, RowsTyped
<1>7. \A s \in Reservations : /\ "paid" \in told'[s] => status[s] = "paid"
                              /\ "retry" \in told'[s] => Over(s)
  BY <1>5, <1>6 DEF SplitInv, Recorded, Rows
<1>8. RowsTyped'
  BY <1>1, <1>3, <1>6 DEF SplitInv, Typed, RowsTyped, order
<1>9. Steady /\ \A s \in Reservations : Rows(s)'
  BY <1>1, <1>3, <1>7, Unmoved DEF order, square
<1>10. Knows(p)'
  BY <1>1, IdleKnows DEF SplitInv, Typed
<1>. QED
  BY <1>1, <1>3, <1>7, <1>8, <1>9, <1>10, IdleIs, FreeStep DEF square, Unlocked

LEMMA MarksStep ==
    ASSUME SplitInv, NEW p \in Runs, markOrderVerificationFailed(p) \/ Unmarked(p)
    PROVE  SplitInv'
<1>1. run[p].pc = "fail" /\ UNCHANGED <<enrolled, notice, split, square, told>>
  BY DEF markOrderVerificationFailed, Unmarked, order
<1>2. PICK x \in Records, r \in Reservations : x = run[p] /\ r = x.key /\ Knows(p) /\ Rows(r)
  BY <1>1, StartedIs
<1>3. x.next = "retry" /\ Over(r) /\ (x.kind = "post" => enrolled[r])
  BY <1>1, <1>2 DEF Knows
<1>4. /\ status' \in [Reservations -> {"none", "pending", "paid", "verification_failed"}]
      /\ \A s \in Reservations : (status'[s] = "paid") <=> (status[s] = "paid")
  BY DEF markOrderVerificationFailed, Unmarked, order, SplitInv, Typed, RowsTyped
<1>5. RowsTyped'
  BY <1>1, <1>4 DEF SplitInv, Typed, RowsTyped, square
<1>6. Steady /\ \A s \in Reservations : Rows(s)' /\ ("retry" \in told'[s] => Over(s))
  BY <1>1, <1>4, Unmoved DEF SplitInv, Recorded, Rows
<1>. DEFINE y == At(x, "tell")
<1>7. /\ y \in Records /\ y.pc = "tell" /\ y.key = r /\ y.next = "retry" /\ y.kind = x.kind
      /\ run' = [run EXCEPT ![p] = y] /\ run'[p] = y
  BY <1>2, <1>3 DEF At, Records, Pcs, markOrderVerificationFailed, Unmarked, SplitInv, Typed
<1>. HIDE DEF y
<1>8. (\A s \in Reservations : Over(s) => Over(s)') => Knows(p)'
  BY <1>1, <1>3, <1>7 DEF Knows, Unlocked
<1>. QED
  BY <1>1, <1>5, <1>6, <1>7, <1>8, FreeStep DEF Unlocked

(* What the stored stage says, read with the lock in hand.                 *)
LEMMA ResumedGoes ==
    ASSUME NEW z \in Records, NEW r \in Reservations, Backed(r, z.st)', split'[r] = z.st,
           z.seen = Unseen, (status'[r] = "paid") <=> (z.st.stage = "paid")
    PROVE  GoesOn(Resumed(z), z, r)'
<1>1. z.st.stage \in Stages /\ Aware(z, r)'
  BY RecordParts DEF Aware, Unseen
<1>2. CASE z.st.stage = "paid"
  <2>. DEFINE y == At(z, "notify")
  <2>1. /\ y \in Records /\ y.pc = "notify" /\ y.next = z.next /\ y.st = z.st
        /\ y.key = z.key /\ y.kind = z.kind /\ y.seen = z.seen
    BY DEF At, Records, Pcs
  <2>2. Resumed(z) = y
    BY <1>2 DEF Resumed, Interrupted, Authorizing
  <2>. HIDE DEF y
  <2>3. Planned(y) /\ Sighted(y, r)' /\ Unasked(y, r)'
    BY <1>1, <1>2, <2>1 DEF Planned, Sighted, Unasked, Legs, Aware
  <2>. QED
    BY <2>1, <2>2, <2>3 DEF GoesOn, AtWork, HolderKnows, Unlocked
<1>3. CASE z.st.stage = "canceled"
  <2>. DEFINE y == [z EXCEPT !.pc = IF z.kind = "post" THEN "fail" ELSE "tell", !.next = "retry"]
  <2>1. /\ y \in Records /\ y.pc \in {"fail", "tell"} /\ y.next = "retry" /\ y.key = z.key
        /\ y.kind = z.kind
    BY DEF Records, Pcs, Plans
  <2>2. Resumed(z) \in {Idle, y}
    BY <1>3 DEF Resumed, Answering, Interrupted, Authorizing
  <2>. HIDE DEF y
  <2>. QED
    BY <1>3, <2>1, <2>2 DEF GoesOn, Answered
<1>4. CASE z.st.stage = "canceling" \/ (z.st.stage \notin {"paid", "canceled"} /\ Interrupted(z.st))
  BY <1>4, CancelingWorks DEF Resumed, GoesOn, Backed
<1>5. CASE z.st.stage \in Going /\ ~Interrupted(z.st)
  BY <1>1, <1>5, OnwardWorks DEF Resumed, GoesOn, Going
<1>. QED
  BY <1>1, <1>2, <1>3, <1>4, <1>5 DEF Stages, Going

LEMMA LoadStep ==
    ASSUME SplitInv, NEW p \in Runs, Load(p)
    PROVE  SplitInv'
<1>1. run[p].pc = "load" /\ UNCHANGED <<order, notice, split, square, told>>
  BY DEF Load
<1>2. PICK x \in Records, r \in Reservations : x = run[p] /\ r = x.key /\ Knows(p) /\ Rows(r)
  BY <1>1, StartedIs
<1>3. /\ x.seen = Unseen /\ (x.kind = "post" => enrolled[r])
      /\ \A q \in Runs : ~Holds(q, r)
  BY <1>1, <1>2 DEF Knows, Load, Holds, Unlocked
<1>4. PICK st \in States : st = split[r]
  BY DEF SplitInv, Typed, RowsTyped
<1>. DEFINE z == [x EXCEPT !.st = st]
<1>5. z \in Records /\ z.st = st /\ z.seen = Unseen /\ z.key = r /\ z.kind = x.kind
  BY <1>2, <1>3 DEF Records
<1>6. run' = [run EXCEPT ![p] = Idle] \/ run' = [run EXCEPT ![p] = Resumed(z)]
  BY <1>2, <1>4 DEF Load
<1>. HIDE DEF z
<1>7. RowsTyped'
  BY <1>1 DEF SplitInv, Typed, RowsTyped, order, square
<1>8. Steady /\ \A s \in Reservations : Rows(s)' /\ ("retry" \in told'[s] => Over(s))
  BY <1>1, Unmoved DEF SplitInv, Recorded, Rows, order
<1>9. GoesOn(Resumed(z), z, r)'
  BY <1>1, <1>4, <1>5, <1>8, ResumedGoes DEF Rows, order
<1>10. PICK y : run' = [run EXCEPT ![p] = y] /\ GoesOn(y, z, r)'
  BY <1>6, <1>9 DEF GoesOn
<1>11. y \in Records /\ (y.pc # "idle" => y.key = r) /\ run'[p] = y
  BY <1>5, <1>10, IdleIs DEF GoesOn, AtWork, Answered, SplitInv, Typed
<1>12. y.pc \notin Unlocked => split[r].stage # "canceled"
  <2>1. ASSUME y.pc \notin Unlocked, split[r].stage = "canceled" PROVE FALSE
    <3>1. Resumed(z) = Answering(z, "retry")
      BY <1>4, <1>5, <2>1 DEF Resumed, Interrupted, Authorizing
    <3>2. Answering(z, "retry").pc \in Unlocked
      BY <1>5, IdleIs DEF Answering, Unlocked, Records
    <3>. QED
      BY <1>6, <1>11, <2>1, <3>1, <3>2, IdleIs DEF Unlocked, SplitInv, Typed
  <2>. QED
    BY <2>1
<1>13. Knows(p)'
  <2>1. CASE y = Idle
    BY <1>10, <1>11, <2>1, IdleKnows
  <2>2. CASE AtWork(y, z, r)'
    <3>1. y.kind = "post" => enrolled'[r]
      BY <1>1, <1>3, <1>5, <2>2 DEF AtWork, order
    <3>. QED
      BY <1>5, <1>11, <2>2, <3>1, WorkerKnows DEF AtWork
  <2>3. CASE Answered(y, z, r)'
    <3>1. y.next = "retry" => Over(r)'
      <4>1. \A q \in Runs : ~Holds(q, r)'
        BY <1>3, <1>10, <1>11, <2>3 DEF Holds, Answered, Unlocked, SplitInv, Typed
      <4>. QED
        BY <2>3, <4>1 DEF Answered, Over
    <3>. QED
      BY <1>1, <1>3, <1>5, <1>11, <2>3, <3>1 DEF Answered, Knows, Unlocked, order
  <2>. QED
    BY <1>10, <2>1, <2>2, <2>3 DEF GoesOn
<1>. QED
  BY <1>1, <1>3, <1>7, <1>8, <1>10, <1>11, <1>12, <1>13, FreeStep DEF Unlocked

-----------------------------------------------------------------------------
(* Steps without a run: Square's own, and a claim that expires.            *)

LEMMA RestStep ==
    ASSUME SplitInv, UNCHANGED <<order, split, run, asked, told>>, RowsTyped',
           \A r \in Reservations :
               /\ \A leg \in Legs :
                     /\ payment[r][leg] = "COMPLETED" => payment'[r][leg] = "COMPLETED"
                     /\ payment[r][leg] # "none" => payment'[r][leg] # "none"
                     /\ Void(r, leg) => Void(r, leg)'
               /\ NoCapture(r) => NoCapture(r)'
               /\ settled'[r] => settled[r] \/ \A leg \in Legs : payment'[r][leg] # "none"
    PROVE  SplitInv'
<1>. USE DEF order
<1>1. Steady
  BY DEF Steady, SteadyAt
<1>2. ASSUME NEW r \in Reservations PROVE Recorded(r)'
  <2>1. Rows(r) /\ split[r] \in States
    BY DEF SplitInv, Typed, RowsTyped, Recorded
  <2>2. Backed(r, split[r])'
    BY <2>1 DEF Rows, Backed, Bought, States
  <2>3. Rows(r)'
    BY <2>1, <2>2 DEF Rows
  <2>. QED
    BY <2>3 DEF SplitInv, Recorded, Over, Holds
<1>3. ASSUME NEW p \in Runs PROVE Knows(p)'
  <2>1. CASE run[p].pc \in Unlocked
    BY <2>1 DEF SplitInv, Knows, Over, Holds
  <2>2. CASE run[p].pc \notin Unlocked
    <3>1. PICK x \in Records, r \in Reservations :
             x = run[p] /\ r = x.key /\ HolderKnows(x, r) /\ (x.kind = "post" => enrolled[r])
      BY <2>2, HolderIs
    <3>2. HolderKnows(x, r)'
      BY <1>1, <3>1, HolderRests
    <3>. QED
      BY <2>2, <3>1, <3>2, WorkerKnows
  <2>. QED
    BY <2>1, <2>2
<1>. QED
  BY <1>2, <1>3 DEF SplitInv, Typed, OneHolder, Holds

LEMMA ClaimExpiresStep ==
    ASSUME SplitInv, NEW r \in Reservations, ClaimExpires(r)
    PROVE  SplitInv'
<1>1. UNCHANGED <<order, split, square, run, told>>
  BY DEF ClaimExpires
<1>2. RowsTyped'
  BY DEF ClaimExpires, SplitInv, Typed, RowsTyped, order, square
<1>. QED
  BY <1>1, <1>2, RestStep DEF square, Void, NoCapture

(* A leg's payment moves to a status.                                      *)
Moved(r, leg, v) ==
    /\ \A s \in Reservations \ {r} : payment'[s] = payment[s]
    /\ \A l \in Legs : payment'[r][l] = IF l = leg THEN v ELSE payment[r][l]

LEMMA MovedIs ==
    ASSUME SplitInv, NEW r \in Reservations, NEW leg \in Legs, NEW v \in Statuses,
           payment' = [payment EXCEPT ![r][leg] = v]
    PROVE  Moved(r, leg, v) /\ payment' \in [Reservations -> [Legs -> Statuses]]
<1>1. payment \in [Reservations -> [Legs -> Statuses]]
  BY DEF SplitInv, Typed, RowsTyped
<1>2. [payment[r] EXCEPT ![leg] = v] \in [Legs -> Statuses]
  BY <1>1
<1>3. [payment EXCEPT ![r][leg] = v] \in [Reservations -> [Legs -> Statuses]]
  BY <1>1, <1>2
<1>. QED
  BY <1>1, <1>3 DEF Moved

LEMMA VoidedStep ==
    ASSUME SplitInv, NEW r \in Reservations, NEW leg \in Legs, Voided(r, leg)
    PROVE  SplitInv'
<1>1. /\ UNCHANGED <<order, notice, split, settled, late, asked, run, told>>
      /\ payment[r][leg] = "APPROVED"
  BY DEF Voided
<1>2. Moved(r, leg, "CANCELED") /\ payment' \in [Reservations -> [Legs -> Statuses]]
  BY MovedIs DEF Voided, Statuses
<1>3. RowsTyped'
  BY <1>1, <1>2 DEF SplitInv, Typed, RowsTyped, order
<1>. QED
  BY <1>1, <1>2, <1>3, RestStep DEF Moved, Void, NoCapture

LEMMA LandsStep ==
    ASSUME SplitInv, NEW m \in late, Lands(m)
    PROVE  SplitInv'
<1>1. PICK r \in Reservations, leg \in Legs : r = m[1] /\ leg = m[3]
  BY DEF SplitInv, Typed, RowsTyped
<1>2. /\ UNCHANGED <<order, notice, split, run, asked, told>>
      /\ late' \subseteq late /\ late' \subseteq Reservations \X Calls \X Legs
  BY DEF Lands, SplitInv, Typed, RowsTyped
<1>3. \A s \in Reservations : NoCapture(s) => NoCapture(s)'
  BY <1>2 DEF NoCapture
<1>4. payment \in [Reservations -> [Legs -> Statuses]] /\ settled \in [Reservations -> BOOLEAN]
  BY DEF SplitInv, Typed, RowsTyped
<1>5. CASE /\ m[2] \in {"authorize", "complete", "cancel"} /\ settled' = settled
           /\ \E v \in Statuses : payment' = [payment EXCEPT ![r][leg] = v]
           /\ payment'[r][leg] # payment[r][leg] =>
                 \/ payment[r][leg] = "none" /\ payment'[r][leg] \in {"APPROVED", "FAILED"}
                 \/ payment[r][leg] = "APPROVED" /\ payment'[r][leg] = "CANCELED"
                 \/ payment[r][leg] = "APPROVED" /\ m[2] = "complete"
                    /\ payment'[r][leg] = "COMPLETED"
  <2>1. PICK v \in Statuses : payment' = [payment EXCEPT ![r][leg] = v]
    BY <1>5
  <2>2. Moved(r, leg, v) /\ payment' \in [Reservations -> [Legs -> Statuses]]
    BY <2>1, MovedIs
  <2>3. RowsTyped'
    BY <1>2, <1>5, <2>2 DEF SplitInv, Typed, RowsTyped, order
  <2>4. m[2] = "complete" => ~NoCapture(r)
    BY <1>1 DEF NoCapture
  <2>5. \A s \in Reservations, l \in Legs : Void(s, l) => Void(s, l)'
    BY <1>3, <1>5, <2>2, <2>4 DEF Moved, Void
  <2>6. \A s \in Reservations, l \in Legs :
           /\ payment[s][l] = "COMPLETED" => payment'[s][l] = "COMPLETED"
           /\ payment[s][l] # "none" => payment'[s][l] # "none"
    BY <1>5, <2>2 DEF Moved
  <2>. QED
    BY <1>2, <1>3, <1>5, <2>3, <2>5, <2>6, RestStep
<1>6. CASE m[2] = "pay" /\ \E taken \in BOOLEAN : OrderPaid(r, taken)
  <2>1. /\ ~NoCapture(r) /\ settled' = [settled EXCEPT ![r] = TRUE]
        /\ \A s \in Reservations \ {r} : payment'[s] = payment[s]
        /\ \/ payment' = payment /\ (settled[r] \/ \A l \in Legs : payment[r][l] = "APPROVED")
           \/ \A l \in Legs : payment[r][l] = "APPROVED" /\ payment'[r][l] = "COMPLETED"
        /\ payment' \in [Reservations -> [Legs -> Statuses]]
    BY <1>1, <1>4, <1>6 DEF OrderPaid, Payable, NoCapture, Statuses
  <2>2. RowsTyped'
    BY <1>2, <1>4, <2>1 DEF SplitInv, Typed, RowsTyped, order
  <2>3. \A s \in Reservations, l \in Legs : Void(s, l) => Void(s, l)'
    BY <1>3, <2>1 DEF Void
  <2>4. \A s \in Reservations, l \in Legs :
           /\ payment[s][l] = "COMPLETED" => payment'[s][l] = "COMPLETED"
           /\ payment[s][l] # "none" => payment'[s][l] # "none"
    BY <2>1
  <2>5. \A s \in Reservations :
           settled'[s] => settled[s] \/ \A l \in Legs : payment'[s][l] # "none"
    BY <1>4, <2>1
  <2>. QED
    BY <1>2, <1>3, <2>2, <2>3, <2>4, <2>5, RestStep
<1>7. CASE m[2] = "authorize" /\ \E result \in {"APPROVED", "FAILED"} : Authorized(r, leg, result)
  <2>1. PICK result \in {"APPROVED", "FAILED"} :
          /\ payment' = [payment EXCEPT ![r][leg] = IF @ = "none" THEN result ELSE @]
          /\ settled' = settled
    BY <1>7 DEF Authorized
  <2>2. PICK v \in Statuses : v = IF payment[r][leg] = "none" THEN result ELSE payment[r][leg]
    BY <1>4 DEF Statuses
  <2>3. payment' = [payment EXCEPT ![r][leg] = v]
    BY <2>1, <2>2
  <2>4. payment'[r][leg] = v
    BY <2>3, MovedIs DEF Moved
  <2>. QED
    BY <1>5, <1>7, <2>1, <2>2, <2>3, <2>4
<1>8. CASE m[2] = "complete" /\ Completed(r, leg)
  <2>1. payment'[r][leg] = "COMPLETED"
    BY <1>8, MovedIs DEF Completed, Moved, Statuses
  <2>. QED
    BY <1>5, <1>8, <2>1 DEF Completed, Statuses
<1>9. CASE m[2] = "cancel" /\ Canceled(r, leg)
  <2>1. PICK v \in Statuses : v = IF payment[r][leg] = "APPROVED" THEN "CANCELED"
                                  ELSE payment[r][leg]
    BY <1>4 DEF Statuses
  <2>2. payment' = [payment EXCEPT ![r][leg] = v] /\ settled' = settled
    BY <1>9, <2>1 DEF Canceled
  <2>3. payment'[r][leg] = v
    BY <2>2, MovedIs DEF Moved
  <2>. QED
    BY <1>5, <1>9, <2>1, <2>2, <2>3
<1>. QED
  BY <1>1, <1>6, <1>7, <1>8, <1>9 DEF Lands

-----------------------------------------------------------------------------
LEMMA SplitInit ==
    Init => SplitInv
<1>. SUFFICES ASSUME Init PROVE SplitInv
  OBVIOUS
<1>1. \A p \in Runs : run[p] = Idle
  BY DEF Init
<1>2. Typed
  <2>1. Nothing \in States
    BY DEF Nothing, States, Stages
  <2>2. RowsTyped
    BY <2>1 DEF Init, RowsTyped, Statuses
  <2>. QED
    BY <2>2, IdleIs DEF Init, Typed
<1>3. OneHolder /\ \A p \in Runs : Knows(p)
  BY <1>1 DEF OneHolder, Holds, Knows, Idle, Unlocked
<1>4. ASSUME NEW r \in Reservations PROVE Recorded(r)
  BY DEF Init, Recorded, Rows, Backed, Bought, Nothing, NoCapture, Legs
<1>. QED
  BY <1>2, <1>3, <1>4 DEF SplitInv

LEMMA SplitStutters ==
    SplitInv /\ UNCHANGED vars => SplitInv'
<1>. SUFFICES ASSUME SplitInv, UNCHANGED vars PROVE SplitInv'
  OBVIOUS
<1>1. UNCHANGED <<order, notice, split, square, run, told>>
  BY DEF vars, order, square
<1>2. RowsTyped'
  BY <1>1 DEF SplitInv, Typed, RowsTyped, order, square
<1>. QED
  BY <1>1, <1>2, RestStep DEF square, Void, NoCapture

LEMMA SplitNext ==
    SplitInv /\ [Next]_vars => SplitInv'
<1>. SUFFICES ASSUME SplitInv, [Next]_vars PROVE SplitInv'
  OBVIOUS
<1>1. ASSUME NEW p \in Runs, RunSteps(p) PROVE SplitInv'
  BY <1>1, EnrollStep, EndsStep, LoadStep, WritesStep, ReadingStep, authorizeStep, cancelStep,
     readPaymentsStep, payOrderStep, completeStep, CompletedBothStep, CanceledBothStep,
     notifyPaidTrainingOrderStep, MarksStep
     DEF RunSteps
<1>2. ASSUME NEW p \in Runs, Faults(p) PROVE SplitInv'
  BY <1>2, UnansweredStep, UnreadStep, WritesStep, DiesAtWork, EndsStep, MarksStep DEF Faults
<1>3. ASSUME NEW p \in Runs, NEW r \in Reservations,
             \/ Reserve(p, r) \/ CheckStatus(p, r) \/ PaymentEvent(p, r)
             \/ reconcileTrainingSplits(p, r)
      PROVE  SplitInv'
  BY <1>3, StartsStep DEF CheckStatus, PaymentEvent, reconcileTrainingSplits
<1>4. ASSUME NEW r \in Reservations, ClaimExpires(r) PROVE SplitInv'
  BY <1>4, ClaimExpiresStep
<1>5. ASSUME NEW m \in late, Lands(m) PROVE SplitInv'
  BY <1>5, LandsStep
<1>6. ASSUME NEW r \in Reservations, NEW leg \in Legs, Voided(r, leg) PROVE SplitInv'
  BY <1>6, VoidedStep
<1>7. CASE UNCHANGED vars
  BY <1>7, SplitStutters
<1>. QED
  BY <1>1, <1>2, <1>3, <1>4, <1>5, <1>6, <1>7 DEF Next

(* What the holder of a reservation's lock knows, what its stored stage    *)
(* stands for and what may still be under way, in every state: the lock    *)
(* of reconcileTrainingSplit, the stages it saves before every call and    *)
(* the keys it calls Square with.                                          *)
THEOREM SplitInvariant == Spec => []SplitInv
BY SplitInit, SplitNext, PTL DEF Spec

(* Every row, payment and run keeps to its kinds.                          *)
THEOREM SplitTypes == Spec => []TypeOK
<1>1. SplitInv => TypeOK
  BY DEF SplitInv, Typed, RowsTyped, TypeOK, Records, States, Statuses
<1>. QED
  BY <1>1, SplitInvariant, PTL

(* Never a portion: an order is paid only with both payments captured, and *)
(* given up only with neither of them captured, then or ever after, for    *)
(* any runs of the request, the status page, the webhook and the cron.     *)
THEOREM AllOrNothingAlways == Spec => []AllOrNothing
<1>1. SplitInv => AllOrNothing
  BY DEF SplitInv, Recorded, Rows, Void, AllOrNothing
<1>. QED
  BY <1>1, SplitInvariant, PTL

(* A buyer told to try again never pays for the old reservation, and one   *)
(* told that it is paid has an enrolment on a paid order.                  *)
THEOREM AnswersAlwaysTrue == Spec => []AnswerTrue
<1>1. SplitInv => AnswerTrue
  BY DEF SplitInv, Recorded, Rows, Over, Void, AnswerTrue
<1>. QED
  BY <1>1, SplitInvariant, PTL

(* No resumption, retry or race asks Square for a leg's payment twice:     *)
(* Interrupted is found before an authorisation could be repeated.         *)
THEOREM NeverAskedTwice == Spec => []NeverReauthorized
<1>1. SplitInv => NeverReauthorized
  BY DEF SplitInv, Recorded, Rows, NeverReauthorized
<1>. QED
  BY <1>1, SplitInvariant, PTL
=============================================================================
