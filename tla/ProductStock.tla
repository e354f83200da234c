---------------------------- MODULE ProductStock ----------------------------
(***************************************************************************)
(* The product inventory ledger: rows of product_stock (onHand, reserved   *)
(* and the last set-point authored in Sanity) and of                       *)
(* product_stock_movements (at most one row per order, stock row and kind, *)
(* by the unique index product_stock_movements_order_kind_idx).            *)
(*                                                                         *)
(* Each operation runs inside one database transaction that holds the row  *)
(* locks of the stock rows it touches, so each is one action.              *)
(***************************************************************************)
EXTENDS Integers, FiniteSets

CONSTANTS
    Orders,     \* product orders that may ever be created
    Items,      \* (productId, variantKey) pairs
    Qty,        \* Qty[o][k]: units of k in the cart of o, 0 when not in it
    SetPoints   \* the counts staff may author in Sanity

ASSUME OrdersAssumption == IsFiniteSet(Orders)
ASSUME QtyAssumption == Qty \in [Orders -> [Items -> Nat]]
ASSUME SetPointsAssumption == SetPoints \subseteq Nat

VARIABLES
    tracked,    \* the items that have a stock row; the others are unlimited
    onHand,
    reserved,
    seed,       \* sanitySeedQuantity: the set-point applied last
    moves       \* moves[o][k]: kinds of the movements of o on the row of k

stockVars == <<tracked, onHand, reserved, seed, moves>>

StockTypeOK ==
    /\ tracked \subseteq Items
    /\ onHand \in [Items -> Nat]
    /\ reserved \in [Items -> Nat]
    /\ seed \in [Items -> Nat]
    /\ moves \in [Orders -> [Items -> SUBSET {"reserve", "commit", "release"}]]

StockInit ==
    /\ tracked = {}
    /\ onHand = [k \in Items |-> 0]
    /\ reserved = [k \in Items |-> 0]
    /\ seed = [k \in Items |-> 0]
    /\ moves = [o \in Orders |-> [k \in Items |-> {}]]

-----------------------------------------------------------------------------
(* A line whose quantity is not positive is dropped; an item without a row *)
(* is not held at all.                                                     *)
Lines(o) == {k \in tracked : Qty[o][k] > 0}

(* Mutant: a release does not count as a settlement.                       *)
settledByCommitOnly(o, k) == "commit" \in moves[o][k]

orderStockSettled(o, k) == moves[o][k] \cap {"commit", "release"} # {}

(* The rows a commit or a release of o still has to settle.                *)
Unsettled(o) == {k \in Items : "reserve" \in moves[o][k] /\ ~orderStockSettled(o, k)}

Recorded(o, lines, kind) ==
    [moves EXCEPT ![o] = [k \in Items |-> IF k \in lines THEN @[k] \cup {kind} ELSE @[k]]]

Lowered(level, o, lines) ==
    [k \in Items |-> IF k \in lines THEN level[k] - Qty[o][k] ELSE level[k]]

(* Mutant: compares with the units on hand, not with those available.      *)
SufficientOnHand(o) == \A k \in Lines(o) : onHand[k] >= Qty[o][k]

SufficientStock(o) == \A k \in Lines(o) : onHand[k] - reserved[k] >= Qty[o][k]

(* All lines or none: a shortfall throws InsufficientStockError and rolls  *)
(* the order back, and so does a second reserve row for the same order.    *)
reserveProductStock(o) ==
    /\ SufficientStock(o)
    /\ \A k \in Lines(o) : "reserve" \notin moves[o][k]
    /\ moves' = Recorded(o, Lines(o), "reserve")
    /\ reserved' = [k \in Items |-> IF k \in Lines(o) THEN reserved[k] + Qty[o][k]
                                                      ELSE reserved[k]]
    /\ UNCHANGED <<tracked, onHand, seed>>

(* The movement is inserted first; the level update carries its own guard  *)
(* and silently changes nothing when the guard fails.                      *)
commitProductStock(o) ==
    LET sold == {k \in Unsettled(o) : reserved[k] >= Qty[o][k] /\ onHand[k] >= Qty[o][k]}
    IN  /\ moves' = Recorded(o, Unsettled(o), "commit")
        /\ onHand' = Lowered(onHand, o, sold)
        /\ reserved' = Lowered(reserved, o, sold)
        /\ UNCHANGED <<tracked, seed>>

releaseProductStock(o) ==
    LET freed == {k \in Unsettled(o) : reserved[k] >= Qty[o][k]}
    IN  /\ moves' = Recorded(o, Unsettled(o), "release")
        /\ reserved' = Lowered(reserved, o, freed)
        /\ UNCHANGED <<tracked, onHand, seed>>

(* A set-point authored for an item that has no row.                       *)
Track(k, q) ==
    /\ k \notin tracked
    /\ tracked' = tracked \cup {k}
    /\ onHand' = [onHand EXCEPT ![k] = q]
    /\ reserved' = [reserved EXCEPT ![k] = 0]
    /\ seed' = [seed EXCEPT ![k] = q]
    /\ UNCHANGED moves

(* Mutant: the set-point is taken as it is.                                *)
RestockUnclamped(k, q) ==
    /\ k \in tracked
    /\ seed[k] # q
    /\ onHand' = [onHand EXCEPT ![k] = q]
    /\ seed' = [seed EXCEPT ![k] = q]
    /\ UNCHANGED <<tracked, reserved, moves>>

(* A changed set-point resets the count, never below the units held; an    *)
(* unchanged one leaves the live count alone.                              *)
Restock(k, q) ==
    /\ k \in tracked
    /\ seed[k] # q
    /\ onHand' = [onHand EXCEPT ![k] = IF q >= reserved[k] THEN q ELSE reserved[k]]
    /\ seed' = [seed EXCEPT ![k] = q]
    /\ UNCHANGED <<tracked, reserved, moves>>

(* Mutant: a row goes although units of it are held.                       *)
UntrackHeld(k) ==
    /\ k \in tracked
    /\ tracked' = tracked \ {k}
    /\ onHand' = [onHand EXCEPT ![k] = 0]
    /\ seed' = [seed EXCEPT ![k] = 0]
    /\ moves' = [o \in Orders |-> [moves[o] EXCEPT ![k] = {}]]
    /\ UNCHANGED reserved

(* Mutant: the movements of a deleted row stay.                            *)
UntrackKeepingMoves(k) ==
    /\ k \in tracked
    /\ reserved[k] = 0
    /\ tracked' = tracked \ {k}
    /\ onHand' = [onHand EXCEPT ![k] = 0]
    /\ seed' = [seed EXCEPT ![k] = 0]
    /\ UNCHANGED <<reserved, moves>>

(* Deleting a row cascades to its movements; a row with units held stays.  *)
Untrack(k) ==
    /\ k \in tracked
    /\ reserved[k] = 0
    /\ tracked' = tracked \ {k}
    /\ onHand' = [onHand EXCEPT ![k] = 0]
    /\ seed' = [seed EXCEPT ![k] = 0]
    /\ moves' = [o \in Orders |-> [moves[o] EXCEPT ![k] = {}]]
    /\ UNCHANGED reserved

applyTargets(k) == Untrack(k) \/ \E q \in SetPoints : Track(k, q) \/ Restock(k, q)

-----------------------------------------------------------------------------
StockNext ==
    \/ \E o \in Orders : \/ reserveProductStock(o)
                         \/ commitProductStock(o)
                         \/ releaseProductStock(o)
    \/ \E k \in Items : applyTargets(k)

StockSpec == StockInit /\ [][StockNext]_stockVars

-----------------------------------------------------------------------------
(* The units of k that open holds stand for, one pair per unit.            *)
HeldUnits(k) ==
    UNION {{o} \X (1 .. Qty[o][k]) : o \in {p \in Orders : k \in Unsettled(p)}}

(* The counter `reserved` is exactly the units of the reserve movements    *)
(* that no commit or release has settled, and never exceeds onHand: no     *)
(* interleaving of reservations, settlements, set-point resets and row     *)
(* deletions oversells an item, leaks a unit or frees one twice.           *)
StockLedgerAgrees ==
    \A k \in Items :
        /\ reserved[k] = Cardinality(HeldUnits(k))
        /\ reserved[k] <= onHand[k]

(* An order's hold is sold or given back, never both, and only after it    *)
(* was taken; a deleted row leaves no movement behind that a later row     *)
(* for the same item could inherit.                                        *)
SettledOnce ==
    \A o \in Orders, k \in Items :
        /\ ~("commit" \in moves[o][k] /\ "release" \in moves[o][k])
        /\ moves[o][k] # {} => k \in tracked /\ "reserve" \in moves[o][k]

(* A settlement takes effect: the guarded UPDATE that follows the movement *)
(* insert never matches zero rows, so the exactly-once movement row always *)
(* stands for a real change of the counters.                               *)
SettlementTakesEffect ==
    [][\A o \in Orders, k \in Items :
          /\ "commit" \in moves'[o][k] \ moves[o][k]
                => /\ onHand'[k] = onHand[k] - Qty[o][k]
                   /\ reserved'[k] = reserved[k] - Qty[o][k]
          /\ "release" \in moves'[o][k] \ moves[o][k]
                => /\ onHand'[k] = onHand[k]
                   /\ reserved'[k] = reserved[k] - Qty[o][k]]_stockVars
=============================================================================
