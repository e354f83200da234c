-------------------------- MODULE ProductStockProofs --------------------------
(***************************************************************************)
(* Proofs about the stock ledger, for any orders, items, carts and         *)
(* set-points.  The counter `reserved` and the movements are two records   *)
(* of the same thing; the inductive invariant StockInv says they agree,    *)
(* and that the units held form a finite set, so that they can be counted. *)
(***************************************************************************)
EXTENDS ProductStock, FiniteSetTheorems, TLAPS

Holders(k) == {o \in Orders : k \in Unsettled(o)}

UnitsOf(H, k) == UNION {{o} \X (1 .. Qty[o][k]) : o \in H}

HeldFinite == \A k \in Items : IsFiniteSet(HeldUnits(k))

StockInv == StockTypeOK /\ SettledOnce /\ HeldFinite /\ StockLedgerAgrees

-----------------------------------------------------------------------------
(* Counting the units of a set of holders.                                 *)

LEMMA NoUnits == ASSUME NEW k PROVE UnitsOf({}, k) = {}
BY DEF UnitsOf

LEMMA OneLine ==
    ASSUME NEW o, NEW n \in Nat
    PROVE  /\ IsFiniteSet({o} \X (1 .. n))
           /\ Cardinality({o} \X (1 .. n)) = n
<1>1. /\ IsFiniteSet(1 .. n)
      /\ Cardinality(1 .. n) = IF 1 > n THEN 0 ELSE n - 1 + 1
  BY FS_Interval
<1>2. Cardinality(1 .. n) = n
  BY <1>1
<1>3. IsFiniteSet({o}) /\ Cardinality({o}) = 1
  BY FS_Singleton
<1>4. /\ IsFiniteSet({o} \X (1 .. n))
      /\ Cardinality({o} \X (1 .. n)) = Cardinality({o}) * Cardinality(1 .. n)
  BY <1>1, <1>3, FS_Product
<1>. QED
  BY <1>2, <1>3, <1>4

(* A new holder adds exactly the units of its line.                        *)
LEMMA AddHolder ==
    ASSUME NEW H \in SUBSET Orders, NEW o \in Orders, NEW k \in Items,
           o \notin H, IsFiniteSet(UnitsOf(H, k))
    PROVE  /\ IsFiniteSet(UnitsOf(H \cup {o}, k))
           /\ Cardinality(UnitsOf(H \cup {o}, k)) = Cardinality(UnitsOf(H, k)) + Qty[o][k]
<1>. DEFINE L == {o} \X (1 .. Qty[o][k])
<1>1. UnitsOf(H \cup {o}, k) = UnitsOf(H, k) \cup L
  BY DEF UnitsOf
<1>2. UnitsOf(H, k) \cap L = {}
  BY DEF UnitsOf
<1>3. IsFiniteSet(L) /\ Cardinality(L) = Qty[o][k]
  BY OneLine, QtyAssumption
<1>4. Cardinality(UnitsOf(H, k)) \in Nat /\ Qty[o][k] \in Nat
  BY FS_CardinalityType, QtyAssumption
<1>5. Cardinality(UnitsOf(H, k) \cap L) = 0
  BY <1>2, FS_EmptySet
<1>6. /\ IsFiniteSet(UnitsOf(H, k) \cup L)
      /\ Cardinality(UnitsOf(H, k) \cup L) =
            Cardinality(UnitsOf(H, k)) + Cardinality(L) - Cardinality(UnitsOf(H, k) \cap L)
  BY <1>3, FS_Union
<1>7. Cardinality(UnitsOf(H, k) \cup L) = Cardinality(UnitsOf(H, k)) + Qty[o][k]
  BY <1>3, <1>4, <1>5, <1>6
<1>. QED
  BY <1>1, <1>6, <1>7

(* A holder that settles takes exactly its units away.                     *)
LEMMA RemoveHolder ==
    ASSUME NEW H \in SUBSET Orders, NEW o \in H, NEW k \in Items,
           IsFiniteSet(UnitsOf(H, k))
    PROVE  /\ IsFiniteSet(UnitsOf(H \ {o}, k))
           /\ Cardinality(UnitsOf(H \ {o}, k)) = Cardinality(UnitsOf(H, k)) - Qty[o][k]
           /\ Qty[o][k] <= Cardinality(UnitsOf(H, k))
<1>1. UnitsOf(H \ {o}, k) \subseteq UnitsOf(H, k)
  BY DEF UnitsOf
<1>2. IsFiniteSet(UnitsOf(H \ {o}, k))
  BY <1>1, FS_Subset
<1>3. H = (H \ {o}) \cup {o}
  OBVIOUS
<1>4. Cardinality(UnitsOf(H, k)) = Cardinality(UnitsOf(H \ {o}, k)) + Qty[o][k]
  BY <1>2, <1>3, AddHolder
<1>5. /\ Cardinality(UnitsOf(H \ {o}, k)) \in Nat
      /\ Cardinality(UnitsOf(H, k)) \in Nat
      /\ Qty[o][k] \in Nat
  BY <1>2, FS_CardinalityType, QtyAssumption
<1>. QED
  BY <1>2, <1>4, <1>5

LEMMA HeldUnitsOf == ASSUME NEW k PROVE HeldUnits(k) = UnitsOf(Holders(k), k)
BY DEF HeldUnits, UnitsOf, Holders

LEMMA NoHolders ==
    ASSUME NEW k, Holders(k) = {}
    PROVE  IsFiniteSet(HeldUnits(k)) /\ Cardinality(HeldUnits(k)) = 0
BY HeldUnitsOf, NoUnits, FS_EmptySet

-----------------------------------------------------------------------------
(* How the movements recorded for an order change who holds an item.       *)

LEMMA RecordedType ==
    ASSUME StockTypeOK, NEW o \in Orders, NEW lines \in SUBSET Items,
           NEW kind \in {"reserve", "commit", "release"}, moves' = Recorded(o, lines, kind)
    PROVE  moves' \in [Orders -> [Items -> SUBSET {"reserve", "commit", "release"}]]
BY DEF StockTypeOK, Recorded

LEMMA RecordedAt ==
    ASSUME StockTypeOK, NEW o \in Orders, NEW lines \in SUBSET Items, NEW kind,
           moves' = Recorded(o, lines, kind), NEW p \in Orders, NEW k \in Items, NEW x
    PROVE  x \in moves'[p][k] <=> x \in moves[p][k] \/ (p = o /\ k \in lines /\ x = kind)
<1>1. moves'[p][k] = IF p = o /\ k \in lines THEN moves[p][k] \cup {kind} ELSE moves[p][k]
  BY DEF StockTypeOK, Recorded
<1>. QED
  BY <1>1

(* SettledOnce, read kind by kind.                                         *)
LEMMA SettledOnceNext ==
    ASSUME moves' \in [Orders -> [Items -> SUBSET {"reserve", "commit", "release"}]],
           \A o \in Orders, k \in Items :
              /\ ~("commit" \in moves'[o][k] /\ "release" \in moves'[o][k])
              /\ \A x \in {"reserve", "commit", "release"} :
                    x \in moves'[o][k] => k \in tracked' /\ "reserve" \in moves'[o][k]
    PROVE  SettledOnce'
BY DEF SettledOnce

LEMMA HolderIff ==
    ASSUME NEW p \in Orders, NEW k \in Items
    PROVE  p \in Holders(k) <=> /\ "reserve" \in moves[p][k]
                               /\ "commit" \notin moves[p][k]
                               /\ "release" \notin moves[p][k]
BY DEF Holders, Unsettled, orderStockSettled

LEMMA HolderIffNext ==
    ASSUME NEW p \in Orders, NEW k \in Items
    PROVE  p \in Holders(k)' <=> /\ "reserve" \in moves'[p][k]
                                /\ "commit" \notin moves'[p][k]
                                /\ "release" \notin moves'[p][k]
BY DEF Holders, Unsettled, orderStockSettled

LEMMA HoldersInOrders == \A k : Holders(k) \subseteq Orders /\ Holders(k)' \subseteq Orders
BY DEF Holders

(* Unchanged holders: the units stay.                                      *)
LEMMA SameHolders ==
    ASSUME NEW k, Holders(k)' = Holders(k)
    PROVE  HeldUnits(k)' = HeldUnits(k)
BY DEF HeldUnits, Holders, Unsettled, orderStockSettled

LEMMA GainsHolder ==
    ASSUME NEW k \in Items, NEW o \in Orders, o \notin Holders(k),
           Holders(k)' = Holders(k) \cup {o}, IsFiniteSet(HeldUnits(k))
    PROVE  /\ IsFiniteSet(HeldUnits(k)')
           /\ Cardinality(HeldUnits(k)') = Cardinality(HeldUnits(k)) + Qty[o][k]
<1>1. HeldUnits(k)' = UnitsOf(Holders(k)', k)
  BY DEF HeldUnits, UnitsOf, Holders
<1>. QED
  BY <1>1, HeldUnitsOf, HoldersInOrders, AddHolder

LEMMA LosesHolder ==
    ASSUME NEW k \in Items, NEW o \in Holders(k),
           Holders(k)' = Holders(k) \ {o}, IsFiniteSet(HeldUnits(k))
    PROVE  /\ IsFiniteSet(HeldUnits(k)')
           /\ Cardinality(HeldUnits(k)') = Cardinality(HeldUnits(k)) - Qty[o][k]
<1>1. HeldUnits(k)' = UnitsOf(Holders(k)', k)
  BY DEF HeldUnits, UnitsOf, Holders
<1>. QED
  BY <1>1, HeldUnitsOf, HoldersInOrders, RemoveHolder

-----------------------------------------------------------------------------
(* A reservation, all lines at once.                                       *)

LEMMA ReserveKeepsStock ==
    ASSUME StockInv, NEW o \in Orders, reserveProductStock(o)
    PROVE  StockInv'
<1>. USE DEF StockInv
<1>1. Lines(o) \in SUBSET Items
  BY DEF Lines, StockTypeOK
<1>2. /\ moves' \in [Orders -> [Items -> SUBSET {"reserve", "commit", "release"}]]
      /\ \A p \in Orders, k \in Items, x \in {"reserve", "commit", "release"} :
            x \in moves'[p][k] <=>
                x \in moves[p][k] \/ (p = o /\ k \in Lines(o) /\ x = "reserve")
  BY <1>1, RecordedAt, RecordedType DEF reserveProductStock
<1>3. \A k \in Lines(o), x \in {"reserve", "commit", "release"} : x \notin moves[o][k]
  BY <1>1 DEF reserveProductStock, SettledOnce
<1>4. \A k \in Items : Qty[o][k] \in Nat
  BY QtyAssumption
<1>5. StockTypeOK'
  BY <1>1, <1>2, <1>4 DEF reserveProductStock, StockTypeOK
<1>6. SettledOnce'
  BY <1>1, <1>2, <1>3, SettledOnceNext DEF reserveProductStock, SettledOnce, Lines
<1>7. ASSUME NEW k \in Items
      PROVE  /\ IsFiniteSet(HeldUnits(k)')
             /\ reserved'[k] = Cardinality(HeldUnits(k)')
             /\ reserved'[k] <= onHand'[k]
  <2>1. CASE k \in Lines(o)
    <3>1. o \notin Holders(k)
      BY <1>3, <2>1, HolderIff
    <3>2. \A p \in Orders : p \in Holders(k)' <=> p \in Holders(k) \/ p = o
      BY <1>2, <1>3, <2>1, HolderIff, HolderIffNext
    <3>. Holders(k)' = Holders(k) \cup {o}
      BY <3>2, HoldersInOrders
    <3>3. /\ IsFiniteSet(HeldUnits(k)')
          /\ Cardinality(HeldUnits(k)') = Cardinality(HeldUnits(k)) + Qty[o][k]
      BY <3>1, GainsHolder DEF HeldFinite
    <3>4. reserved'[k] = reserved[k] + Qty[o][k] /\ onHand'[k] = onHand[k]
      BY <2>1 DEF reserveProductStock
    <3>5. onHand[k] - reserved[k] >= Qty[o][k]
      BY <2>1 DEF reserveProductStock, SufficientStock
    <3>. QED
      BY <1>4, <3>3, <3>4, <3>5 DEF StockLedgerAgrees, StockTypeOK
  <2>2. CASE k \notin Lines(o)
    <3>1. \A p \in Orders : p \in Holders(k)' <=> p \in Holders(k)
      BY <1>2, <2>2, HolderIff, HolderIffNext
    <3>. Holders(k)' = Holders(k)
      BY <3>1, HoldersInOrders
    <3>2. reserved'[k] = reserved[k] /\ onHand'[k] = onHand[k]
      BY <2>2 DEF reserveProductStock
    <3>. QED
      BY <3>1, <3>2, SameHolders DEF HeldFinite, StockLedgerAgrees
  <2>. QED
    BY <2>1, <2>2
<1>. QED
  BY <1>5, <1>6, <1>7 DEF HeldFinite, StockLedgerAgrees

-----------------------------------------------------------------------------
(* Settling a hold, by a sale or by giving it back.                        *)

LEMMA UnsettledIsHeld ==
    ASSUME StockInv, NEW o \in Orders, NEW k \in Unsettled(o)
    PROVE  /\ o \in Holders(k) /\ k \in Items
           /\ Qty[o][k] \in Nat
           /\ Qty[o][k] <= reserved[k] /\ reserved[k] <= onHand[k]
<1>1. o \in Holders(k) /\ k \in Items
  BY DEF Holders, Unsettled
<1>2. IsFiniteSet(UnitsOf(Holders(k), k))
  BY <1>1, HeldUnitsOf DEF StockInv, HeldFinite
<1>3. Qty[o][k] <= Cardinality(HeldUnits(k))
  BY <1>1, <1>2, HeldUnitsOf, HoldersInOrders, RemoveHolder
<1>. QED
  BY <1>1, <1>3, QtyAssumption DEF StockInv, StockLedgerAgrees

(* Every kind of settlement changes the movements alike.                   *)
LEMMA SettlementMoves ==
    ASSUME StockInv, NEW o \in Orders, NEW kind \in {"commit", "release"},
           moves' = Recorded(o, Unsettled(o), kind), tracked' = tracked
    PROVE  /\ moves' \in [Orders -> [Items -> SUBSET {"reserve", "commit", "release"}]]
           /\ SettledOnce'
           /\ \A k \in Items : Holders(k)' = IF k \in Unsettled(o) THEN Holders(k) \ {o}
                                                                  ELSE Holders(k)
<1>. USE DEF StockInv
<1>1. Unsettled(o) \in SUBSET Items /\ kind \in {"reserve", "commit", "release"}
  BY DEF Unsettled
<1>2. /\ moves' \in [Orders -> [Items -> SUBSET {"reserve", "commit", "release"}]]
      /\ \A p \in Orders, k \in Items, x \in {"reserve", "commit", "release"} :
            x \in moves'[p][k] <=>
                x \in moves[p][k] \/ (p = o /\ k \in Unsettled(o) /\ x = kind)
  <2>1. StockTypeOK
    OBVIOUS
  <2>. QED
    BY <1>1, <2>1, RecordedAt, RecordedType
<1>3. \A k \in Unsettled(o) : /\ "reserve" \in moves[o][k]
                              /\ "commit" \notin moves[o][k]
                              /\ "release" \notin moves[o][k]
  BY DEF Unsettled, orderStockSettled
<1>4. SettledOnce'
  BY <1>1, <1>2, <1>3, SettledOnceNext DEF SettledOnce
<1>5. ASSUME NEW k \in Items
      PROVE  Holders(k)' = IF k \in Unsettled(o) THEN Holders(k) \ {o} ELSE Holders(k)
  <2>1. \A p \in Orders : p \in Holders(k)' <=>
                         p \in Holders(k) /\ ~(p = o /\ k \in Unsettled(o))
    BY <1>2, HolderIff, HolderIffNext
  <2>. QED
    BY <2>1, HoldersInOrders
<1>. QED
  BY <1>2, <1>4, <1>5

(* The units still held, whatever happens to onHand.                       *)
LEMMA SettlementLevels ==
    ASSUME StockInv, NEW o \in Orders,
           \A k \in Items : Holders(k)' = IF k \in Unsettled(o) THEN Holders(k) \ {o}
                                                              ELSE Holders(k),
           NEW k \in Items
    PROVE  /\ IsFiniteSet(HeldUnits(k)')
           /\ Lowered(reserved, o, Unsettled(o))[k] = Cardinality(HeldUnits(k)')
           /\ Lowered(reserved, o, Unsettled(o))[k] \in Nat
<1>. USE DEF StockInv
<1>1. CASE k \in Unsettled(o)
  <2>1. /\ IsFiniteSet(HeldUnits(k)')
        /\ Cardinality(HeldUnits(k)') = Cardinality(HeldUnits(k)) - Qty[o][k]
    BY <1>1, UnsettledIsHeld, LosesHolder DEF HeldFinite
  <2>. QED
    BY <1>1, <2>1, UnsettledIsHeld DEF Lowered, StockLedgerAgrees, StockTypeOK
<1>2. CASE k \notin Unsettled(o)
  BY <1>2, SameHolders DEF Lowered, HeldFinite, StockLedgerAgrees, StockTypeOK
<1>. QED
  BY <1>1, <1>2

(* A sale: the guard of the level update holds for every row it settles.   *)
LEMMA CommitKeepsStock ==
    ASSUME StockInv, NEW o \in Orders, commitProductStock(o)
    PROVE  /\ StockInv'
           /\ onHand' = Lowered(onHand, o, Unsettled(o))
           /\ reserved' = Lowered(reserved, o, Unsettled(o))
<1>1. \A k \in Unsettled(o) : /\ k \in Items /\ Qty[o][k] \in Nat
                              /\ reserved[k] >= Qty[o][k] /\ onHand[k] >= Qty[o][k]
                              /\ reserved[k] \in Nat /\ onHand[k] \in Nat
  BY UnsettledIsHeld DEF StockInv, StockTypeOK
<1>2. {k \in Unsettled(o) : reserved[k] >= Qty[o][k] /\ onHand[k] >= Qty[o][k]} = Unsettled(o)
  BY <1>1
<1>3. /\ onHand' = Lowered(onHand, o, Unsettled(o))
      /\ reserved' = Lowered(reserved, o, Unsettled(o))
      /\ moves' = Recorded(o, Unsettled(o), "commit")
      /\ tracked' = tracked /\ seed' = seed
  BY <1>2 DEF commitProductStock
<1>4. /\ moves' \in [Orders -> [Items -> SUBSET {"reserve", "commit", "release"}]]
      /\ SettledOnce'
      /\ \A k \in Items : Holders(k)' = IF k \in Unsettled(o) THEN Holders(k) \ {o}
                                                             ELSE Holders(k)
  BY <1>3, SettlementMoves
<1>5. \A k \in Items : /\ IsFiniteSet(HeldUnits(k)')
                      /\ reserved'[k] = Cardinality(HeldUnits(k)')
                      /\ reserved'[k] \in Nat
  BY <1>3, <1>4, SettlementLevels
<1>6. ASSUME NEW k \in Items
      PROVE  onHand'[k] \in Nat /\ reserved'[k] <= onHand'[k]
  <2>1. reserved[k] <= onHand[k] /\ reserved[k] \in Nat /\ onHand[k] \in Nat
    BY DEF StockInv, StockLedgerAgrees, StockTypeOK
  <2>. QED
    BY <1>1, <1>3, <2>1 DEF Lowered
<1>7. StockTypeOK'
  BY <1>3, <1>4, <1>5, <1>6 DEF StockInv, StockTypeOK, Lowered
<1>. QED
  BY <1>3, <1>4, <1>5, <1>6, <1>7 DEF StockInv, HeldFinite, StockLedgerAgrees

(* Giving a hold back.                                                     *)
LEMMA ReleaseKeepsStock ==
    ASSUME StockInv, NEW o \in Orders, releaseProductStock(o)
    PROVE  /\ StockInv'
           /\ onHand' = onHand
           /\ reserved' = Lowered(reserved, o, Unsettled(o))
<1>1. \A k \in Unsettled(o) : /\ k \in Items /\ Qty[o][k] \in Nat
                              /\ reserved[k] >= Qty[o][k] /\ reserved[k] \in Nat
  BY UnsettledIsHeld DEF StockInv, StockTypeOK
<1>2. {k \in Unsettled(o) : reserved[k] >= Qty[o][k]} = Unsettled(o)
  BY <1>1
<1>3. /\ onHand' = onHand
      /\ reserved' = Lowered(reserved, o, Unsettled(o))
      /\ moves' = Recorded(o, Unsettled(o), "release")
      /\ tracked' = tracked /\ seed' = seed
  BY <1>2 DEF releaseProductStock
<1>4. /\ moves' \in [Orders -> [Items -> SUBSET {"reserve", "commit", "release"}]]
      /\ SettledOnce'
      /\ \A k \in Items : Holders(k)' = IF k \in Unsettled(o) THEN Holders(k) \ {o}
                                                             ELSE Holders(k)
  BY <1>3, SettlementMoves
<1>5. \A k \in Items : /\ IsFiniteSet(HeldUnits(k)')
                      /\ reserved'[k] = Cardinality(HeldUnits(k)')
                      /\ reserved'[k] \in Nat
  BY <1>3, <1>4, SettlementLevels
<1>6. ASSUME NEW k \in Items
      PROVE  reserved'[k] <= onHand'[k]
  <2>1. reserved[k] <= onHand[k] /\ reserved[k] \in Nat /\ onHand[k] \in Nat
    BY DEF StockInv, StockLedgerAgrees, StockTypeOK
  <2>. QED
    BY <1>1, <1>3, <2>1 DEF Lowered
<1>7. StockTypeOK'
  BY <1>3, <1>4, <1>5 DEF StockInv, StockTypeOK, Lowered
<1>. QED
  BY <1>3, <1>4, <1>5, <1>6, <1>7 DEF StockInv, HeldFinite, StockLedgerAgrees

-----------------------------------------------------------------------------
(* The inventory sync.                                                     *)

(* An item without a row has no movements, hence no holders.               *)
LEMMA UntrackedUnheld ==
    ASSUME StockInv, NEW k \in Items, k \notin tracked
    PROVE  reserved[k] = 0
<1>1. \A o \in Orders : "reserve" \notin moves[o][k]
  BY DEF StockInv, SettledOnce
<1>2. Holders(k) = {}
  BY <1>1, HolderIff, HoldersInOrders
<1>. QED
  BY <1>2, NoHolders DEF StockInv, StockLedgerAgrees

LEMMA SameMoves ==
    ASSUME moves' = moves
    PROVE  \A k : HeldUnits(k)' = HeldUnits(k)
BY DEF HeldUnits, Unsettled, orderStockSettled

LEMMA TrackKeepsStock ==
    ASSUME StockInv, NEW k \in Items, NEW q \in SetPoints, Track(k, q)
    PROVE  StockInv'
<1>1. StockTypeOK'
  BY SetPointsAssumption DEF StockInv, StockTypeOK, Track
<1>2. SettledOnce'
  BY DEF StockInv, SettledOnce, Track
<1>3. reserved' = reserved
  BY UntrackedUnheld DEF Track, StockInv, StockTypeOK
<1>4. ASSUME NEW j \in Items
      PROVE  reserved'[j] <= onHand'[j]
  BY <1>3, UntrackedUnheld, SetPointsAssumption
     DEF Track, StockInv, StockTypeOK, StockLedgerAgrees
<1>5. \A j : HeldUnits(j)' = HeldUnits(j)
  BY SameMoves DEF Track
<1>. QED
  BY <1>1, <1>2, <1>3, <1>4, <1>5 DEF StockInv, HeldFinite, StockLedgerAgrees

LEMMA RestockKeepsStock ==
    ASSUME StockInv, NEW k \in Items, NEW q \in SetPoints, Restock(k, q)
    PROVE  StockInv'
<1>1. StockTypeOK'
  BY SetPointsAssumption DEF StockInv, StockTypeOK, Restock
<1>2. SettledOnce'
  BY DEF StockInv, SettledOnce, Restock
<1>3. ASSUME NEW j \in Items
      PROVE  reserved'[j] = reserved[j] /\ reserved'[j] <= onHand'[j]
  BY SetPointsAssumption DEF Restock, StockInv, StockTypeOK, StockLedgerAgrees
<1>4. \A j : HeldUnits(j)' = HeldUnits(j)
  BY SameMoves DEF Restock
<1>. QED
  BY <1>1, <1>2, <1>3, <1>4 DEF StockInv, HeldFinite, StockLedgerAgrees

(* Deleting a row takes its movements along, so its units held are none.   *)
LEMMA UntrackKeepsStock ==
    ASSUME StockInv, NEW k \in Items, Untrack(k)
    PROVE  StockInv'
<1>1. \A o \in Orders, j \in Items :
          moves'[o][j] = IF j = k THEN {} ELSE moves[o][j]
  BY DEF Untrack, StockInv, StockTypeOK
<1>2. StockTypeOK'
  BY DEF StockInv, StockTypeOK, Untrack
<1>3. SettledOnce'
  BY <1>1 DEF StockInv, SettledOnce, Untrack
<1>4. ASSUME NEW j \in Items
      PROVE  /\ IsFiniteSet(HeldUnits(j)')
             /\ reserved'[j] = Cardinality(HeldUnits(j)')
             /\ reserved'[j] <= onHand'[j]
  <2>1. CASE j = k
    <3>1. \A o \in Orders : o \notin Holders(j)'
      BY <1>1, <2>1, HolderIffNext
    <3>2. HeldUnits(j)' = {}
      BY <3>1 DEF HeldUnits, Holders
    <3>. QED
      BY <2>1, <3>2, FS_EmptySet DEF Untrack, StockInv, StockTypeOK
  <2>2. CASE j # k
    <3>1. \A o \in Orders : o \in Holders(j)' <=> o \in Holders(j)
      BY <1>1, <2>2, HolderIff, HolderIffNext
    <3>2. HeldUnits(j)' = HeldUnits(j)
      BY <3>1, HoldersInOrders, SameHolders
    <3>. QED
      BY <2>2, <3>2 DEF Untrack, StockInv, StockTypeOK, HeldFinite, StockLedgerAgrees
  <2>. QED
    BY <2>1, <2>2
<1>. QED
  BY <1>2, <1>3, <1>4 DEF StockInv, HeldFinite, StockLedgerAgrees

LEMMA SyncKeepsStock ==
    ASSUME StockInv, NEW k \in Items, applyTargets(k)
    PROVE  StockInv'
BY UntrackKeepsStock, TrackKeepsStock, RestockKeepsStock DEF applyTargets

-----------------------------------------------------------------------------
LEMMA StockInitHolds == ASSUME StockInit PROVE StockInv
<1>1. StockTypeOK
  BY DEF StockInit, StockTypeOK
<1>2. SettledOnce
  BY DEF StockInit, SettledOnce
<1>3. ASSUME NEW k \in Items
      PROVE  /\ IsFiniteSet(HeldUnits(k))
             /\ reserved[k] = Cardinality(HeldUnits(k))
             /\ reserved[k] <= onHand[k]
  <2>1. Holders(k) = {}
    BY HolderIff, HoldersInOrders DEF StockInit
  <2>. QED
    BY <2>1, NoHolders DEF StockInit
<1>. QED
  BY <1>1, <1>2, <1>3 DEF StockInv, HeldFinite, StockLedgerAgrees

LEMMA StockStutters == ASSUME StockInv, UNCHANGED stockVars PROVE StockInv'
BY DEF stockVars, StockInv, StockTypeOK, SettledOnce, HeldFinite, StockLedgerAgrees,
       HeldUnits, Unsettled, orderStockSettled

LEMMA StockNextKeeps == ASSUME StockInv, [StockNext]_stockVars PROVE StockInv'
<1>1. ASSUME NEW o \in Orders, reserveProductStock(o) PROVE StockInv'
  BY <1>1, ReserveKeepsStock
<1>2. ASSUME NEW o \in Orders, commitProductStock(o) PROVE StockInv'
  BY <1>2, CommitKeepsStock
<1>3. ASSUME NEW o \in Orders, releaseProductStock(o) PROVE StockInv'
  BY <1>3, ReleaseKeepsStock
<1>4. ASSUME NEW k \in Items, applyTargets(k) PROVE StockInv'
  BY <1>4, SyncKeepsStock
<1>5. CASE UNCHANGED stockVars
  BY <1>5, StockStutters
<1>. QED
  BY <1>1, <1>2, <1>3, <1>4, <1>5 DEF StockNext

(* Whatever transactions commit in whatever order, the invariant holds.    *)
THEOREM StockInvariant == StockSpec => []StockInv
<1>1. StockInit => StockInv
  BY StockInitHolds
<1>2. StockInv /\ [StockNext]_stockVars => StockInv'
  BY StockNextKeeps
<1>. QED
  BY <1>1, <1>2, PTL DEF StockSpec

(* The rows of the two tables keep their types: no counter is negative.    *)
THEOREM StockTyped == StockSpec => []StockTypeOK
<1>1. StockInv => StockTypeOK
  BY DEF StockInv
<1>. QED
  BY <1>1, StockInvariant, PTL

(* No overselling, no leaked unit, no unit freed twice: the counter is the *)
(* units of the open holds and never exceeds the units on hand.            *)
THEOREM StockNeverDrifts == StockSpec => []StockLedgerAgrees
<1>1. StockInv => StockLedgerAgrees
  BY DEF StockInv
<1>. QED
  BY <1>1, StockInvariant, PTL

(* A hold is sold or given back, never both.                               *)
THEOREM StockSettledOnce == StockSpec => []SettledOnce
<1>1. StockInv => SettledOnce
  BY DEF StockInv
<1>. QED
  BY <1>1, StockInvariant, PTL

-----------------------------------------------------------------------------
(* What a step may do to the levels.                                       *)

SettledRight(o, k) ==
    /\ "commit" \in moves'[o][k] /\ "commit" \notin moves[o][k]
          => onHand'[k] = onHand[k] - Qty[o][k] /\ reserved'[k] = reserved[k] - Qty[o][k]
    /\ "release" \in moves'[o][k] /\ "release" \notin moves[o][k]
          => onHand'[k] = onHand[k] /\ reserved'[k] = reserved[k] - Qty[o][k]

LEMMA StepSettlesRight ==
    ASSUME StockInv, [StockNext]_stockVars, NEW o \in Orders, NEW k \in Items
    PROVE  SettledRight(o, k)
<1>1. ASSUME NEW p \in Orders, reserveProductStock(p) PROVE SettledRight(o, k)
  <2>1. Lines(p) \in SUBSET Items
    BY DEF Lines, StockInv, StockTypeOK
  <2>2. \A x : x \in moves'[o][k] =>
               x \in moves[o][k] \/ x = "reserve"
    BY <1>1, <2>1, RecordedAt DEF reserveProductStock, StockInv
  <2>. QED
    BY <2>2 DEF SettledRight
<1>2. ASSUME NEW p \in Orders, commitProductStock(p) PROVE SettledRight(o, k)
  <2>1. Unsettled(p) \in SUBSET Items
    BY DEF Unsettled
  <2>2. \A x : x \in moves'[o][k] =>
               x \in moves[o][k] \/ (o = p /\ k \in Unsettled(p) /\ x = "commit")
    BY <1>2, <2>1, RecordedAt DEF commitProductStock, StockInv
  <2>3. /\ onHand' = Lowered(onHand, p, Unsettled(p))
        /\ reserved' = Lowered(reserved, p, Unsettled(p))
    BY <1>2, CommitKeepsStock
  <2>. QED
    BY <2>2, <2>3 DEF SettledRight, Lowered
<1>3. ASSUME NEW p \in Orders, releaseProductStock(p) PROVE SettledRight(o, k)
  <2>1. Unsettled(p) \in SUBSET Items
    BY DEF Unsettled
  <2>2. \A x : x \in moves'[o][k] =>
               x \in moves[o][k] \/ (o = p /\ k \in Unsettled(p) /\ x = "release")
    BY <1>3, <2>1, RecordedAt DEF releaseProductStock, StockInv
  <2>3. onHand' = onHand /\ reserved' = Lowered(reserved, p, Unsettled(p))
    BY <1>3, ReleaseKeepsStock
  <2>. QED
    BY <2>2, <2>3 DEF SettledRight, Lowered
<1>4. ASSUME NEW j \in Items, applyTargets(j) PROVE SettledRight(o, k)
  <2>1. \A x : x \in moves'[o][k] => x \in moves[o][k]
    BY <1>4 DEF applyTargets, Untrack, Track, Restock, StockInv, StockTypeOK
  <2>. QED
    BY <2>1 DEF SettledRight
<1>5. CASE UNCHANGED stockVars
  BY <1>5 DEF stockVars, SettledRight
<1>. QED
  BY <1>1, <1>2, <1>3, <1>4, <1>5 DEF StockNext

(* The guarded level update behind a new settlement row always applies.    *)
THEOREM SettlementsTakeEffect == StockSpec => SettlementTakesEffect
<1>1. StockInv /\ [StockNext]_stockVars =>
         [\A o \in Orders, k \in Items :
            /\ "commit" \in moves'[o][k] \ moves[o][k]
                  => /\ onHand'[k] = onHand[k] - Qty[o][k]
                     /\ reserved'[k] = reserved[k] - Qty[o][k]
            /\ "release" \in moves'[o][k] \ moves[o][k]
                  => /\ onHand'[k] = onHand[k]
                     /\ reserved'[k] = reserved[k] - Qty[o][k]]_stockVars
  BY StepSettlesRight DEF SettledRight
<1>. QED
  BY <1>1, StockInvariant, PTL DEF StockSpec, SettlementTakesEffect
=============================================================================
