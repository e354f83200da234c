-------------------------- MODULE ProductRefundsProofs --------------------------
(***************************************************************************)
(* Proofs about the refunds of an order, for any finite sets of rows,      *)
(* dashboard refunds and components, any workers and any amounts.          *)
(*                                                                         *)
(* What an open transaction may rely on (SettlementsKnow) makes the        *)
(* invariant inductive: that no other row gets its refund is a property of *)
(* two transactions, neither of which sees the other.  Sums of amounts are *)
(* cardinalities of sets of cents, so an injection from rows to refunds    *)
(* compares what the order counts with what Square returned.               *)
(***************************************************************************)
EXTENDS ProductRefunds, FiniteSetTheorems, TLAPS

-----------------------------------------------------------------------------
(* Counting cents.                                                         *)

Pieces(f, S) == UNION {{x} \X (1 .. f[x]) : x \in S}

LEMMA PiecesOf ==
    ASSUME NEW f, NEW S, NEW u
    PROVE  u \in Pieces(f, S) <=> \E x \in S : \E i \in 1 .. f[x] : u = <<x, i>>
BY DEF Pieces

LEMMA OneSize ==
    ASSUME NEW x, NEW n \in Nat
    PROVE  /\ IsFiniteSet({x} \X (1 .. n))
           /\ Cardinality({x} \X (1 .. n)) = n
<1>1. /\ IsFiniteSet(1 .. n)
      /\ Cardinality(1 .. n) = IF 1 > n THEN 0 ELSE n - 1 + 1
  BY FS_Interval
<1>2. Cardinality(1 .. n) = n
  BY <1>1
<1>3. IsFiniteSet({x}) /\ Cardinality({x}) = 1
  BY FS_Singleton
<1>4. /\ IsFiniteSet({x} \X (1 .. n))
      /\ Cardinality({x} \X (1 .. n)) = Cardinality({x}) * Cardinality(1 .. n)
  BY <1>1, <1>3, FS_Product
<1>. QED
  BY <1>2, <1>3, <1>4

LEMMA SumType ==
    ASSUME NEW f, NEW S, IsFiniteSet(S), \A x \in S : f[x] \in Nat
    PROVE  IsFiniteSet(Pieces(f, S)) /\ Sum(f, S) \in Nat
<1>. DEFINE T == {{x} \X (1 .. f[x]) : x \in S}
            g == [x \in S |-> {x} \X (1 .. f[x])]
<1>1. g \in Surjection(S, T)
  BY DEF Surjection
<1>2. IsFiniteSet(T)
  BY <1>1, FS_Surjection
<1>3. ASSUME NEW t \in T PROVE IsFiniteSet(t)
  <2>1. PICK x \in S : t = {x} \X (1 .. f[x])
    OBVIOUS
  <2>2. f[x] \in Nat
    OBVIOUS
  <2>. QED
    BY <2>1, <2>2, OneSize
<1>. HIDE DEF T
<1>4. IsFiniteSet(UNION T)
  BY <1>2, <1>3, FS_UNION
<1>5. IsFiniteSet(Pieces(f, S))
  BY <1>4 DEF Pieces, T
<1>. QED
  BY <1>5, FS_CardinalityType DEF Sum, Pieces

LEMMA SumEmpty == ASSUME NEW f PROVE Sum(f, {}) = 0
<1>1. Pieces(f, {}) = {}
  BY DEF Pieces
<1>. QED
  BY <1>1, FS_EmptySet DEF Sum, Pieces

LEMMA SumSame ==
    ASSUME NEW f, NEW g, NEW S, \A x \in S : f[x] = g[x]
    PROVE  Sum(f, S) = Sum(g, S)
<1>1. Pieces(f, S) = Pieces(g, S)
  BY DEF Pieces
<1>. QED
  BY <1>1 DEF Sum, Pieces

LEMMA SumMore ==
    ASSUME NEW f, NEW S, NEW T, IsFiniteSet(T), S \subseteq T, \A x \in T : f[x] \in Nat
    PROVE  Sum(f, S) <= Sum(f, T)
<1>1. IsFiniteSet(Pieces(f, T))
  BY SumType
<1>2. Pieces(f, S) \subseteq Pieces(f, T)
  BY DEF Pieces
<1>. QED
  BY <1>1, <1>2, FS_Subset DEF Sum, Pieces

LEMMA SumAdd ==
    ASSUME NEW f, NEW S, NEW x, IsFiniteSet(S), x \notin S, \A y \in S \cup {x} : f[y] \in Nat
    PROVE  Sum(f, S \cup {x}) = Sum(f, S) + f[x]
<1>. DEFINE L == {x} \X (1 .. f[x])
<1>1. Pieces(f, S \cup {x}) = Pieces(f, S) \cup L
  BY DEF Pieces
<1>2. Pieces(f, S) \cap L = {}
  BY DEF Pieces
<1>3. IsFiniteSet(L) /\ Cardinality(L) = f[x]
  BY OneSize
<1>4. IsFiniteSet(Pieces(f, S)) /\ Cardinality(Pieces(f, S)) \in Nat
  BY SumType DEF Sum, Pieces
<1>5. Cardinality(Pieces(f, S) \cap L) = 0
  BY <1>2, FS_EmptySet
<1>6. Cardinality(Pieces(f, S) \cup L) =
        Cardinality(Pieces(f, S)) + Cardinality(L) - Cardinality(Pieces(f, S) \cap L)
  BY <1>3, <1>4, FS_Union
<1>7. Cardinality(Pieces(f, S) \cup L) = Cardinality(Pieces(f, S)) + f[x]
  BY <1>3, <1>4, <1>5, <1>6
<1>. QED
  BY <1>1, <1>7 DEF Sum, Pieces

(* A set whose members stand for different members of another, of the same *)
(* size, does not weigh more.                                              *)
LEMMA SumInto ==
    ASSUME NEW f, NEW S, NEW T, IsFiniteSet(T), \A y \in T : f[y] \in Nat,
           NEW g \in [S -> T], \A x \in S : f[g[x]] = f[x],
           \A x, y \in S : g[x] = g[y] => x = y
    PROVE  Sum(f, S) <= Sum(f, T)
<1>. DEFINE h == [u \in Pieces(f, S) |-> <<g[u[1]], u[2]>>]
<1>1. IsFiniteSet(Pieces(f, T))
  BY SumType
<1>2. ASSUME NEW u \in Pieces(f, S)
      PROVE  /\ u = <<u[1], u[2]>> /\ u[1] \in S /\ u[2] \in 1 .. f[u[1]]
             /\ <<g[u[1]], u[2]>> \in Pieces(f, T)
  <2>1. PICK x \in S : \E i \in 1 .. f[x] : u = <<x, i>>
    BY PiecesOf
  <2>2. PICK i \in 1 .. f[x] : u = <<x, i>>
    BY <2>1
  <2>3. g[x] \in T /\ i \in 1 .. f[g[x]]
    OBVIOUS
  <2>4. <<g[x], i>> \in Pieces(f, T)
    BY <2>3, PiecesOf
  <2>. QED
    BY <2>2, <2>4
<1>3. h \in [Pieces(f, S) -> Pieces(f, T)]
  BY <1>2
<1>4. \A u, v \in Pieces(f, S) : h[u] = h[v] => u = v
  BY <1>2
<1>5. h \in Injection(Pieces(f, S), Pieces(f, T))
  BY <1>3, <1>4 DEF Injection, IsInjective
<1>. HIDE DEF h
<1>6. Cardinality(Pieces(f, S)) <= Cardinality(Pieces(f, T))
  BY <1>1, <1>5, FS_Injection
<1>. QED
  BY <1>6 DEF Sum, Pieces

-----------------------------------------------------------------------------
(* The inductive invariant.                                                *)

Returned == Sum(Cents, {x \in Ids : square[x] = "COMPLETED"}) = Total

(* A reserved row says what it is for.  Until a worker claims it, Square   *)
(* has not heard of it; until it is settled, only its own refund is its.   *)
RowsKnow ==
    \A r \in Refunds :
        /\ status[r] # "none" => row[r] \in Allocation
        /\ status[r] \in {"none", "queued"} => square[r] = "none" /\ ~inflight[r]
        /\ status[r] \in {"none"} \cup Live => providerId[r] \in {None, r}

LinkedOnce ==
    \A r, s \in Refunds : providerId[r] # None /\ providerId[r] = providerId[s] => r = s

(* A worker holds a reserved row.  One that calls Square holds a row that  *)
(* was claimed; what it was told is so; its open transaction is its own.   *)
WorkersKnow ==
    \A w \in Workers :
        /\ at[w] # "idle" => job[w] \in Rows
        /\ at[w] \in {"calling", "completing", "committing"} => status[job[w]] # "queued"
        /\ answer[w] = "COMPLETED" =>
              at[w] \in {"completing", "committing"} /\ square[job[w]] = "COMPLETED"
        /\ at[w] = "committing" => settling[job[w]] # None /\ settling[job[w]].by = w

(* An open transaction ends a row that nobody else can end: it is for the  *)
(* row's amount, and for a refund no other row has or is about to get.  If *)
(* it is for another row's refund, that row is out of the workers' hands.  *)
SettlementsKnow ==
    \A r \in Refunds : settling[r] # None =>
        LET x == settling[r].refund IN
        /\ status[r] \in Live
        /\ square[x] = "COMPLETED" /\ Cents[x] = row[r].amount
        /\ settling[r].by \in Workers => x = r
        /\ \A s \in Refunds \ {r} : providerId[s] # x
        /\ \A s \in Refunds \ {r} : settling[s] # None => settling[s].refund # x
        /\ x \in Refunds /\ x # r => status[x] \notin {"none"} \cup Live
        /\ settling[r].full => Returned

SquareKnows ==
    /\ \A x \in Ids : webhook[x] # "none" => square[x] = "COMPLETED"
    /\ Sum(Cents, Returning) <= Total
    /\ order = "refunded" \/ oblig = "refunded" => Returned

RefundInv ==
    /\ TypeOK /\ RowsKnow /\ LinkedOnce /\ WorkersKnow /\ SettlementsKnow /\ SquareKnows
    /\ NeverOverReserved /\ SucceededWasRefunded

-----------------------------------------------------------------------------
(* What the invariant says of the amounts.                                 *)

Completed == {x \in Ids : square[x] = "COMPLETED"}

LEMMA Amounts ==
    ASSUME RefundInv
    PROVE  /\ \A r \in Rows : Cents[r] = row[r].amount /\ Cents[r] \in Nat
           /\ \A x \in Dashboard : Cents[x] \in Nat
           /\ Returning \subseteq Rows \cup Dashboard /\ Completed \subseteq Returning
           /\ IsFiniteSet(Rows) /\ IsFiniteSet(Returning) /\ IsFiniteSet(Completed)
           /\ \A x \in Returning : Cents[x] \in Nat
           /\ Total \in Nat
<1>. USE DEF RefundInv
<1>1. ASSUME NEW r \in Rows PROVE Cents[r] = row[r].amount /\ Cents[r] \in Nat
  BY DEF Cents, Rows, RowsKnow, Allocation, Ids
<1>2. ASSUME NEW x \in Dashboard PROVE Cents[x] \in Nat
  BY NamesAssumption, AmountsAssumption DEF Cents, Ids
<1>3. Returning \subseteq Rows \cup Dashboard /\ Completed \subseteq Returning
  BY DEF Returning, Completed, Rows, RowsKnow, Ids
<1>4. IsFiniteSet(Refunds \cup Dashboard)
  BY FiniteAssumption, FS_Union
<1>5. IsFiniteSet(Rows) /\ IsFiniteSet(Returning) /\ IsFiniteSet(Completed)
  BY <1>4, FS_Subset DEF Rows, Returning, Completed, Ids
<1>6. Total \in Nat
  BY FiniteAssumption, AmountsAssumption, SumType DEF Total
<1>. QED
  BY <1>1, <1>2, <1>3, <1>5, <1>6

(* Square's books are untouched.                                           *)
LEMMA SquareRests ==
    ASSUME row' = row, square' = square
    PROVE  /\ Cents' = Cents /\ Returning' = Returning /\ Completed' = Completed
           /\ Sum(Cents, Returning)' = Sum(Cents, Returning)
           /\ Returned' <=> Returned
<1>1. Cents' = Cents /\ Returning' = Returning /\ Completed' = Completed
  BY DEF Cents, Returning, Completed
<1>. QED
  BY <1>1 DEF Sum, Returned, Completed, Total

LEMMA ReturnedIs == Returned <=> Sum(Cents, Completed) = Total
BY DEF Returned, Completed

(* Square decides a refund it knows, or has room for.                      *)
SquareDecides(x) ==
    \E v \in {"PENDING", "COMPLETED", "FAILED"} :
        /\ square' = [square EXCEPT ![x] = v]
        /\ \/ square[x] = v
           \/ square[x] = "PENDING"
           \/ square[x] = "none" /\ (v # "FAILED" => SquareRoom(x))

LEMMA SquareMoves ==
    ASSUME RefundInv, row' = row, NEW x \in Ids, x \in Rows \cup Dashboard, SquareDecides(x)
    PROVE  /\ square' \in [Ids -> {"none", "PENDING", "COMPLETED", "FAILED"}]
           /\ Cents' = Cents
           /\ \A y \in Ids : y # x => square'[y] = square[y]
           /\ \A y \in Ids : square[y] = "COMPLETED" => square'[y] = "COMPLETED"
           /\ Sum(Cents, Returning)' <= Total
           /\ Returned => Returned'
<1>1. PICK v \in {"PENDING", "COMPLETED", "FAILED"} :
        /\ square' = [square EXCEPT ![x] = v]
        /\ \/ square[x] = v
           \/ square[x] = "PENDING"
           \/ square[x] = "none" /\ (v # "FAILED" => SquareRoom(x))
  BY DEF SquareDecides
<1>2. square \in [Ids -> {"none", "PENDING", "COMPLETED", "FAILED"}]
  BY DEF RefundInv, TypeOK
<1>3. Cents' = Cents
  BY DEF Cents
<1>4. /\ \A y \in Ids : y # x => square'[y] = square[y]
      /\ \A y \in Ids : square[y] = "COMPLETED" => square'[y] = "COMPLETED"
  BY <1>1, <1>2
<1>5. Cents[x] \in Nat /\ Sum(Cents, Returning) \in Nat /\ Sum(Cents, Returning) <= Total
  BY Amounts, SumType DEF RefundInv, SquareKnows
<1>6. /\ IsFiniteSet(Returning') /\ \A y \in Returning' : Cents[y] \in Nat
      /\ Sum(Cents, Returning') <= Total
  <2>1. CASE Returning' \subseteq Returning
    <3>1. IsFiniteSet(Returning') /\ \A y \in Returning' : Cents[y] \in Nat
      BY <2>1, Amounts, FS_Subset
    <3>2. Sum(Cents, Returning') <= Sum(Cents, Returning) /\ Sum(Cents, Returning') \in Nat
      BY <2>1, <3>1, Amounts, SumMore, SumType
    <3>. QED
      BY <3>1, <3>2, <1>5, Amounts
  <2>2. CASE ~(Returning' \subseteq Returning)
    <3>1. x \notin Returning /\ Returning' = Returning \cup {x} /\ SquareRoom(x)
      BY <1>1, <1>2, <2>2 DEF Returning
    <3>2. Sum(Cents, Returning \cup {x}) = Sum(Cents, Returning) + Cents[x]
      BY <3>1, <1>5, Amounts, SumAdd
    <3>3. IsFiniteSet(Returning \cup {x})
      BY Amounts, FS_AddElement
    <3>. QED
      BY <3>1, <3>2, <3>3, <1>5, Amounts DEF SquareRoom
  <2>. QED
    BY <2>1, <2>2
<1>7. Completed \subseteq Completed' /\ Completed' \subseteq Returning'
  BY <1>4 DEF Completed, Returning
<1>8. ASSUME Returned PROVE Returned'
  <2>1. Sum(Cents, Completed) = Total
    BY <1>8, ReturnedIs
  <2>2. IsFiniteSet(Completed')
    BY <1>6, <1>7, FS_Subset
  <2>3. /\ Sum(Cents, Completed) <= Sum(Cents, Completed')
        /\ Sum(Cents, Completed') <= Sum(Cents, Returning')
        /\ Sum(Cents, Completed') \in Nat /\ Sum(Cents, Returning') \in Nat
    BY <1>6, <1>7, <2>2, SumMore, SumType
  <2>4. Sum(Cents, Completed') = Total
    BY <2>1, <2>3, <1>6, Amounts
  <2>. QED
    BY <2>4, <1>3 DEF Returned, Completed, Sum, Total
<1>9. Sum(Cents, Returning)' = Sum(Cents, Returning')
  BY <1>3 DEF Sum
<1>. QED
  BY <1>1, <1>2, <1>3, <1>4, <1>6, <1>8, <1>9

(* What a transaction counts as returned, with the refund x it is about to *)
(* record, Square has returned: the rows stand for different refunds.      *)
LEMMA FullIsReturned ==
    ASSUME RefundInv, NEW r \in Rows, status[r] \in Live, NEW x \in Ids,
           square[x] = "COMPLETED", Cents[x] = row[r].amount,
           \A s \in Refunds \ {r} : providerId[s] # x,
           Amount(Sees(r)) >= Total
    PROVE  Returned
<1>. DEFINE g == [s \in Sees(r) |-> IF s = r THEN x ELSE providerId[s]]
<1>1. Sees(r) \subseteq Rows /\ IsFiniteSet(Sees(r))
  <2>1. Sees(r) \subseteq Rows
    BY DEF Sees
  <2>. QED
    BY <2>1, Amounts, FS_Subset
<1>2. ASSUME NEW s \in Sees(r)
      PROVE  g[s] \in Completed /\ Cents[g[s]] = Cents[s]
  <2>1. CASE s = r
    BY <2>1, Amounts DEF Completed
  <2>2. CASE s # r
    <3>1. status[s] = "succeeded" /\ s \in Rows
      BY <2>2 DEF Sees
    <3>2. /\ providerId[s] \in Ids /\ square[providerId[s]] = "COMPLETED"
          /\ Cents[providerId[s]] = row[s].amount
      BY <3>1 DEF RefundInv, SucceededWasRefunded, TypeOK, Rows
    <3>. QED
      BY <2>2, <3>1, <3>2, Amounts DEF Completed
  <2>. QED
    BY <2>1, <2>2
<1>3. ASSUME NEW s \in Sees(r), NEW q \in Sees(r), g[s] = g[q] PROVE s = q
  <2>1. s \in Refunds /\ q \in Refunds
    BY <1>1 DEF Rows
  <2>2. s # r => status[s] = "succeeded" /\ providerId[s] # None
    BY DEF Sees, RefundInv, SucceededWasRefunded
  <2>. QED
    BY <1>3, <2>1, <2>2 DEF RefundInv, LinkedOnce
<1>4. g \in [Sees(r) -> Completed]
  BY <1>2
<1>5. \A s \in Sees(r) : Cents[g[s]] = Cents[s]
  BY <1>2
<1>6. \A s, q \in Sees(r) : g[s] = g[q] => s = q
  BY <1>3
<1>. HIDE DEF g
<1>7. IsFiniteSet(Completed) /\ \A y \in Completed : Cents[y] \in Nat
  BY Amounts
<1>8. Sum(Cents, Sees(r)) <= Sum(Cents, Completed)
  BY <1>4, <1>5, <1>6, <1>7, SumInto
<1>9. /\ Sum(Cents, Completed) <= Sum(Cents, Returning)
      /\ Sum(Cents, Returning) <= Total /\ Sum(Cents, Returning) \in Nat
  BY Amounts, SumMore, SumType DEF RefundInv, SquareKnows
<1>10. Sum(Cents, Sees(r)) \in Nat /\ Sum(Cents, Completed) \in Nat /\ Total \in Nat
  BY <1>1, <1>7, Amounts, SumType
<1>11. Sum(Cents, Completed) = Total
  BY <1>8, <1>9, <1>10 DEF Amount
<1>. QED
  BY <1>11, ReturnedIs

-----------------------------------------------------------------------------
(* Every action keeps the invariant.                                       *)

LEMMA ReservedRest ==
    ASSUME NeverOverReserved, row' = row,
           \A r \in Refunds : status'[r] = "none" <=> status[r] = "none"
    PROVE  Rows' = Rows /\ NeverOverReserved'
<1>1. Rows' = Rows /\ Cents' = Cents
  BY DEF Rows, Cents
<1>2. ASSUME NEW k \in Components PROVE RowsOf(k)' = RowsOf(k)
  BY <1>1 DEF RowsOf
<1>3. ASSUME NEW k \in Components PROVE Amount(RowsOf(k))' = Amount(RowsOf(k))
  BY <1>1, <1>2 DEF Amount
<1>. QED
  BY <1>1, <1>3 DEF NeverOverReserved

LEMMA QuarantineKeeps ==
    ASSUME RefundInv, OrderQuarantined
    PROVE  RefundInv'
<1>. USE DEF OrderQuarantined, moneyVars, rowsVars, leaseVars, squareVars,
             workerVars, Live, Rows, RefundInv, TypeOK, Ids
<1>1. Cents' = Cents /\ (Returned' <=> Returned) /\ (Sum(Cents, Returning) <= Total)'
  BY SquareRests DEF SquareKnows
<1>2. TypeOK'
  OBVIOUS
<1>3. RowsKnow'
  BY DEF RowsKnow
<1>4. LinkedOnce'
  BY DEF LinkedOnce
<1>5. WorkersKnow'
  BY DEF WorkersKnow
<1>6. SettlementsKnow'
  BY <1>1 DEF SettlementsKnow
<1>7. SquareKnows'
  BY <1>1 DEF SquareKnows
<1>8. NeverOverReserved'
  BY ReservedRest
<1>9. SucceededWasRefunded'
  BY <1>1 DEF SucceededWasRefunded
<1>. QED
  BY <1>2, <1>3, <1>4, <1>5, <1>6, <1>7, <1>8, <1>9

LEMMA PickKeeps ==
    ASSUME RefundInv, NEW w \in Workers, NEW r \in Refunds, DrainPick(w, r)
    PROVE  RefundInv'
<1>. USE DEF DrainPick, moneyVars, rowsVars, leaseVars, squareVars, workerVars,
             Live, Rows, RefundInv, TypeOK, Ids
<1>1. Cents' = Cents /\ (Returned' <=> Returned) /\ (Sum(Cents, Returning) <= Total)'
  BY SquareRests DEF SquareKnows
<1>2. TypeOK'
  OBVIOUS
<1>3. RowsKnow'
  BY DEF RowsKnow
<1>4. LinkedOnce'
  BY DEF LinkedOnce
<1>5. WorkersKnow'
  BY DEF WorkersKnow
<1>6. SettlementsKnow'
  BY <1>1 DEF SettlementsKnow
<1>7. SquareKnows'
  BY <1>1 DEF SquareKnows
<1>8. NeverOverReserved'
  BY ReservedRest
<1>9. SucceededWasRefunded'
  BY <1>1 DEF SucceededWasRefunded
<1>. QED
  BY <1>2, <1>3, <1>4, <1>5, <1>6, <1>7, <1>8, <1>9

LEMMA ParkKeeps ==
    ASSUME RefundInv, NEW w \in Workers, Park(w)
    PROVE  RefundInv'
<1>. USE DEF Park, Retire, Goto, moneyVars, rowsVars, leaseVars, squareVars,
             workerVars, Live, Rows, RefundInv, TypeOK, Ids
<1>1. Cents' = Cents /\ (Returned' <=> Returned) /\ (Sum(Cents, Returning) <= Total)'
  BY SquareRests DEF SquareKnows
<1>2. TypeOK'
  OBVIOUS
<1>3. RowsKnow'
  BY DEF RowsKnow
<1>4. LinkedOnce'
  BY DEF LinkedOnce
<1>5. WorkersKnow'
  BY DEF WorkersKnow
<1>6. SettlementsKnow'
  BY <1>1 DEF SettlementsKnow
<1>7. SquareKnows'
  BY <1>1 DEF SquareKnows
<1>8. NeverOverReserved'
  BY ReservedRest
<1>9. SucceededWasRefunded'
  BY <1>1 DEF SucceededWasRefunded
<1>. QED
  BY <1>2, <1>3, <1>4, <1>5, <1>6, <1>7, <1>8, <1>9

LEMMA ReapKeeps ==
    ASSUME RefundInv, NEW w \in Workers, Reap(w)
    PROVE  RefundInv'
<1>. USE DEF Reap, Retire, Goto, moneyVars, rowsVars, leaseVars, squareVars,
             workerVars, Live, Rows, RefundInv, TypeOK, Ids
<1>1. Cents' = Cents /\ (Returned' <=> Returned) /\ (Sum(Cents, Returning) <= Total)'
  BY SquareRests DEF SquareKnows
<1>2. TypeOK'
  OBVIOUS
<1>3. RowsKnow'
  BY DEF RowsKnow
<1>4. LinkedOnce'
  BY DEF LinkedOnce
<1>5. WorkersKnow'
  BY DEF WorkersKnow
<1>6. SettlementsKnow'
  BY <1>1 DEF SettlementsKnow
<1>7. SquareKnows'
  BY <1>1 DEF SquareKnows
<1>8. NeverOverReserved'
  BY ReservedRest
<1>9. SucceededWasRefunded'
  BY <1>1 DEF SucceededWasRefunded
<1>. QED
  BY <1>2, <1>3, <1>4, <1>5, <1>6, <1>7, <1>8, <1>9

LEMMA ClaimKeeps ==
    ASSUME RefundInv, NEW w \in Workers, Claim(w)
    PROVE  RefundInv'
<1>. USE DEF Claim, Goto, moneyVars, rowsVars, leaseVars, squareVars, workerVars,
             Live, Rows, RefundInv, TypeOK, Ids
<1>1. Cents' = Cents /\ (Returned' <=> Returned) /\ (Sum(Cents, Returning) <= Total)'
  BY SquareRests DEF SquareKnows
<1>2. TypeOK'
  <2>1. job[w] \in Refunds
    BY DEF WorkersKnow
  <2>2. CASE status[job[w]] = "queued"
    <3>1. /\ status' = [status EXCEPT ![job[w]] = "processing"]
          /\ lease' = [lease EXCEPT ![job[w]] = w]
          /\ leaseOver' = [leaseOver EXCEPT ![job[w]] = FALSE]
          /\ at' = [at EXCEPT ![w] = "calling"]
          /\ UNCHANGED <<moneyVars, row, providerId, settling, squareVars, webhook, job, answer>>
      BY <2>2
    <3>. QED
      BY <2>1, <3>1
  <2>3. CASE status[job[w]] # "queued"
    BY <2>1, <2>3
  <2>. QED
    BY <2>2, <2>3
<1>3. RowsKnow'
  BY DEF RowsKnow
<1>4. LinkedOnce'
  BY DEF LinkedOnce
<1>5. WorkersKnow'
  BY DEF WorkersKnow
<1>6. SettlementsKnow'
  BY <1>1 DEF SettlementsKnow
<1>7. SquareKnows'
  BY <1>1 DEF SquareKnows
<1>8. NeverOverReserved'
  BY ReservedRest
<1>9. SucceededWasRefunded'
  BY <1>1 DEF SucceededWasRefunded
<1>. QED
  BY <1>2, <1>3, <1>4, <1>5, <1>6, <1>7, <1>8, <1>9

LEMMA UnansweredKeeps ==
    ASSUME RefundInv, NEW w \in Workers, RefundUnanswered(w)
    PROVE  RefundInv'
<1>. USE DEF RefundUnanswered, Answered, moneyVars, rowsVars, leaseVars, squareVars,
             workerVars, Live, Rows, RefundInv, TypeOK, Ids
<1>1. Cents' = Cents /\ (Returned' <=> Returned) /\ (Sum(Cents, Returning) <= Total)'
  BY SquareRests DEF SquareKnows
<1>2. TypeOK'
  OBVIOUS
<1>3. RowsKnow'
  BY DEF RowsKnow, WorkersKnow
<1>4. LinkedOnce'
  BY DEF LinkedOnce
<1>5. WorkersKnow'
  BY DEF WorkersKnow
<1>6. SettlementsKnow'
  BY <1>1 DEF SettlementsKnow
<1>7. SquareKnows'
  BY <1>1 DEF SquareKnows
<1>8. NeverOverReserved'
  BY ReservedRest
<1>9. SucceededWasRefunded'
  BY <1>1 DEF SucceededWasRefunded
<1>. QED
  BY <1>2, <1>3, <1>4, <1>5, <1>6, <1>7, <1>8, <1>9

LEMMA StopKeeps ==
    ASSUME RefundInv, NEW w \in Workers, WorkerStops(w)
    PROVE  RefundInv'
<1>. USE DEF WorkerStops, Goto, moneyVars, rowsVars, leaseVars, squareVars,
             workerVars, Live, Rows, RefundInv, TypeOK, Ids
<1>1. Cents' = Cents /\ (Returned' <=> Returned) /\ (Sum(Cents, Returning) <= Total)'
  BY SquareRests DEF SquareKnows
<1>2. TypeOK'
  OBVIOUS
<1>3. RowsKnow'
  BY DEF RowsKnow
<1>4. LinkedOnce'
  BY DEF LinkedOnce
<1>5. WorkersKnow'
  BY DEF WorkersKnow
<1>6. SettlementsKnow'
  BY <1>1 DEF SettlementsKnow
<1>7. SquareKnows'
  BY <1>1 DEF SquareKnows
<1>8. NeverOverReserved'
  BY ReservedRest
<1>9. SucceededWasRefunded'
  BY <1>1 DEF SucceededWasRefunded
<1>. QED
  BY <1>2, <1>3, <1>4, <1>5, <1>6, <1>7, <1>8, <1>9

LEMMA LeaseKeeps ==
    ASSUME RefundInv, NEW r \in Refunds, LeaseExpires(r)
    PROVE  RefundInv'
<1>. USE DEF LeaseExpires, moneyVars, rowsVars, leaseVars, squareVars, workerVars,
             Live, Rows, RefundInv, TypeOK, Ids
<1>1. Cents' = Cents /\ (Returned' <=> Returned) /\ (Sum(Cents, Returning) <= Total)'
  BY SquareRests DEF SquareKnows
<1>2. TypeOK'
  OBVIOUS
<1>3. RowsKnow'
  BY DEF RowsKnow
<1>4. LinkedOnce'
  BY DEF LinkedOnce
<1>5. WorkersKnow'
  BY DEF WorkersKnow
<1>6. SettlementsKnow'
  BY <1>1 DEF SettlementsKnow
<1>7. SquareKnows'
  BY <1>1 DEF SquareKnows
<1>8. NeverOverReserved'
  BY ReservedRest
<1>9. SucceededWasRefunded'
  BY <1>1 DEF SucceededWasRefunded
<1>. QED
  BY <1>2, <1>3, <1>4, <1>5, <1>6, <1>7, <1>8, <1>9

LEMMA FailsKeeps ==
    ASSUME RefundInv, NEW x \in Ids, WebhookFails(x)
    PROVE  RefundInv'
<1>. USE DEF WebhookFails, Delivery, moneyVars, rowsVars, leaseVars, squareVars,
             workerVars, Live, Rows, RefundInv, TypeOK, Ids
<1>1. Cents' = Cents /\ (Returned' <=> Returned) /\ (Sum(Cents, Returning) <= Total)'
  BY SquareRests DEF SquareKnows
<1>2. TypeOK'
  OBVIOUS
<1>3. RowsKnow'
  BY DEF RowsKnow
<1>4. LinkedOnce'
  BY DEF LinkedOnce
<1>5. WorkersKnow'
  BY NamesAssumption DEF WorkersKnow
<1>6. SettlementsKnow'
  BY <1>1 DEF SettlementsKnow
<1>7. SquareKnows'
  BY <1>1 DEF SquareKnows
<1>8. NeverOverReserved'
  BY ReservedRest
<1>9. SucceededWasRefunded'
  BY <1>1 DEF SucceededWasRefunded
<1>. QED
  BY <1>2, <1>3, <1>4, <1>5, <1>6, <1>7, <1>8, <1>9

LEMMA CommitKeeps ==
    ASSUME RefundInv, NEW w \in Workers, SettlementCommits(w)
    PROVE  RefundInv'
<1>. USE DEF SettlementCommits, CommitSettlement, Goto, moneyVars, rowsVars,
             leaseVars, squareVars, workerVars, Live, Rows, RefundInv, TypeOK, Ids
<1>1. Cents' = Cents /\ (Returned' <=> Returned) /\ (Sum(Cents, Returning) <= Total)'
  BY SquareRests DEF SquareKnows
<1>2. TypeOK'
  BY DEF WorkersKnow, Settlement
<1>3. RowsKnow'
  BY DEF RowsKnow, WorkersKnow
<1>4. LinkedOnce'
  BY DEF LinkedOnce, SettlementsKnow, WorkersKnow
<1>5. WorkersKnow'
  BY DEF WorkersKnow
<1>6. SettlementsKnow'
  BY <1>1 DEF SettlementsKnow, WorkersKnow
<1>7. SquareKnows'
  BY <1>1 DEF SquareKnows, SettlementsKnow, WorkersKnow
<1>8. NeverOverReserved'
  BY ReservedRest DEF WorkersKnow
<1>9. SucceededWasRefunded'
  BY <1>1, NamesAssumption DEF SucceededWasRefunded, SettlementsKnow, WorkersKnow
<1>. QED
  BY <1>2, <1>3, <1>4, <1>5, <1>6, <1>7, <1>8, <1>9

LEMMA WebhookCommitKeeps ==
    ASSUME RefundInv, NEW r \in Refunds, WebhookCommits(r)
    PROVE  RefundInv'
<1>. USE DEF WebhookCommits, CommitSettlement, Delivery, moneyVars, rowsVars,
             leaseVars, squareVars, workerVars, Live, Rows, RefundInv, TypeOK, Ids
<1>1. Cents' = Cents /\ (Returned' <=> Returned) /\ (Sum(Cents, Returning) <= Total)'
  BY SquareRests DEF SquareKnows
<1>2. TypeOK'
  BY DEF Settlement
<1>3. RowsKnow'
  BY DEF RowsKnow, SettlementsKnow
<1>4. LinkedOnce'
  BY DEF LinkedOnce, SettlementsKnow
<1>5. WorkersKnow'
  BY NamesAssumption DEF WorkersKnow
<1>6. SettlementsKnow'
  BY <1>1 DEF SettlementsKnow
<1>7. SquareKnows'
  BY <1>1 DEF SquareKnows, SettlementsKnow
<1>8. NeverOverReserved'
  BY ReservedRest DEF SettlementsKnow
<1>9. SucceededWasRefunded'
  BY <1>1, NamesAssumption DEF SucceededWasRefunded, SettlementsKnow, Settlement
<1>. QED
  BY <1>2, <1>3, <1>4, <1>5, <1>6, <1>7, <1>8, <1>9

LEMMA AnsweredKeeps ==
    ASSUME RefundInv, NEW w \in Workers, RefundAnswered(w)
    PROVE  RefundInv'
<1>. USE DEF RefundAnswered, Answered, moneyVars, rowsVars, leaseVars, squareVars,
             workerVars, Live, Rows, RefundInv, TypeOK, Ids
<1>1. /\ Cents' = Cents /\ (Sum(Cents, Returning) <= Total)'
      /\ \A y \in Ids : y # job[w] => square'[y] = square[y]
      /\ \A y \in Ids : square[y] = "COMPLETED" => square'[y] = "COMPLETED"
      /\ Returned => Returned'
      /\ square' \in [Ids -> {"none", "PENDING", "COMPLETED", "FAILED"}]
  <2>1. job[w] \in Ids /\ job[w] \in Rows \cup Dashboard
    BY DEF WorkersKnow
  <2>2. SquareDecides(job[w])
    BY <2>1 DEF SquareDecides, Verdicts
  <2>. QED
    BY <2>1, <2>2, SquareMoves
<1>2. TypeOK'
  BY <1>1
<1>3. RowsKnow'
  BY <1>1 DEF RowsKnow, WorkersKnow
<1>4. LinkedOnce'
  BY DEF LinkedOnce
<1>5. WorkersKnow'
  BY <1>1 DEF WorkersKnow
<1>6. SettlementsKnow'
  BY <1>1 DEF SettlementsKnow
<1>7. SquareKnows'
  BY <1>1 DEF SquareKnows
<1>8. NeverOverReserved'
  BY ReservedRest
<1>9. SucceededWasRefunded'
  BY <1>1 DEF SucceededWasRefunded
<1>. QED
  BY <1>2, <1>3, <1>4, <1>5, <1>6, <1>7, <1>8, <1>9

LEMMA LateKeeps ==
    ASSUME RefundInv, NEW r \in Refunds, LateRefund(r)
    PROVE  RefundInv'
<1>. USE DEF LateRefund, moneyVars, rowsVars, leaseVars, squareVars, workerVars,
             Live, Rows, RefundInv, TypeOK, Ids
<1>1. /\ Cents' = Cents /\ (Sum(Cents, Returning) <= Total)'
      /\ \A y \in Ids : y # r => square'[y] = square[y]
      /\ \A y \in Ids : square[y] = "COMPLETED" => square'[y] = "COMPLETED"
      /\ Returned => Returned'
      /\ square' \in [Ids -> {"none", "PENDING", "COMPLETED", "FAILED"}]
  <2>1. r \in Ids /\ r \in Rows \cup Dashboard
    BY DEF RowsKnow
  <2>2. SquareDecides(r)
    BY <2>1 DEF SquareDecides, Verdicts
  <2>. QED
    BY <2>1, <2>2, SquareMoves
<1>2. TypeOK'
  BY <1>1
<1>3. RowsKnow'
  BY <1>1 DEF RowsKnow
<1>4. LinkedOnce'
  BY DEF LinkedOnce
<1>5. WorkersKnow'
  BY <1>1 DEF WorkersKnow
<1>6. SettlementsKnow'
  BY <1>1 DEF SettlementsKnow
<1>7. SquareKnows'
  BY <1>1 DEF SquareKnows
<1>8. NeverOverReserved'
  BY ReservedRest
<1>9. SucceededWasRefunded'
  BY <1>1 DEF SucceededWasRefunded
<1>. QED
  BY <1>2, <1>3, <1>4, <1>5, <1>6, <1>7, <1>8, <1>9

LEMMA SettlesKeeps ==
    ASSUME RefundInv, NEW x \in Ids, SquareSettles(x)
    PROVE  RefundInv'
<1>. USE DEF SquareSettles, moneyVars, rowsVars, leaseVars, squareVars, workerVars,
             Live, Rows, RefundInv, TypeOK, Ids
<1>1. /\ Cents' = Cents /\ (Sum(Cents, Returning) <= Total)'
      /\ \A y \in Ids : y # x => square'[y] = square[y]
      /\ \A y \in Ids : square[y] = "COMPLETED" => square'[y] = "COMPLETED"
      /\ Returned => Returned'
      /\ square' \in [Ids -> {"none", "PENDING", "COMPLETED", "FAILED"}]
  <2>1. x \in Ids /\ x \in Rows \cup Dashboard
    BY DEF RowsKnow
  <2>2. SquareDecides(x)
    BY <2>1 DEF SquareDecides
  <2>. QED
    BY <2>1, <2>2, SquareMoves
<1>2. TypeOK'
  BY <1>1
<1>3. RowsKnow'
  BY <1>1 DEF RowsKnow
<1>4. LinkedOnce'
  BY DEF LinkedOnce
<1>5. WorkersKnow'
  BY <1>1 DEF WorkersKnow
<1>6. SettlementsKnow'
  BY <1>1 DEF SettlementsKnow
<1>7. SquareKnows'
  BY <1>1 DEF SquareKnows
<1>8. NeverOverReserved'
  BY ReservedRest
<1>9. SucceededWasRefunded'
  BY <1>1 DEF SucceededWasRefunded
<1>. QED
  BY <1>2, <1>3, <1>4, <1>5, <1>6, <1>7, <1>8, <1>9

LEMMA DashboardKeeps ==
    ASSUME RefundInv, NEW x \in Dashboard, DashboardRefund(x)
    PROVE  RefundInv'
<1>. USE DEF DashboardRefund, moneyVars, rowsVars, leaseVars, squareVars,
             workerVars, Live, Rows, RefundInv, TypeOK, Ids
<1>1. /\ Cents' = Cents /\ (Sum(Cents, Returning) <= Total)'
      /\ \A y \in Ids : y # x => square'[y] = square[y]
      /\ \A y \in Ids : square[y] = "COMPLETED" => square'[y] = "COMPLETED"
      /\ Returned => Returned'
      /\ square' \in [Ids -> {"none", "PENDING", "COMPLETED", "FAILED"}]
  <2>1. x \in Ids /\ x \in Rows \cup Dashboard
    OBVIOUS
  <2>2. SquareDecides(x)
    BY <2>1 DEF SquareDecides
  <2>. QED
    BY <2>1, <2>2, SquareMoves
<1>2. TypeOK'
  BY <1>1
<1>3. RowsKnow'
  BY NamesAssumption, <1>1 DEF RowsKnow
<1>4. LinkedOnce'
  BY DEF LinkedOnce
<1>5. WorkersKnow'
  BY <1>1 DEF WorkersKnow
<1>6. SettlementsKnow'
  BY <1>1 DEF SettlementsKnow
<1>7. SquareKnows'
  BY <1>1 DEF SquareKnows
<1>8. NeverOverReserved'
  BY ReservedRest
<1>9. SucceededWasRefunded'
  BY <1>1 DEF SucceededWasRefunded
<1>. QED
  BY <1>2, <1>3, <1>4, <1>5, <1>6, <1>7, <1>8, <1>9

(* A transaction that may end row r with refund x.                         *)
MayEnd(r, x) ==
    /\ r \in Rows /\ x \in Ids /\ status[r] \in Live /\ settling[r] = None
    /\ square[x] = "COMPLETED" /\ Cents[x] = row[r].amount
    /\ \A s \in Refunds \ {r} :
          providerId[s] # x /\ (settling[s] # None => settling[s].refund # x)
    /\ x \in Refunds /\ x # r => status[x] \notin {"none"} \cup Live

LEMMA SettlementBegins ==
    ASSUME RefundInv, NEW r \in Refunds, NEW x \in Ids, NEW by \in Workers \cup {Webhook},
           MayEnd(r, x), by \in Workers => x = r,
           BeginSettlement(r, x, by), UNCHANGED <<moneyVars, squareVars>>
    PROVE  /\ settling' \in [Refunds -> Settlement \cup {None}]
           /\ settling'[r] # None /\ settling'[r].by = by
           /\ RowsKnow' /\ LinkedOnce' /\ SettlementsKnow' /\ NeverOverReserved'
           /\ SucceededWasRefunded'
<1>. USE DEF RefundInv, TypeOK, BeginSettlement, rowsVars, leaseVars, squareVars, Settlement
<1>. DEFINE opened == [by |-> by, refund |-> x, full |-> Amount(Sees(r)) >= Total]
<1>1. /\ Cents' = Cents /\ (Returned' <=> Returned)
      /\ row' = row /\ status' = status /\ providerId' = providerId
  BY SquareRests
<1>2. opened \in Settlement /\ opened # None
  <2>1. Sees(r) \subseteq Rows /\ IsFiniteSet(Sees(r))
    <3>1. Sees(r) \subseteq Rows
      BY DEF Sees, MayEnd
    <3>. QED
      BY <3>1, Amounts, FS_Subset
  <2>2. Amount(Sees(r)) \in Nat /\ Total \in Nat
    BY <2>1, Amounts, SumType DEF Amount
  <2>3. (Amount(Sees(r)) >= Total) \in BOOLEAN
    BY <2>2
  <2>4. opened \in Settlement
    BY <2>3
  <2>. QED
    BY <2>4, NamesAssumption
<1>3. /\ settling'[r] = opened
      /\ \A s \in Refunds \ {r} : settling'[s] = settling[s]
      /\ settling' \in [Refunds -> Settlement \cup {None}]
  BY <1>2
<1>4. opened.full => Returned
  <2>1. \A s \in Refunds \ {r} : providerId[s] # x
    BY DEF MayEnd
  <2>. QED
    BY <2>1, FullIsReturned DEF MayEnd
<1>5. opened.by = by /\ opened.refund = x
  OBVIOUS
<1>. HIDE DEF opened
<1>6. SettlementsKnow'
  BY <1>1, <1>2, <1>3, <1>4, <1>5 DEF SettlementsKnow, MayEnd
<1>7. RowsKnow' /\ LinkedOnce'
  BY <1>1 DEF RowsKnow, LinkedOnce
<1>8. SucceededWasRefunded'
  BY <1>1 DEF SucceededWasRefunded, Rows
<1>9. NeverOverReserved'
  BY <1>1, ReservedRest
<1>. QED
  BY <1>2, <1>3, <1>5, <1>6, <1>7, <1>8, <1>9

(* The webhook starts to settle a row.                                     *)
LEMMA WebhookBegins ==
    ASSUME RefundInv, NEW r \in Refunds, NEW x \in Ids, MayEnd(r, x),
           BeginSettlement(r, x, Webhook), Delivery(x, "settling"),
           UNCHANGED <<moneyVars, squareVars, workerVars>>
    PROVE  RefundInv'
<1>. USE DEF RefundInv, TypeOK, Rows, Ids, moneyVars, squareVars, workerVars
<1>1. /\ settling' \in [Refunds -> Settlement \cup {None}]
      /\ settling'[r] # None /\ settling'[r].by = Webhook
      /\ RowsKnow' /\ LinkedOnce' /\ SettlementsKnow' /\ NeverOverReserved'
      /\ SucceededWasRefunded'
  BY SettlementBegins, NamesAssumption
<1>2. TypeOK'
  BY <1>1 DEF BeginSettlement, Delivery, leaseVars
<1>3. WorkersKnow'
  <2>1. \A w \in Workers : at[w] = "committing" => job[w] # r
    BY DEF WorkersKnow, MayEnd
  <2>. QED
    BY <2>1 DEF WorkersKnow, BeginSettlement
<1>4. SquareKnows'
  BY SquareRests DEF SquareKnows, BeginSettlement, Delivery, MayEnd
<1>. QED
  BY <1>1, <1>2, <1>3, <1>4

(* The worker found the row taken, is told to wait, or leaves it.          *)
LEMMA GivesUpKeeps ==
    ASSUME RefundInv, NEW w \in Workers, completeClaimedRefund(w),
           ~Owns(w) \/ answer[w] # "COMPLETED"
    PROVE  RefundInv'
<1>. USE DEF completeClaimedRefund, Owns, Ending, Unlinked, Retire, Goto, moneyVars,
             rowsVars, leaseVars, squareVars, workerVars, Live, Rows, RefundInv,
             TypeOK, Ids
<1>1. Cents' = Cents /\ (Returned' <=> Returned) /\ (Sum(Cents, Returning) <= Total)'
  BY SquareRests DEF SquareKnows
<1>2. TypeOK'
  OBVIOUS
<1>3. RowsKnow'
  BY DEF RowsKnow
<1>4. LinkedOnce'
  BY DEF LinkedOnce
<1>5. WorkersKnow'
  BY DEF WorkersKnow
<1>6. SettlementsKnow'
  BY <1>1 DEF SettlementsKnow
<1>7. SquareKnows'
  BY <1>1 DEF SquareKnows
<1>8. NeverOverReserved'
  BY ReservedRest
<1>9. SucceededWasRefunded'
  BY <1>1 DEF SucceededWasRefunded
<1>. QED
  BY <1>2, <1>3, <1>4, <1>5, <1>6, <1>7, <1>8, <1>9

LEMMA EndsKeeps ==
    ASSUME RefundInv, NEW w \in Workers, completeClaimedRefund(w),
           Owns(w), answer[w] = "COMPLETED"
    PROVE  RefundInv'
<1>. DEFINE r == job[w]
<1>. USE DEF RefundInv, TypeOK, Rows, Ids, moneyVars, squareVars
<1>1. /\ r \in Rows /\ status[r] = "processing" /\ settling[r] = None
      /\ square[r] = "COMPLETED" /\ at[w] = "completing"
      /\ Unlinked(r, r) /\ BeginSettlement(r, r, w) /\ Goto(w, "committing")
      /\ UNCHANGED <<moneyVars, squareVars, webhook>>
  BY DEF completeClaimedRefund, Owns, WorkersKnow
<1>2. MayEnd(r, r)
  BY <1>1, Amounts DEF MayEnd, Unlinked, SettlementsKnow
<1>. HIDE DEF r
<1>3. /\ settling' \in [Refunds -> Settlement \cup {None}]
      /\ settling'[r] # None /\ settling'[r].by = w
      /\ RowsKnow' /\ LinkedOnce' /\ SettlementsKnow' /\ NeverOverReserved'
      /\ SucceededWasRefunded'
  BY <1>1, <1>2, SettlementBegins
<1>4. TypeOK'
  BY <1>1, <1>3 DEF BeginSettlement, Goto, leaseVars
<1>5. WorkersKnow'
  BY <1>1, <1>3 DEF WorkersKnow, BeginSettlement, Goto, r
<1>6. SquareKnows'
  BY <1>1, SquareRests DEF SquareKnows, BeginSettlement
<1>. QED
  BY <1>3, <1>4, <1>5, <1>6

LEMMA UpdatedKeeps ==
    ASSUME RefundInv, NEW x \in Ids, RefundUpdated(x)
    PROVE  RefundInv'
<1>. USE DEF RefundInv, TypeOK, Rows, Ids, Live, moneyVars, squareVars, workerVars
<1>1. CASE UNCHANGED rowsVars
  <2>1. Cents' = Cents /\ (Returned' <=> Returned) /\ (Sum(Cents, Returning) <= Total)'
    BY <1>1, SquareRests DEF SquareKnows, rowsVars, RefundUpdated
  <2>2. TypeOK'
    BY <1>1 DEF RefundUpdated, Delivery, rowsVars, leaseVars
  <2>3. RowsKnow' /\ LinkedOnce' /\ WorkersKnow'
    BY <1>1 DEF RefundUpdated, rowsVars, RowsKnow, LinkedOnce, WorkersKnow
  <2>4. SettlementsKnow' /\ SucceededWasRefunded'
    BY <1>1, <2>1 DEF RefundUpdated, rowsVars, SettlementsKnow, SucceededWasRefunded
  <2>5. SquareKnows'
    BY <1>1, <2>1 DEF RefundUpdated, Delivery, SquareKnows
  <2>6. NeverOverReserved'
    BY <1>1, ReservedRest DEF rowsVars
  <2>. QED
    BY <2>2, <2>3, <2>4, <2>5, <2>6
<1>2. CASE ~(UNCHANGED rowsVars)
  <2>1. PICK r \in Rows :
          /\ providerId[r] = x /\ settling[r] = None /\ NoWebhookOpen
          /\ status[r] \in Live /\ BeginSettlement(r, x, Webhook) /\ Delivery(x, "settling")
    BY <1>2 DEF RefundUpdated
  <2>2. square[x] = "COMPLETED" /\ UNCHANGED <<moneyVars, squareVars, workerVars>>
    BY DEF RefundUpdated
  <2>3. x = r
    BY <2>1, NamesAssumption DEF RowsKnow
  <2>4. MayEnd(r, x)
    BY <2>1, <2>2, <2>3, Amounts, NamesAssumption DEF MayEnd, LinkedOnce,
       SettlementsKnow
  <2>5. QED
    BY <2>1, <2>2, <2>4, WebhookBegins
<1>. QED
  BY <1>1, <1>2

LEMMA SearchKeeps ==
    ASSUME RefundInv, NEW x \in Ids, SearchRow(x)
    PROVE  RefundInv'
<1>. USE DEF RefundInv, TypeOK, Rows, Ids, Live, moneyVars, squareVars, workerVars
<1>1. square[x] = "COMPLETED" /\ UNCHANGED <<squareVars, workerVars>>
  BY DEF SearchRow, SquareKnows
<1>2. CASE UNCHANGED <<moneyVars, rowsVars>>
  <2>1. Cents' = Cents /\ (Returned' <=> Returned) /\ (Sum(Cents, Returning) <= Total)'
    BY <1>1, <1>2, SquareRests DEF SquareKnows, rowsVars
  <2>2. TypeOK'
    BY <1>1, <1>2 DEF SearchRow, Delivery, rowsVars, leaseVars
  <2>3. RowsKnow' /\ LinkedOnce' /\ WorkersKnow'
    BY <1>1, <1>2 DEF rowsVars, RowsKnow, LinkedOnce, WorkersKnow
  <2>4. SettlementsKnow' /\ SucceededWasRefunded'
    BY <1>1, <1>2, <2>1 DEF rowsVars, SettlementsKnow, SucceededWasRefunded
  <2>5. SquareKnows'
    BY <1>1, <1>2, <2>1 DEF SearchRow, Delivery, SquareKnows
  <2>6. NeverOverReserved'
    BY <1>2, ReservedRest DEF rowsVars
  <2>. QED
    BY <2>2, <2>3, <2>4, <2>5, <2>6
<1>3. ASSUME NEW r \in Candidates(x), Candidates(x) = {r}, Unlinked(r, x),
             BeginSettlement(r, x, Webhook), Delivery(x, "settling"), UNCHANGED moneyVars
      PROVE  RefundInv'
  <2>1. NoWebhookOpen /\ settling[r] = None
    BY <1>3 DEF SearchRow
  <2>2. r \in Rows /\ status[r] \in Live /\ row[r].amount = Cents[x] /\ ~quarantined
    BY DEF Candidates
  <2>3. x \in Rows /\ x # r => status[x] \notin Live
    BY <1>3, <2>2, Amounts DEF Candidates
  <2>4. x \in Refunds => x \in Rows
    BY <1>1 DEF RowsKnow
  <2>5. ASSUME NEW s \in Refunds \ {r}, settling[s] # None, settling[s].refund = x
        PROVE  FALSE
    <3>1. s = x /\ status[s] \in Live
      BY <2>1, <2>5 DEF NoWebhookOpen, SettlementsKnow, Settlement
    <3>. QED
      BY <3>1, <2>3, <2>4, <2>5
  <2>6. MayEnd(r, x)
    BY <1>1, <1>3, <2>1, <2>2, <2>3, <2>4, <2>5 DEF MayEnd, Unlinked
  <2>. QED
    BY <1>1, <1>3, <2>2, <2>6, WebhookBegins
<1>4. CASE Retire(Candidates(x), "manual_review") /\ UNCHANGED providerId
             /\ Delivery(x, "acknowledged")
  <2>. USE DEF Retire, leaseVars
  <2>1. Cents' = Cents /\ (Returned' <=> Returned) /\ (Sum(Cents, Returning) <= Total)'
    BY <1>1, <1>4, SquareRests DEF SquareKnows
  <2>2. \A r \in Candidates(x) : status[r] \in Live /\ settling[r] = None
    BY DEF Candidates, SearchRow
  <2>3. TypeOK'
    BY <1>1, <1>4 DEF Delivery
  <2>4. RowsKnow' /\ LinkedOnce'
    BY <1>1, <1>4, <2>2 DEF RowsKnow, LinkedOnce
  <2>5. WorkersKnow'
    BY <1>1, <1>4, <2>2 DEF WorkersKnow
  <2>6. SettlementsKnow'
    BY <1>1, <1>4, <2>1, <2>2 DEF SettlementsKnow
  <2>7. SquareKnows' /\ SucceededWasRefunded'
    BY <1>1, <1>4, <2>1, <2>2 DEF Delivery, SquareKnows, SucceededWasRefunded
  <2>8. NeverOverReserved'
    BY <1>4, <2>2, ReservedRest
  <2>. QED
    BY <2>3, <2>4, <2>5, <2>6, <2>7, <2>8
<1>. QED
  BY <1>2, <1>3, <1>4 DEF SearchRow

-----------------------------------------------------------------------------
(* Reserving: the rows of a component grow by one at most, and by no more  *)
(* than its balance.                                                       *)

LEMMA ReserveKeeps ==
    ASSUME RefundInv, NEW A \in SUBSET Allocation,
           \A a \in A : a.amount <= Balance(a.component),
           \A a, b \in A : a.component = b.component => a = b,
           Reserve(A), captured' \in BOOLEAN,
           UNCHANGED <<order, quarantined, oblig, squareVars, webhook, workerVars>>
    PROVE  RefundInv'
<1>. USE DEF RefundInv, squareVars, workerVars, Ids
<1>1. PICK named \in [A -> Refunds \ Rows] :
        LET New == {named[a] : a \in A}
            Of(r) == CHOOSE a \in A : named[a] = r
        IN  /\ \A a, b \in A : named[a] = named[b] => a = b
            /\ row' = [r \in Refunds |-> IF r \in New THEN Of(r) ELSE row[r]]
            /\ status' = [r \in Refunds |-> IF r \in New THEN "queued" ELSE status[r]]
            /\ UNCHANGED <<providerId, leaseVars, settling>>
  BY DEF Reserve
<1>. DEFINE New == {named[a] : a \in A}
<1>2. ASSUME NEW r \in New
      PROVE  /\ r \in Refunds /\ status[r] = "none" /\ status'[r] = "queued"
             /\ row'[r] \in A /\ named[row'[r]] = r
  <2>1. PICK a \in A : named[a] = r
    OBVIOUS
  <2>2. r \in Refunds /\ r \notin Rows
    BY <2>1
  <2>3. row'[r] = CHOOSE b \in A : named[b] = r
    BY <1>1, <2>2
  <2>4. row'[r] \in A /\ named[row'[r]] = r
    BY <2>1, <2>3
  <2>. QED
    BY <1>1, <2>2, <2>4 DEF Rows
<1>3. ASSUME NEW r \in Refunds, r \notin New
      PROVE  row'[r] = row[r] /\ status'[r] = status[r]
  BY <1>1, <1>3
<1>4. UNCHANGED <<providerId, lease, leaseOver, settling, square, inflight, at, job, answer>>
  BY <1>1 DEF leaseVars
<1>5. New \subseteq Refunds /\ New \cap Rows = {} /\ Rows' = Rows \cup New
  BY <1>2, <1>3 DEF Rows
<1>6. TypeOK'
  <2>1. row' \in [Refunds -> Allocation \cup {None}]
    BY <1>1, <1>2, <1>3 DEF TypeOK
  <2>2. status' \in [Refunds -> {"none", "succeeded", "manual_review"} \cup Live]
    BY <1>1, <1>2, <1>3 DEF TypeOK, Live
  <2>. QED
    BY <1>4, <2>1, <2>2 DEF TypeOK
<1>. HIDE DEF New
<1>7. ASSUME NEW x \in Rows \cup Dashboard PROVE Cents'[x] = Cents[x]
  <2>1. x \in Rows => x \in Refunds /\ row'[x] = row[x]
    BY <1>3, <1>5 DEF Rows
  <2>. QED
    BY <2>1, NamesAssumption DEF Cents
<1>8. /\ Sum(Cents, Returning)' = Sum(Cents, Returning)
      /\ Returned' <=> Returned
  <2>1. Returning' = Returning /\ Completed' = Completed
    BY <1>4 DEF Returning, Completed
  <2>2. /\ Sum(Cents', Returning) = Sum(Cents, Returning)
        /\ Sum(Cents', Completed) = Sum(Cents, Completed)
    BY <1>7, Amounts, SumSame
  <2>3. Returned' <=> Sum(Cents', Completed') = Total
    BY DEF Returned, Completed
  <2>. QED
    BY <2>1, <2>2, <2>3, ReturnedIs
<1>9. RowsKnow'
  BY <1>2, <1>3, <1>4 DEF RowsKnow
<1>10. LinkedOnce' /\ SquareKnows'
  BY <1>4, <1>8 DEF LinkedOnce, SquareKnows
<1>11. WorkersKnow'
  BY <1>2, <1>3, <1>4, <1>5 DEF WorkersKnow, Rows
<1>12. ASSUME NEW r \in Refunds, settling[r] # None
       PROVE  /\ r \in Rows /\ r \notin New
              /\ settling[r].refund \in Rows \cup Dashboard
  <2>1. r \in Rows /\ settling[r].refund \in Ids /\ square[settling[r].refund] = "COMPLETED"
    BY <1>12 DEF SettlementsKnow, Rows, Live, TypeOK, Settlement
  <2>. QED
    BY <2>1, <1>5 DEF RowsKnow, Rows
<1>13. SettlementsKnow'
  <2>. SUFFICES ASSUME NEW r \in Refunds, settling[r] # None
                PROVE  /\ status'[r] \in Live
                       /\ square[settling[r].refund] = "COMPLETED"
                       /\ Cents'[settling[r].refund] = row'[r].amount
                       /\ settling[r].by \in Workers => settling[r].refund = r
                       /\ \A s \in Refunds \ {r} : providerId[s] # settling[r].refund
                       /\ \A s \in Refunds \ {r} :
                             settling[s] # None => settling[s].refund # settling[r].refund
                       /\ settling[r].refund \in Refunds /\ settling[r].refund # r =>
                             status'[settling[r].refund] \notin {"none"} \cup Live
                       /\ settling[r].full => Returned'
    BY <1>4 DEF SettlementsKnow
  <2>1. row'[r] = row[r] /\ status'[r] = status[r]
    BY <1>3, <1>12
  <2>2. Cents'[settling[r].refund] = Cents[settling[r].refund]
    BY <1>7, <1>12
  <2>3. settling[r].refund \in Refunds =>
          status'[settling[r].refund] = status[settling[r].refund]
    BY <1>3, <1>5, <1>12, NamesAssumption
  <2>. QED
    BY <1>8, <2>1, <2>2, <2>3 DEF SettlementsKnow
<1>14. SucceededWasRefunded'
  <2>. SUFFICES ASSUME NEW r \in Rows', status'[r] = "succeeded"
                PROVE  /\ providerId[r] # None
                       /\ square[providerId[r]] = "COMPLETED"
                       /\ Cents'[providerId[r]] = row'[r].amount
                       /\ \A s \in Rows' \ {r} : providerId[s] # providerId[r]
    BY <1>4 DEF SucceededWasRefunded
  <2>1. r \in Rows /\ r \in Refunds /\ status[r] = "succeeded" /\ row'[r] = row[r]
    BY <1>2, <1>3, <1>5 DEF Rows
  <2>2. providerId[r] \in Ids /\ providerId[r] # None /\ square[providerId[r]] = "COMPLETED"
    BY <2>1 DEF SucceededWasRefunded, TypeOK
  <2>3. providerId[r] \in Rows \cup Dashboard
    BY <2>2 DEF RowsKnow, Rows
  <2>4. \A s \in Rows' : s \in Refunds
    BY DEF Rows
  <2>. QED
    BY <1>7, <2>1, <2>2, <2>3, <2>4 DEF SucceededWasRefunded, LinkedOnce
<1>15. ASSUME NEW k \in Components PROVE Amount(RowsOf(k))' <= Captured[k]
  <2>. DEFINE N == {r \in New : row'[r].component = k}
  <2>1. RowsOf(k)' = RowsOf(k) \cup N /\ RowsOf(k) \cap N = {} /\ RowsOf(k) \subseteq Rows
    BY <1>3, <1>5 DEF RowsOf, Rows
  <2>2. Sum(Cents', RowsOf(k)) = Sum(Cents, RowsOf(k))
    BY <1>7, <2>1, SumSame
  <2>3. IsFiniteSet(RowsOf(k)) /\ \A r \in RowsOf(k) : Cents[r] \in Nat /\ Cents'[r] = Cents[r]
    BY <1>7, <2>1, Amounts, FS_Subset
  <2>4. /\ Sum(Cents, RowsOf(k)) \in Nat /\ Captured[k] \in Nat
        /\ Sum(Cents, RowsOf(k)) <= Captured[k]
    BY <2>3, SumType, AmountsAssumption DEF NeverOverReserved, Amount
  <2>5. Amount(RowsOf(k))' = Sum(Cents', RowsOf(k) \cup N)
    BY <2>1 DEF Amount
  <2>6. CASE N = {}
    BY <2>2, <2>4, <2>5, <2>6
  <2>7. ASSUME NEW r \in N PROVE Amount(RowsOf(k))' <= Captured[k]
    <3>1. r \in New /\ row'[r] \in A /\ row'[r].component = k /\ row'[r] \in Allocation
      BY <1>2
    <3>2. N = {r}
      <4>1. ASSUME NEW s \in N PROVE s = r
        <5>1. s \in New /\ row'[s] \in A /\ row'[s].component = k
          BY <1>2
        <5>. QED
          BY <3>1, <5>1, <1>2
      <4>. QED
        BY <4>1
    <3>3. Cents'[r] = row'[r].amount /\ Cents'[r] \in Nat
      BY <3>1, <1>5 DEF Cents, Allocation
    <3>4. r \notin RowsOf(k)
      BY <2>1
    <3>5. Sum(Cents', RowsOf(k) \cup {r}) = Sum(Cents', RowsOf(k)) + Cents'[r]
      BY <2>3, <3>3, <3>4, SumAdd
    <3>6. row'[r].amount <= Captured[k] - Sum(Cents, RowsOf(k))
      BY <3>1 DEF Balance, Amount
    <3>. HIDE DEF N
    <3>7. Amount(RowsOf(k))' = Sum(Cents, RowsOf(k)) + row'[r].amount
      BY <2>2, <2>5, <3>2, <3>3, <3>5
    <3>. QED
      BY <2>4, <3>3, <3>6, <3>7
  <2>. QED
    BY <2>6, <2>7
<1>16. NeverOverReserved'
  BY <1>15 DEF NeverOverReserved
<1>. QED
  BY <1>6, <1>9, <1>10, <1>11, <1>13, <1>14, <1>16

LEMMA BalanceInt ==
    ASSUME RefundInv, NEW k \in Components
    PROVE  Balance(k) \in Int
<1>1. RowsOf(k) \subseteq Rows
  BY DEF RowsOf
<1>2. IsFiniteSet(RowsOf(k)) /\ \A r \in RowsOf(k) : Cents[r] \in Nat
  BY <1>1, Amounts, FS_Subset
<1>. QED
  BY <1>2, SumType, AmountsAssumption DEF Balance, Amount

LEMMA RemainingFits ==
    ASSUME RefundInv
    PROVE  /\ Remaining \in SUBSET Allocation
           /\ \A a \in Remaining : a.amount <= Balance(a.component)
           /\ \A a, b \in Remaining : a.component = b.component => a = b
<1>1. ASSUME NEW a \in Remaining
      PROVE  /\ a.component \in Components
             /\ a = [component |-> a.component, amount |-> Balance(a.component)]
             /\ Balance(a.component) \in Nat
  <2>1. PICK k \in Components : Balance(k) > 0 /\ a = [component |-> k, amount |-> Balance(k)]
    BY DEF Remaining
  <2>2. Balance(k) \in Int
    BY BalanceInt
  <2>. QED
    BY <2>1, <2>2
<1>2. ASSUME NEW a \in Remaining PROVE a \in Allocation /\ a.amount <= Balance(a.component)
  <2>1. /\ a.component \in Components /\ Balance(a.component) \in Nat
        /\ a = [component |-> a.component, amount |-> Balance(a.component)]
    BY <1>1
  <2>2. a.amount = Balance(a.component)
    BY <2>1
  <2>. QED
    BY <2>1, <2>2 DEF Allocation
<1>. QED
  BY <1>1, <1>2

LEMMA QueueKeeps ==
    ASSUME RefundInv, queueProductOrderRefundAllocations
    PROVE  RefundInv'
<1>. USE DEF queueProductOrderRefundAllocations, moneyVars
<1>1. captured' \in BOOLEAN
  OBVIOUS
<1>2. CASE Reserve(Remaining)
  BY <1>1, <1>2, RemainingFits, ReserveKeeps
<1>3. ASSUME NEW k \in Components, NEW n \in Partials, n <= Balance(k),
             Reserve({[component |-> k, amount |-> n]})
      PROVE  RefundInv'
  <2>. DEFINE A == {[component |-> k, amount |-> n]}
  <2>1. A \in SUBSET Allocation
    BY AmountsAssumption DEF Allocation
  <2>2. \A a \in A : a.amount <= Balance(a.component)
    BY <1>3
  <2>. QED
    BY <1>1, <1>3, <2>1, <2>2, ReserveKeeps
<1>. QED
  BY <1>2, <1>3

LEMMA LateCaptureKeeps ==
    ASSUME RefundInv, LateCapture
    PROVE  RefundInv'
BY RemainingFits, ReserveKeeps DEF LateCapture

-----------------------------------------------------------------------------
(* The theorems.                                                           *)

LEMMA RefundInitHolds == Init => RefundInv
<1>. SUFFICES ASSUME Init PROVE RefundInv
  OBVIOUS
<1>. USE DEF Init
<1>1. TypeOK
  BY DEF TypeOK
<1>2. RowsKnow /\ LinkedOnce /\ WorkersKnow /\ SettlementsKnow /\ SucceededWasRefunded
  BY DEF RowsKnow, LinkedOnce, WorkersKnow, SettlementsKnow, SucceededWasRefunded,
     Ids, Rows
<1>3. Returning = {} /\ \A k \in Components : RowsOf(k) = {}
  BY DEF Returning, RowsOf, Rows
<1>4. Total \in Nat
  BY FiniteAssumption, AmountsAssumption, SumType DEF Total
<1>5. SquareKnows
  BY <1>3, <1>4, SumEmpty DEF SquareKnows
<1>6. NeverOverReserved
  BY <1>3, SumEmpty, AmountsAssumption DEF NeverOverReserved, Amount
<1>. QED
  BY <1>1, <1>2, <1>5, <1>6 DEF RefundInv

LEMMA WorkerStepKeeps ==
    ASSUME RefundInv, NEW w \in Workers, WorkerStep(w)
    PROVE  RefundInv'
<1>1. CASE completeClaimedRefund(w)
  BY <1>1, GivesUpKeeps, EndsKeeps
<1>. QED
  BY <1>1, ParkKeeps, ReapKeeps, ClaimKeeps, AnsweredKeeps, UnansweredKeeps,
     CommitKeeps, StopKeeps DEF WorkerStep

LEMMA RefundNextKeeps == RefundInv /\ [Next]_vars => RefundInv'
<1>. SUFFICES ASSUME RefundInv, [Next]_vars PROVE RefundInv'
  OBVIOUS
<1>1. CASE LateCapture \/ queueProductOrderRefundAllocations \/ OrderQuarantined
  BY <1>1, LateCaptureKeeps, QueueKeeps, QuarantineKeeps
<1>2. CASE \E w \in Workers : WorkerStep(w) \/ \E r \in Refunds : DrainPick(w, r)
  BY <1>2, WorkerStepKeeps, PickKeeps
<1>3. CASE \E r \in Refunds : LeaseExpires(r) \/ WebhookCommits(r) \/ LateRefund(r)
  BY <1>3, LeaseKeeps, WebhookCommitKeeps, LateKeeps
<1>4. CASE \E x \in Ids : \/ RefundUpdated(x) \/ SearchRow(x)
                          \/ WebhookFails(x) \/ SquareSettles(x)
  BY <1>4, UpdatedKeeps, SearchKeeps, FailsKeeps, SettlesKeeps
<1>5. CASE \E x \in Dashboard : DashboardRefund(x)
  BY <1>5, DashboardKeeps
<1>6. CASE UNCHANGED vars
  <2>. USE DEF vars, moneyVars, rowsVars, leaseVars, squareVars, workerVars
  <2>1. Cents' = Cents /\ (Returned' <=> Returned) /\ Sum(Cents, Returning)' = Sum(Cents, Returning)
    BY <1>6, SquareRests
  <2>2. TypeOK' /\ RowsKnow' /\ LinkedOnce' /\ WorkersKnow'
    BY <1>6 DEF RefundInv, TypeOK, RowsKnow, LinkedOnce, WorkersKnow, Rows
  <2>3. SettlementsKnow' /\ SquareKnows' /\ SucceededWasRefunded'
    BY <1>6, <2>1 DEF RefundInv, SettlementsKnow, SquareKnows, SucceededWasRefunded, Rows
  <2>4. NeverOverReserved'
    BY <1>6, ReservedRest DEF RefundInv
  <2>. QED
    BY <2>2, <2>3, <2>4 DEF RefundInv
<1>. QED
  BY <1>1, <1>2, <1>3, <1>4, <1>5, <1>6 DEF Next

(* A worker comes to call Square by claiming a queued row only.            *)
LEMMA CallsAfterClaim ==
    ASSUME RefundInv, Next, NEW w \in Workers, at[w] # "calling", at'[w] = "calling"
    PROVE  Claim(w) /\ status[job[w]] = "queued"
<1>. USE DEF RefundInv, TypeOK
<1>1. at' # at /\ at'[w] # at[w]
  OBVIOUS
<1>2. PICK v \in Workers : WorkerStep(v) \/ \E r \in Refunds : DrainPick(v, r)
  BY <1>1 DEF Next, LateCapture, queueProductOrderRefundAllocations, OrderQuarantined,
     LeaseExpires, WebhookCommits, LateRefund, RefundUpdated, SearchRow, WebhookFails,
     SquareSettles, DashboardRefund, workerVars
<1>3. Claim(v)
  BY <1>1, <1>2 DEF WorkerStep, Park, Reap, RefundAnswered, RefundUnanswered, Answered,
     completeClaimedRefund, SettlementCommits, WorkerStops, DrainPick, Goto
<1>. QED
  BY <1>1, <1>3 DEF Claim, Goto

(* No step changes a decided row: one that retires or ends a row finds it  *)
(* live.                                                                   *)
LEMMA NextLeavesDecided ==
    ASSUME RefundInv, Next, NEW r \in Refunds, status[r] \in {"succeeded", "manual_review"}
    PROVE  status'[r] = status[r] /\ providerId'[r] = providerId[r]
<1>. USE DEF RefundInv, TypeOK, rowsVars, leaseVars, Rows, Live
<1>1. settling[r] = None
  BY DEF SettlementsKnow
<1>2. CASE LateCapture \/ queueProductOrderRefundAllocations
  <2>1. PICK A : Reserve(A)
    BY <1>2 DEF LateCapture, queueProductOrderRefundAllocations
  <2>. QED
    BY <2>1 DEF Reserve
<1>3. ASSUME NEW w \in Workers, WorkerStep(w) PROVE status'[r] = status[r] /\ providerId'[r] = providerId[r]
  <2>1. at[w] # "idle" => job[w] \in Refunds
    BY DEF WorkersKnow
  <2>2. CASE Park(w) \/ Reap(w)
    BY <1>1, <2>1, <2>2 DEF Park, Reap, Retire
  <2>3. CASE Claim(w) \/ RefundAnswered(w) \/ RefundUnanswered(w) \/ WorkerStops(w)
    BY <2>1, <2>3 DEF Claim, RefundAnswered, RefundUnanswered, Answered, WorkerStops
  <2>4. CASE completeClaimedRefund(w)
    BY <2>1, <2>4 DEF completeClaimedRefund, Owns, Retire, BeginSettlement
  <2>5. CASE SettlementCommits(w)
    BY <1>1, <2>5 DEF SettlementCommits, CommitSettlement, WorkersKnow
  <2>. QED
    BY <1>3, <2>2, <2>3, <2>4, <2>5 DEF WorkerStep
<1>4. CASE \E w \in Workers, q \in Refunds : DrainPick(w, q)
  BY <1>4 DEF DrainPick
<1>5. CASE \E q \in Refunds : LeaseExpires(q) \/ WebhookCommits(q) \/ LateRefund(q)
  BY <1>1, <1>5 DEF LeaseExpires, WebhookCommits, CommitSettlement, LateRefund
<1>6. CASE \E x \in Ids : \/ RefundUpdated(x) \/ SearchRow(x)
                          \/ WebhookFails(x) \/ SquareSettles(x)
  BY <1>6 DEF RefundUpdated, SearchRow, Candidates, Retire, BeginSettlement, WebhookFails,
     SquareSettles
<1>7. CASE OrderQuarantined \/ \E x \in Dashboard : DashboardRefund(x)
  BY <1>7 DEF OrderQuarantined, DashboardRefund
<1>. QED
  BY <1>2, <1>3, <1>4, <1>5, <1>6, <1>7 DEF Next

(* However refunds, reviews, webhooks and deaths interleave, the invariant *)
(* of the refunds holds.                                                   *)
THEOREM RefundInvariant == Spec => []RefundInv
BY RefundInitHolds, RefundNextKeeps, PTL DEF Spec

(* The rows, the workers and Square's books keep their types.              *)
THEOREM RefundsTyped == Spec => []TypeOK
<1>1. RefundInv => TypeOK
  BY DEF RefundInv
<1>. QED
  BY <1>1, RefundInvariant, PTL

(* The rows of a component never reserve more than was captured for it.    *)
THEOREM RefundsNeverOverReserve == Spec => []NeverOverReserved
<1>1. RefundInv => NeverOverReserved
  BY DEF RefundInv
<1>. QED
  BY <1>1, RefundInvariant, PTL

(* A succeeded row stands for one completed refund of its amount, which no *)
(* other row stands for.                                                   *)
THEOREM SucceededAlwaysRefunded == Spec => []SucceededWasRefunded
<1>1. RefundInv => SucceededWasRefunded
  BY DEF RefundInv
<1>. QED
  BY <1>1, RefundInvariant, PTL

(* An order says refunded only when Square returned all its money.         *)
THEOREM RefundedAlwaysReturned == Spec => []RefundedMeansReturned
<1>1. RefundInv => RefundedMeansReturned
  BY DEF RefundInv, SquareKnows, Returned, RefundedMeansReturned
<1>. QED
  BY <1>1, RefundInvariant, PTL

(* Square is asked once for a row: a worker that gets to call it holds a   *)
(* row Square never heard of and no other worker calls for.                *)
THEOREM NeverResubmitted == Spec => NoResubmission
<1>1. RefundInv /\ [Next]_vars =>
        [\A w \in Workers : at[w] # "calling" /\ at'[w] = "calling" =>
            /\ square[job[w]] = "none" /\ ~inflight[job[w]]
            /\ \A v \in Workers : at[v] \in {"calling", "completing"} => job[v] # job[w]]_vars
  <2>. SUFFICES ASSUME RefundInv, Next, NEW w \in Workers,
                       at[w] # "calling", at'[w] = "calling"
                PROVE  /\ square[job[w]] = "none" /\ ~inflight[job[w]]
                       /\ \A v \in Workers :
                             at[v] \in {"calling", "completing"} => job[v] # job[w]
    OBVIOUS
  <2>1. Claim(w) /\ status[job[w]] = "queued"
    BY CallsAfterClaim
  <2>2. job[w] \in Refunds
    BY <2>1 DEF Claim, RefundInv, WorkersKnow, Rows
  <2>. QED
    BY <2>1, <2>2 DEF RefundInv, RowsKnow, WorkersKnow
<1>. QED
  BY <1>1, RefundInvariant, PTL DEF Spec, NoResubmission

(* What was settled, or left to a human, stays as it is.                   *)
THEOREM DecidedAlwaysStays == Spec => DecidedStays
<1>1. RefundInv /\ [Next]_vars =>
        [\A r \in Refunds : status[r] \in {"succeeded", "manual_review"} =>
            status'[r] = status[r] /\ providerId'[r] = providerId[r]]_vars
  BY NextLeavesDecided
<1>. QED
  BY <1>1, RefundInvariant, PTL DEF Spec, DecidedStays
=============================================================================
