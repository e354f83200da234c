-------------------------- MODULE ProductSaleProofs --------------------------
(***************************************************************************)
(* The checkout implements ProductSale, for any orders, requests and       *)
(* quotes: every step of ProductCheckout is one step of the sale of one    *)
(* order, or none.  What the sale promises of one order then holds of the  *)
(* program: money is collected, and a customer is told `paid`, only for an *)
(* order that was sold.                                                    *)
(*                                                                         *)
(* A step is described by three facts about the order it works on: where   *)
(* its row goes (RowGoes), where its payment goes (PayGoes), and whether   *)
(* its goods leave.                                                        *)
(***************************************************************************)
EXTENDS ProductCheckoutProofs

RowGoes(o) ==
    /\ \A p \in Orders : p # o => status'[p] = status[p]
    /\ \/ status'[o] = status[o]
       \/ status[o] = "none" /\ status'[o] = "pending"
       \/ status[o] = "pending" /\ status'[o] = "paid" /\ pay[o] # "none"
       \/ status[o] = "pending" /\ status'[o] \in {"verification_failed", "cancelled"}
       \/ status[o] = "verification_failed" /\ status'[o] = "cancelled"

PayGoes(o) ==
    /\ \A p \in Orders : p # o => pay'[p] = pay[p]
    /\ \/ pay'[o] = pay[o]
       \/ pay[o] = "none" /\ pay'[o] = "APPROVED" /\ status[o] # "none"
       \/ /\ pay[o] = "APPROVED" /\ pay'[o] = "COMPLETED"
          /\ status[o] = "paid" \/ SellerCaptures
       \/ pay[o] = "APPROVED" /\ pay'[o] = "CANCELED"

(* Nothing leaves the studio.                                              *)
ShipmentsRest ==
    \A q \in Quotes :
        /\ shipStatus'[q] = "in_transit" <=> shipStatus[q] = "in_transit"
        /\ shipStatus[q] = "in_transit" => shipOrder'[q] = shipOrder[q]

PickupsRest == \A o \in Orders : manual'[o] = "dispatched" <=> manual[o] = "dispatched"

GoodsRest == ShipmentsRest /\ PickupsRest

GoodsLeave(o) ==
    /\ \A p \in Orders : p # o => handedOver(p)' = handedOver(p)
    /\ status[o] = "paid" /\ ~handedOver(o) /\ handedOver(o)'

saleNow == [o \in Orders |-> saleOf(o)]
fundsNow == [o \in Orders |-> fundsOf(o)]
handedNow == [o \in Orders |-> handedOver(o)]

(* One step of the sale of o, or none.                                     *)
SaleMoves(o) == Sale!SaleStep(o) \/ UNCHANGED <<saleNow, fundsNow, handedNow>>

-----------------------------------------------------------------------------
(* From the program's step to the step of the sale.                        *)

LEMMA GoodsStay ==
    ASSUME Inv, GoodsRest
    PROVE  handedNow' = handedNow
<1>1. ASSUME NEW p \in Orders PROVE handedOver(p)' = handedOver(p)
  BY AutomatedFact DEF handedOver, GoodsRest, ShipmentsRest, PickupsRest
<1>. QED
  BY <1>1 DEF handedNow

LEMMA RowMovesSale ==
    ASSUME Inv, NEW o \in Orders, RowGoes(o), UNCHANGED pay, GoodsRest
    PROVE  SaleMoves(o)
<1>1. handedNow' = handedNow
  BY GoodsStay
<1>2. fundsNow' = fundsNow
  BY DEF fundsNow, fundsOf
<1>3. \A p \in Orders : p # o => saleOf(p)' = saleOf(p)
  BY DEF RowGoes, saleOf
<1>4. CASE saleOf(o)' = saleOf(o)
  <2>1. saleNow' = saleNow
    BY <1>3, <1>4 DEF saleNow
  <2>. QED
    BY <1>1, <1>2, <2>1 DEF SaleMoves
<1>5. CASE saleOf(o)' # saleOf(o)
  <2>1. \/ saleOf(o) = "none" /\ saleOf(o)' = "open"
        \/ saleOf(o) = "open" /\ saleOf(o)' = "sold" /\ fundsOf(o) # "none"
        \/ saleOf(o) = "open" /\ saleOf(o)' = "closed"
    BY <1>5 DEF RowGoes, saleOf, fundsOf
  <2>2. saleNow' = [saleNow EXCEPT ![o] = saleOf(o)']
    BY <1>3 DEF saleNow
  <2>3. saleNow[o] = saleOf(o) /\ fundsNow[o] = fundsOf(o)
    BY DEF saleNow, fundsNow
  <2>4. Sale!Place(o) \/ Sale!Sell(o) \/ Sale!Close(o)
    BY <1>1, <1>2, <2>1, <2>2, <2>3
       DEF Sale!Place, Sale!Sell, Sale!Close, saleNow, fundsNow, handedNow
  <2>. QED
    BY <2>4 DEF SaleMoves, Sale!SaleStep
<1>. QED
  BY <1>4, <1>5

LEMMA PayMovesSale ==
    ASSUME Inv, NEW o \in Orders, PayGoes(o), UNCHANGED status, GoodsRest
    PROVE  SaleMoves(o)
<1>1. handedNow' = handedNow
  BY GoodsStay
<1>2. saleNow' = saleNow
  BY DEF saleNow, saleOf
<1>3. \A p \in Orders : p # o => fundsOf(p)' = fundsOf(p)
  BY DEF PayGoes, fundsOf
<1>4. CASE fundsOf(o)' = fundsOf(o)
  <2>1. fundsNow' = fundsNow
    BY <1>3, <1>4 DEF fundsNow
  <2>. QED
    BY <1>1, <1>2, <2>1 DEF SaleMoves
<1>5. CASE fundsOf(o)' # fundsOf(o)
  <2>1. \/ fundsOf(o) = "none" /\ fundsOf(o)' = "held" /\ saleOf(o) # "none"
        \/ /\ fundsOf(o) = "held" /\ fundsOf(o)' = "collected"
           /\ saleOf(o) = "sold" \/ SellerCaptures
        \/ fundsOf(o) = "held" /\ fundsOf(o)' = "gone"
    BY <1>5 DEF PayGoes, fundsOf, saleOf
  <2>2. fundsNow' = [fundsNow EXCEPT ![o] = fundsOf(o)']
    BY <1>3 DEF fundsNow
  <2>3. saleNow[o] = saleOf(o) /\ fundsNow[o] = fundsOf(o)
    BY DEF saleNow, fundsNow
  <2>4. Sale!Hold(o) \/ Sale!Collect(o) \/ Sale!Lose(o)
    BY <1>1, <1>2, <2>1, <2>2, <2>3
       DEF Sale!Hold, Sale!Collect, Sale!Lose, saleNow, fundsNow, handedNow
  <2>. QED
    BY <2>4 DEF SaleMoves, Sale!SaleStep
<1>. QED
  BY <1>4, <1>5

LEMMA GoodsMoveSale ==
    ASSUME Inv, NEW o \in Orders, GoodsLeave(o), UNCHANGED <<status, pay>>
    PROVE  SaleMoves(o)
<1>1. saleNow' = saleNow /\ fundsNow' = fundsNow
  BY DEF saleNow, saleOf, fundsNow, fundsOf
<1>2. saleNow[o] = "sold" /\ ~handedNow[o]
  BY DEF GoodsLeave, saleNow, saleOf, handedNow
<1>3. handedOver(o)' = TRUE
  BY DEF GoodsLeave, handedOver
<1>4. handedNow' = [handedNow EXCEPT ![o] = TRUE]
  BY <1>3 DEF GoodsLeave, handedNow
<1>5. Sale!HandOver(o)
  BY <1>1, <1>2, <1>4 DEF Sale!HandOver, saleNow, fundsNow, handedNow
<1>. QED
  BY <1>5 DEF SaleMoves, Sale!SaleStep

-----------------------------------------------------------------------------
(* The transactions, in these terms.                                       *)

LEMMA UntouchedGoods == ASSUME UNCHANGED <<manual, shipStatus, shipOrder>> PROVE GoodsRest
BY DEF GoodsRest, ShipmentsRest, PickupsRest

LEMMA CreateGoes ==
    ASSUME Inv, NEW o \in Orders, createOrder(o)
    PROVE  RowGoes(o) /\ GoodsRest
<1>1. RowGoes(o)
  BY DEF createOrder, createInitializingManualProductOrder, createInitializingProductOrder,
         RowGoes, Inv, RowInv, RowsTyped
<1>2. PickupsRest
  BY DEF createOrder, createInitializingManualProductOrder, createInitializingProductOrder,
         PickupsRest, Inv, RowInv, RowsTyped, RowsAgree
<1>3. ShipmentsRest
  BY AutomatedFact
     DEF createOrder, createInitializingManualProductOrder, createInitializingProductOrder,
         ShipmentsRest, shipVars, Inv, RowInv, RowsTyped
<1>. QED
  BY <1>1, <1>2, <1>3 DEF GoodsRest

LEMMA MarkFailedGoes ==
    ASSUME Inv, NEW o \in Orders, markOrderVerificationFailed(o)
    PROVE  RowGoes(o) /\ GoodsRest
<1>1. RowGoes(o)
  BY DEF markOrderVerificationFailed, rowVars, RowGoes, Inv, RowInv, RowsTyped
<1>2. PickupsRest
  BY DEF markOrderVerificationFailed, rowVars, PickupsRest
<1>3. ShipmentsRest
  BY AutomatedFact
     DEF markOrderVerificationFailed, ShipmentsRest, shipVars, Inv, RowInv, RowsTyped
<1>. QED
  BY <1>1, <1>2, <1>3 DEF GoodsRest

LEMMA FinalizeGoes ==
    ASSUME Inv, NEW o \in Orders, NEW ps, finalizeSquareProductPayment(o, ps), pay[o] # "none"
    PROVE  RowGoes(o) /\ GoodsRest
<1>1. CASE status[o] = "pending" /\ applyPayment(o, ps)
  <2>1. RowGoes(o)
    BY <1>1 DEF applyPayment, RowGoes, Inv, RowInv, RowsTyped
  <2>2. PickupsRest
    BY <1>1 DEF applyPayment, PickupsRest, Inv, RowInv, RowsTyped
  <2>3. ShipmentsRest
    BY <1>1, AutomatedFact
       DEF applyPayment, activateShipmentForPaidOrder, ShipmentsRest, Inv, RowInv, RowsTyped
  <2>. QED
    BY <2>1, <2>2, <2>3 DEF GoodsRest
<1>2. CASE reserveLateCaptureRefund(o)
  BY <1>2, UntouchedGoods DEF reserveLateCaptureRefund, shipVars, RowGoes
<1>3. CASE UNCHANGED <<stockVars, rowVars, shipVars>>
  BY <1>3, UntouchedGoods DEF rowVars, shipVars, RowGoes
<1>. QED
  BY <1>1, <1>2, <1>3, FinalizeCases DEF Inv

LEMMA SweepGoes ==
    ASSUME Inv, NEW o \in Orders, releaseAbandonedOrder(o)
    PROVE  RowGoes(o) /\ GoodsRest
<1>1. RowGoes(o)
  BY DEF releaseAbandonedOrder, rowVars, RowGoes, Inv, RowInv, RowsTyped
<1>2. PickupsRest
  BY DEF releaseAbandonedOrder, rowVars, PickupsRest
<1>3. ShipmentsRest
  BY AutomatedFact
     DEF releaseAbandonedOrder, ShipmentsRest, shipVars, Inv, RowInv, RowsTyped
<1>. QED
  BY <1>1, <1>2, <1>3 DEF GoodsRest

LEMMA UncollectedGoes ==
    ASSUME Inv, NEW o \in Orders, markSquareCommerceOrderUncollected(o)
    PROVE  RowGoes(o) /\ GoodsRest
<1>1. RowGoes(o) /\ PickupsRest
  BY DEF markSquareCommerceOrderUncollected, rowVars, RowGoes, PickupsRest
<1>2. ShipmentsRest
  BY AutomatedFact
     DEF markSquareCommerceOrderUncollected, ShipmentsRest, shipVars, Inv, RowInv, RowsTyped
<1>. QED
  BY <1>1, <1>2 DEF GoodsRest

LEMMA CancelGoes ==
    ASSUME Inv, NEW o \in Orders, ApproveCancellation(o)
    PROVE  RowGoes(o) /\ GoodsRest
<1>1. RowGoes(o)
  BY DEF ApproveCancellation, manualFulfillmentOpen, RowGoes, Inv, RowInv, RowsTyped
<1>2. PickupsRest
  BY DEF ApproveCancellation, manualFulfillmentOpen, PickupsRest, Inv, RowInv, RowsTyped
<1>3. ShipmentsRest
  BY DEF ApproveCancellation, ShipmentsRest, shipVars
<1>. QED
  BY <1>1, <1>2, <1>3 DEF GoodsRest

LEMMA PurchaseGoes ==
    ASSUME Inv, NEW o \in Orders, enqueuePurchaseOperationForOrder(o)
    PROVE  RowGoes(o) /\ GoodsRest
<1>1. RowGoes(o) /\ PickupsRest
  BY DEF enqueuePurchaseOperationForOrder, rowVars, RowGoes, PickupsRest
<1>2. ShipmentsRest
  BY AutomatedFact
     DEF enqueuePurchaseOperationForOrder, ShipmentsRest, Inv, RowInv, RowsTyped
<1>. QED
  BY <1>1, <1>2 DEF GoodsRest

-----------------------------------------------------------------------------
(* Every step is a step of some sale.                                      *)

LEMMA RestsSale ==
    ASSUME Inv, NEW o \in Orders,
           UNCHANGED <<status, pay, manual, shipStatus, shipOrder>>
    PROVE  SaleMoves(o)
BY UntouchedGoods, RowMovesSale DEF RowGoes

LEMMA RequestSale ==
    ASSUME Inv, NEW r \in Requests, RequestStep(r)
    PROVE  \E o \in Orders : SaleMoves(o)
<1>. DEFINE o == OrderOf[r]
<1>1. o \in Orders
  BY RequestOrder
<1>2. Learnt(pc[r], o)
  BY PhaseKnown
<1>3. CASE ReserveOrder(r)
  BY <1>1, <1>3, CreateGoes, RowMovesSale, RestsSale
     DEF ReserveOrder, square, rowVars, shipVars
<1>4. CASE RejectCheckout(r) \/ ChargeIneligible(r) \/ AuthorizeFailed(r) \/ Crash(r)
  BY <1>1, <1>4, RestsSale
     DEF RejectCheckout, ChargeIneligible, AuthorizeFailed, Crash, square, rowVars, shipVars
<1>5. CASE AuthorizeReplied(r)
  <2>1. PayGoes(o) /\ UNCHANGED <<status, manual, shipStatus, shipOrder>>
    BY <1>1, <1>2, <1>5
       DEF AuthorizeReplied, Learnt, PayGoes, rowVars, shipVars, Inv, ProcessesTyped
  <2>. QED
    BY <1>1, <2>1, UntouchedGoods, PayMovesSale
<1>6. CASE FinalizeCharge(r) \/ FinalizeUnanswered(r)
  <2>1. /\ \/ finalizeSquareProductPayment(o, "APPROVED")
           \/ UNCHANGED <<status, manual, shipStatus, shipOrder>>
        /\ pay[o] # "none" /\ pay' = pay
    BY <1>2, <1>6 DEF FinalizeCharge, FinalizeUnanswered, Learnt, square, rowVars, shipVars
  <2>. QED
    BY <1>1, <2>1, FinalizeGoes, RowMovesSale, RestsSale
<1>7. CASE CaptureCharge(r) \/ VoidCharge(r)
  <2>1. PayGoes(o) /\ UNCHANGED <<status, manual, shipStatus, shipOrder>>
    BY <1>1, <1>2, <1>7
       DEF CaptureCharge, VoidCharge, Learnt, PayGoes, rowVars, shipVars, Inv, ProcessesTyped
  <2>. QED
    BY <1>1, <2>1, UntouchedGoods, PayMovesSale
<1>8. CASE MarkCaptured(r)
  BY <1>1, <1>8, RestsSale
     DEF MarkCaptured, markSquareCommerceOrderCaptured, square, rowVars, shipVars
<1>9. CASE FailCheckout(r)
  BY <1>1, <1>9, MarkFailedGoes, RowMovesSale, RestsSale
     DEF FailCheckout, square, rowVars, shipVars
<1>. QED
  BY <1>3, <1>4, <1>5, <1>6, <1>7, <1>8, <1>9 DEF RequestStep

LEMMA ReconSale ==
    ASSUME Inv, NEW o \in Orders, ReconStep(o)
    PROVE  SaleMoves(o)
<1>1. CASE ReconScan(o) \/ ReconRead(o) \/ ReconFails(o)
  BY <1>1, RestsSale DEF ReconScan, ReconRead, ReconFails, rowVars, shipVars
<1>2. CASE ReconComplete(o)
  <2>1. status[o] = "paid"
    BY <1>2, CronKnown DEF ReconComplete, CronKnows
  <2>2. PayGoes(o) /\ UNCHANGED <<status, manual, shipStatus, shipOrder>>
    BY <1>2, <2>1 DEF ReconComplete, PayGoes, rowVars, shipVars, Inv, ProcessesTyped
  <2>. QED
    BY <2>2, UntouchedGoods, PayMovesSale
<1>3. CASE ReconMark(o)
  BY <1>3, RestsSale DEF ReconMark, markSquareCommerceOrderCaptured, shipVars
<1>4. CASE ReconUncollected(o)
  BY <1>4, UncollectedGoes, RowMovesSale DEF ReconUncollected
<1>. QED
  BY <1>1, <1>2, <1>3, <1>4 DEF ReconStep

LEMMA OrderSale ==
    ASSUME Inv, NEW o \in Orders, OrderStep(o)
    PROVE  SaleMoves(o)
<1>1. CASE LateAuthorization(o) \/ AuthorizationLapses(o) \/ SellerCompletes(o)
  <2>1. CronKnows(o)
    BY CronKnown
  <2>2. PayGoes(o) /\ UNCHANGED <<status, manual, shipStatus, shipOrder>>
    BY <1>1, <2>1
       DEF LateAuthorization, AuthorizationLapses, SellerCompletes, CronKnows, PayGoes,
           rowVars, shipVars, Inv, ProcessesTyped
  <2>. QED
    BY <2>2, UntouchedGoods, PayMovesSale
<1>2. CASE WebhookCompleted(o)
  BY <1>2, FinalizeGoes, RowMovesSale DEF WebhookCompleted, square
<1>3. CASE LeaseElapses(o)
  BY <1>3, RestsSale DEF LeaseElapses, square, rowVars, shipVars
<1>4. CASE SweepStep(o)
  BY <1>4, SweepGoes, RowMovesSale, RestsSale
     DEF SweepStep, SweepScan, SweepVerify, SweepUnverified, SweepRelease, SweepAborts,
         SweepGoto, square, rowVars, shipVars
<1>5. CASE ReconStep(o)
  BY <1>5, ReconSale
<1>6. CASE PickupComplete(o)
  <2>1. GoodsLeave(o)
    BY <1>6 DEF PickupComplete, manualFulfillmentOpen, GoodsLeave, handedOver, shipVars,
                Inv, RowInv, RowsTyped
  <2>. QED
    BY <1>6, <2>1, GoodsMoveSale DEF PickupComplete, staffUnchanged, square
<1>7. CASE ApproveCancellation(o)
  BY <1>7, CancelGoes, RowMovesSale DEF ApproveCancellation, staffUnchanged, square
<1>8. CASE enqueuePurchaseOperationForOrder(o)
  BY <1>8, PurchaseGoes, RowMovesSale
     DEF enqueuePurchaseOperationForOrder, staffUnchanged, square
<1>. QED
  BY <1>1, <1>2, <1>3, <1>4, <1>5, <1>6, <1>7, <1>8 DEF OrderStep

(* The order a shipment is dispatched for is the one its quote is bound to. *)
LEMMA ShipmentSale ==
    ASSUME Inv, NEW q \in Quotes, ShipmentAdvances(q)
    PROVE  (\E o \in Orders : SaleMoves(o)) \/ UNCHANGED <<saleNow, fundsNow, handedNow>>
<1>. DEFINE o == shipOrder[q]
<1>1. shipStatus[q] \in {"purchase_pending", "label_ready"}
  BY DEF ShipmentAdvances
<1>2. o \in Orders /\ status[o] = "paid" /\ o \in Automated /\ QuoteOf[o] = q
  BY <1>1 DEF Inv, RowInv, RowsTyped, QuoteFollowsOrder, QuoteBound
<1>3. UNCHANGED <<status, pay, manual, shipOrder>>
  BY DEF ShipmentAdvances, rowVars, staffUnchanged, square
<1>4. /\ \A x \in Quotes : x # q => shipStatus'[x] = shipStatus[x]
      /\ shipStatus'[q] \in {"label_ready", "in_transit", "manual_review"}
  BY DEF ShipmentAdvances, Inv, RowInv, RowsTyped
<1>5. CASE shipStatus'[q] # "in_transit"
  <2>1. GoodsRest
    BY <1>1, <1>3, <1>4, <1>5 DEF GoodsRest, ShipmentsRest, PickupsRest
  <2>. QED
    BY <1>2, <1>3, <2>1, RowMovesSale DEF RowGoes
<1>6. CASE shipStatus'[q] = "in_transit"
  <2>1. ASSUME NEW p \in Orders, p # o
        PROVE  handedOver(p)' = handedOver(p)
    BY <1>2, <1>3, <1>4, <2>1, AutomatedFact DEF handedOver
  <2>2. ~handedOver(o) /\ handedOver(o)'
    BY <1>1, <1>2, <1>3, <1>6, AutomatedFact DEF handedOver
  <2>3. GoodsLeave(o)
    BY <1>2, <2>1, <2>2 DEF GoodsLeave
  <2>. QED
    BY <1>2, <1>3, <2>3, GoodsMoveSale
<1>. QED
  BY <1>5, <1>6

LEMMA NothingSold ==
    ASSUME UNCHANGED <<status, pay, manual, shipStatus, shipOrder>>
    PROVE  UNCHANGED <<saleNow, fundsNow, handedNow>>
BY DEF saleNow, fundsNow, handedNow, saleOf, fundsOf, handedOver

LEMMA StepSimulates ==
    ASSUME Inv, [Next]_vars
    PROVE  (\E o \in Orders : Sale!SaleStep(o)) \/ UNCHANGED <<saleNow, fundsNow, handedNow>>
<1>1. ASSUME NEW r \in Requests, RequestStep(r) PROVE \E o \in Orders : SaleMoves(o)
  BY <1>1, RequestSale
<1>2. ASSUME NEW o \in Orders, OrderStep(o) PROVE SaleMoves(o)
  BY <1>2, OrderSale
<1>3. ASSUME NEW q \in Quotes, ShipmentAdvances(q)
      PROVE  (\E o \in Orders : SaleMoves(o)) \/ UNCHANGED <<saleNow, fundsNow, handedNow>>
  BY <1>3, ShipmentSale
<1>4. ASSUME NEW k \in Items, InventorySync(k) PROVE UNCHANGED <<saleNow, fundsNow, handedNow>>
  BY <1>4, NothingSold DEF InventorySync, rowVars, shipVars, staffUnchanged, square
<1>5. CASE UNCHANGED vars
  BY <1>5, NothingSold DEF vars, rowVars, shipVars
<1>. QED
  BY <1>1, <1>2, <1>3, <1>4, <1>5 DEF Next, SaleMoves

LEMMA InitSimulates == ASSUME Init PROVE Sale!SaleInit
<1>1. /\ saleNow = [o \in Orders |-> "none"]
      /\ fundsNow = [o \in Orders |-> "none"]
  BY DEF Init, saleNow, saleOf, fundsNow, fundsOf
<1>2. ASSUME NEW o \in Orders PROVE handedOver(o) = FALSE
  BY AutomatedFact DEF Init, handedOver
<1>3. handedNow = [o \in Orders |-> FALSE]
  BY <1>2 DEF handedNow
<1>. QED
  BY <1>1, <1>3 DEF Sale!SaleInit, saleNow, fundsNow, handedNow

-----------------------------------------------------------------------------
(* The checkout keeps the sale's promise: an order is decided once, money  *)
(* is collected and goods leave only for an order that was sold - for any  *)
(* interleaving of any number of requests, crons, webhooks and staff.      *)
THEOREM CheckoutImplementsSale == Spec => ImplementsSale
<1>1. Init => Sale!SaleInit
  BY InitSimulates
<1>2. Inv /\ [Next]_vars => [\E o \in Orders : Sale!SaleStep(o)]_(Sale!saleVars)
  BY StepSimulates DEF Sale!saleVars, saleNow, fundsNow, handedNow
<1>. QED
  BY <1>1, <1>2, CheckoutInvariant, PTL DEF Spec, ImplementsSale, Sale!SaleSpec

-----------------------------------------------------------------------------
(* What follows for one order: sold stays sold, collected stays collected, *)
(* and only a sold order is collected from unless the seller may do so.    *)

LEMMA SaleKeeps ==
    ASSUME Inv, [Next]_vars, NEW p \in Orders
    PROVE  /\ saleNow[p] = "sold" => saleNow'[p] = "sold"
           /\ fundsNow[p] = "collected" => fundsNow'[p] = "collected"
           /\ fundsNow'[p] = "collected" =>
                 \/ fundsNow[p] = "collected"
                 \/ saleNow[p] = "sold" \/ SellerCaptures
<1>1. saleNow = [o \in Orders |-> saleOf(o)] /\ fundsNow = [o \in Orders |-> fundsOf(o)]
  BY DEF saleNow, fundsNow
<1>2. CASE UNCHANGED <<saleNow, fundsNow, handedNow>>
  BY <1>2
<1>3. ASSUME NEW o \in Orders, Sale!SaleStep(o)
      PROVE  \/ /\ fundsNow' = fundsNow /\ saleNow[o] # "sold"
                /\ \E s : saleNow' = [saleNow EXCEPT ![o] = s]
             \/ /\ saleNow' = saleNow /\ fundsNow[o] # "collected"
                /\ \/ fundsNow' = [fundsNow EXCEPT ![o] = "held"]
                   \/ fundsNow' = [fundsNow EXCEPT ![o] = "gone"]
                   \/ /\ fundsNow' = [fundsNow EXCEPT ![o] = "collected"]
                      /\ saleNow[o] = "sold" \/ SellerCaptures
             \/ fundsNow' = fundsNow /\ saleNow' = saleNow
  BY <1>3 DEF Sale!SaleStep, Sale!Place, Sale!Sell, Sale!Close, Sale!Hold, Sale!Collect,
              Sale!Lose, Sale!HandOver, saleNow, fundsNow
<1>. QED
  BY <1>1, <1>2, <1>3, StepSimulates

LEMMA OrderKept ==
    ASSUME Inv, [Next]_vars, NEW p \in Orders
    PROVE  /\ status[p] = "paid" => status'[p] = "paid"
           /\ pay[p] = "COMPLETED" => pay'[p] = "COMPLETED"
           /\ pay'[p] = "COMPLETED" =>
                 pay[p] = "COMPLETED" \/ status[p] = "paid" \/ SellerCaptures
<1>1. /\ saleNow[p] = "sold" <=> status[p] = "paid"
      /\ fundsNow[p] = "collected" <=> pay[p] = "COMPLETED"
  BY DEF saleNow, saleOf, fundsNow, fundsOf
<1>2. /\ saleNow'[p] = "sold" <=> status'[p] = "paid"
      /\ fundsNow'[p] = "collected" <=> pay'[p] = "COMPLETED"
  BY DEF saleNow, saleOf, fundsNow, fundsOf
<1>. QED
  BY <1>1, <1>2, SaleKeeps

(* No request, cron run or retry captures money for an order that is not   *)
(* recorded as paid: only a seller's own hand could.                       *)
THEOREM CapturedAlwaysPaid == ASSUME ~SellerCaptures PROVE Spec => []OnlyPaidOrdersCaptured
<1>1. Init => OnlyPaidOrdersCaptured
  BY DEF Init, OnlyPaidOrdersCaptured
<1>2. Inv /\ OnlyPaidOrdersCaptured /\ [Next]_vars => OnlyPaidOrdersCaptured'
  BY OrderKept DEF OnlyPaidOrdersCaptured
<1>. QED
  BY <1>1, <1>2, CheckoutInvariant, PTL DEF Spec

-----------------------------------------------------------------------------
(* A request that answers `ok`.                                            *)

(* Money recorded late was captured: only a webhook records it.            *)
LateIsCaptured == \A o \in Orders : ledger[o] = "late" => pay[o] = "COMPLETED"

LEMMA LateStays ==
    ASSUME Inv, [Next]_vars, LateIsCaptured
    PROVE  LateIsCaptured'
<1>. SUFFICES ASSUME NEW o \in Orders, ledger'[o] = "late"
              PROVE  pay'[o] = "COMPLETED"
  BY DEF LateIsCaptured
<1>1. CASE ledger[o] = "late"
  BY <1>1, OrderKept DEF LateIsCaptured
<1>2. CASE ledger[o] # "late"
  <2>1. ASSUME NEW p \in Orders, NEW ps, finalizeSquareProductPayment(p, ps)
        PROVE  ps = "COMPLETED" /\ p = o
    BY <1>2, <2>1, FinalizeCases
       DEF applyPayment, reserveLateCaptureRefund, rowVars, Inv, RowInv, RowsTyped
  <2>2. \E p \in Orders : WebhookCompleted(p)
    <3>1. ASSUME NEW r \in Requests, RequestStep(r) PROVE FALSE
      BY <1>2, <2>1, <3>1, RequestOrder
         DEF RequestStep, ReserveOrder, createOrder, RejectCheckout, ChargeIneligible,
             AuthorizeReplied, AuthorizeFailed, FinalizeCharge, FinalizeUnanswered,
             CaptureCharge, MarkCaptured, markSquareCommerceOrderCaptured, VoidCharge,
             FailCheckout, markOrderVerificationFailed, Crash, rowVars
    <3>2. ASSUME NEW p \in Orders, OrderStep(p) PROVE WebhookCompleted(p)
      BY <1>2, <3>2
         DEF OrderStep, LateAuthorization, AuthorizationLapses, SellerCompletes,
             LeaseElapses, SweepStep, SweepScan, SweepVerify, SweepUnverified, SweepRelease,
             SweepAborts, releaseAbandonedOrder, ReconStep, ReconScan, ReconRead,
             ReconComplete, ReconMark, ReconUncollected, ReconFails,
             markSquareCommerceOrderCaptured, markSquareCommerceOrderUncollected,
             PickupComplete, ApproveCancellation, enqueuePurchaseOperationForOrder, rowVars
    <3>. QED
      BY <1>2, <3>1, <3>2
         DEF Next, ShipmentAdvances, InventorySync, vars, rowVars
  <2>3. pay[o] = "COMPLETED"
    BY <2>1, <2>2 DEF WebhookCompleted
  <2>. QED
    BY <2>3, OrderKept
<1>. QED
  BY <1>1, <1>2

LEMMA OkStays ==
    ASSUME Inv, [Next]_vars, LateIsCaptured, OnlyPaidOrdersCaptured, OkMeansPaid
    PROVE  OkMeansPaid'
<1>. SUFFICES ASSUME NEW r \in Requests, pc'[r] = "ok"
              PROVE  status'[OrderOf[r]] = "paid"
  BY DEF OkMeansPaid
<1>. DEFINE o == OrderOf[r]
<1>1. o \in Orders /\ Learnt(pc[r], o)
  BY RequestOrder, PhaseKnown
<1>2. SUFFICES status[o] = "paid" \/ status'[o] = "paid"
  BY <1>1, OrderKept
<1>3. CASE pc[r] = "ok"
  BY <1>3 DEF OkMeansPaid
<1>4. CASE pc[r] # "ok"
  <2>1. RequestStep(r)
    <3>1. ASSUME NEW s \in Requests, RequestStep(s) PROVE s = r
      BY <1>4, <3>1
         DEF RequestStep, ReserveOrder, RejectCheckout, ChargeIneligible,
             AuthorizeReplied, AuthorizeFailed, FinalizeCharge, FinalizeUnanswered,
             CaptureCharge, MarkCaptured, VoidCharge, FailCheckout, Crash, Goto,
             Inv, ProcessesTyped
    <3>2. ASSUME NEW p \in Orders, OrderStep(p) PROVE FALSE
      BY <1>4, <3>2
         DEF OrderStep, LateAuthorization, AuthorizationLapses, SellerCompletes,
             WebhookCompleted, LeaseElapses, SweepStep, SweepScan, SweepVerify,
             SweepUnverified, SweepRelease, SweepAborts, SweepGoto, ReconStep, ReconScan,
             ReconRead, ReconComplete, ReconMark, ReconUncollected, ReconFails, ReconGoto,
             PickupComplete, ApproveCancellation, enqueuePurchaseOperationForOrder,
             staffUnchanged
    <3>. QED
      BY <1>4, <3>1, <3>2 DEF Next, ShipmentAdvances, InventorySync, staffUnchanged, vars
  <2>2. \/ CaptureCharge(r) \/ MarkCaptured(r)
        \/ FinalizeCharge(r) /\ finalizeOutcome(o, "APPROVED") = "already_applied"
    BY <2>1, <1>4
       DEF RequestStep, ReserveOrder, RejectCheckout, ChargeIneligible,
           AuthorizeReplied, AuthorizeFailed, FinalizeCharge, FinalizeUnanswered,
           VoidCharge, FailCheckout, Crash, Goto, Inv, ProcessesTyped
  <2>3. CASE CaptureCharge(r) \/ MarkCaptured(r)
    BY <1>1, <2>3 DEF CaptureCharge, MarkCaptured, Learnt
  <2>4. CASE finalizeOutcome(o, "APPROVED") = "already_applied"
    <3>1. quarantined[o] \in BOOLEAN
      BY <1>1 DEF Inv, RowInv, RowsTyped
    <3>2. ledger[o] # "none"
      BY <2>4, <3>1 DEF finalizeOutcome
    <3>3. ledger[o] \in {"applied", "late"}
      BY <1>1, <3>2 DEF Inv, RowInv, RowsTyped
    <3>. QED
      BY <1>1, <3>3 DEF Inv, RowInv, MoneyAgrees, LateIsCaptured, OnlyPaidOrdersCaptured
  <2>. QED
    BY <2>2, <2>3, <2>4
<1>. QED
  BY <1>3, <1>4

(* A customer whose request ended in `ok` owns a paid order, whatever ran  *)
(* beside the request.                                                     *)
THEOREM OkAlwaysPaid == ASSUME ~SellerCaptures PROVE Spec => []OkMeansPaid
<1>1. Init => LateIsCaptured /\ OkMeansPaid
  BY DEF Init, LateIsCaptured, OkMeansPaid
<1>2. Inv /\ OnlyPaidOrdersCaptured /\ LateIsCaptured /\ OkMeansPaid /\ [Next]_vars
         => LateIsCaptured' /\ OkMeansPaid'
  BY LateStays, OkStays
<1>. QED
  BY <1>1, <1>2, CheckoutInvariant, CapturedAlwaysPaid, PTL DEF Spec
=============================================================================
