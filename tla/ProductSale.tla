----------------------------- MODULE ProductSale -----------------------------
(***************************************************************************)
(* What the shop promises about a product order, whatever happens between  *)
(* its servers, its cron runs and Square: an order is decided once; its    *)
(* payment is collected only for a sold order; goods leave the studio only *)
(* for a sold order.  ProductCheckout implements this specification.       *)
(***************************************************************************)
CONSTANTS
    Orders,
    SellerCaptures  \* the seller may collect a payment by hand

VARIABLES
    sale,    \* "none", "open", then "sold" or "closed"
    funds,   \* the customer's money: "none", "held", then "collected" or "gone"
    handed   \* the goods have left

saleVars == <<sale, funds, handed>>

SaleInit ==
    /\ sale = [o \in Orders |-> "none"]
    /\ funds = [o \in Orders |-> "none"]
    /\ handed = [o \in Orders |-> FALSE]

Place(o) ==
    /\ sale[o] = "none"
    /\ sale' = [sale EXCEPT ![o] = "open"]
    /\ UNCHANGED <<funds, handed>>

Sell(o) ==
    /\ sale[o] = "open"
    /\ funds[o] # "none"
    /\ sale' = [sale EXCEPT ![o] = "sold"]
    /\ UNCHANGED <<funds, handed>>

Close(o) ==
    /\ sale[o] = "open"
    /\ sale' = [sale EXCEPT ![o] = "closed"]
    /\ UNCHANGED <<funds, handed>>

Hold(o) ==
    /\ sale[o] # "none"
    /\ funds[o] = "none"
    /\ funds' = [funds EXCEPT ![o] = "held"]
    /\ UNCHANGED <<sale, handed>>

Collect(o) ==
    /\ sale[o] = "sold" \/ SellerCaptures
    /\ funds[o] = "held"
    /\ funds' = [funds EXCEPT ![o] = "collected"]
    /\ UNCHANGED <<sale, handed>>

Lose(o) ==
    /\ funds[o] = "held"
    /\ funds' = [funds EXCEPT ![o] = "gone"]
    /\ UNCHANGED <<sale, handed>>

HandOver(o) ==
    /\ sale[o] = "sold"
    /\ ~handed[o]
    /\ handed' = [handed EXCEPT ![o] = TRUE]
    /\ UNCHANGED <<sale, funds>>

SaleStep(o) ==
    Place(o) \/ Sell(o) \/ Close(o) \/ Hold(o) \/ Collect(o) \/ Lose(o) \/ HandOver(o)

SaleSpec == SaleInit /\ [][\E o \in Orders : SaleStep(o)]_saleVars
=============================================================================
