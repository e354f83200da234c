--------------------------- MODULE MCProductCheckout ---------------------------
(* Small instances of ProductCheckout; each cfg picks one.                 *)
EXTENDS ProductCheckout

CONSTANTS pickup, shipA, shipB, req1, req2, lash, quote, none

OneItem == {lash}
NoQuotes == {}
OneQuote == {quote}
OneUnit == [o \in Orders |-> [k \in Items |-> 1]]
ToQuote == [o \in Automated |-> quote]
ScarceStock == {1}
RestockedStock == {1, 2}
LoweredStock == {0, 1}

(* A pickup order posted twice with the same reservation key.              *)
PickupOrders == {pickup}
TwoPosts == {req1, req2}
SamePickup == [r \in Requests |-> pickup]

(* One pickup order, posted once.                                          *)
OnePost == {req1}

(* One shipped order.                                                      *)
OneShipped == {shipA}
OnlyShipment == [r \in Requests |-> shipA]

(* Two shipped orders placed against the same quote for the last unit.     *)
ShippedOrders == {shipA, shipB}
NoManual == {}
OwnShipment == [r \in Requests |-> IF r = req1 THEN shipA ELSE shipB]
=============================================================================
