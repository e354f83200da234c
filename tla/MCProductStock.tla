--------------------------- MODULE MCProductStock ---------------------------
(* Small instance of ProductStock: two items, two carts that contend for   *)
(* both, a third for one of them.                                          *)
EXTENDS ProductStock

CONSTANTS oA, oB, oC, lash, glue

MCOrders == {oA, oB, oC}
MCItems == {lash, glue}
MCQty == [o \in MCOrders |-> [k \in MCItems |->
            CASE o = oC /\ k = glue -> 0
              [] o = oA /\ k = lash -> 2
              [] OTHER -> 1]]
MCSetPoints == {0, 1, 3}
=============================================================================
