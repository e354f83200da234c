-------------------------- MODULE MCHighLevelSync --------------------------
(***************************************************************************)
(* Instances of HighLevelSync: one contact, two overlapping runs.  A       *)
(* behaviour has an inquiry and two of a fault, a consent event and an     *)
(* erasure by staff; or an order, an offer and a consent event, the last   *)
(* two not with a refund; or an offer, a consent event and a pause of      *)
(* marketing.  One run goes through all of them.                           *)
(***************************************************************************)
EXTENDS HighLevelSync, TLC

Without(es) == \A e \in es : source[e] = "none"
Refunded == \E o \in Orders : source[o] = "refunded"
Unerased == ~erased /\ \A p \in Staff : proc[p].at = "idle"
OneKind ==
    \/ /\ Without(Offers \cup Orders) /\ switches = 0 /\ aged = {}
       /\ faults = 0 \/ Without(Choices) \/ Unerased
    \/ /\ Without(Inquiries) /\ faults = 0 /\ Unerased
       /\ ~Refunded \/ Without(Choices) \/ Without(Offers)
       /\ switches > 0 => Without(Orders)

MCSpec == Init /\ [][Next /\ OneKind']_vars

Symmetry == Permutations(Workers) \cup Permutations(Choices)
=============================================================================
