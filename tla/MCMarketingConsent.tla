-------------------------- MODULE MCMarketingConsent --------------------------
(***************************************************************************)
(* Instances of MarketingConsent.  Confirmations and offers meet only in   *)
(* the drains, offers and sync jobs only in the consent of their contact:  *)
(* a behaviour has confirmations, offers or running sync jobs, and one     *)
(* run goes through all three kinds.                                       *)
(***************************************************************************)
EXTENDS MarketingConsent, TLC

OneKind ==
    \/ \A c \in Contacts : contact[c] = "none" /\ c \notin withdrawals
    \/ /\ \A o \in Orders : order[o] = "pending"
       /\ \/ \A m \in Offers : status[m] = "none"
          \/ \A j \in Jobs : job[j] # None => job[j].attempts = 0

MCSpec == Init /\ [][Next /\ OneKind']_vars
MCFairSpec == MCSpec /\ Fairness

Interchangeable == Permutations(Jobs) \cup Permutations(Syncers)
=============================================================================
