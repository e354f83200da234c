--------------------------- MODULE MCProductRefunds ---------------------------
(* Small instances of ProductRefunds.                                      *)
EXTENDS ProductRefunds, TLC

CONSTANTS merchandise, shipping, r1, r2, d1, w1, w2

(* Two components of one cent each: a full refund takes both rows, a part  *)
(* of one component leaves the other, and amounts are always ambiguous.    *)
TwoComponents == {merchandise, shipping}
OneCentEach == [k \in Components |-> 1]
OneCent == {1}
TwoRows == {r1, r2}
OneComponent == {merchandise}
OneRow == {r1}
NoDashboard == {}
OneDashboard == {d1}
DashboardCent == [x \in Dashboard |-> 1]
OneWorker == {w1}
TwoWorkers == {w1, w2}

(* Sound for the runs without liveness.                                    *)
Alike == Permutations(TwoWorkers) \cup Permutations(TwoRows) \cup Permutations(TwoComponents)
=============================================================================
