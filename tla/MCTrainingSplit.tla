--------------------------- MODULE MCTrainingSplit ---------------------------
EXTENDS TrainingSplit, TLC
Symmetry == Permutations(Runs)
=============================================================================
