------------------------- MODULE MCShippingOperations -------------------------
EXTENDS ShippingOperations, TLC
Symmetry == Permutations(Workers) \cup Permutations(Drafts)
=============================================================================
