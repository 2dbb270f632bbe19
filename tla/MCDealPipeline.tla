--------------------------- MODULE MCDealPipeline ---------------------------
EXTENDS DealPipeline, TLC
Perm == Permutations(Requests) \cup Permutations(Units)
=============================================================================
