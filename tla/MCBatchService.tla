--------------------------- MODULE MCBatchService ---------------------------
EXTENDS BatchService, TLC

MCSymmetry == Permutations(Jobs) \cup Permutations(Clients)

=============================================================================
