--------------------------- MODULE MCResponseLoss ---------------------------
EXTENDS ResponseLoss, TLC

\* Operations are alike, and the safety properties do not tell them apart.
Alike == Permutations(Ops)
=============================================================================
