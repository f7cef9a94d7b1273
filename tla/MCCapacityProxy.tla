-------------------------- MODULE MCCapacityProxy --------------------------
EXTENDS CapacityProxy, TLC

\* Requests are alike until they arrive.
Alike == Permutations(Requests)
=============================================================================
