-------------------------- MODULE MCTimedNodeClient --------------------------
EXTENDS TimedNodeClient, TLC

Symmetry == Permutations(Requests)
=============================================================================
