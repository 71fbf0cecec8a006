------------------------------- MODULE MCList -------------------------------
\* Instances of List for TLC.
EXTENDS List, TLC

Symmetry == Permutations(Nodes) \cup Permutations(Values)
=============================================================================
