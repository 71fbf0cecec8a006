------------------------------- MODULE MCDict -------------------------------
\* Instances of Dict for TLC.
EXTENDS Dict, TLC

\* k1 and k5 share a chain of every table, k1 and k3 one of the smaller ones.
CONSTANTS k1, k2, k3, k4, k5

HashValues == (k1 :> 0) @@ (k2 :> 1) @@ (k3 :> 2) @@ (k4 :> 3) @@ (k5 :> 8)

Symmetry == Permutations(Vals)
=============================================================================
