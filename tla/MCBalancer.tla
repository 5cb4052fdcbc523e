----------------------------- MODULE MCBalancer -----------------------------
(***************************************************************************)
(* Balancer for TLC.                                                       *)
(***************************************************************************)
EXTENDS Balancer, TLC

CONSTANTS d1, d2

\* A front leaves the pool and comes back.
BothFronts == {d1, d2}
Shrinking == {{d1}, {d1, d2}}
Fixed == {}

FrontSymmetry == Permutations(Domains) \cup Permutations(Fallbacks)
Symmetry == Permutations(Fallbacks)
=============================================================================
