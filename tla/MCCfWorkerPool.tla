--------------------------- MODULE MCCfWorkerPool ---------------------------
(***************************************************************************)
(* CfWorkerPool for TLC.                                                   *)
(***************************************************************************)
EXTENDS CfWorkerPool, TLC

Symmetry == Permutations(Workers) \cup Permutations(Clients)
=============================================================================
