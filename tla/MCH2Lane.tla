------------------------------ MODULE MCH2Lane ------------------------------
(***************************************************************************)
(* H2Lane for TLC.                                                         *)
(***************************************************************************)
EXTENDS H2Lane, TLC

Symmetry == Permutations(Channels) \cup Permutations(Tasks)
=============================================================================
