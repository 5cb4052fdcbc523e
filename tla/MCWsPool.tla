------------------------------ MODULE MCWsPool ------------------------------
(***************************************************************************)
(* WsPool for TLC.                                                         *)
(***************************************************************************)
EXTENDS WsPool, TLC

Symmetry == Permutations(Sockets) \cup Permutations(Refills)
=============================================================================
