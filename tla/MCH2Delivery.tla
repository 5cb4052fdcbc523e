---------------------------- MODULE MCH2Delivery ----------------------------
(***************************************************************************)
(* H2Delivery for TLC.                                                     *)
(***************************************************************************)
EXTENDS H2Delivery, TLC
=============================================================================
