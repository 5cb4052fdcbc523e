---------------------------- MODULE MCH2Transport ----------------------------
(***************************************************************************)
(* H2Transport for TLC.                                                    *)
(***************************************************************************)
EXTENDS H2Transport
==============================================================================
