----------------------------- MODULE MCServices -----------------------------
(***************************************************************************)
(* The instance of Services for TLC.                                       *)
(***************************************************************************)
EXTENDS Services
=============================================================================
