----------------------------- MODULE MCFrontend -----------------------------
(***************************************************************************)
(* The instance of Frontend for TLC.                                       *)
(***************************************************************************)
EXTENDS Frontend
=============================================================================
