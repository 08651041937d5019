------------------------------ MODULE MCRestore -----------------------------
(***************************************************************************)
(* Model values of Restore for TLC.                                        *)
(***************************************************************************)
EXTENDS Restore

CONSTANTS mi, md, di, dd, ns
=============================================================================
