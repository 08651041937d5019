---------------------------- MODULE MCGridDeploy ----------------------------
(***************************************************************************)
(* Model values and instances of GridDeploy for TLC.                       *)
(***************************************************************************)
EXTENDS GridDeploy, TLC

CONSTANTS n1, n2, n3, n4, n5

\* n5 has no address of the configured type.
Symmetry == Permutations(Nodes \ {n5})
=============================================================================
