-------------------------- MODULE MCQuantumDaemon ---------------------------
(***************************************************************************)
(* Model values and instances of QuantumDaemon for TLC.                    *)
(***************************************************************************)
EXTENDS QuantumDaemon, TLC

CONSTANTS w1, w2, r1, r2

Symmetry == Permutations(Workers) \cup Permutations(Refreshers)

NoReads == {}
AllReads == DataFiles
FirstRead == DataDirs \X {0}
=============================================================================
