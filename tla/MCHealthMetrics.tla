--------------------------- MODULE MCHealthMetrics --------------------------
(***************************************************************************)
(* Instances of HealthMetrics for TLC.                                     *)
(***************************************************************************)
EXTENDS HealthMetrics

CONSTANTS b1, b2, f1, f2

\* Stored in both backends, and readable with both.
Both == [shards : {{b1, b2}}, required : {2}]
=============================================================================
