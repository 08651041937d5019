--------------------------- MODULE SegmentBackup ----------------------------
(***************************************************************************)
(* What Quantum Storage promises about each file of 0-db, with nothing of  *)
(* how the daemon does it: a write-behind store that keeps every file in a *)
(* local cache, backs it up, and may free the local copy of what is backed *)
(* up.                                                                     *)
(*                                                                         *)
(* The content of a file is its version: 0 when there is none, and one     *)
(* more for every change 0-db makes.                                       *)
(***************************************************************************)
EXTENDS ZdbFiles

VARIABLES
    latest,         \* the version of each file that 0-db has written
    disk,           \* the version on the local disk, 0 when absent
    remote          \* the version that the backends hold, 0 when none

svars == <<latest, disk, remote>>

Fresh == [f \in Files |-> IF f[2] \in {0, NsFile} THEN 1 ELSE 0]

\* A segment is closed once 0-db has started a later one.
Closed(f) == \E g \in Above(f) : latest[g] # 0

Init ==
    /\ latest = Fresh
    /\ disk = Fresh
    /\ remote = [f \in Files |-> 0]

\* 0-db creates f or changes it.
Write(f) ==
    /\ f \in DataFiles => ~ Closed(f)
    /\ latest' = [latest EXCEPT ![f] = @ + 1]
    /\ disk' = [disk EXCEPT ![f] = latest[f] + 1]
    /\ UNCHANGED remote

\* A newer version of f reaches the backends; a data segment goes there
\* once, when it is closed and complete.
Backup(f) ==
    /\ \E v \in (remote[f] + 1)..latest[f] :
          /\ f \in DataFiles => Closed(f) /\ v = latest[f]
          /\ remote' = [remote EXCEPT ![f] = v]
    /\ UNCHANGED <<latest, disk>>

\* The local copy of a data segment is freed: the backends hold all of it.
Free(f) ==
    /\ f \in DataFiles
    /\ disk[f] # 0
    /\ remote[f] = latest[f]
    /\ disk' = [disk EXCEPT ![f] = 0]
    /\ UNCHANGED <<latest, remote>>

\* The local copy of a freed segment is reconstructed from the backends.
Fetch(f) ==
    /\ f \in DataFiles
    /\ disk[f] = 0
    /\ remote[f] # 0
    /\ disk' = [disk EXCEPT ![f] = remote[f]]
    /\ UNCHANGED <<latest, remote>>

Next == \E f \in Files : Write(f) \/ Backup(f) \/ Free(f) \/ Fetch(f)

Spec == Init /\ [][Next]_svars

-----------------------------------------------------------------------------
\* No content 0-db wrote is ever only in a version that is gone.
Durable == \A f \in Files : disk[f] = latest[f] \/ remote[f] = latest[f]

\* Who reads a file never reads an old version of it, from the disk or after
\* it was reconstructed.
ReadsLatest == \A f \in Files : disk[f] \in {0, latest[f]}

\* The backends never go back to an older version of a file, and a data
\* segment that they hold is final: it is not stored or written again.
OnlyForward ==
    [][/\ \A f \in Files : remote'[f] >= remote[f]
       /\ \A f \in DataFiles :
             remote[f] # 0 => remote'[f] = remote[f] /\ latest'[f] = latest[f]]_svars

(***************************************************************************)
(* What these rest on.                                                     *)
(***************************************************************************)

\* A data segment is stored once it is closed, and complete.
StoredClosed ==
    \A f \in DataFiles : remote[f] # 0 => Closed(f) /\ remote[f] = latest[f]

\* The backends hold nothing that 0-db did not write.
StoredWritten == \A f \in Files : remote[f] <= latest[f]

BackupInv ==
    /\ latest \in [Files -> Nat]
    /\ disk \in [Files -> Nat]
    /\ remote \in [Files -> Nat]
    /\ StoredWritten
    /\ StoredClosed
    /\ ReadsLatest
    /\ Durable
=============================================================================
