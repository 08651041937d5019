------------------------ MODULE SegmentBackup_proofs ------------------------
(***************************************************************************)
(* What Quantum Storage promises keeps the content of 0-db, for any number *)
(* of directories, segments and versions.  QuantumDaemon_proofs shows that *)
(* the daemon keeps the promise, so all this holds of the daemon.          *)
(***************************************************************************)
EXTENDS SegmentBackup, TLAPS

\* Initially nothing is stored and what there is is on the disk.
LEMMA BackupInit == Init => BackupInv
<1> SUFFICES ASSUME Init PROVE BackupInv
  OBVIOUS
<1>1. Fresh \in [Files -> Nat]
  BY DEF Fresh
<1>2. DataFiles \subseteq Files
  BY DEF DataFiles, Files, Segments, Dirs
<1> QED
  BY <1>1, <1>2 DEF Init, BackupInv, StoredWritten, StoredClosed, ReadsLatest, Durable

\* A segment that is closed stays closed: no version becomes 0 again.
LEMMA ClosedStays ==
    ASSUME BackupInv, Next, NEW f, Closed(f)
    PROVE  Closed(f)'
<1>1. PICK g \in Above(f) : latest[g] # 0
  BY DEF Closed
<1>2. g \in Files /\ latest[g] \in Nat
  BY <1>1 DEF Above, Files, BackupInv
<1>3. latest'[g] # 0
  <2>1. PICK h \in Files : Write(h) \/ Backup(h) \/ Free(h) \/ Fetch(h)
    BY DEF Next
  <2> QED
    BY <1>1, <1>2, <2>1 DEF Write, Backup, Free, Fetch, BackupInv
<1> QED
  BY <1>1, <1>3 DEF Closed

\* One step preserves the invariant, and what is stored only advances.
LEMMA BackupNext ==
    ASSUME BackupInv, Next
    PROVE  /\ BackupInv'
           /\ \A f \in Files : remote'[f] >= remote[f]
           /\ \A f \in DataFiles :
                 remote[f] # 0 => remote'[f] = remote[f] /\ latest'[f] = latest[f]
<1>0. /\ latest \in [Files -> Nat] /\ disk \in [Files -> Nat] /\ remote \in [Files -> Nat]
      /\ \A f \in Files : latest[f] \in Nat /\ disk[f] \in Nat /\ remote[f] \in Nat
      /\ \A f \in DataFiles : f \in Files
      /\ \A f \in Files : remote[f] <= latest[f] /\ disk[f] \in {0, latest[f]}
      /\ \A f \in Files : disk[f] = latest[f] \/ remote[f] = latest[f]
      /\ \A f \in DataFiles : remote[f] # 0 => Closed(f) /\ remote[f] = latest[f]
  BY DEF BackupInv, StoredWritten, StoredClosed, ReadsLatest, Durable, DataFiles, Files,
     Segments, Dirs
<1>c. \A f \in DataFiles : Closed(f) => Closed(f)'
  BY ClosedStays
<1>1. ASSUME NEW f \in Files, Write(f)
      PROVE  /\ BackupInv' /\ remote' = remote
             /\ \A g \in DataFiles : remote[g] # 0 => latest'[g] = latest[g]
  <2>1. /\ f \in DataFiles => ~ Closed(f)
        /\ latest' = [latest EXCEPT ![f] = latest[f] + 1]
        /\ disk' = [disk EXCEPT ![f] = latest[f] + 1]
        /\ remote' = remote
    BY <1>1 DEF Write
  <2>2. /\ latest' \in [Files -> Nat] /\ disk' \in [Files -> Nat]
        /\ latest'[f] = latest[f] + 1 /\ disk'[f] = latest[f] + 1
        /\ \A g \in Files : g # f => latest'[g] = latest[g] /\ disk'[g] = disk[g]
    BY <1>0, <2>1
  <2>3. \A g \in DataFiles : remote[g] # 0 => g # f
    BY <1>0, <2>1
  <2>4. StoredWritten' /\ ReadsLatest' /\ Durable'
    BY <1>0, <2>1, <2>2 DEF StoredWritten, ReadsLatest, Durable
  <2>5. StoredClosed'
    BY <1>0, <1>c, <2>1, <2>2, <2>3 DEF StoredClosed
  <2> QED
    BY <1>0, <2>1, <2>2, <2>3, <2>4, <2>5 DEF BackupInv
<1>2. ASSUME NEW f \in Files, Backup(f)
      PROVE  /\ BackupInv' /\ latest' = latest
             /\ \A g \in Files : remote'[g] >= remote[g]
             /\ \A g \in DataFiles : remote[g] # 0 => remote'[g] = remote[g]
  <2>1. PICK v \in (remote[f] + 1)..latest[f] :
            /\ f \in DataFiles => Closed(f) /\ v = latest[f]
            /\ remote' = [remote EXCEPT ![f] = v]
            /\ latest' = latest /\ disk' = disk
    BY <1>2 DEF Backup
  <2>2. v \in Nat /\ v > remote[f] /\ v <= latest[f]
    BY <1>0, <2>1
  <2>3. /\ remote' \in [Files -> Nat] /\ remote'[f] = v
        /\ \A g \in Files : g # f => remote'[g] = remote[g]
    BY <1>0, <2>1, <2>2
  <2>4. \A g \in DataFiles : remote[g] # 0 => g # f
    BY <1>0, <2>2
  <2>5. StoredWritten' /\ ReadsLatest'
    BY <1>0, <2>1, <2>2, <2>3 DEF StoredWritten, ReadsLatest
  <2>6. Durable'
    BY <1>0, <2>1, <2>2, <2>3 DEF Durable
  <2>7. StoredClosed'
    BY <1>0, <1>c, <2>1, <2>2, <2>3 DEF StoredClosed
  <2> QED
    BY <1>0, <2>1, <2>2, <2>3, <2>4, <2>5, <2>6, <2>7 DEF BackupInv
<1>3. ASSUME NEW f \in Files, Free(f) \/ Fetch(f)
      PROVE  BackupInv' /\ latest' = latest /\ remote' = remote
  <2>1. /\ latest' = latest /\ remote' = remote
        /\ f \in DataFiles
        /\ \/ disk' = [disk EXCEPT ![f] = 0] /\ remote[f] = latest[f]
           \/ disk' = [disk EXCEPT ![f] = remote[f]] /\ remote[f] # 0
    BY <1>3 DEF Free, Fetch
  <2>2. /\ disk' \in [Files -> Nat] /\ disk'[f] \in {0, latest[f]}
        /\ remote[f] = latest[f]
        /\ \A g \in Files : g # f => disk'[g] = disk[g]
    BY <1>0, <2>1
  <2>3. ReadsLatest' /\ Durable'
    BY <1>0, <2>1, <2>2 DEF ReadsLatest, Durable
  <2>4. StoredWritten' /\ StoredClosed'
    BY <1>0, <1>c, <2>1 DEF StoredWritten, StoredClosed
  <2> QED
    BY <1>0, <2>1, <2>2, <2>3, <2>4 DEF BackupInv
<1> QED
  BY <1>0, <1>1, <1>2, <1>3 DEF Next

\* Nothing changes when only other parts of the system move.
LEMMA BackupStutters ==
    ASSUME BackupInv, UNCHANGED svars
    PROVE  BackupInv'
BY DEF BackupInv, svars, StoredWritten, StoredClosed, Closed, ReadsLatest, Durable

\* The inductive invariant.
THEOREM BackupInvariance == Spec => []BackupInv
<1>1. BackupInv /\ [Next]_svars => BackupInv'
  BY BackupNext, BackupStutters
<1> QED
  BY BackupInit, <1>1, PTL DEF Spec

\* The content that 0-db wrote last is always on the disk or in the backends.
THEOREM KeepsContent == Spec => []Durable
<1>1. BackupInv => Durable
  BY DEF BackupInv
<1> QED
  BY <1>1, BackupInvariance, PTL

\* Nobody reads an old version of a file.
THEOREM ReadsAreCurrent == Spec => []ReadsLatest
<1>1. BackupInv => ReadsLatest
  BY DEF BackupInv
<1> QED
  BY <1>1, BackupInvariance, PTL

\* The backends only advance, and a data segment that is stored is final.
THEOREM GoesForward == Spec => OnlyForward
<1>1. BackupInv /\ [Next]_svars =>
         [/\ \A f \in Files : remote'[f] >= remote[f]
          /\ \A f \in DataFiles :
                remote[f] # 0 => remote'[f] = remote[f] /\ latest'[f] = latest[f]]_svars
  BY BackupNext
<1> QED
  BY <1>1, BackupInvariance, PTL DEF Spec, OnlyForward
=============================================================================
