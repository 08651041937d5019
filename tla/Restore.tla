------------------------------ MODULE Restore -------------------------------
(***************************************************************************)
(* quantumd restore (cmd/restore.go): a new frontend is set up from what   *)
(* the backends hold.                                                      *)
(*                                                                         *)
(* A temporary 0-db and zstor are started; for the metadata and then for   *)
(* the data namespace, the namespace file, the index segments from 0 to    *)
(* the first that was not stored, and the data segment that belongs to the *)
(* last of them are retrieved; then the services are started.  The command *)
(* may fail or be killed anywhere, and is then run again on what is there. *)
(***************************************************************************)
EXTENDS ZdbFiles, Sequences

CONSTANTS
    MetaIndex, MetaData,    \* index/zdbfs-meta and data/zdbfs-meta
    DataIndex, DataData,    \* index/zdbfs-data and data/zdbfs-data
    MaxAttempts             \* bound: runs of the command

ASSUME RestoreAssumption ==
    /\ IndexDirs = {MetaIndex, DataIndex}
    /\ DataDirs = {MetaData, DataData}
    /\ MetaIndex # DataIndex
    /\ MetaData # DataData
    /\ MaxAttempts \in Nat

VARIABLES
    stored,         \* the files that the backends hold
    disk,           \* the files on the disk of the new frontend
    pc,             \* where the command is
    namespace,      \* the namespace being recovered
    next,           \* the next index segment, or the next service
    temporary,      \* the attempt whose 0-db runs, or 0
    services,       \* the services that run
    attempt         \* number of the current or last attempt

files == <<stored, disk>>
vars == <<files, pc, namespace, next, temporary, services, attempt>>

IndexDir == <<MetaIndex, DataIndex>>
DataDir == <<MetaData, DataData>>
Namespaces == 1..2
servicesToStart == <<"zdb", "zdbfs", "quantumd">>

\* Segments below the highest one of a frontend that wrote up to MaxNum.
Storable == (Dirs \X (0..(MaxNum - 1))) \cup NamespaceFiles

\* Uploads fail independently, so any of the files may have been stored when
\* the old frontend was lost.
Init ==
    /\ stored \in SUBSET Storable
    /\ disk = {}
    /\ pc = "idle"
    /\ namespace = 1
    /\ next = 0
    /\ temporary = 0
    /\ services = {}
    /\ attempt = 0

-----------------------------------------------------------------------------
\* runRestore, until the temporary services are waited for.  The 0-db of this
\* attempt exits when another one already listens on the port.
Start ==
    /\ pc = "idle"
    /\ attempt < MaxAttempts
    /\ attempt' = attempt + 1
    /\ services' = services \cup {"zstor"}
    /\ temporary' = IF temporary = 0 /\ "zdb" \notin services
                  THEN attempt + 1
                  ELSE temporary
    /\ pc' = "waiting"
    /\ UNCHANGED <<files, namespace, next>>

\* waitForServices, and the setup of the namespace zdbfs-temp.
WaitForServices ==
    /\ pc = "waiting"
    /\ pc' = "namespace"
    /\ namespace' = 1
    /\ UNCHANGED <<files, next, temporary, services, attempt>>

\* Mutant: an error of any kind counts as a file that was retrieved.
FoundAlways(f) == TRUE

\* zstorCmd: whether the backends know the file.
Found(f) == f \in stored

\* Mutant: the first segment is left out.
FirstIndexOffByOne == 1

FirstIndex == 0

\* The namespace file may be missing.
RetrieveNamespace ==
    /\ pc = "namespace"
    /\ LET f == <<IndexDir[namespace], NsFile>> IN
       disk' = IF Found(f) THEN disk \cup {f} ELSE disk
    /\ pc' = "indexes"
    /\ next' = FirstIndex
    /\ UNCHANGED <<stored, namespace, temporary, services, attempt>>

\* Mutant: the loop does not advance.
SameIndex(i) == i

FollowingIndex(i) == i + 1

RetrieveIndex ==
    /\ pc = "indexes"
    /\ LET f == <<IndexDir[namespace], next>> IN
       /\ Found(f)
       /\ disk' = disk \cup {f}
    /\ next' = FollowingIndex(next)
    /\ UNCHANGED <<stored, pc, namespace, temporary, services, attempt>>

\* "entity not found" ends the loop.
IndexesEnd ==
    /\ pc = "indexes"
    /\ ~ Found(<<IndexDir[namespace], next>>)
    /\ pc' = "latest"
    /\ UNCHANGED <<files, namespace, next, temporary, services, attempt>>

\* Mutant: the first index segment of the directory.
findFirstIndex(dir, present) ==
    {n \in Nums : <<dir, n>> \in present /\ \A m \in Nums : <<dir, m>> \in present => m >= n}

\* The highest index segment of the directory, if it has one.
findLastIndex(dir, present) ==
    {n \in Nums : <<dir, n>> \in present /\ \A m \in Nums : <<dir, m>> \in present => m <= n}

\* The data segment of the last index segment, which 0-db will append to.
RetrieveLatest ==
    /\ pc = "latest"
    /\ disk' = disk \cup
          {f \in {DataDir[namespace]} \X findLastIndex(IndexDir[namespace], disk) : Found(f)}
    /\ IF namespace = 1
       THEN pc' = "namespace" /\ namespace' = 2 /\ next' = next
       ELSE pc' = "recovered" /\ namespace' = namespace /\ next' = 1
    /\ UNCHANGED <<stored, temporary, services, attempt>>

\* The services are enabled and started one by one; a failure is a warning.
StartService ==
    /\ pc = "recovered"
    /\ next <= Len(servicesToStart)
    /\ services' \in {services, services \cup {servicesToStart[next]}}
    /\ next' = next + 1
    /\ UNCHANGED <<files, pc, namespace, temporary, attempt>>

\* The deferred cleanup kills the 0-db of this attempt.
CleanUp == temporary' = IF temporary = attempt THEN 0 ELSE temporary

Completed ==
    /\ pc = "recovered"
    /\ next > Len(servicesToStart)
    /\ pc' = "done"
    /\ CleanUp
    /\ UNCHANGED <<files, namespace, next, services, attempt>>

\* The wait times out, or zstor or 0-db reports an error.
Fails ==
    /\ pc \in {"waiting", "namespace", "indexes", "latest"}
    /\ pc' = "idle"
    /\ CleanUp
    /\ UNCHANGED <<files, namespace, next, services, attempt>>

\* The command is killed, and cleans up nothing.
Killed ==
    /\ pc \notin {"idle", "done"}
    /\ pc' = "idle"
    /\ UNCHANGED <<files, namespace, next, temporary, services, attempt>>

Next ==
    \/ Start
    \/ WaitForServices
    \/ RetrieveNamespace
    \/ RetrieveIndex
    \/ IndexesEnd
    \/ RetrieveLatest
    \/ StartService
    \/ Completed
    \/ Fails
    \/ Killed

\* The wait has a timeout, and the commands that follow it come to an end.
Fairness ==
    /\ WF_vars(pc = "waiting" /\ (WaitForServices \/ Fails))
    /\ WF_vars(RetrieveNamespace \/ RetrieveIndex \/ IndexesEnd \/ RetrieveLatest
                  \/ StartService \/ Completed)

Spec == Init /\ [][Next]_vars /\ Fairness

-----------------------------------------------------------------------------
\* Every variable has its type.
TypeOK ==
    /\ stored \subseteq Storable
    /\ disk \subseteq Files
    /\ pc \in {"idle", "waiting", "namespace", "indexes", "latest", "recovered", "done"}
    /\ namespace \in Namespaces
    /\ next \in Nat
    /\ pc = "indexes" => next \in Nums
    /\ pc = "recovered" => next > 0
    /\ temporary \in 0..MaxAttempts
    /\ services \subseteq {"zstor", "zdb", "zdbfs", "quantumd"}
    /\ attempt \in 0..MaxAttempts

IsLast(dir, i) ==
    <<dir, i>> \in disk /\ \A j \in Nums : <<dir, j>> \in disk => j <= i

\* Everything of namespace n that 0-db needs to open it: the namespace file,
\* the index segments that form a prefix, and the segment to append to.
Recovered(n) ==
    /\ <<IndexDir[n], NsFile>> \in stored => <<IndexDir[n], NsFile>> \in disk
    /\ \A i \in Nums :
          (\A j \in 0..i : <<IndexDir[n], j>> \in stored) => <<IndexDir[n], i>> \in disk
    /\ \A i \in Nums :
          IsLast(IndexDir[n], i) /\ <<DataDir[n], i>> \in stored => <<DataDir[n], i>> \in disk

\* No service that serves files runs before both namespaces are recovered,
\* however many attempts failed or were killed half-way.
ServicesLast ==
    services \subseteq {"zstor"} \/ \A n \in Namespaces : Recovered(n)

\* At every moment, between attempts as well, the index segments on the disk
\* are a gap-free prefix, and nothing is there that was not stored: 0-db and
\* findLastIndex can trust the directory that an earlier attempt left.
GapFree ==
    /\ disk \subseteq stored
    /\ \A n \in Namespaces : \A i \in Nums :
          <<IndexDir[n], i>> \in disk => \A j \in 0..i : <<IndexDir[n], j>> \in disk

\* An attempt comes to an end: the loops over index segments terminate.
AttemptEnds == pc = "waiting" ~> pc \in {"idle", "done"}

(***************************************************************************)
(* What ServicesLast rests on.                                             *)
(***************************************************************************)

\* The loop has retrieved the segments before next, and it ended at the first
\* that is not stored; the namespaces before the current one are recovered.
Progress ==
    /\ pc \in {"indexes", "latest"} =>
          /\ \A j \in 0..(next - 1) : <<IndexDir[namespace], j>> \in disk
          /\ <<IndexDir[namespace], NsFile>> \in stored
                => <<IndexDir[namespace], NsFile>> \in disk
    /\ pc = "latest" =>
          /\ next \in Nums
          /\ <<IndexDir[namespace], next>> \notin stored
    /\ pc \in {"namespace", "indexes", "latest"} /\ namespace = 2 => Recovered(1)
    /\ pc \in {"recovered", "done"} => Recovered(1) /\ Recovered(2)

RestoreInv == TypeOK /\ GapFree /\ Progress /\ ServicesLast

\* Data that was stored together with its index is available after the
\* restore.
RestoresAll ==
    pc = "done" =>
        \A n \in Namespaces : \A i \in Nums :
            <<DataDir[n], i>> \in stored /\ <<IndexDir[n], i>> \in stored
                => <<IndexDir[n], i>> \in disk

\* Of no namespace an index segment was lost below a stored one.
StoredGapFree ==
    \A n \in Namespaces : \A i \in Nums :
        <<IndexDir[n], i>> \in stored => \A j \in 0..i : <<IndexDir[n], j>> \in stored
=============================================================================
