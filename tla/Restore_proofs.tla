--------------------------- MODULE Restore_proofs ---------------------------
(***************************************************************************)
(* Proofs about Restore.                                                   *)
(***************************************************************************)
EXTENDS Restore, TLAPS

\* The directories of the two namespaces.
LEMMA Directories ==
    /\ \A n \in Namespaces : IndexDir[n] \in IndexDirs /\ DataDir[n] \in DataDirs
    /\ \A n \in Namespaces : IndexDir[n] \in Dirs /\ DataDir[n] \in Dirs
    /\ \A m, n \in Namespaces : IndexDir[m] # DataDir[n]
    /\ IndexDir[1] # IndexDir[2]
    /\ DataDir[1] # DataDir[2]
    /\ Namespaces = {1, 2}
<1>1. Namespaces = {1, 2}
  BY DEF Namespaces
<1>2. /\ IndexDir[1] = MetaIndex /\ IndexDir[2] = DataIndex
      /\ DataDir[1] = MetaData /\ DataDir[2] = DataData
  BY DEF IndexDir, DataDir
<1> QED
  BY <1>1, <1>2, RestoreAssumption, ZdbFilesAssumption DEF Dirs

\* What can be stored is a segment below MaxNum or a namespace file.
LEMMA StorableFiles ==
    /\ Storable \subseteq Files
    /\ \A n \in Namespaces, i \in Nums :
          <<IndexDir[n], i>> \in Storable => i \in 0..(MaxNum - 1)
    /\ \A i \in Nums : i # NsFile
<1>1. Storable \subseteq Files
  BY ZdbFilesAssumption DEF Storable, Files, Segments, NamespaceFiles, Nums
<1>2. ASSUME NEW n \in Namespaces, NEW i \in Nums, <<IndexDir[n], i>> \in Storable
      PROVE  i \in 0..(MaxNum - 1)
  <2>1. CASE <<IndexDir[n], i>> \in Dirs \X (0..(MaxNum - 1))
    BY <2>1
  <2>2. CASE <<IndexDir[n], i>> \in NamespaceFiles
    BY <2>2, ZdbFilesAssumption DEF NamespaceFiles
  <2> QED
    BY <1>2, <2>1, <2>2 DEF Storable
<1> QED
  BY <1>1, <1>2, ZdbFilesAssumption

\* Every step preserves TypeOK.
LEMMA TypeNext ==
    ASSUME TypeOK, [Next]_vars
    PROVE  TypeOK'
<1> USE RestoreAssumption, ZdbFilesAssumption
<1>f. \A f \in stored : f \in Files
  BY StorableFiles DEF TypeOK
<1>c. CleanUp => temporary' \in 0..MaxAttempts
  BY DEF CleanUp, TypeOK
<1>1. CASE Start
  BY <1>1 DEF Start, files, TypeOK
<1>2. CASE WaitForServices
  BY <1>2 DEF WaitForServices, files, TypeOK, Namespaces
<1>3. CASE RetrieveNamespace
  BY <1>3, <1>f DEF RetrieveNamespace, Found, FirstIndex, TypeOK, Nums
<1>4. CASE RetrieveIndex
  <2>1. /\ pc = "indexes" /\ <<IndexDir[namespace], next>> \in stored
        /\ disk' = disk \cup {<<IndexDir[namespace], next>>}
        /\ next' = next + 1
        /\ UNCHANGED <<stored, pc, namespace, temporary, services, attempt>>
    BY <1>4 DEF RetrieveIndex, Found, FollowingIndex
  <2>2. next \in 0..(MaxNum - 1)
    BY <2>1, StorableFiles DEF TypeOK
  <2>3. next' \in Nums
    BY <2>1, <2>2 DEF Nums
  <2>4. disk' \subseteq Files
    BY <2>1, <1>f DEF TypeOK
  <2> QED
    BY <2>1, <2>3, <2>4 DEF TypeOK, Nums
<1>5. CASE IndexesEnd
  BY <1>5 DEF IndexesEnd, files, TypeOK
<1>6. CASE RetrieveLatest
  <2>1. disk' \subseteq Files
    BY <1>6, <1>f DEF RetrieveLatest, Found, TypeOK
  <2> QED
    BY <1>6, <2>1 DEF RetrieveLatest, TypeOK, Namespaces
<1>7. CASE StartService
  <2>1. /\ pc = "recovered" /\ next \in {1, 2, 3}
        /\ services' \in {services, services \cup {servicesToStart[next]}}
        /\ next' = next + 1
        /\ UNCHANGED <<files, pc, namespace, temporary, attempt>>
    BY <1>7 DEF StartService, TypeOK, servicesToStart
  <2>2. servicesToStart[next] \in {"zdb", "zdbfs", "quantumd"}
    BY <2>1 DEF servicesToStart
  <2> QED
    BY <2>1, <2>2 DEF files, TypeOK
<1>8. CASE Completed
  BY <1>8, <1>c DEF Completed, files, TypeOK
<1>9. CASE Fails
  BY <1>9, <1>c DEF Fails, files, TypeOK
<1>10. CASE Killed
  BY <1>10 DEF Killed, files, TypeOK
<1>11. CASE UNCHANGED vars
  BY <1>11 DEF vars, files, TypeOK
<1> QED
  BY <1>1, <1>2, <1>3, <1>4, <1>5, <1>6, <1>7, <1>8, <1>9, <1>10, <1>11 DEF Next

\* Type correctness: every variable of the restore has its type.
THEOREM TypeCorrect == Spec => []TypeOK
<1>1. Init => TypeOK
  BY RestoreAssumption, ZdbFilesAssumption DEF Init, TypeOK, Namespaces
<1>2. TypeOK /\ [Next]_vars => TypeOK'
  BY TypeNext
<1> QED
  BY <1>1, <1>2, PTL DEF Spec

-----------------------------------------------------------------------------
\* Only what is stored comes to the disk, and nothing leaves it.
LEMMA DiskGrows ==
    ASSUME TypeOK, disk \subseteq stored, [Next]_vars
    PROVE  stored' = stored /\ disk \subseteq disk' /\ disk' \subseteq stored
<1>1. CASE RetrieveNamespace
  BY <1>1 DEF RetrieveNamespace, Found
<1>2. CASE RetrieveIndex
  BY <1>2 DEF RetrieveIndex, Found
<1>3. CASE RetrieveLatest
  BY <1>3 DEF RetrieveLatest, Found
<1>4. CASE ~ (RetrieveNamespace \/ RetrieveIndex \/ RetrieveLatest)
  BY <1>4 DEF Next, Start, WaitForServices, IndexesEnd, StartService, Completed,
              Fails, Killed, vars, files
<1> QED
  BY <1>1, <1>2, <1>3, <1>4

\* Only RetrieveIndex brings index segments to the disk.
LEMMA IndexesUnchanged ==
    ASSUME TypeOK, [Next]_vars, ~ RetrieveIndex, NEW n \in Namespaces, NEW i \in Nums
    PROVE  <<IndexDir[n], i>> \in disk' <=> <<IndexDir[n], i>> \in disk
<1>1. CASE RetrieveNamespace
  BY <1>1, StorableFiles DEF RetrieveNamespace
<1>2. CASE RetrieveLatest
  <2>1. \A m \in Namespaces : IndexDir[n] # DataDir[m]
    BY Directories
  <2>2. namespace \in Namespaces
    BY DEF TypeOK
  <2> QED
    BY <1>2, <2>1, <2>2 DEF RetrieveLatest
<1>3. CASE ~ (RetrieveNamespace \/ RetrieveLatest)
  BY <1>3 DEF Next, Start, WaitForServices, IndexesEnd, StartService, Completed,
              Fails, Killed, vars, files
<1> QED
  BY <1>1, <1>2, <1>3

\* The index segment that RetrieveIndex brings follows a prefix of them.
LEMMA IndexAdded ==
    ASSUME TypeOK, Progress, RetrieveIndex
    PROVE  /\ next \in Nums /\ namespace \in Namespaces
           /\ <<IndexDir[namespace], next>> \in stored
           /\ disk' = disk \cup {<<IndexDir[namespace], next>>}
           /\ \A j \in 0..(next - 1) : <<IndexDir[namespace], j>> \in disk
           /\ \A n \in Namespaces : \A i \in Nums :
                 <<IndexDir[n], i>> \in disk' =>
                    <<IndexDir[n], i>> \in disk \/ (n = namespace /\ i = next)
<1>1. /\ pc = "indexes"
      /\ <<IndexDir[namespace], next>> \in stored
      /\ disk' = disk \cup {<<IndexDir[namespace], next>>}
  BY DEF RetrieveIndex, Found
<1>2. next \in Nums /\ namespace \in Namespaces
  BY <1>1 DEF TypeOK
<1>3. \A j \in 0..(next - 1) : <<IndexDir[namespace], j>> \in disk
  BY <1>1 DEF Progress
<1>4. \A m, n \in Namespaces : IndexDir[m] = IndexDir[n] => m = n
  BY Directories
<1> QED
  BY <1>1, <1>2, <1>3, <1>4

\* Every step preserves GapFree.
LEMMA GapFreeNext ==
    ASSUME TypeOK, GapFree, Progress, [Next]_vars
    PROVE  GapFree'
<1>1. stored' = stored /\ disk \subseteq disk' /\ disk' \subseteq stored
  BY DiskGrows DEF GapFree
<1>2. ASSUME NEW n \in Namespaces, NEW i \in Nums, <<IndexDir[n], i>> \in disk',
             NEW j \in 0..i
      PROVE  <<IndexDir[n], j>> \in disk'
  <2>1. CASE <<IndexDir[n], i>> \in disk
    BY <1>1, <2>1 DEF GapFree
  <2>2. CASE RetrieveIndex /\ n = namespace /\ i = next
    <3>1. \A k \in 0..(next - 1) : <<IndexDir[namespace], k>> \in disk
      BY <2>2, IndexAdded
    <3>2. j = next \/ j \in 0..(next - 1)
      BY <2>2 DEF Nums
    <3> QED
      BY <1>1, <1>2, <2>2, <3>1, <3>2
  <2> QED
    BY <1>2, <2>1, <2>2, IndexesUnchanged, IndexAdded
<1> QED
  BY <1>1, <1>2 DEF GapFree

\* A namespace that is recovered stays so, also when it is recovered again.
LEMMA RecoveredStays ==
    ASSUME TypeOK, GapFree, Progress, [Next]_vars, NEW n \in Namespaces, Recovered(n)
    PROVE  Recovered(n)'
<1>1. stored' = stored /\ disk \subseteq disk' /\ disk' \subseteq stored
  BY DiskGrows DEF GapFree
<1>2. ASSUME NEW i \in Nums
      PROVE  <<IndexDir[n], i>> \in disk' <=> <<IndexDir[n], i>> \in disk
  <2>1. CASE RetrieveIndex /\ n = namespace /\ i = next
    <3>1. \A j \in 0..i : <<IndexDir[n], j>> \in stored
      <4>1. \A k \in 0..(next - 1) : <<IndexDir[namespace], k>> \in disk
        BY <2>1, IndexAdded
      <4>2. \A j \in 0..i : j = next \/ j \in 0..(next - 1)
        BY <2>1 DEF Nums
      <4>3. <<IndexDir[namespace], next>> \in stored
        BY <2>1, IndexAdded
      <4> QED
        BY <1>1, <2>1, <4>1, <4>2, <4>3
    <3>2. <<IndexDir[n], i>> \in disk
      BY <3>1 DEF Recovered
    <3> QED
      BY <1>1, <3>2
  <2>2. CASE RetrieveIndex /\ ~ (n = namespace /\ i = next)
    BY <1>1, <2>2, IndexAdded
  <2>3. CASE ~ RetrieveIndex
    BY <2>3, IndexesUnchanged
  <2> QED
    BY <2>1, <2>2, <2>3
<1>3. \A i \in Nums : IsLast(IndexDir[n], i)' => IsLast(IndexDir[n], i)
  BY <1>2 DEF IsLast
<1> QED
  BY <1>1, <1>3 DEF Recovered

\* When the data segment of its last index segment is retrieved, a namespace
\* is recovered.
LEMMA RecoversNamespace ==
    ASSUME TypeOK, GapFree, Progress, RetrieveLatest, NEW m \in Namespaces, m = namespace
    PROVE  Recovered(m)'
<1>1. /\ pc = "latest" /\ next \in Nums /\ namespace \in Namespaces
      /\ <<IndexDir[namespace], next>> \notin stored
      /\ \A j \in 0..(next - 1) : <<IndexDir[namespace], j>> \in disk
      /\ <<IndexDir[namespace], NsFile>> \in stored
            => <<IndexDir[namespace], NsFile>> \in disk
  BY DEF RetrieveLatest, Progress, TypeOK
<1>2. stored' = stored /\ disk \subseteq disk'
  BY DEF RetrieveLatest
<1>e. ~ RetrieveIndex
  BY DEF RetrieveLatest, RetrieveIndex
<1>3. \A i \in Nums :
          <<IndexDir[namespace], i>> \in disk' <=> <<IndexDir[namespace], i>> \in disk
  BY <1>1, <1>e, IndexesUnchanged DEF Next
<1> DEFINE n == namespace
<1>4. <<IndexDir[n], NsFile>> \in stored' => <<IndexDir[n], NsFile>> \in disk'
  BY <1>1, <1>2
<1>5. ASSUME NEW i \in Nums, \A j \in 0..i : <<IndexDir[n], j>> \in stored'
      PROVE  <<IndexDir[n], i>> \in disk'
  <2>1. ~ (next <= i)
    BY <1>1, <1>2, <1>5 DEF Nums
  <2>2. i \in 0..(next - 1)
    BY <1>1, <2>1 DEF Nums
  <2> QED
    BY <1>1, <1>2, <2>2
<1>6. ASSUME NEW i \in Nums, <<IndexDir[n], i>> \in disk',
             \A j \in Nums : <<IndexDir[n], j>> \in disk' => j <= i,
             <<DataDir[n], i>> \in stored'
      PROVE  <<DataDir[n], i>> \in disk'
  <2>1. i \in findLastIndex(IndexDir[n], disk)
    BY <1>3, <1>6 DEF findLastIndex
  <2> QED
    BY <1>2, <1>6, <2>1 DEF RetrieveLatest, Found
<1> QED
  BY <1>4, <1>5, <1>6 DEF Recovered, IsLast

\* Every step preserves Progress.
LEMMA ProgressNext ==
    ASSUME TypeOK, GapFree, Progress, [Next]_vars
    PROVE  Progress'
<1>1. stored' = stored /\ disk \subseteq disk'
  BY DiskGrows DEF GapFree
<1>2. Recovered(1) => Recovered(1)'
  BY RecoveredStays, Directories
<1>3. Recovered(2) => Recovered(2)'
  BY RecoveredStays, Directories
<1>4. CASE RetrieveNamespace
  BY <1>2, <1>4 DEF RetrieveNamespace, Found, FirstIndex, Progress
<1>5. CASE RetrieveIndex
  <2>1. /\ pc = "indexes" /\ pc' = pc /\ namespace' = namespace /\ next' = next + 1
        /\ next \in Nums
        /\ \A j \in 0..(next - 1) : <<IndexDir[namespace], j>> \in disk'
        /\ <<IndexDir[namespace], next>> \in disk'
    BY <1>1, <1>5, IndexAdded DEF RetrieveIndex, FollowingIndex
  <2>2. \A j \in 0..(next' - 1) : j = next \/ j \in 0..(next - 1)
    BY <2>1 DEF Nums
  <2>3. \A j \in 0..(next' - 1) : <<IndexDir[namespace'], j>> \in disk'
    BY <2>1, <2>2
  <2> QED
    BY <1>1, <1>2, <2>1, <2>3 DEF Progress
<1>6. CASE IndexesEnd
  BY <1>2, <1>6 DEF IndexesEnd, Found, files, Progress, TypeOK
<1>7. CASE RetrieveLatest
  <2>1. CASE namespace = 1
    BY <1>7, <2>1, RecoversNamespace, Directories DEF RetrieveLatest, Progress
  <2>2. CASE namespace = 2
    <3>1. Recovered(1)'
      BY <1>2, <1>7, <2>2 DEF RetrieveLatest, Progress
    <3>2. Recovered(2)'
      BY <1>7, <2>2, RecoversNamespace, Directories
    <3> QED
      BY <1>7, <2>2, <3>1, <3>2 DEF RetrieveLatest, Progress
  <2> QED
    BY <2>1, <2>2, Directories DEF TypeOK
<1>8. CASE StartService \/ Completed
  BY <1>2, <1>3, <1>8 DEF StartService, Completed, Progress
<1>9. CASE Start \/ WaitForServices \/ Fails \/ Killed
  BY <1>9 DEF Start, WaitForServices, Fails, Killed, Progress
<1>10. CASE UNCHANGED vars
  BY <1>2, <1>3, <1>10 DEF vars, files, Progress
<1> QED
  BY <1>4, <1>5, <1>6, <1>7, <1>8, <1>9, <1>10 DEF Next

\* Every step preserves ServicesLast.
LEMMA ServicesNext ==
    ASSUME RestoreInv, [Next]_vars
    PROVE  ServicesLast'
<1>1. \A n \in Namespaces : Recovered(n) => Recovered(n)'
  BY RecoveredStays DEF RestoreInv
<1>2. CASE StartService
  <2>1. Recovered(1) /\ Recovered(2)
    BY <1>2 DEF StartService, RestoreInv, Progress
  <2> QED
    BY <1>1, <2>1, Directories DEF ServicesLast
<1>3. CASE ~ StartService
  <2>1. services' \subseteq services \cup {"zstor"}
    BY <1>3 DEF Next, Start, WaitForServices, RetrieveNamespace, RetrieveIndex,
                IndexesEnd, RetrieveLatest, Completed, Fails, Killed, vars, files
  <2> QED
    BY <1>1, <2>1 DEF RestoreInv, ServicesLast
<1> QED
  BY <1>2, <1>3

-----------------------------------------------------------------------------
\* The inductive invariant of the restore.
THEOREM Invariance == Spec => []RestoreInv
<1>1. Init => RestoreInv
  BY RestoreAssumption, ZdbFilesAssumption
     DEF Init, RestoreInv, TypeOK, Namespaces, GapFree, Progress, ServicesLast
<1>2. RestoreInv /\ [Next]_vars => RestoreInv'
  BY TypeNext, GapFreeNext, ProgressNext, ServicesNext DEF RestoreInv
<1> QED
  BY <1>1, <1>2, PTL DEF Spec

\* The index segments on the disk are always a gap-free prefix of stored
\* ones, for any number of segments and attempts.
THEOREM AlwaysGapFree == Spec => []GapFree
<1>1. RestoreInv => GapFree
  BY DEF RestoreInv
<1> QED
  BY <1>1, Invariance, PTL

\* However often a restore fails or is killed, no service that serves files
\* runs before both namespaces are recovered.
THEOREM RecoveredFirst == Spec => []ServicesLast
<1>1. RestoreInv => ServicesLast
  BY DEF RestoreInv
<1> QED
  BY <1>1, Invariance, PTL

-----------------------------------------------------------------------------
\* When no index segment below a stored one is missing, a completed restore
\* has them all: a gap is the only way in which stored data becomes
\* unreachable (RestoreGap shows that a gap does make it so).
THEOREM RestoresWithoutGap == Spec => [](StoredGapFree => RestoresAll)
<1>1. ASSUME RestoreInv, StoredGapFree, pc = "done",
             NEW n \in Namespaces, NEW i \in Nums, <<IndexDir[n], i>> \in stored
      PROVE  <<IndexDir[n], i>> \in disk
  <2>1. Recovered(n)
    BY <1>1, Directories DEF RestoreInv, Progress
  <2>2. \A j \in 0..i : <<IndexDir[n], j>> \in stored
    BY <1>1 DEF StoredGapFree
  <2> QED
    BY <2>1, <2>2 DEF Recovered
<1>2. RestoreInv => (StoredGapFree => RestoresAll)
  BY <1>1 DEF RestoresAll
<1> QED
  BY <1>2, Invariance, PTL
=============================================================================
