------------------------ MODULE QuantumDaemon_proofs ------------------------
(***************************************************************************)
(* Theorems about QuantumDaemon for every value of its constants.          *)
(***************************************************************************)
EXTENDS QuantumDaemon, SequenceTheorems, FiniteSetTheorems, TLAPS

-----------------------------------------------------------------------------
(***************************************************************************)
(* Type correctness.                                                       *)
(***************************************************************************)

LEMMA FilesFacts ==
    /\ Segments \subseteq Files
    /\ DataFiles \subseteq Files
    /\ NoFile \notin Files
    /\ \A present : Eligible(present) \subseteq Files
    /\ \A f \in Segments : f = <<f[1], f[2]>> /\ f[1] \in Dirs /\ f[2] \in Nums
BY QuantumDaemonAssumption DEF Files, Segments, DataFiles, Dirs, Eligible,
    BelowHighest, NamespaceFiles

LEMMA TypeInit == Init => TypeOK
<1> SUFFICES ASSUME Init PROVE TypeOK
  OBVIOUS
<1>1. 0 \in Versions /\ 1 \in Versions
  BY QuantumDaemonAssumption DEF Versions
<1>2. Fresh \in [Files -> Versions] /\ NoMetadata \in [Files -> Versions]
  BY <1>1 DEF Fresh, NoMetadata
<1>3. IdleWorker \in WorkerStates /\ IdleRefresher \in RefresherStates
  BY <1>1, <1>2 DEF IdleWorker, WorkerStates, IdleRefresher, RefresherStates, Metadata
<1> QED
  BY <1>1, <1>2, <1>3, QuantumDaemonAssumption
  DEF Init, TypeOK, Metadata, IdleWorker

LEMMA TypeNext == TypeOK /\ [Next]_vars => TypeOK'
<1> SUFFICES ASSUME TypeOK, [Next]_vars PROVE TypeOK'
  OBVIOUS
<1> USE DEF TypeOK
<1>0. /\ 0 \in Versions /\ 1 \in Versions /\ Versions \subseteq Nat
      /\ NoMetadata \in [Files -> Versions]
      /\ IdleWorker \in WorkerStates
      /\ IdleRefresher \in RefresherStates
  BY QuantumDaemonAssumption DEF Versions, NoMetadata, IdleWorker, WorkerStates,
     IdleRefresher, RefresherStates, Metadata
<1>1. ASSUME NEW f \in Files, ZdbWrite(f) PROVE TypeOK'
  BY <1>1, <1>0, QuantumDaemonAssumption DEF ZdbWrite, Versions, process, mainLoop, knowledge, channels, uploads, background
<1>2. ASSUME NEW f \in Files, ZdbRotate(f) PROVE TypeOK'
  <2>1. <<f[1], f[2] + 1>> \in Segments
    BY <1>2, ZdbFilesAssumption DEF ZdbRotate, Segments, Nums
  <2> QED
    BY <1>2, <1>0, <2>1, FilesFacts DEF ZdbRotate, process, mainLoop, knowledge, channels, uploads, background
<1>3. ASSUME NEW f \in Files, ZstorEvict(f) PROVE TypeOK'
  BY <1>3, <1>0 DEF ZstorEvict, process, mainLoop, knowledge, channels, uploads, background
<1>4. CASE Boot
  BY <1>4, <1>0, FilesFacts DEF Boot, RefreshMetadata, Known, storage, mainLoop, channels, uploads, background, Metadata
<1>5. CASE BootFails
  BY <1>5 DEF BootFails, storage, mainLoop, knowledge, channels, uploads, background
<1>6. CASE Crash
  BY <1>6, <1>0, QuantumDaemonAssumption DEF Crash, storage, Metadata, IdleWorker
<1>7. CASE RetryTick
  BY <1>7 DEF RetryTick, TickReady, storage, process, mainLoop, knowledge, uploads, background
<1>8. CASE HandleRetry
  BY <1>8, FilesFacts DEF HandleRetry, TakeRetry, storage, process, knowledge, uploads, background
<1>9. CASE HandleRetryFails
  BY <1>9 DEF HandleRetryFails, TakeRetry, storage, process, knowledge, uploads, background
<1>10. ASSUME NEW f \in Files, CheckFile(f) PROVE TypeOK'
  <2>1. CASE RetrySkip(f)
    BY <2>1 DEF RetrySkip, Iteration, storage, process, channels, uploads, background
  <2>2. CASE RetryRetrieve(f)
    BY <2>2, QuantumDaemonAssumption DEF RetryRetrieve, Iteration, storage, process, channels, uploads
  <2>3. CASE RetryUpload(f)
    BY <2>3, FilesFacts DEF RetryUpload, Iteration, storage, process, channels, uploads, background
  <2> QED BY <1>10, <2>1, <2>2, <2>3 DEF CheckFile
<1>11. CASE UploadFileSend
  <2>1. current \in Files
    BY <1>11 DEF UploadFileSend
  <2>2. /\ Append(uploadRequestCh, current) \in Seq(Files)
        /\ Len(Append(uploadRequestCh, current)) = Len(uploadRequestCh) + 1
    BY <2>1, AppendProperties
  <2> QED
    BY <1>11, <2>2, QuantumDaemonAssumption DEF UploadFileSend, storage, process, knowledge, uploads, background
<1>12. CASE RetryDone
  BY <1>12 DEF RetryDone, storage, process, knowledge, channels, uploads, background
<1>13. ASSUME NEW w \in Workers, HandleUploadRequest(w) PROVE TypeOK'
  <2>1. /\ Head(uploadRequestCh) \in Files
        /\ Tail(uploadRequestCh) \in Seq(Files)
        /\ Len(Tail(uploadRequestCh)) = Len(uploadRequestCh) - 1
    BY <1>13, HeadTailProperties DEF HandleUploadRequest
  <2>2. [phase |-> "read", file |-> Head(uploadRequestCh), ver |-> 0] \in WorkerStates
    BY <2>1, <1>0 DEF WorkerStates
  <2> QED
    BY <1>13, <2>1, <2>2, QuantumDaemonAssumption DEF HandleUploadRequest, WorkerStates, storage, process, mainLoop, knowledge, background
<1>14. ASSUME NEW w \in Workers, Upload(w) PROVE TypeOK'
  <2> USE DEF WorkerGoes, WorkerStates, process, mainLoop, knowledge, channels, background
  <2>0. worker[w] \in WorkerStates
    OBVIOUS
  <2>1. CASE UploadRead(w)
    BY <2>0, <2>1 DEF UploadRead
  <2>2. CASE UploadStore(w)
    BY <2>0, <2>2 DEF UploadStore, StoredBy
  <2>3. CASE UploadStoreFails(w)
    BY <2>0, <1>0, <2>3 DEF UploadStoreFails, StoredBy
  <2>4. CASE UploadMetadata(w)
    BY <2>0, <2>4 DEF UploadMetadata
  <2>5. CASE UploadMetadataFails(w)
    BY <2>0, <1>0, <2>5 DEF UploadMetadataFails
  <2>6. CASE UploadReport(w)
    <3>1. [file |-> worker[w].file, ver |-> worker[w].ver] \in UploadResults
      BY <2>0, <2>6 DEF UploadReport, UploadResults
    <3> DEFINE answered == Append(uploadCompleteCh, [file |-> worker[w].file, ver |-> worker[w].ver])
    <3>2. answered \in Seq(UploadResults) /\ Len(answered) = Len(uploadCompleteCh) + 1
      BY <3>1, AppendProperties
    <3> QED
      BY <2>0, <1>0, <2>6, <3>2, QuantumDaemonAssumption DEF UploadReport, IdleWorker, storage
  <2> QED
    BY <1>14, <2>1, <2>2, <2>3, <2>4, <2>5, <2>6 DEF Upload
<1>15. CASE HandleUploadResult
  <2>1. /\ Head(uploadCompleteCh) \in UploadResults
        /\ Tail(uploadCompleteCh) \in Seq(UploadResults)
        /\ Len(Tail(uploadCompleteCh)) = Len(uploadCompleteCh) - 1
    BY <1>15, HeadTailProperties DEF HandleUploadResult
  <2> QED
    BY <1>15, <2>1, QuantumDaemonAssumption DEF HandleUploadResult, storage, process, mainLoop, uploads, background, PendingAfter, MetadataAfter, UploadResults, Metadata
<1>16. ASSUME NEW r \in Refreshers, Refresh(r) PROVE TypeOK'
  <2> USE DEF RefresherGoes, storage, process, mainLoop, knowledge, uploads
  <2>0. /\ refresher[r] \in RefresherStates
        /\ refresher[r].files \subseteq Files /\ refresher[r].snap \in Metadata
    BY DEF RefresherStates
  <2>1. CASE RefreshList(r)
    BY <2>1, <1>0, FilesFacts DEF RefreshList, RefresherStates, Metadata
  <2>2. CASE RefreshFetch(r)
    <3>1. Known(refresher[r].files) \in Metadata
      BY <1>0 DEF Known, Metadata
    <3> QED BY <2>2, <3>1 DEF RefreshFetch, RefresherStates
  <2>3. CASE RefreshFails(r)
    BY <2>3, <1>0 DEF RefreshFails
  <2>4. CASE RefreshSend(r)
    BY <2>4, <2>0, <1>0 DEF RefreshSend
  <2> QED BY <1>16, <2>1, <2>2, <2>3, <2>4 DEF Refresh
<1>17. CASE HandleMetadataUpdate
  BY <1>17 DEF HandleMetadataUpdate, storage, process, mainLoop, uploads, background
<1>18. ASSUME NEW f \in Files, Zstor(f) PROVE TypeOK'
  <2> USE DEF RetrieveEnds, MissingDataEnds, process, mainLoop, knowledge, channels, uploads
  <2>1. CASE Retrieve(f)
    BY <2>1, QuantumDaemonAssumption DEF Retrieve
  <2>2. CASE RetrieveFails(f)
    BY <2>2, QuantumDaemonAssumption DEF RetrieveFails
  <2>3. CASE HandleMissingData(f)
    BY <2>3 DEF HandleMissingData
  <2>4. CASE HandleMissingDataFails(f)
    BY <2>4 DEF HandleMissingDataFails
  <2> QED BY <1>3, <1>18, <2>1, <2>2, <2>3, <2>4 DEF Zstor
<1>19. ASSUME NEW f \in Files, MissingData(f) PROVE TypeOK'
  BY <1>19, QuantumDaemonAssumption DEF MissingData, storage, process, mainLoop, knowledge, channels, uploads
<1>20. CASE UNCHANGED vars
  BY <1>20 DEF vars, storage, process, mainLoop, knowledge, channels, uploads, background
<1> QED
  BY <1>1, <1>2, <1>4, <1>5, <1>6, <1>7, <1>8, <1>9, <1>10, <1>11, <1>12, <1>13,
     <1>14, <1>15, <1>16, <1>17, <1>18, <1>19, <1>20
  DEF Next, Zdb, Process, MainLoop, Select

THEOREM TypeCorrect == Spec => []TypeOK
BY TypeInit, TypeNext, PTL DEF Spec

-----------------------------------------------------------------------------
(***************************************************************************)
(* Uploads in flight.  UploadTracked is inductive together with TypeOK.    *)
(* An upload moves from one place to the next: the lemmas say what a send  *)
(* and a receive do to the set of files in a queue.                        *)
(***************************************************************************)

\* A send adds one file to a queue and keeps its files distinct.
LEMMA SendAdds ==
    ASSUME NEW S, NEW q \in Seq(S), NEW e \in S
    PROVE  /\ Range(Append(q, e)) = Range(q) \cup {e}
           /\ IsInjective(q) /\ e \notin Range(q) => IsInjective(Append(q, e))
<1>1. /\ Append(q, e) \in Seq(S)
      /\ Len(Append(q, e)) = Len(q) + 1
      /\ \A i \in 1..Len(q) : Append(q, e)[i] = q[i]
      /\ Append(q, e)[Len(q) + 1] = e
  BY AppendProperties
<1>2. DOMAIN Append(q, e) = DOMAIN q \cup {Len(q) + 1} /\ Len(q) + 1 \notin DOMAIN q
  BY <1>1
<1>3. \A i \in DOMAIN q : Append(q, e)[i] = q[i]
  BY <1>1
<1> QED
  BY <1>1, <1>2, <1>3 DEF Range, IsInjective

\* A receive removes the first file of a queue whose files are distinct.
LEMMA ReceiveRemoves ==
    ASSUME NEW S, NEW q \in Seq(S), q # << >>, IsInjective(q)
    PROVE  /\ Range(Tail(q)) = Range(q) \ {Head(q)}
           /\ IsInjective(Tail(q))
           /\ Head(q) \in Range(q)
<1>1. /\ Len(q) \in Nat \ {0} /\ Head(q) = q[1] /\ DOMAIN q = 1..Len(q)
      /\ Tail(q) \in Seq(S)
      /\ DOMAIN Tail(q) = 1..(Len(q) - 1)
      /\ \A i \in 1..(Len(q) - 1) : Tail(q)[i] = q[i + 1]
  BY HeadTailProperties
<1>2. Head(q) \in Range(q)
  BY <1>1 DEF Range
<1>3. IsInjective(Tail(q))
  BY <1>1 DEF IsInjective
<1>4. ASSUME NEW i \in DOMAIN q, q[i] # Head(q) PROVE q[i] \in Range(Tail(q))
  <2>1. i - 1 \in DOMAIN Tail(q) /\ Tail(q)[i - 1] = q[i]
    BY <1>1, <1>4
  <2> QED BY <2>1 DEF Range
<1>5. ASSUME NEW i \in DOMAIN Tail(q)
      PROVE  Tail(q)[i] \in Range(q) /\ Tail(q)[i] # Head(q)
  BY <1>1, <1>5 DEF Range, IsInjective
<1> QED
  BY <1>2, <1>3, <1>4, <1>5 DEF Range

\* The files of a sequence of results, after a send and after a receive.
LEMMA FilesOfType ==
    ASSUME NEW q \in Seq(UploadResults)
    PROVE  /\ FilesOf(q) \in Seq(Files)
           /\ Len(FilesOf(q)) = Len(q)
           /\ \A i \in 1..Len(q) : FilesOf(q)[i] = q[i].file
<1>1. Len(q) \in Nat /\ DOMAIN q = 1..Len(q) /\ \A i \in 1..Len(q) : q[i] \in UploadResults
  OBVIOUS
<1>2. FilesOf(q) \in [1..Len(q) -> Files]
  BY <1>1 DEF FilesOf, UploadResults
<1>3. FilesOf(q) \in Seq(Files)
  BY <1>1, <1>2, SeqDef
<1> QED
  BY <1>1, <1>2, <1>3, LenProperties DEF FilesOf

LEMMA FilesOfSend ==
    ASSUME NEW q \in Seq(UploadResults), NEW r \in UploadResults
    PROVE  FilesOf(Append(q, r)) = Append(FilesOf(q), r.file)
<1>1. /\ Append(q, r) \in Seq(UploadResults)
      /\ Len(Append(q, r)) = Len(q) + 1
      /\ \A i \in 1..Len(q) : Append(q, r)[i] = q[i]
      /\ Append(q, r)[Len(q) + 1] = r
  BY AppendProperties
<1>2. r.file \in Files
  BY DEF UploadResults
<1>3. /\ Append(FilesOf(q), r.file) \in Seq(Files)
      /\ Len(Append(FilesOf(q), r.file)) = Len(q) + 1
      /\ \A i \in 1..Len(q) : Append(FilesOf(q), r.file)[i] = q[i].file
      /\ Append(FilesOf(q), r.file)[Len(q) + 1] = r.file
  BY <1>2, FilesOfType, AppendProperties
<1>4. /\ FilesOf(Append(q, r)) \in Seq(Files)
      /\ Len(FilesOf(Append(q, r))) = Len(q) + 1
      /\ \A i \in 1..(Len(q) + 1) : FilesOf(Append(q, r))[i] = Append(q, r)[i].file
  BY <1>1, FilesOfType
<1> QED
  BY <1>1, <1>3, <1>4, SeqEqual

LEMMA FilesOfReceive ==
    ASSUME NEW q \in Seq(UploadResults), q # << >>
    PROVE  /\ FilesOf(q) \in Seq(Files) /\ FilesOf(q) # << >>
           /\ Head(FilesOf(q)) = Head(q).file
           /\ FilesOf(Tail(q)) = Tail(FilesOf(q))
<1>1. /\ Tail(q) \in Seq(UploadResults)
      /\ Len(Tail(q)) = Len(q) - 1
      /\ \A i \in 1..(Len(q) - 1) : Tail(q)[i] = q[i + 1]
      /\ Len(q) \in Nat \ {0} /\ Head(q) = q[1]
  BY HeadTailProperties
<1>2. FilesOf(q) \in Seq(Files) /\ FilesOf(q) # << >> /\ Head(FilesOf(q)) = Head(q).file
  BY <1>1, FilesOfType
<1>3. /\ Tail(FilesOf(q)) \in Seq(Files)
      /\ Len(Tail(FilesOf(q))) = Len(q) - 1
      /\ \A i \in 1..(Len(q) - 1) : Tail(FilesOf(q))[i] = q[i + 1].file
  BY <1>1, <1>2, FilesOfType, HeadTailProperties
<1>4. /\ FilesOf(Tail(q)) \in Seq(Files)
      /\ Len(FilesOf(Tail(q))) = Len(q) - 1
      /\ \A i \in 1..(Len(q) - 1) : FilesOf(Tail(q))[i] = Tail(q)[i].file
  BY <1>1, FilesOfType
<1> QED
  BY <1>1, <1>2, <1>3, <1>4, SeqEqual

LEMMA TrackedInit == Init => UploadTracked
BY DEF Init, UploadTracked, SingleUpload, PendingExact, Sending, Queued, Uploading,
   Completed, FilesOf, Range, IsInjective, IdleWorker

\* A step that moves no upload: the places keep their files.
LEMMA NothingMoves ==
    ASSUME TypeOK, UploadTracked,
           UNCHANGED <<current, uploadRequestCh, uploadCompleteCh, pendingUploads>>,
           \A w \in Workers : worker'[w].file = worker[w].file
    PROVE  UploadTracked'
BY DEF UploadTracked, SingleUpload, PendingExact, Sending, Queued, Uploading, Completed

LEMMA TrackedNext == TypeOK /\ UploadTracked /\ [Next]_vars => UploadTracked'
<1> SUFFICES ASSUME TypeOK, UploadTracked, [Next]_vars PROVE UploadTracked'
  OBVIOUS
<1>0. /\ uploadRequestCh \in Seq(Files)
      /\ uploadCompleteCh \in Seq(UploadResults)
      /\ worker \in [Workers -> WorkerStates]
      /\ NoFile \notin Files
  BY QuantumDaemonAssumption DEF TypeOK
<1>1. ASSUME NEW f \in Files, Zdb(f) \/ Zstor(f) PROVE UploadTracked'
  BY <1>1, NothingMoves
  DEF Zdb, ZdbWrite, ZdbRotate, MissingData, Zstor, ZstorEvict, Retrieve, RetrieveFails,
      RetrieveEnds, HandleMissingData, HandleMissingDataFails, MissingDataEnds,
      storage, process, mainLoop, knowledge, channels, uploads, background
<1>2. CASE Boot \/ BootFails
  BY <1>2, NothingMoves
  DEF Boot, BootFails, storage, process, mainLoop, knowledge, channels, uploads, background
<1>3. CASE Crash
  BY <1>3 DEF Crash, UploadTracked, SingleUpload, PendingExact, Sending, Queued,
     Uploading, Completed, FilesOf, Range, IsInjective, IdleWorker
<1>4. CASE RetryTick \/ HandleRetry \/ HandleRetryFails
  BY <1>4, NothingMoves
  DEF RetryTick, HandleRetry, HandleRetryFails, TakeRetry, storage, process, mainLoop,
      knowledge, channels, uploads, background
<1>5. ASSUME NEW f \in Files, CheckFile(f) PROVE UploadTracked'
  <2>1. CASE RetrySkip(f) \/ RetryRetrieve(f)
    BY <2>1, NothingMoves
    DEF RetrySkip, RetryRetrieve, Iteration, storage, process, channels, uploads, background
  <2>2. CASE RetryUpload(f)
    <3>1. /\ mainPc = "retry" /\ f \notin pendingUploads
          /\ current' = f /\ pendingUploads' = pendingUploads \cup {f}
          /\ UNCHANGED <<uploadRequestCh, uploadCompleteCh, worker>>
      BY <2>2 DEF RetryUpload, Iteration, isUploadPending, channels, uploads
    <3>2. Sending = {} /\ Sending' = {f}
      BY <1>0, <3>1 DEF TypeOK, Sending
    <3>3. UNCHANGED <<Queued, Uploading, Completed>>
      BY <3>1 DEF Queued, Uploading, Completed
    <3> QED
      BY <3>1, <3>2, <3>3 DEF UploadTracked, SingleUpload, PendingExact
  <2> QED BY <1>5, <2>1, <2>2 DEF CheckFile
<1>6. CASE UploadFileSend
  <2>1. /\ current \in Files /\ current' = NoFile
        /\ uploadRequestCh' = Append(uploadRequestCh, current)
        /\ UNCHANGED <<uploadCompleteCh, worker, pendingUploads>>
    BY <1>6 DEF UploadFileSend, TypeOK, knowledge, uploads
  <2>2. Sending = {current} /\ Sending' = {} /\ UNCHANGED <<Uploading, Completed>>
    BY <1>0, <2>1 DEF Sending, Uploading, Completed
  <2>3. Queued' = Queued \cup {current} /\ IsInjective(uploadRequestCh')
    BY <1>0, <2>1, <2>2, SendAdds DEF Queued, UploadTracked, SingleUpload
  <2> QED
    BY <2>1, <2>2, <2>3 DEF UploadTracked, SingleUpload, PendingExact
<1>7. CASE RetryDone
  BY <1>7, NothingMoves DEF RetryDone, storage, process, knowledge, channels, uploads, background
<1>8. ASSUME NEW w \in Workers, HandleUploadRequest(w) PROVE UploadTracked'
  <2> DEFINE f == Head(uploadRequestCh)
  <2>1. /\ uploadRequestCh # << >> /\ worker[w].file = NoFile
        /\ worker' = [worker EXCEPT ![w] = [phase |-> "read", file |-> f, ver |-> 0]]
        /\ uploadRequestCh' = Tail(uploadRequestCh)
        /\ UNCHANGED <<current, uploadCompleteCh, pendingUploads>>
    BY <1>8 DEF HandleUploadRequest, TypeOK, mainLoop, knowledge
  <2>2. /\ Queued' = Queued \ {f} /\ f \in Queued /\ f \in Files
        /\ IsInjective(uploadRequestCh')
    BY <1>0, <2>1, ReceiveRemoves, HeadTailProperties DEF Queued, UploadTracked, SingleUpload
  <2>3. /\ worker'[w].file = f
        /\ \A v \in Workers \ {w} : worker'[v].file = worker[v].file
    BY <1>0, <2>1
  <2>4. Uploading' = Uploading \cup {f} /\ UNCHANGED <<Sending, Completed>>
    BY <1>0, <2>1, <2>2, <2>3 DEF Uploading, Sending, Completed
  <2>5. \A u, v \in Workers :
           worker'[u].file = worker'[v].file /\ worker'[u].file # NoFile => u = v
    BY <2>2, <2>3, <1>0 DEF Uploading, UploadTracked, SingleUpload
  <2> QED
    BY <2>1, <2>2, <2>4, <2>5 DEF UploadTracked, SingleUpload, PendingExact
<1>9. ASSUME NEW w \in Workers, Upload(w) PROVE UploadTracked'
  <2>1. CASE UploadRead(w) \/ UploadStore(w) \/ UploadStoreFails(w)
             \/ UploadMetadata(w) \/ UploadMetadataFails(w)
    <3>1. /\ UNCHANGED <<current, uploadRequestCh, uploadCompleteCh, pendingUploads>>
          /\ \A v \in Workers : worker'[v].file = worker[v].file
      BY <1>0, <2>1 DEF UploadRead, UploadStore, UploadStoreFails, UploadMetadata,
         UploadMetadataFails, WorkerGoes, mainLoop, knowledge, channels
    <3> QED BY <3>1, NothingMoves
  <2>2. CASE UploadReport(w)
    <3> DEFINE f == worker[w].file
               r == [file |-> f, ver |-> worker[w].ver]
    <3>1. /\ f \in Files
          /\ worker' = [worker EXCEPT ![w] = IdleWorker]
          /\ uploadCompleteCh' = Append(uploadCompleteCh, r)
          /\ UNCHANGED <<current, uploadRequestCh, pendingUploads>>
      BY <1>0, <2>2 DEF UploadReport, TypeOK, WorkerStates, mainLoop, knowledge
    <3>2. r \in UploadResults
      BY <1>0, <3>1 DEF UploadResults, WorkerStates
    <3>3. f \in Uploading /\ f \notin Completed
      BY <1>0, <3>1 DEF Uploading, UploadTracked, SingleUpload
    <3>4. Completed' = Completed \cup {f} /\ IsInjective(FilesOf(uploadCompleteCh'))
      <4>1. FilesOf(uploadCompleteCh') = Append(FilesOf(uploadCompleteCh), r.file)
        BY <1>0, <3>1, <3>2, FilesOfSend
      <4>2. FilesOf(uploadCompleteCh) \in Seq(Files) /\ r.file = f
        BY <1>0, FilesOfType
      <4>3. f \notin Range(FilesOf(uploadCompleteCh)) /\ IsInjective(FilesOf(uploadCompleteCh))
        BY <3>3 DEF Completed, UploadTracked, SingleUpload
      <4>4. /\ Range(Append(FilesOf(uploadCompleteCh), f))
                  = Range(FilesOf(uploadCompleteCh)) \cup {f}
            /\ IsInjective(Append(FilesOf(uploadCompleteCh), f))
        <5> HIDE DEF f
        <5> QED BY <3>1, <4>2, <4>3, SendAdds
      <4> QED
        BY <4>1, <4>2, <4>4 DEF Completed
    <3>5. /\ worker'[w].file = NoFile
          /\ \A v \in Workers \ {w} : worker'[v].file = worker[v].file
      BY <1>0, <3>1 DEF IdleWorker
    <3>6. Uploading' = Uploading \ {f} /\ UNCHANGED <<Sending, Queued>>
      BY <1>0, <3>1, <3>5 DEF Uploading, Sending, Queued, UploadTracked, SingleUpload
    <3>7. \A u, v \in Workers :
             worker'[u].file = worker'[v].file /\ worker'[u].file # NoFile => u = v
      BY <3>5 DEF UploadTracked, SingleUpload
    <3> QED
      BY <3>1, <3>3, <3>4, <3>6, <3>7 DEF UploadTracked, SingleUpload, PendingExact
  <2> QED BY <1>9, <2>1, <2>2 DEF Upload
<1>10. CASE HandleUploadResult
  <2> DEFINE f == Head(uploadCompleteCh).file
  <2>1. /\ uploadCompleteCh # << >> /\ uploadCompleteCh' = Tail(uploadCompleteCh)
        /\ pendingUploads' = pendingUploads \ {f}
        /\ UNCHANGED <<current, uploadRequestCh, worker>>
    BY <1>10 DEF HandleUploadResult, PendingAfter, mainLoop, uploads
  <2>2. /\ Completed' = Completed \ {f} /\ f \in Completed
        /\ IsInjective(FilesOf(uploadCompleteCh'))
    BY <1>0, <2>1, FilesOfReceive, ReceiveRemoves DEF Completed, UploadTracked, SingleUpload
  <2>3. UNCHANGED <<Sending, Queued, Uploading>>
    BY <2>1 DEF Sending, Queued, Uploading
  <2> QED
    BY <2>1, <2>2, <2>3 DEF UploadTracked, SingleUpload, PendingExact
<1>11. CASE HandleMetadataUpdate
  BY <1>11, NothingMoves DEF HandleMetadataUpdate, storage, process, mainLoop, uploads, background
<1>12. ASSUME NEW r \in Refreshers, Refresh(r) PROVE UploadTracked'
  BY <1>12, NothingMoves
  DEF Refresh, RefreshList, RefreshFetch, RefreshFails, RefreshSend, RefresherGoes,
      storage, process, mainLoop, knowledge, uploads
<1>13. CASE UNCHANGED vars
  BY <1>13, NothingMoves DEF vars, storage, process, mainLoop, knowledge, channels, uploads, background
<1> QED
  BY <1>1, <1>2, <1>3, <1>4, <1>5, <1>6, <1>7, <1>8, <1>9, <1>10, <1>11, <1>12, <1>13
  DEF Next, Process, MainLoop, Select

\* Each file has at most one upload in flight, and its pending mark says so.
THEOREM UploadsTracked == Spec => []UploadTracked
<1>1. Init => TypeOK /\ UploadTracked
  BY TypeInit, TrackedInit
<1>2. TypeOK /\ UploadTracked /\ [Next]_vars => (TypeOK /\ UploadTracked)'
  BY TypeNext, TrackedNext
<1> QED
  BY <1>1, <1>2, PTL DEF Spec

-----------------------------------------------------------------------------
(***************************************************************************)
(* The self-deadlock of the main loop needs more files than the queue      *)
(* holds: the file being sent is in none of the requests, and each request *)
(* is of another file.                                                     *)
(***************************************************************************)
LEMMA QueueHasRoom ==
    ASSUME IsFiniteSet(Files), Cardinality(Files) <= QueueCap,
           TypeOK, UploadTracked
    PROVE  NoSelfDeadlock
<1> SUFFICES ASSUME mainPc = "send" PROVE Len(uploadRequestCh) < QueueCap
  BY DEF NoSelfDeadlock
<1> DEFINE n == Len(uploadRequestCh)
           others == Files \ {current}
<1>1. /\ n \in Nat /\ uploadRequestCh \in [1..n -> Files]
      /\ current \in Files
  BY LenProperties DEF TypeOK
<1>2. current \notin Range(uploadRequestCh) /\ IsInjective(uploadRequestCh)
  BY <1>1, QuantumDaemonAssumption DEF UploadTracked, SingleUpload, Sending, Queued
<1>3. uploadRequestCh \in Injection(1..n, others)
  BY <1>1, <1>2 DEF Injection, IsInjective, Range
<1>4. IsFiniteSet(others) /\ Cardinality(others) = Cardinality(Files) - 1
  BY <1>1, FS_RemoveElement
<1>5. Cardinality(1..n) = n
  BY <1>1, FS_Interval
<1>6. n <= Cardinality(others)
  BY <1>3, <1>4, <1>5, FS_Injection
<1> QED
  BY <1>1, <1>4, <1>6, FS_CardinalityType, QuantumDaemonAssumption

\* With no more files than places in uploadRequestCh, the main loop never
\* waits for itself.
THEOREM NoSelfDeadlockWhenFewFiles ==
    ASSUME IsFiniteSet(Files), Cardinality(Files) <= QueueCap
    PROVE  Spec => []NoSelfDeadlock
<1>1. TypeOK /\ UploadTracked => NoSelfDeadlock
  BY QueueHasRoom
<1> QED
  BY <1>1, TypeCorrect, UploadsTracked, PTL

-----------------------------------------------------------------------------
(***************************************************************************)
(* What is stored, believed to be stored, freed and brought back.          *)
(***************************************************************************)
StorageInv ==
    /\ MetadataNeverAhead
    /\ DiskCurrent
    /\ StoredComplete
    /\ OnlyClosed
    /\ StoresForward
    /\ RetrievesStored

LEMMA StorageInit == Init => StorageInv
<1> SUFFICES ASSUME Init PROVE StorageInv
  OBVIOUS
<1>1. /\ \A f \in Files : latest[f] \in {0, 1} /\ disk[f] = latest[f] /\ remote[f] = 0
      /\ \A f \in Files : metadataStore[f] = 0 /\ retrieving[f] = 0
      /\ \A w \in Workers : worker[w] = IdleWorker
      /\ \A r \in Refreshers, f \in Files : refresher[r].snap[f] = 0
  BY DEF Init, Fresh, NoMetadata, IdleRefresher
<1>2. MetadataNeverAhead
  BY <1>1 DEF Init, MetadataNeverAhead, IdleWorker
<1> QED
  BY <1>1, <1>2, FilesFacts DEF Init, StorageInv, DiskCurrent, StoredComplete, OnlyClosed,
     StoresForward, RetrievesStored, IdleWorker

\* A closed segment stays closed.
LEMMA ClosedStays ==
    ASSUME \A g \in Files : latest[g] # 0 => latest'[g] # 0
    PROVE  \A f \in Files : Closed(f) => Closed(f)'
BY FilesFacts DEF Closed, Above

\* A step of the daemon alone changes nothing that is stored, and the files
\* it deals with are those it dealt with before.
LEMMA DaemonStep ==
    ASSUME UNCHANGED <<latest, disk, remote>>, DiskCurrent, StoredComplete, OnlyClosed,
           todo' \cup pendingUploads' \subseteq todo \cup pendingUploads
    PROVE  DiskCurrent' /\ StoredComplete' /\ OnlyClosed'
<1>1. \A f \in Files : Closed(f) => Closed(f)'
  BY ClosedStays
<1>2. \A f \in DataFiles : f \in Files
  BY FilesFacts
<1> QED
  BY <1>1, <1>2 DEF DiskCurrent, StoredComplete, OnlyClosed

LEMMA StorageNext == IInv /\ [Next]_vars => StorageInv'
<1> SUFFICES ASSUME IInv, [Next]_vars PROVE StorageInv'
  OBVIOUS
<1>0. /\ latest \in [Files -> Nat] /\ disk \in [Files -> Nat] /\ remote \in [Files -> Nat]
      /\ metadataStore \in [Files -> Nat]
      /\ worker \in [Workers -> WorkerStates]
      /\ uploadCompleteCh \in Seq(UploadResults)
      /\ metadataChan \in Seq(Metadata)
  BY QuantumDaemonAssumption DEF IInv, TypeOK, Versions, Metadata
<1> USE DEF IInv, StorageInv
<1>a. /\ \A f \in Files : latest[f] \in Nat /\ disk[f] \in Nat /\ remote[f] \in Nat
      /\ \A f \in DataFiles : f \in Files
  BY <1>0, FilesFacts
<1>1. ASSUME NEW f \in Files, ZdbWrite(f) PROVE StorageInv'
  <2>1. /\ disk[f] # 0
        /\ f \in DataFiles => ~ Closed(f)
        /\ latest' = [latest EXCEPT ![f] = @ + 1]
        /\ disk' = [disk EXCEPT ![f] = latest[f] + 1]
        /\ UNCHANGED <<remote, metadataStore, metadataChan, refresher, uploadCompleteCh,
                       worker, todo, pendingUploads, retrieving>>
    BY <1>1 DEF ZdbWrite, mainLoop, knowledge, channels, uploads, background
  <2>2. \A g \in Files : Closed(g) => Closed(g)'
    BY <1>0, <1>a, <2>1, ClosedStays
  <2>3. /\ \A g \in Files : latest'[g] = IF g = f THEN latest[g] + 1 ELSE latest[g]
        /\ \A g \in Files : disk'[g] = IF g = f THEN latest[g] + 1 ELSE disk[g]
    BY <1>0, <2>1
  <2>4. f \in DataFiles => remote[f] = 0 /\ f \notin todo \cup pendingUploads
    BY <2>1 DEF StoredComplete, OnlyClosed
  <2>5. MetadataNeverAhead'
    BY <2>1 DEF MetadataNeverAhead
  <2>6. DiskCurrent' /\ StoredComplete' /\ OnlyClosed' /\ RetrievesStored'
    <3>1. DiskCurrent'
      BY <1>a, <2>1, <2>3 DEF DiskCurrent
    <3>2. StoredComplete'
      BY <1>a, <2>1, <2>2, <2>3, <2>4 DEF StoredComplete
    <3>3. OnlyClosed' /\ RetrievesStored'
      BY <1>a, <2>1, <2>2 DEF OnlyClosed, RetrievesStored
    <3> QED BY <3>1, <3>2, <3>3
  <2>7. StoresForward'
    <3> SUFFICES ASSUME NEW w \in Workers, worker[w].phase = "store", worker[w].ver # 0
                 PROVE  /\ worker[w].ver \in remote[worker[w].file]..latest'[worker[w].file]
                        /\ worker[w].file \in DataFiles =>
                              worker[w].ver = latest'[worker[w].file]
      BY <2>1 DEF StoresForward
    <3>1. worker[w].file \in Files /\ worker[w].file \in pendingUploads
      BY <1>0 DEF TypeOK, WorkerStates, UploadTracked, PendingExact, Uploading
    <3>2. worker[w].file \in DataFiles => worker[w].file # f
      BY <2>4, <3>1
    <3>3. worker[w].ver \in Nat
      BY <1>0, QuantumDaemonAssumption DEF WorkerStates, Versions
    <3> QED
      BY <1>a, <2>3, <3>1, <3>2, <3>3 DEF StoresForward
  <2> QED BY <2>5, <2>6, <2>7
<1>2. ASSUME NEW f \in Files, ZdbRotate(f) PROVE StorageInv'
  <2> DEFINE next == <<f[1], f[2] + 1>>
  <2>1. /\ f \in Segments /\ f[2] < MaxNum /\ latest[f] # 0 /\ ~ Closed(f)
        /\ latest' = [latest EXCEPT ![next] = 1]
        /\ disk' = [disk EXCEPT ![next] = 1]
        /\ UNCHANGED <<remote, metadataStore, metadataChan, refresher, uploadCompleteCh,
                       worker, todo, pendingUploads, retrieving>>
    BY <1>2 DEF ZdbRotate, mainLoop, knowledge, channels, uploads, background
  <2>2. next \in Above(f) /\ next \in Files
    BY <2>1, ZdbFilesAssumption, FilesFacts DEF Segments, Nums, Above
  <2>3. latest[next] = 0 /\ disk[next] = 0 /\ remote[next] = 0
    BY <1>a, <2>1, <2>2 DEF Closed, DiskCurrent, StoredComplete
  <2> HIDE DEF next
  <2>4. \A g \in Files : Closed(g) => Closed(g)'
    BY <1>0, <1>a, <2>1, <2>2, ClosedStays
  <2>5. /\ \A g \in Files : latest'[g] = IF g = next THEN 1 ELSE latest[g]
        /\ \A g \in Files : disk'[g] = IF g = next THEN 1 ELSE disk[g]
    BY <1>0, <2>1, <2>2
  <2>6. MetadataNeverAhead'
    BY <2>1 DEF MetadataNeverAhead
  <2>7. DiskCurrent' /\ StoredComplete' /\ OnlyClosed' /\ RetrievesStored'
    BY <1>a, <2>1, <2>3, <2>4, <2>5 DEF DiskCurrent, StoredComplete, OnlyClosed, RetrievesStored
  <2>8. StoresForward'
    <3> SUFFICES ASSUME NEW w \in Workers, worker[w].phase = "store", worker[w].ver # 0
                 PROVE  latest'[worker[w].file] = latest[worker[w].file]
      BY <2>1 DEF StoresForward
    <3>1. worker[w].file \in Files /\ worker[w].ver \in Nat
      BY <1>0, QuantumDaemonAssumption DEF TypeOK, WorkerStates, Versions
    <3>2. worker[w].file # next
      BY <1>a, <2>3, <3>1 DEF StoresForward
    <3> QED BY <2>5, <3>1, <3>2
  <2> QED BY <2>6, <2>7, <2>8
<1>4. CASE Boot
  BY <1>0, <1>4 DEF Boot, RefreshMetadata, Known, storage, mainLoop, channels, uploads, background,
     MetadataNeverAhead, DiskCurrent, StoredComplete, OnlyClosed, StoresForward, RetrievesStored, Closed
<1>5. CASE Crash
  <2>1. /\ UNCHANGED <<latest, disk, remote>>
        /\ todo' = {} /\ pendingUploads' = {} /\ metadataStore' = NoMetadata
        /\ uploadCompleteCh' = << >> /\ metadataChan' = << >>
        /\ worker' = [w \in Workers |-> IdleWorker]
        /\ refresher' = [r \in Refreshers |-> IdleRefresher]
        /\ retrieving' = [f \in Files |-> 0]
    BY <1>5 DEF Crash, storage
  <2> QED
    BY <1>0, <1>a, <2>1, DaemonStep DEF MetadataNeverAhead,
       StoresForward, RetrievesStored, NoMetadata, IdleWorker, IdleRefresher
<1>6. CASE HandleRetry
  <2>1. /\ UNCHANGED <<latest, disk, remote, pendingUploads, metadataStore, uploadCompleteCh,
                       metadataChan, worker, refresher, retrieving>>
        /\ todo' = Eligible(Present)
    BY <1>6 DEF HandleRetry, TakeRetry, storage, knowledge, uploads, background
  <2>2. \A f \in DataFiles : f \in Eligible(Present) => Closed(f)
    <3> SUFFICES ASSUME NEW f \in DataFiles, f \in Eligible(Present) PROVE Closed(f)
      OBVIOUS
    <3>1. f \notin NamespaceFiles
      BY ZdbFilesAssumption DEF DataFiles, NamespaceFiles
    <3>2. PICK g \in Above(f) : g \in Present
      BY <3>1 DEF Eligible, BelowHighest
    <3> QED
      BY <1>a, <3>2 DEF Present, DiskCurrent, Closed
  <2>3. OnlyClosed' /\ DiskCurrent' /\ StoredComplete'
    BY <1>a, <2>1, <2>2, ClosedStays DEF OnlyClosed, DiskCurrent, StoredComplete
  <2> QED
    BY <2>1, <2>3 DEF MetadataNeverAhead, StoresForward, RetrievesStored
<1>7. ASSUME NEW f \in Files, CheckFile(f) PROVE StorageInv'
  <2>1. /\ UNCHANGED <<latest, disk, remote, metadataStore, uploadCompleteCh,
                       metadataChan, worker, refresher>>
        /\ f \in todo /\ todo' = todo \ {f}
    BY <1>7 DEF CheckFile, RetrySkip, RetryRetrieve, RetryUpload, Iteration, storage,
       channels, uploads, background
  <2>2. pendingUploads' \subseteq pendingUploads \cup {f}
    BY <1>7 DEF CheckFile, RetrySkip, RetryRetrieve, RetryUpload
  <2>3. DiskCurrent' /\ StoredComplete' /\ OnlyClosed'
    BY <2>1, <2>2, DaemonStep
  <2>4. RetrievesStored'
    <3>1. CASE RetryRetrieve(f)
      <4>1. disk[f] = 0 /\ metadataStore[f] # 0
            /\ retrieving' \in {retrieving, [retrieving EXCEPT ![f] = @ + 1]}
        BY <3>1 DEF RetryRetrieve
      <4>2. remote[f] # 0 /\ latest[f] # 0
        BY <1>0, <1>a, <4>1 DEF MetadataNeverAhead, StoredComplete
      <4>3. f \in DataFiles
        BY <4>1, <4>2 DEF DiskCurrent
      <4> QED
        BY <2>1, <4>1, <4>2, <4>3 DEF RetrievesStored, TypeOK
    <3>2. CASE RetrySkip(f) \/ RetryUpload(f)
      BY <2>1, <3>2 DEF RetrySkip, RetryUpload, background, RetrievesStored
    <3> QED BY <1>7, <3>1, <3>2 DEF CheckFile
  <2> QED
    BY <2>1, <2>3, <2>4 DEF MetadataNeverAhead, StoresForward
<1>8. ASSUME NEW w \in Workers, HandleUploadRequest(w) PROVE StorageInv'
  <2>1. /\ UNCHANGED <<latest, disk, remote, metadataStore, pendingUploads, todo,
                       uploadCompleteCh, metadataChan, refresher, retrieving>>
        /\ worker' = [worker EXCEPT ![w] =
                        [phase |-> "read", file |-> Head(uploadRequestCh), ver |-> 0]]
    BY <1>8 DEF HandleUploadRequest, storage, mainLoop, knowledge, background
  <2>2. /\ worker'[w].phase = "read"
        /\ \A v \in Workers \ {w} : worker'[v] = worker[v]
    BY <1>0, <2>1
  <2> QED
    BY <2>1, <2>2, DaemonStep DEF MetadataNeverAhead, StoresForward, RetrievesStored
<1>9. ASSUME NEW w \in Workers, Upload(w) PROVE StorageInv'
  <2> DEFINE f == worker[w].file
             v == worker[w].ver
  <2>0. /\ worker[w].phase # "idle" /\ f \in Files /\ v \in Nat
        /\ f \in pendingUploads
        /\ f \in DataFiles => Closed(f)
    <3>1. worker[w].phase # "idle"
      BY <1>9 DEF Upload, UploadRead, UploadStore, UploadStoreFails, UploadMetadata,
         UploadMetadataFails, UploadReport, WorkerGoes
    <3>2. f \in Files /\ v \in Nat
      BY <1>0, <3>1, QuantumDaemonAssumption DEF TypeOK, WorkerStates, Versions
    <3>3. f \in pendingUploads
      BY <3>2, QuantumDaemonAssumption DEF UploadTracked, PendingExact, Uploading
    <3> QED
      BY <3>1, <3>2, <3>3 DEF OnlyClosed
  <2>1. CASE UploadRead(w)
    <3>1. /\ UNCHANGED <<latest, disk, remote, metadataStore, pendingUploads, todo,
                         uploadCompleteCh, metadataChan, refresher, retrieving>>
          /\ worker' = [worker EXCEPT ![w] =
                          [phase |-> "store", file |-> f, ver |-> disk[f]]]
      BY <2>1 DEF UploadRead, WorkerGoes, mainLoop, knowledge, channels, background
    <3>2. /\ worker'[w] = [phase |-> "store", file |-> f, ver |-> disk[f]]
          /\ \A x \in Workers \ {w} : worker'[x] = worker[x]
      BY <1>0, <3>1
    <3>3. disk[f] # 0 => disk[f] = latest[f] /\ disk[f] \in remote[f]..latest[f]
      BY <1>a, <2>0 DEF DiskCurrent, StoredComplete
    <3>4. StoresForward'
      BY <3>1, <3>2, <3>3 DEF StoresForward
    <3>5. MetadataNeverAhead'
      BY <3>1, <3>2 DEF MetadataNeverAhead
    <3> QED
      BY <3>1, <3>4, <3>5, DaemonStep DEF RetrievesStored
  <2>2. CASE UploadStore(w) \/ UploadStoreFails(w)
    <3>1. /\ worker[w].phase = "store"
          /\ UNCHANGED <<latest, disk, metadataStore, pendingUploads, todo,
                         uploadCompleteCh, metadataChan, refresher, retrieving>>
          /\ remote' \in {remote, StoredBy(w)}
          /\ \E p \in {"meta", "report"}, n \in {0, v} :
                /\ worker' = [worker EXCEPT ![w] = [phase |-> p, file |-> f, ver |-> n]]
                /\ p = "report" => n = 0
      BY <2>2 DEF UploadStore, UploadStoreFails, WorkerGoes, mainLoop, knowledge, channels,
         background
    <3>2. /\ worker'[w].phase \in {"meta", "report"} /\ worker'[w].file = f
          /\ worker'[w].phase = "report" => worker'[w].ver = 0
          /\ \A x \in Workers \ {w} : worker'[x] = worker[x]
      BY <1>0, <3>1
    <3>3. /\ \A g \in Files \ {f} : remote'[g] = remote[g]
          /\ remote'[f] \in Nat /\ remote[f] <= remote'[f] /\ remote'[f] <= latest[f]
          /\ f \in DataFiles /\ remote'[f] # 0 => remote'[f] = latest[f]
      <4>1. CASE remote' = remote
        BY <1>a, <2>0, <4>1 DEF StoredComplete
      <4>2. CASE remote' = [remote EXCEPT ![f] = v] /\ v # 0
        BY <1>0, <1>a, <2>0, <3>1, <4>2 DEF StoresForward
      <4> QED BY <3>1, <4>1, <4>2 DEF StoredBy
    <3>4. \A g \in Files : remote'[g] \in Nat /\ remote[g] <= remote'[g]
      BY <1>a, <3>3
    <3>5. DiskCurrent'
      BY <1>a, <3>1, <3>3, <3>4 DEF DiskCurrent
    <3>6. StoredComplete' /\ OnlyClosed' /\ RetrievesStored'
      <4>1. \A g \in Files : Closed(g) => Closed(g)'
        BY <3>1, ClosedStays
      <4>2. StoredComplete'
        BY <1>a, <2>0, <3>1, <3>3, <4>1 DEF StoredComplete
      <4>3. OnlyClosed' /\ RetrievesStored'
        BY <1>a, <3>1, <3>4, <4>1 DEF OnlyClosed, RetrievesStored
      <4> QED BY <4>2, <4>3
    <3>7. StoresForward'
      <4> SUFFICES ASSUME NEW x \in Workers, worker'[x].phase = "store", worker'[x].ver # 0
                   PROVE  /\ x # w /\ worker'[x] = worker[x]
                          /\ remote'[worker[x].file] = remote[worker[x].file]
        BY <3>1 DEF StoresForward
      <4>1. x # w /\ worker'[x] = worker[x]
        BY <3>2
      <4>2. worker[x].file \in Files
        BY <1>0, <4>1 DEF TypeOK, WorkerStates
      <4>3. worker[x].file # f
        BY <2>0, <4>1, QuantumDaemonAssumption DEF UploadTracked, SingleUpload
      <4> QED BY <3>3, <4>1, <4>2, <4>3
    <3>8. MetadataNeverAhead'
      <4>1. /\ \A g \in Files : metadataStore[g] \in Nat
            /\ \A i \in DOMAIN metadataChan, g \in Files : metadataChan[i][g] \in Nat
            /\ \A r \in Refreshers, g \in Files : refresher[r].snap[g] \in Nat
            /\ \A i \in DOMAIN uploadCompleteCh :
                  uploadCompleteCh[i].file \in Files /\ uploadCompleteCh[i].ver \in Nat
            /\ \A x \in Workers : worker[x].file \in Files \cup {NoFile} /\ worker[x].ver \in Nat
        <5>1. Metadata \subseteq [Files -> Nat] /\ Versions \subseteq Nat
          BY QuantumDaemonAssumption DEF Metadata, Versions
        <5>2. \A i \in DOMAIN metadataChan : metadataChan[i] \in Metadata
          BY <1>0
        <5>3. \A r \in Refreshers : refresher[r].snap \in Metadata
          BY DEF TypeOK, RefresherStates
        <5>4. \A i \in DOMAIN uploadCompleteCh : uploadCompleteCh[i] \in UploadResults
          BY <1>0
        <5>5. \A x \in Workers : worker[x].file \in Files \cup {NoFile} /\ worker[x].ver \in Versions
          BY <1>0 DEF WorkerStates
        <5> QED
          BY <1>0, <5>1, <5>2, <5>3, <5>4, <5>5 DEF UploadResults
      <4>2. /\ \A g \in Files : metadataStore'[g] <= remote'[g]
            /\ \A i \in DOMAIN metadataChan, g \in Files : metadataChan[i][g] <= remote'[g]
            /\ \A r \in Refreshers, g \in Files : refresher[r].snap[g] <= remote'[g]
        BY <1>a, <3>1, <3>4, <4>1 DEF MetadataNeverAhead
      <4>3. \A i \in DOMAIN uploadCompleteCh :
               uploadCompleteCh[i].ver <= remote'[uploadCompleteCh[i].file]
        BY <1>a, <3>4, <4>1 DEF MetadataNeverAhead
      <4>4. \A x \in Workers : worker'[x].phase = "report" /\ worker'[x].file # NoFile =>
               worker'[x].ver <= remote'[worker'[x].file]
        BY <1>a, <2>0, <3>2, <3>4, <4>1 DEF MetadataNeverAhead
      <4> QED BY <3>1, <4>2, <4>3, <4>4 DEF MetadataNeverAhead
    <3> QED BY <3>5, <3>6, <3>7, <3>8
  <2>3. CASE UploadMetadata(w) \/ UploadMetadataFails(w)
    <3>1. /\ UNCHANGED <<latest, disk, remote, metadataStore, pendingUploads, todo,
                         uploadCompleteCh, metadataChan, refresher, retrieving>>
          /\ \E n \in {0, remote[f]} :
                worker' = [worker EXCEPT ![w] = [phase |-> "report", file |-> f, ver |-> n]]
      BY <2>3 DEF UploadMetadata, UploadMetadataFails, WorkerGoes, mainLoop, knowledge,
         channels, background
    <3>2. /\ worker'[w].phase = "report" /\ worker'[w].file = f
          /\ worker'[w].ver <= remote[f]
          /\ \A x \in Workers \ {w} : worker'[x] = worker[x]
      BY <1>0, <1>a, <2>0, <3>1
    <3> QED
      BY <3>1, <3>2, DaemonStep DEF MetadataNeverAhead, StoresForward, RetrievesStored
  <2>4. CASE UploadReport(w)
    <3> DEFINE r == [file |-> f, ver |-> v]
    <3>1. /\ UNCHANGED <<latest, disk, remote, metadataStore, pendingUploads, todo,
                         metadataChan, refresher, retrieving>>
          /\ worker[w].phase = "report"
          /\ uploadCompleteCh' = Append(uploadCompleteCh, r)
          /\ worker' = [worker EXCEPT ![w] = IdleWorker]
      BY <2>4 DEF UploadReport, storage, mainLoop, knowledge, background
    <3>2. /\ worker'[w].phase = "idle"
          /\ \A x \in Workers \ {w} : worker'[x] = worker[x]
      BY <1>0, <3>1 DEF IdleWorker
    <3>3. r \in UploadResults
      BY <1>0, <2>0 DEF UploadResults, WorkerStates
    <3>4. /\ DOMAIN uploadCompleteCh' = DOMAIN uploadCompleteCh \cup {Len(uploadCompleteCh) + 1}
          /\ \A i \in DOMAIN uploadCompleteCh : uploadCompleteCh'[i] = uploadCompleteCh[i]
          /\ uploadCompleteCh'[Len(uploadCompleteCh) + 1] = r
      BY <1>0, <3>1, <3>3, AppendProperties
    <3>5. v <= remote[f]
      BY <2>0, <3>1, QuantumDaemonAssumption DEF MetadataNeverAhead
    <3>6. MetadataNeverAhead'
      BY <3>1, <3>2, <3>4, <3>5 DEF MetadataNeverAhead
    <3> QED
      BY <3>1, <3>2, <3>6, DaemonStep DEF StoresForward, RetrievesStored
  <2> QED BY <1>9, <2>1, <2>2, <2>3, <2>4 DEF Upload
<1>10. CASE HandleUploadResult
  <2>1. /\ uploadCompleteCh # << >> /\ uploadCompleteCh' = Tail(uploadCompleteCh)
        /\ pendingUploads' \subseteq pendingUploads
        /\ metadataStore' = MetadataAfter(Head(uploadCompleteCh))
        /\ UNCHANGED <<latest, disk, remote, todo, metadataChan, worker, refresher, retrieving>>
    BY <1>10 DEF HandleUploadResult, PendingAfter, storage, mainLoop, uploads, background
  <2>2. /\ Head(uploadCompleteCh) = uploadCompleteCh[1] /\ 1 \in DOMAIN uploadCompleteCh
        /\ \A i \in DOMAIN Tail(uploadCompleteCh) :
              /\ i + 1 \in DOMAIN uploadCompleteCh
              /\ Tail(uploadCompleteCh)[i] = uploadCompleteCh[i + 1]
    BY <1>0, <2>1, HeadTailProperties
  <2>3. \A f \in Files : metadataStore'[f] <= remote[f]
    BY <1>0, <2>1, <2>2 DEF MetadataAfter, MetadataNeverAhead
  <2>4. MetadataNeverAhead'
    BY <2>1, <2>2, <2>3 DEF MetadataNeverAhead
  <2> QED
    BY <2>1, <2>4, DaemonStep DEF StoresForward, RetrievesStored
<1>11. CASE HandleMetadataUpdate
  <2>1. /\ metadataChan # << >> /\ metadataStore' = metadataChan[1] /\ metadataChan' = << >>
        /\ UNCHANGED <<latest, disk, remote, todo, pendingUploads, uploadCompleteCh, worker,
                       refresher, retrieving>>
    BY <1>0, <1>11, HeadTailProperties
    DEF HandleMetadataUpdate, storage, mainLoop, uploads, background
  <2>2. 1 \in DOMAIN metadataChan
    BY <1>0, <2>1
  <2> QED
    BY <2>1, <2>2, DaemonStep DEF MetadataNeverAhead, StoresForward, RetrievesStored
<1>12. ASSUME NEW r \in Refreshers, Refresh(r) PROVE StorageInv'
  <2>1. UNCHANGED <<latest, disk, remote, metadataStore, pendingUploads, todo,
                    uploadCompleteCh, worker, retrieving>>
    BY <1>12 DEF Refresh, RefreshList, RefreshFetch, RefreshFails, RefreshSend,
       RefresherGoes, storage, mainLoop, knowledge, uploads
  <2>2. /\ refresher \in [Refreshers -> RefresherStates]
        /\ \A f \in Files : NoMetadata[f] = 0 /\ Known(refresher[r].files)[f] <= remote[f]
    BY <1>a DEF TypeOK, NoMetadata, Known
  <2>3. /\ \A s \in Refreshers, f \in Files : refresher'[s].snap[f] <= remote[f]
        /\ metadataChan' \in {metadataChan, <<refresher[r].snap>>}
    BY <1>a, <1>12, <2>2 DEF Refresh, RefreshList, RefreshFetch, RefreshFails, RefreshSend,
       RefresherGoes, IdleRefresher, MetadataNeverAhead
  <2>4. MetadataNeverAhead'
    BY <2>1, <2>3 DEF MetadataNeverAhead
  <2> QED
    BY <2>1, <2>4, DaemonStep DEF StoresForward, RetrievesStored
<1>13. ASSUME NEW f \in Files, Zstor(f) PROVE StorageInv'
  <2>1. UNCHANGED <<latest, remote, metadataStore, metadataChan, refresher, uploadCompleteCh,
                    worker, todo, pendingUploads>>
    BY <1>13 DEF Zstor, ZstorEvict, Retrieve, RetrieveFails, RetrieveEnds, HandleMissingData,
       HandleMissingDataFails, MissingDataEnds, mainLoop, knowledge, channels, uploads, background
  <2>2. \A g \in Files : retrieving'[g] > 0 => retrieving[g] > 0
    BY <1>13 DEF Zstor, ZstorEvict, Retrieve, RetrieveFails, RetrieveEnds, HandleMissingData,
       HandleMissingDataFails, MissingDataEnds, background, TypeOK
  <2>3. CASE disk' = disk
    BY <2>1, <2>2, <2>3, DaemonStep DEF MetadataNeverAhead, StoresForward, RetrievesStored
  <2>4. CASE f \in DataFiles /\ remote[f] # 0 /\ disk' \in {[disk EXCEPT ![f] = 0],
                                                          [disk EXCEPT ![f] = remote[f]]}
    <3>1. remote[f] = latest[f]
      BY <2>4 DEF StoredComplete
    <3>2. /\ \A g \in Files \ {f} : disk'[g] = disk[g]
          /\ disk'[f] \in {0, latest[f]}
      BY <1>0, <2>4, <3>1
    <3>3. DiskCurrent'
      BY <2>1, <2>4, <3>1, <3>2 DEF DiskCurrent
    <3>4. StoredComplete' /\ OnlyClosed'
      BY <1>a, <2>1, ClosedStays DEF StoredComplete, OnlyClosed
    <3> QED
      BY <2>1, <2>2, <3>3, <3>4 DEF MetadataNeverAhead, StoresForward, RetrievesStored
  <2>5. CASE Retrieve(f) \/ HandleMissingData(f)
    <3>1. f \in DataFiles /\ remote[f] # 0 /\ disk' = [disk EXCEPT ![f] = remote[f]]
      BY <2>5 DEF Retrieve, RetrieveEnds, HandleMissingData, MissingDataEnds, RetrievesStored, TypeOK
    <3> QED BY <2>4, <3>1
  <2>6. CASE ZstorEvict(f)
    BY <2>4, <2>6 DEF ZstorEvict
  <2>7. CASE RetrieveFails(f) \/ HandleMissingDataFails(f)
    BY <2>3, <2>7 DEF RetrieveFails, HandleMissingDataFails
  <2> QED BY <1>13, <2>5, <2>6, <2>7 DEF Zstor
<1>14. CASE \/ BootFails \/ RetryTick \/ HandleRetryFails \/ UploadFileSend \/ RetryDone
            \/ (\E f \in Files : MissingData(f)) \/ UNCHANGED vars
  <2>1. UNCHANGED <<latest, disk, remote, metadataStore, pendingUploads, todo,
                    uploadCompleteCh, metadataChan, worker, refresher, retrieving>>
    BY <1>14 DEF BootFails, RetryTick, HandleRetryFails, TakeRetry, UploadFileSend, RetryDone,
       MissingData, vars, storage, process, mainLoop, knowledge, channels, uploads, background
  <2> QED
    BY <2>1, DaemonStep DEF MetadataNeverAhead, StoresForward, RetrievesStored
<1> QED
  BY <1>1, <1>2, <1>4, <1>5, <1>6, <1>7, <1>8, <1>9, <1>10, <1>11, <1>12, <1>13, <1>14
  DEF Next, Zdb, Process, MainLoop, Select

\* The inductive invariant.
THEOREM Invariance == Spec => []IInv
<1>1. Init => IInv
  BY TypeInit, TrackedInit, StorageInit DEF IInv, StorageInv
<1>2. IInv /\ [Next]_vars => IInv'
  BY TypeNext, TrackedNext, StorageNext DEF IInv, StorageInv
<1> QED
  BY <1>1, <1>2, PTL DEF Spec

\* The daemon never believes more to be stored than is.
THEOREM NeverAhead == Spec => []MetadataNeverAhead
<1>1. IInv => MetadataNeverAhead
  BY DEF IInv
<1> QED
  BY <1>1, Invariance, PTL

\* The latest content of every file is on the disk or in the backends.
THEOREM DataIsSafe == Spec => []NoDataLoss
<1>1. IInv => NoDataLoss
  BY DEF IInv, DiskCurrent, NoDataLoss
<1> QED
  BY <1>1, Invariance, PTL

-----------------------------------------------------------------------------
(***************************************************************************)
(* The daemon with its environment implements SegmentBackup.               *)
(***************************************************************************)
LEMMA ContractFiles ==
    /\ Contract!Files = Files
    /\ Contract!DataFiles = DataFiles
    /\ Contract!Fresh = Fresh
    /\ \A f : Contract!Closed(f) <=> Closed(f)
BY DEF Contract!Files, Files, Contract!Segments, Segments, Contract!NamespaceFiles,
   NamespaceFiles, Contract!DataFiles, DataFiles, Contract!Dirs, Dirs, Contract!Nums, Nums,
   Contract!Fresh, Fresh, Contract!Closed, Closed, Contract!Above, Above

LEMMA StepImplements == IInv /\ [Next]_vars => [Contract!Next]_(Contract!svars)
<1> SUFFICES ASSUME IInv, [Next]_vars, ~ UNCHANGED <<latest, disk, remote>>
             PROVE  Contract!Next
  BY DEF Contract!svars
<1>0. /\ latest \in [Files -> Nat] /\ disk \in [Files -> Nat] /\ remote \in [Files -> Nat]
      /\ \A f \in Files : latest[f] \in Nat /\ disk[f] \in Nat /\ remote[f] \in Nat
      /\ \A f \in DataFiles : f \in Files
  BY QuantumDaemonAssumption, FilesFacts DEF IInv, TypeOK, Versions
<1> USE ContractFiles
<1>1. ASSUME NEW f \in Files, ZdbWrite(f) PROVE Contract!Next
  <2>1. Contract!Write(f)
    BY <1>0, <1>1 DEF ZdbWrite, Contract!Write
  <2> QED BY <2>1 DEF Contract!Next
<1>2. ASSUME NEW f \in Files, ZdbRotate(f) PROVE Contract!Next
  <2> DEFINE next == <<f[1], f[2] + 1>>
  <2>1. /\ f \in Segments /\ f[2] < MaxNum /\ ~ Closed(f)
        /\ latest' = [latest EXCEPT ![next] = 1]
        /\ disk' = [disk EXCEPT ![next] = 1]
        /\ remote' = remote
    BY <1>2 DEF ZdbRotate
  <2>2. next \in Files /\ next \in Above(f) /\ Above(next) \subseteq Above(f)
    BY <2>1, ZdbFilesAssumption, FilesFacts DEF Segments, Nums, Above
  <2>3. latest[next] = 0 /\ ~ Closed(next)
    BY <2>1, <2>2 DEF Closed
  <2> HIDE DEF next
  <2>4. Contract!Write(next)
    BY <1>0, <2>1, <2>2, <2>3 DEF Contract!Write
  <2> QED BY <2>2, <2>4 DEF Contract!Next
<1>3. ASSUME NEW f \in Files, Zstor(f) PROVE Contract!Next
  <2>1. latest' = latest /\ remote' = remote /\ disk' # disk
    BY <1>3 DEF Zstor, ZstorEvict, Retrieve, RetrieveFails, RetrieveEnds, HandleMissingData,
       HandleMissingDataFails, MissingDataEnds
  <2>2. CASE ZstorEvict(f)
    <3>1. Contract!Free(f)
      BY <1>0, <2>1, <2>2 DEF ZstorEvict, Contract!Free, IInv, StoredComplete
    <3> QED BY <3>1 DEF Contract!Next
  <2>3. CASE Retrieve(f) \/ HandleMissingData(f)
    <3>1. f \in DataFiles /\ remote[f] # 0 /\ disk' = [disk EXCEPT ![f] = remote[f]]
      BY <2>3 DEF Retrieve, RetrieveEnds, HandleMissingData, MissingDataEnds, IInv,
         RetrievesStored, TypeOK
    <3>2. remote[f] = latest[f] /\ disk[f] \in {0, latest[f]}
      BY <1>0, <3>1 DEF IInv, StoredComplete, DiskCurrent
    <3>3. disk[f] = 0
      BY <1>0, <2>1, <3>1, <3>2
    <3>4. Contract!Fetch(f)
      BY <2>1, <3>1, <3>3 DEF Contract!Fetch
    <3> QED BY <3>4 DEF Contract!Next
  <2> QED
    BY <1>3, <2>1, <2>2, <2>3 DEF Zstor, RetrieveFails, HandleMissingDataFails
<1>4. ASSUME NEW w \in Workers, Upload(w) PROVE Contract!Next
  <2> DEFINE f == worker[w].file
             v == worker[w].ver
  <2>1. latest' = latest /\ disk' = disk /\ remote' # remote
    BY <1>4 DEF Upload, UploadRead, UploadStore, UploadStoreFails, UploadMetadata,
       UploadMetadataFails, UploadReport, WorkerGoes, storage
  <2>2. UploadStore(w) \/ UploadStoreFails(w)
    BY <1>4, <2>1 DEF Upload, UploadRead, UploadMetadata, UploadMetadataFails, UploadReport, storage
  <2>3. /\ worker[w].phase = "store" /\ v # 0
        /\ remote' = [remote EXCEPT ![f] = v]
    BY <2>1, <2>2 DEF UploadStore, UploadStoreFails, WorkerGoes, StoredBy
  <2>4. f \in Files /\ v \in Nat /\ f \in pendingUploads
    BY <2>3, QuantumDaemonAssumption
    DEF IInv, TypeOK, WorkerStates, Versions, UploadTracked, PendingExact, Uploading
  <2>5. v \in (remote[f] + 1)..latest[f]
    BY <1>0, <2>1, <2>3, <2>4 DEF IInv, StoresForward
  <2>6. f \in DataFiles => Closed(f) /\ v = latest[f]
    BY <2>3, <2>4 DEF IInv, StoresForward, OnlyClosed
  <2> HIDE DEF f, v
  <2>7. Contract!Backup(f)
    BY <2>1, <2>3, <2>5, <2>6 DEF Contract!Backup
  <2> QED BY <2>4, <2>7 DEF Contract!Next
<1>5. CASE \/ Process \/ RetryTick \/ MainLoop
           \/ (\E f \in Files : MissingData(f))
           \/ (\E r \in Refreshers : Refresh(r)) \/ UNCHANGED vars
  <2>1. UNCHANGED storage
    BY <1>5 DEF Process, Boot, BootFails, Crash, RetryTick, MainLoop, Select, HandleRetry,
       HandleRetryFails, TakeRetry, HandleUploadResult, HandleMetadataUpdate,
       HandleUploadRequest, CheckFile, RetrySkip, RetryRetrieve, RetryUpload, Iteration,
       UploadFileSend, RetryDone, MissingData, Refresh, RefreshList, RefreshFetch,
       RefreshFails, RefreshSend, RefresherGoes, vars
  <2> QED BY <2>1 DEF storage
<1> QED
  BY <1>1, <1>2, <1>3, <1>4, <1>5 DEF Next, Zdb

\* Every behaviour of the daemon and its environment is one of SegmentBackup.
THEOREM Refinement == Spec => Implements
<1>1. Init => Contract!Init
  BY ContractFiles DEF Init, Contract!Init, NoMetadata
<1>2. IInv /\ [Next]_vars => [Contract!Next]_(Contract!svars)
  BY StepImplements
<1> QED
  BY <1>1, <1>2, Invariance, PTL DEF Spec, Implements, Contract!Spec

-----------------------------------------------------------------------------
(***************************************************************************)
(* What SegmentBackup guarantees therefore holds of the daemon.            *)
(***************************************************************************)
Promise == INSTANCE SegmentBackup_proofs
               WITH latest <- latest, disk <- disk, remote <- remote

\* The two instances of SegmentBackup are the same specification.
LEMMA SamePromise ==
    /\ Contract!Spec => Promise!Spec
    /\ Promise!OnlyForward => Contract!OnlyForward
    /\ Promise!ReadsLatest => Contract!ReadsLatest
<1>1. /\ Promise!Files = Contract!Files
      /\ Promise!DataFiles = Contract!DataFiles
      /\ Promise!Fresh = Contract!Fresh
  BY DEF Contract!Files, Promise!Files, Contract!Segments, Promise!Segments,
     Contract!NamespaceFiles, Promise!NamespaceFiles, Contract!DataFiles, Promise!DataFiles,
     Contract!Dirs, Promise!Dirs, Contract!Nums, Promise!Nums, Contract!Fresh, Promise!Fresh
<1>2. \A f : Contract!Closed(f) <=> Promise!Closed(f)
  BY DEF Contract!Closed, Promise!Closed, Contract!Above, Promise!Above, Contract!Segments,
     Promise!Segments, Contract!Dirs, Promise!Dirs, Contract!Nums, Promise!Nums
<1>3. Contract!Init => Promise!Init
  BY <1>1 DEF Contract!Init, Promise!Init
<1>4. [Contract!Next]_(Contract!svars) => [Promise!Next]_(Promise!svars)
  BY <1>1, <1>2 DEF Contract!Next, Promise!Next, Contract!Write, Promise!Write,
     Contract!Backup, Promise!Backup, Contract!Free, Promise!Free, Contract!Fetch,
     Promise!Fetch, Contract!svars, Promise!svars
<1>5. Promise!ReadsLatest => Contract!ReadsLatest
  BY <1>1 DEF Promise!ReadsLatest, Contract!ReadsLatest
<1>6. [/\ \A f \in Promise!Files : remote'[f] >= remote[f]
       /\ \A f \in Promise!DataFiles :
             remote[f] # 0 => remote'[f] = remote[f] /\ latest'[f] = latest[f]]_(Promise!svars)
      => [/\ \A f \in Contract!Files : remote'[f] >= remote[f]
          /\ \A f \in Contract!DataFiles :
                remote[f] # 0 => remote'[f] = remote[f] /\ latest'[f] = latest[f]]_(Contract!svars)
  BY <1>1 DEF Promise!svars, Contract!svars
<1> QED
  BY <1>3, <1>4, <1>5, <1>6, PTL
     DEF Contract!Spec, Promise!Spec, Promise!OnlyForward, Contract!OnlyForward

\* Whatever crashes, is overtaken or is retried, the backends never go back
\* to an older version of a file, and a data segment that they hold is never
\* stored or written again.
THEOREM NeverBack == Spec => Contract!OnlyForward
<1>1. Promise!Spec => Promise!OnlyForward
  BY Promise!GoesForward, ZdbFilesAssumption DEF Nums, Promise!Nums
<1> QED
  BY Refinement, SamePromise, <1>1, PTL DEF Implements

\* 0-db never reads an old version of a file from the disk.
THEOREM ReadsLatestContent == Spec => []Contract!ReadsLatest
<1>1. Promise!Spec => []Promise!ReadsLatest
  BY Promise!ReadsAreCurrent, ZdbFilesAssumption DEF Nums, Promise!Nums
<1>2. []Promise!ReadsLatest => []Contract!ReadsLatest
  BY SamePromise, PTL
<1> QED
  BY Refinement, SamePromise, <1>1, <1>2, PTL DEF Implements
=============================================================================
