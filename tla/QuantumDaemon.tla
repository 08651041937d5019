--------------------------- MODULE QuantumDaemon ----------------------------
(***************************************************************************)
(* The quantumd daemon (internal/daemon/daemon.go) with the programs it    *)
(* works against: 0-db, which writes the files; zstor, which stores them   *)
(* in the backends, retrieves them and frees local space.                  *)
(*                                                                         *)
(* The daemon is a main loop that selects on five channels and the         *)
(* goroutines that feed them: the retry ticker, one goroutine per upload,  *)
(* per retrieval and per metadata refresh, and the hook handler.  Only the *)
(* main loop touches metadataStore and pendingUploads here (the scraper,   *)
(* which reads metadataStore for the gauges, is not part of this module).  *)
(* All of it is memory, lost when the process ends.                        *)
(*                                                                         *)
(* Content is a version number (see SegmentBackup).  A checksum in the     *)
(* metadata of zstor is the version that was stored; no entry is 0.        *)
(***************************************************************************)
EXTENDS ZdbFiles, Sequences, Functions

CONSTANTS
    QueueCap,           \* capacity of the upload channels, 100 in NewDaemon
    NoFile,             \* no file
    Workers,            \* bound: upload goroutines at any one time
    Refreshers,         \* bound: refresh goroutines at any one time
    MaxVersion,         \* bound: changes of one file
    MaxCrashes,         \* bound: ends of the daemon process
    MaxRetrieves,       \* bound: background retrievals of one file at a time
    ReadAgain           \* bound: freed data segments that 0-db reads

ASSUME QuantumDaemonAssumption ==
    /\ QueueCap \in Nat \ {0}
    /\ NoFile \notin Files
    /\ MaxVersion \in Nat \ {0}
    /\ MaxCrashes \in Nat
    /\ MaxRetrieves \in Nat
    /\ ReadAgain \subseteq DataFiles

VARIABLES
    latest,             \* ghost: the version of each file that 0-db wrote
    disk,               \* the version on the local disk, 0 when absent
    remote,             \* the version in the backends, 0 when none
    daemon,             \* the process: down, running, or stalled in Run
    crashes,            \* ends of the process so far
    mainPc,             \* where the main loop is
    todo,               \* files handleRetry has still to check
    current,            \* file whose upload request is being sent
    metadataStore,      \* the daemon's view of what is stored
    pendingUploads,     \* files marked as having an upload in flight
    retryChan,          \* number of messages in retryChan
    uploadRequestCh,
    uploadCompleteCh,
    metadataChan,
    worker,             \* the upload goroutines
    refresher,          \* the metadata refresh goroutines
    retrieving,         \* background retrievals the retry loop started
    wanted              \* data segments the hook missing-data is fetching

storage == <<latest, disk, remote>>
process == <<daemon, crashes>>
mainLoop == <<mainPc, todo, current>>
knowledge == <<metadataStore, pendingUploads>>
channels == <<retryChan, uploadRequestCh, uploadCompleteCh, metadataChan>>
uploads == <<worker>>
background == <<refresher, retrieving, wanted>>
vars == <<storage, process, mainLoop, knowledge, channels, uploads, background>>

Versions == 0..MaxVersion
Metadata == [Files -> Versions]
NoMetadata == [f \in Files |-> 0]
UploadResults == [file : Files, ver : Versions]   \* ver = 0 is an error

IdleWorker == [phase |-> "idle", file |-> NoFile, ver |-> 0]
IdleRefresher == [phase |-> "idle", files |-> {}, snap |-> NoMetadata]

WorkerStates ==
    [phase : {"idle", "read", "store", "meta", "report"},
     file : Files \cup {NoFile}, ver : Versions]
RefresherStates ==
    [phase : {"idle", "listed", "fetched"},
     files : SUBSET Files, snap : Metadata]

-----------------------------------------------------------------------------
Present == {f \in Files : disk[f] # 0}

Fresh == [f \in Files |-> IF f[2] \in {0, NsFile} THEN 1 ELSE 0]

\* A segment is closed once 0-db has started a later one.
Closed(f) == \E g \in Above(f) : latest[g] # 0

(***************************************************************************)
(* Initially 0-db has opened its namespaces and the daemon is not running. *)
(***************************************************************************)
Init ==
    /\ latest = Fresh
    /\ disk = Fresh
    /\ remote = NoMetadata
    /\ daemon = "down"
    /\ crashes = 0
    /\ mainPc = "select"
    /\ todo = {}
    /\ current = NoFile
    /\ metadataStore = NoMetadata
    /\ pendingUploads = {}
    /\ retryChan = 0
    /\ uploadRequestCh = << >>
    /\ uploadCompleteCh = << >>
    /\ metadataChan = << >>
    /\ worker = [w \in Workers |-> IdleWorker]
    /\ refresher = [r \in Refreshers |-> IdleRefresher]
    /\ retrieving = [f \in Files |-> 0]
    /\ wanted = {}

-----------------------------------------------------------------------------
(***************************************************************************)
(* 0-db and zstor, on the disk.                                            *)
(***************************************************************************)

\* 0-db appends to an active segment, or changes an index file.
ZdbWrite(f) ==
    /\ disk[f] # 0
    /\ f \in DataFiles => ~ Closed(f)
    /\ latest[f] < MaxVersion
    /\ latest' = [latest EXCEPT ![f] = @ + 1]
    /\ disk' = [disk EXCEPT ![f] = latest[f] + 1]
    /\ UNCHANGED <<remote, process, mainLoop, knowledge, channels, uploads,
                   background>>

\* 0-db closes the active segment f and starts the next one.
ZdbRotate(f) ==
    /\ f \in Segments
    /\ f[2] < MaxNum
    /\ latest[f] # 0
    /\ ~ Closed(f)
    /\ LET next == <<f[1], f[2] + 1>>
       IN  /\ latest' = [latest EXCEPT ![next] = 1]
           /\ disk' = [disk EXCEPT ![next] = 1]
    /\ UNCHANGED <<remote, process, mainLoop, knowledge, channels, uploads,
                   background>>

\* zstor frees the local copy of a data file that has been stored.
ZstorEvict(f) ==
    /\ f \in DataFiles
    /\ disk[f] # 0
    /\ remote[f] # 0
    /\ disk' = [disk EXCEPT ![f] = 0]
    /\ UNCHANGED <<latest, remote, process, mainLoop, knowledge, channels,
                   uploads, background>>

-----------------------------------------------------------------------------
(***************************************************************************)
(* Start and end of the process.                                           *)
(***************************************************************************)

\* GetAllMetadata and AssignFilenamesToMetadata: the metadata that can be
\* looked up by path; an entry of a file not listed keeps its hash as key.
Known(files) == [f \in Files |-> IF f \in files THEN remote[f] ELSE 0]

\* What the daemon knows once it has refreshed its metadata.
RefreshMetadata == Known(Eligible(Present))

\* Init, then Run.  The refresh precedes every goroutine, and nothing of a
\* former daemon reaches the backends any more (see Crash), so it is one step.
Boot ==
    /\ daemon = "down"
    /\ daemon' = "running"
    /\ metadataStore' = RefreshMetadata
    /\ UNCHANGED <<storage, crashes, mainLoop, pendingUploads, channels,
                   uploads, background>>

\* The refresh fails, and Init returns before it starts a goroutine; its error
\* is dropped and Run selects on channels nobody sends to.
BootFails ==
    /\ daemon = "down"
    /\ daemon' = "stalled"
    /\ UNCHANGED <<storage, crashes, mainLoop, knowledge, channels, uploads,
                   background>>

\* The process ends: log.Fatalf, a runtime error, a signal.  External: the
\* zstor commands of its goroutines end with it, and a store that the zstor
\* service has taken from one is done, or will never be, by then.
Crash ==
    /\ daemon # "down"
    /\ crashes < MaxCrashes
    /\ crashes' = crashes + 1
    /\ daemon' = "down"
    /\ mainPc' = "select"
    /\ todo' = {}
    /\ current' = NoFile
    /\ metadataStore' = NoMetadata
    /\ pendingUploads' = {}
    /\ retryChan' = 0
    /\ uploadRequestCh' = << >>
    /\ uploadCompleteCh' = << >>
    /\ metadataChan' = << >>
    /\ worker' = [w \in Workers |-> IdleWorker]
    /\ refresher' = [r \in Refreshers |-> IdleRefresher]
    /\ retrieving' = [f \in Files |-> 0]
    /\ wanted' = {}
    /\ UNCHANGED storage

-----------------------------------------------------------------------------
(***************************************************************************)
(* The retry ticker and the retry cycle of the main loop.  The files of a  *)
(* cycle are a set: every order of checking them is allowed.               *)
(***************************************************************************)

\* Mutant: the ticker does not wait for room in the channel.
TickAlways == daemon = "running"

TickReady == daemon = "running" /\ retryChan = 0

\* StartRetryLoop: the first send and every tick.
RetryTick ==
    /\ TickReady
    /\ retryChan' = retryChan + 1
    /\ UNCHANGED <<storage, process, mainLoop, knowledge, uploadRequestCh,
                   uploadCompleteCh, metadataChan, uploads, background>>

TakeRetry ==
    /\ mainPc = "select"
    /\ retryChan > 0
    /\ retryChan' = retryChan - 1
    /\ UNCHANGED <<storage, process, current, knowledge, uploadRequestCh,
                   uploadCompleteCh, metadataChan, uploads, background>>

\* handleRetry lists the eligible files.
HandleRetry ==
    /\ TakeRetry
    /\ mainPc' = "retry"
    /\ todo' = Eligible(Present)

\* A directory cannot be read: the cycle is over.
HandleRetryFails == TakeRetry /\ UNCHANGED <<mainPc, todo>>

\* One iteration of the loop over the eligible files.
Iteration(f) ==
    /\ mainPc = "retry"
    /\ f \in todo
    /\ todo' = todo \ {f}
    /\ UNCHANGED <<storage, process, metadataStore, channels, uploads>>

\* Mutant: a pending upload does not stop a second one.
NeverPending(f) == FALSE

isUploadPending(f) == f \in pendingUploads

\* An upload is pending, the file is in neither place, or it is in both and
\* the hashes are equal (or GetLocalHash returned nil).
RetrySkip(f) ==
    /\ Iteration(f)
    /\ \/ isUploadPending(f)
       \/ (disk[f] = 0) = (metadataStore[f] = 0)
    /\ UNCHANGED <<mainPc, current, pendingUploads, background>>

\* Missing locally and known to be stored: a goroutine retrieves it.
RetryRetrieve(f) ==
    /\ Iteration(f)
    /\ ~ isUploadPending(f)
    /\ disk[f] = 0
    /\ metadataStore[f] # 0
    /\ retrieving' = IF retrieving[f] < MaxRetrieves
                     THEN [retrieving EXCEPT ![f] = @ + 1]
                     ELSE retrieving
    /\ UNCHANGED <<mainPc, current, pendingUploads, refresher, wanted>>

\* No metadata, or a checksum that is not that of the local file:
\* uploadFile marks the upload as pending and sends the request.
RetryUpload(f) ==
    /\ Iteration(f)
    /\ ~ isUploadPending(f)
    /\ disk[f] # 0
    /\ metadataStore[f] # disk[f]
    /\ pendingUploads' = pendingUploads \cup {f}
    /\ mainPc' = "send"
    /\ current' = f
    /\ UNCHANGED background

\* The send blocks while the channel is full.
UploadFileSend ==
    /\ mainPc = "send"
    /\ Len(uploadRequestCh) < QueueCap
    /\ uploadRequestCh' = Append(uploadRequestCh, current)
    /\ mainPc' = "retry"
    /\ current' = NoFile
    /\ UNCHANGED <<storage, process, todo, knowledge, retryChan,
                   uploadCompleteCh, metadataChan, uploads, background>>

RetryDone ==
    /\ mainPc = "retry"
    /\ todo = {}
    /\ mainPc' = "select"
    /\ UNCHANGED <<storage, process, todo, current, knowledge, channels,
                   uploads, background>>

-----------------------------------------------------------------------------
(***************************************************************************)
(* Uploads: the main loop starts a goroutine for a request, the goroutine  *)
(* stores the file and asks for its metadata, the main loop records it.    *)
(***************************************************************************)

HandleUploadRequest(w) ==
    /\ mainPc = "select"
    /\ uploadRequestCh # << >>
    /\ worker[w].phase = "idle"
    /\ worker' = [worker EXCEPT ![w] =
                    [phase |-> "read", file |-> Head(uploadRequestCh), ver |-> 0]]
    /\ uploadRequestCh' = Tail(uploadRequestCh)
    /\ UNCHANGED <<storage, process, mainLoop, knowledge, retryChan,
                   uploadCompleteCh, metadataChan, background>>

\* The goroutine of w goes on to a phase with a version.
WorkerGoes(w, from, to, ver) ==
    /\ worker[w].phase = from
    /\ worker' = [worker EXCEPT ![w] =
                    [phase |-> to, file |-> worker[w].file, ver |-> ver]]
    /\ UNCHANGED <<latest, disk, process, mainLoop, knowledge, channels,
                   background>>

\* StoreBatch copies an index file to a temporary directory; zstor opens a
\* data file.  A file that is not there is not an error and is not stored.
UploadRead(w) ==
    /\ WorkerGoes(w, "read", "store", disk[worker[w].file])
    /\ UNCHANGED remote

StoredBy(w) ==
    IF worker[w].ver = 0 THEN remote
                         ELSE [remote EXCEPT ![worker[w].file] = worker[w].ver]

UploadStore(w) ==
    /\ WorkerGoes(w, "store", "meta", worker[w].ver)
    /\ remote' = StoredBy(w)

\* The copy or the zstor command fails, before or after it had its effect.
UploadStoreFails(w) ==
    /\ WorkerGoes(w, "store", "report", 0)
    /\ remote' \in {remote, StoredBy(w)}

\* GetMetadata reads what the backends hold.
UploadMetadata(w) ==
    /\ WorkerGoes(w, "meta", "report", remote[worker[w].file])
    /\ remote[worker[w].file] # 0
    /\ UNCHANGED remote

UploadMetadataFails(w) ==
    /\ WorkerGoes(w, "meta", "report", 0)
    /\ UNCHANGED remote

UploadReport(w) ==
    /\ worker[w].phase = "report"
    /\ Len(uploadCompleteCh) < QueueCap
    /\ uploadCompleteCh' = Append(uploadCompleteCh,
                              [file |-> worker[w].file, ver |-> worker[w].ver])
    /\ worker' = [worker EXCEPT ![w] = IdleWorker]
    /\ UNCHANGED <<storage, process, mainLoop, knowledge, retryChan,
                   uploadRequestCh, metadataChan, background>>

\* Mutant: the mark stays when the upload failed.
PendingUnlessFailed(result) ==
    IF result.ver = 0 THEN pendingUploads ELSE pendingUploads \ {result.file}

\* Mutant: the mark is never removed.
PendingForever(result) == pendingUploads

PendingAfter(result) == pendingUploads \ {result.file}

\* Mutant: the hash of the local file is recorded as the stored one.
MetadataFromDisk(result) ==
    [metadataStore EXCEPT ![result.file] = disk[result.file]]

MetadataAfter(result) ==
    IF result.ver = 0 THEN metadataStore
                      ELSE [metadataStore EXCEPT ![result.file] = result.ver]

HandleUploadResult ==
    /\ mainPc = "select"
    /\ uploadCompleteCh # << >>
    /\ pendingUploads' = PendingAfter(Head(uploadCompleteCh))
    /\ metadataStore' = MetadataAfter(Head(uploadCompleteCh))
    /\ uploadCompleteCh' = Tail(uploadCompleteCh)
    /\ UNCHANGED <<storage, process, mainLoop, retryChan, uploadRequestCh,
                   metadataChan, uploads, background>>

-----------------------------------------------------------------------------
(***************************************************************************)
(* Metadata refresh: a goroutine per tick lists the eligible files,        *)
(* fetches all metadata and sends what it found, which replaces the store. *)
(***************************************************************************)

RefresherGoes(r, from, to) ==
    /\ refresher[r].phase = from
    /\ refresher' = [refresher EXCEPT ![r] = to]
    /\ UNCHANGED <<storage, process, mainLoop, knowledge, retryChan,
                   uploadRequestCh, uploadCompleteCh, uploads, retrieving,
                   wanted>>

RefreshList(r) ==
    /\ daemon = "running"
    /\ RefresherGoes(r, "idle",
          [phase |-> "listed", files |-> Eligible(Present), snap |-> NoMetadata])
    /\ UNCHANGED metadataChan

RefreshFetch(r) ==
    /\ RefresherGoes(r, "listed",
          [phase |-> "fetched", files |-> {}, snap |-> Known(refresher[r].files)])
    /\ UNCHANGED metadataChan

RefreshFails(r) ==
    /\ RefresherGoes(r, "listed", IdleRefresher)
    /\ UNCHANGED metadataChan

RefreshSend(r) ==
    /\ metadataChan = << >>
    /\ metadataChan' = <<refresher[r].snap>>
    /\ RefresherGoes(r, "fetched", IdleRefresher)

HandleMetadataUpdate ==
    /\ mainPc = "select"
    /\ metadataChan # << >>
    /\ metadataStore' = Head(metadataChan)
    /\ metadataChan' = << >>
    /\ UNCHANGED <<storage, process, mainLoop, pendingUploads, retryChan,
                   uploadRequestCh, uploadCompleteCh, uploads, background>>

-----------------------------------------------------------------------------
(***************************************************************************)
(* Retrievals, by the retry cycle and by the hook missing-data.            *)
(***************************************************************************)

RetrieveEnds(f) ==
    /\ retrieving[f] > 0
    /\ retrieving' = [retrieving EXCEPT ![f] = @ - 1]
    /\ UNCHANGED <<latest, remote, process, mainLoop, knowledge, channels,
                   uploads, refresher, wanted>>

Retrieve(f) ==
    /\ RetrieveEnds(f)
    /\ remote[f] # 0
    /\ disk' = [disk EXCEPT ![f] = remote[f]]

RetrieveFails(f) == RetrieveEnds(f) /\ UNCHANGED disk

\* 0-db needs a data segment that is not on the disk and waits for the hook.
MissingData(f) ==
    /\ daemon = "running"
    /\ f \in ReadAgain
    /\ latest[f] # 0
    /\ disk[f] = 0
    /\ f \notin wanted
    /\ wanted' = wanted \cup {f}
    /\ UNCHANGED <<storage, process, mainLoop, knowledge, channels, uploads,
                   refresher, retrieving>>

MissingDataEnds(f) ==
    /\ f \in wanted
    /\ wanted' = wanted \ {f}
    /\ UNCHANGED <<latest, remote, process, mainLoop, knowledge, channels,
                   uploads, refresher, retrieving>>

HandleMissingData(f) ==
    /\ MissingDataEnds(f)
    /\ remote[f] # 0
    /\ disk' = [disk EXCEPT ![f] = remote[f]]

HandleMissingDataFails(f) == MissingDataEnds(f) /\ UNCHANGED disk

-----------------------------------------------------------------------------
Zdb(f) == ZdbWrite(f) \/ ZdbRotate(f) \/ MissingData(f)

Zstor(f) ==
    \/ ZstorEvict(f)
    \/ Retrieve(f) \/ RetrieveFails(f)
    \/ HandleMissingData(f) \/ HandleMissingDataFails(f)

Process == Boot \/ BootFails \/ Crash

\* The main loop, by the value of mainPc.
Select ==
    \/ HandleRetry \/ HandleRetryFails
    \/ HandleUploadResult \/ HandleMetadataUpdate
    \/ \E w \in Workers : HandleUploadRequest(w)

CheckFile(f) == RetrySkip(f) \/ RetryRetrieve(f) \/ RetryUpload(f)

MainLoop ==
    \/ Select
    \/ \E f \in Files : CheckFile(f)
    \/ UploadFileSend \/ RetryDone

Upload(w) ==
    \/ UploadRead(w)
    \/ UploadStore(w) \/ UploadStoreFails(w)
    \/ UploadMetadata(w) \/ UploadMetadataFails(w)
    \/ UploadReport(w)

Refresh(r) ==
    RefreshList(r) \/ RefreshFetch(r) \/ RefreshFails(r) \/ RefreshSend(r)

Next ==
    \/ \E f \in Files : Zdb(f) \/ Zstor(f)
    \/ Process
    \/ RetryTick
    \/ MainLoop
    \/ \E w \in Workers : Upload(w)
    \/ \E r \in Refreshers : Refresh(r)

Spec == Init /\ [][Next]_vars

(***************************************************************************)
(* Fairness.  The service manager restarts the daemon, goroutines and      *)
(* tickers run, and calls of zstor return.  Select takes a case at random  *)
(* among those that are ready, so none is passed over for ever (SF); the   *)
(* cases of one upload share one constraint, which is weaker.  A directory *)
(* listing, a hash, a store and a metadata query of one file do not fail   *)
(* for ever (SF).  Nothing is assumed of 0-db, of zstor's evictions, of    *)
(* retrievals, that the first refresh, in Init, succeeds (BootFails), or   *)
(* that a later one ever starts or succeeds.                               *)
(***************************************************************************)
StoresFile(f) ==
    \E w \in Workers :
        /\ worker[w].file = f
        /\ UploadStore(w)

LearnsMetadata(f) ==
    \E w \in Workers :
        /\ worker[w].file = f
        /\ UploadMetadata(w)

HandleUpload ==
    HandleUploadResult \/ \E w \in Workers : HandleUploadRequest(w)

Fairness ==
    /\ WF_vars(Boot)
    /\ WF_vars(RetryTick)
    /\ SF_vars(HandleRetry)
    /\ SF_vars(HandleUpload)
    /\ SF_vars(HandleMetadataUpdate)
    /\ WF_vars(UploadFileSend)
    /\ WF_vars(RetryDone)
    /\ \A w \in Workers : WF_vars(Upload(w))
    /\ \A r \in Refreshers : WF_vars(RefreshFetch(r) \/ RefreshFails(r) \/ RefreshSend(r))
    /\ \A f \in Files :
          /\ WF_vars(CheckFile(f))
          /\ SF_vars(RetryUpload(f))
          /\ SF_vars(StoresFile(f))
          /\ SF_vars(LearnsMetadata(f))

FairSpec == Spec /\ Fairness

-----------------------------------------------------------------------------
(***************************************************************************)
(* Properties.                                                             *)
(***************************************************************************)

\* Every variable has its type; no channel holds more than its capacity.
TypeOK ==
    /\ latest \in [Files -> Versions]
    /\ disk \in [Files -> Versions]
    /\ remote \in [Files -> Versions]
    /\ daemon \in {"down", "running", "stalled"}
    /\ crashes \in 0..MaxCrashes
    /\ mainPc \in {"select", "retry", "send"}
    /\ todo \subseteq Files
    /\ current \in Files \cup {NoFile}
    /\ mainPc = "send" <=> current # NoFile
    /\ metadataStore \in Metadata
    /\ pendingUploads \subseteq Files
    /\ retryChan \in 0..1
    /\ uploadRequestCh \in Seq(Files)
    /\ Len(uploadRequestCh) <= QueueCap
    /\ uploadCompleteCh \in Seq(UploadResults)
    /\ Len(uploadCompleteCh) <= QueueCap
    /\ metadataChan \in Seq(Metadata)
    /\ Len(metadataChan) <= 1
    /\ worker \in [Workers -> WorkerStates]
    /\ \A w \in Workers : worker[w].phase = "idle" <=> worker[w].file = NoFile
    /\ refresher \in [Refreshers -> RefresherStates]
    /\ retrieving \in [Files -> 0..MaxRetrieves]
    /\ wanted \subseteq DataFiles

\* The four places where an upload in flight can be.
FilesOf(results) == [i \in DOMAIN results |-> results[i].file]

Sending == {current} \ {NoFile}
Queued == Range(uploadRequestCh)
Uploading == {worker[w].file : w \in Workers} \ {NoFile}
Completed == Range(FilesOf(uploadCompleteCh))

\* Each file has at most one upload in flight: it is in one place, once.
SingleUpload ==
    /\ IsInjective(uploadRequestCh)
    /\ IsInjective(FilesOf(uploadCompleteCh))
    /\ \A v, w \in Workers :
          worker[v].file = worker[w].file /\ worker[v].file # NoFile => v = w
    /\ Sending \cap (Queued \cup Uploading \cup Completed) = {}
    /\ Queued \cap (Uploading \cup Completed) = {}
    /\ Uploading \cap Completed = {}

\* A file is marked as pending exactly as long as its upload is in flight:
\* no mark outlives its upload (the file would never be stored again), and
\* no upload goes on without its mark (the file could be uploaded twice).
PendingExact ==
    pendingUploads = Sending \cup Queued \cup Uploading \cup Completed

UploadTracked == SingleUpload /\ PendingExact

\* The main loop, the only reader of uploadRequestCh, never waits for room
\* in it.
NoSelfDeadlock == mainPc = "send" => Len(uploadRequestCh) < QueueCap

\* What the daemon believes to be stored, or is about to believe, has been
\* stored: a refresh that is overtaken by uploads, a result that waits and
\* a crash leave it behind what the backends hold, never ahead of it, so a
\* change is never taken for stored.
MetadataNeverAhead ==
    /\ \A f \in Files : metadataStore[f] <= remote[f]
    /\ \A i \in DOMAIN metadataChan, f \in Files : metadataChan[i][f] <= remote[f]
    /\ \A r \in Refreshers, f \in Files : refresher[r].snap[f] <= remote[f]
    /\ \A i \in DOMAIN uploadCompleteCh :
          uploadCompleteCh[i].ver <= remote[uploadCompleteCh[i].file]
    /\ \A w \in Workers :
          worker[w].phase = "report" /\ worker[w].file # NoFile =>
              worker[w].ver <= remote[worker[w].file]

\* No content is lost: what 0-db wrote last is on the disk, or freed and
\* complete in the backends.
NoDataLoss == \A f \in Files : disk[f] = latest[f] \/ remote[f] = latest[f]

(***************************************************************************)
(* What makes NoDataLoss and MetadataNeverAhead inductive.                 *)
(***************************************************************************)

\* The disk holds the latest content of a file or nothing, and nothing only
\* of a data segment that is complete in the backends.
DiskCurrent ==
    \A f \in Files :
        /\ disk[f] \in {0, latest[f]}
        /\ disk[f] = 0 /\ latest[f] # 0 => f \in DataFiles /\ remote[f] = latest[f]

\* The backends hold what 0-db wrote, and of a data segment only the whole,
\* once it is closed.
StoredComplete ==
    /\ \A f \in Files : remote[f] <= latest[f]
    /\ \A f \in DataFiles :
          remote[f] # 0 => Closed(f) /\ remote[f] = latest[f]

\* The retry cycle and the uploads deal with closed data segments only.
OnlyClosed ==
    \A f \in DataFiles : f \in todo \cup pendingUploads => Closed(f)

\* What a goroutine is about to store is not older than what is stored.
StoresForward ==
    \A w \in Workers :
        LET f == worker[w].file
        IN  worker[w].phase = "store" /\ worker[w].ver # 0 =>
                /\ worker[w].ver \in remote[f]..latest[f]
                /\ f \in DataFiles => worker[w].ver = latest[f]

\* Only what is stored is being retrieved.
RetrievesStored ==
    \A f \in Files : retrieving[f] > 0 => f \in DataFiles /\ remote[f] # 0

IInv ==
    /\ TypeOK
    /\ UploadTracked
    /\ MetadataNeverAhead
    /\ DiskCurrent
    /\ StoredComplete
    /\ OnlyClosed
    /\ StoresForward
    /\ RetrievesStored

\* The daemon, 0-db and zstor together implement SegmentBackup: the backends
\* only ever advance, a data segment goes there once and complete, nothing
\* is freed before it is there, and what comes back is the latest content.
Contract == INSTANCE SegmentBackup
                WITH latest <- latest, disk <- disk, remote <- remote
Implements == Contract!Spec

\* Once 0-db stops changing files (MaxVersion), every file eligible for upload
\* comes to be in the backends in its latest version and stays there,
\* whatever store, query or refresh failed, whatever was overtaken, and however
\* often the daemon ended.  A daemon whose Init failed is excluded: its error
\* is dropped, and it stores nothing until it is restarted.
EventuallyStored ==
    <>[](daemon # "stalled" =>
            \A f \in Eligible(Present) : remote[f] = latest[f])

\* When nothing changes any more, uploads come to an end: a stale refresh
\* or a lost answer may cause an upload of what is already stored, but not
\* for ever.
UploadsSettle == <>[](pendingUploads = {})
=============================================================================
