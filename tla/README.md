# Quantum Storage in TLA+

A TLA+ development of the programs in this repository: models of the quantumd
daemon, of its hooks, of the services of a frontend and the commands that manage
them, of the health metrics, of the sizes in the configuration, of the deployment
of backends and of the restore of a frontend. They are checked with TLC on small
instances and proved, as far as it goes, with TLAPS for every value of their
parameters.

The models are written from the Go code under `quantumd/`. `PROJECT.json` maps
every definition to the lines it models, and lists the runs, the hazards, the
findings and the theorems.

## The system

Quantum Storage gives a machine (the *frontend*) a file system whose data lives,
dispersed and encrypted, on remote *backends*.

    zdbfs --> 0-db --> files d0, d1, ... and i0, i1, ... on the local disk
               | hooks            ^ lists, hashes      | copies, retrieves
               v                  |                    v
            quantumd daemon ------+---- runs ----->  zstor --> backends

* **zdbfs** turns file operations into keys and values for 0-db.
* **0-db** appends to numbered *data segments* and *index segments* in one
  directory per namespace. Only the highest segment of a directory is written;
  the others are *closed*. A closed data segment never changes; a closed index
  segment may, when a key is deleted. When it needs a data segment that is not
  on the disk, it calls the hook `missing-data` and waits.
* **zstor** stores a file in the backends, retrieves it, answers metadata
  queries, and frees local data files once they are stored and the data
  directory is full.
* **quantumd daemon** decides what is stored and when.
* **quantumd deploy / init** rents the backends on the ThreeFold Grid.
* **quantumd restore** sets up a new frontend from what the backends hold.
* **quantumd setup, start, stop, uninstall** manage the four services (0-db, zstor,
  zdbfs and the daemon) under systemd.

0-db, zdbfs, zstor, systemd and the grid are not in this repository. They are modelled
from how the code uses them, and marked `external` in the map.

## Inventory

| Component | State | Operations | Hard because | Correct when |
|---|---|---|---|---|
| Main loop and retry cycle (`internal/daemon/daemon.go`) | `metadataStore`, `pendingUploads`, five channels; all in memory | tick, check each eligible file, request upload or retrieval | sends on a channel only it receives from; results, requests and refreshes in any order | every closed file is stored in the end; the loop never waits for itself |
| Uploads (`daemon.go`, `internal/zstor/zstor.go`) | one goroutine per upload | copy, store, query metadata, report | the file changes or is freed meanwhile; each step fails on its own | at most one upload per file; what is recorded is stored |
| Metadata refresh (`daemon.go`, `internal/zstor/meta.go`) | one goroutine per refresh | list, fetch, replace the store | its snapshot is old when it arrives; two can overtake each other | the daemon is behind the backends, never ahead |
| Retrieval (`daemon.go`, `internal/hook/hook.go`) | goroutines | retry cycle, `missing-data` | races with evictions and other retrievals | a freed segment comes back complete |
| Eligible files (`internal/util/zdb.go`) | none | scan of the directories | the highest segment is being written | only closed segments and namespace files |
| Start, stop, restart (`cmd/daemon.go`) | none is persisted | `Init`, `Run` | all knowledge is rebuilt from the backends | nothing is lost, uploads resume |
| Hook handler (`internal/hook/hook.go`, `cmd/hook.go`) | a socket | `missing-data` retrieves, `ready` tests, the others only log | called while 0-db waits | 0-db gets its segment |
| Deployment (`internal/grid`, `cmd/deploy.go`, `cmd/init.go`, `cmd/destroy.go`) | contracts on the grid; a pool and a queue of nodes for one run | load, batches, retries, destroy | parts of a batch fail, contracts stay behind, runs are interrupted | one backend per node and type; complete configurations |
| Restore (`cmd/restore.go`) | files on the new disk, a temporary 0-db | retrieve index prefix and last segment, start services | fails half-way, is run again; the backends may have gaps | services start on a recovered frontend |
| Health metrics (`internal/zstor/prometheus.go`, `daemon.go`) | `backendStatus`, the gauges | scrape, enter statuses, count healthy files | two goroutines share three maps and two gauges without a lock; zstor stops to report backends | a count agrees with what was read; the gauges become accurate |
| Sizes and configuration (`internal/util/storage.go`, `internal/config/config.go`) | none | parse, compute, validate | integer division, three roundings, 64-bit wrap-around, signed and unsigned | never more than asked for, little less, usable shards |
| Configuration of zstor (`internal/zstor/config.go`) | a file | generate from the backends | a node without a suitable address | only complete ones are written (in `GridDeploy`) |
| Services (`internal/service/service.go`, `cmd/setup.go`, `start.go`, `stop.go`, `uninstall.go`) | that of systemd, binaries | write units, enable, start, stop, disable, remove | steps fail, services end and are restarted between steps, services want each other | what a command reports is what it leaves |
| `check`, `status` (`cmd/check.go`, `cmd/status.go`) | none | print what the daemon and zstor know | — | — (not modelled) |
| `zstor-metadata-decoder` | none | read-only query | — | appears as the answer of metadata queries |

## Modules

| Module | What it is |
|---|---|
| `ZdbFiles` | The files of 0-db, and `Eligible`: what `GetEligibleZdbFiles` lists for a set of files on disk. |
| `SegmentBackup` | Abstract specification: what the system promises about each file. Four actions: `Write`, `Backup`, `Free`, `Fetch`. |
| `QuantumDaemon` | The daemon with 0-db and zstor. Implements `SegmentBackup` (`Contract`, an `INSTANCE`). |
| `SegmentBackup_proofs` | What that promise guarantees, as theorems. |
| `MCQuantumDaemon` | Model values and symmetry for TLC. |
| `QuantumDaemon_proofs` | Theorems about `QuantumDaemon`; takes those of `SegmentBackup_proofs` over (`Promise`, an `INSTANCE`). |
| `GridDeploy` | Runs of `deploy`, `init` and `destroy` against the grid. |
| `MCGridDeploy`, `GridDeploy_proofs` | Its instances and theorems. |
| `Restore` | Runs of `restore`, with failures, kills and further attempts. Uses `ZdbFiles`. |
| `MCRestore`, `Restore_proofs` | Its instances and theorems. |
| `Sizing` | `LoadConfig`: sizes of the configuration, in integers that wrap. |
| `MCSizing`, `Sizing_proofs` | Its instances and theorems. |
| `HealthMetrics` | The two goroutines that count healthy files, and what they share. |
| `MCHealthMetrics`, `HealthMetrics_proofs` | Its instance and theorems. |
| `Services` | Four services, the commands that manage them, and systemd. |
| `Frontend` | The hook between 0-db and the daemon, over `Services`: extends it and composes each of its steps with what it does to the daemon and to a call. |
| `MCServices`, `MCFrontend` | Their instances. |
| `Services_proofs`, `Frontend_proofs` | Their theorems. The second extends the first: the frontend implements the services. |

Definitions whose comment begins with *Mutant* are plausible mistakes in the
definition that follows. No specification uses them; `PROJECT.json` says which
property each of them breaks when it takes the other's place.

### QuantumDaemon and the code

**Content is a version.** `latest[f]` counts the changes 0-db made to `f` (a
ghost), `disk[f]` and `remote[f]` are the versions on the disk and in the
backends, 0 when there is none. A checksum in zstor's metadata is the version it
was computed from, so "the hashes differ" is "the versions differ".

**The main loop** (`Run`) is sequential. `mainPc` says whether it is in `select`,
in the loop of `handleRetry`, or blocked in the send of `uploadFile`; `todo` is
the part of the listing it has not checked. An iteration of the retry loop is one
step (`RetrySkip`, `RetryRetrieve`, `RetryUpload`) since it touches shared state
in one place; the send is a step of its own since it blocks. While the main loop
is out of `select`, no result, request or refresh is handled, as in the code.

**Channels** keep their capacities: `retryChan` and `metadataChan` 1,
`uploadRequestCh` and `uploadCompleteCh` `QueueCap` (100 in the code). The metrics
channel is in `HealthMetrics`, with the gauges.

**An upload** goes through `read` (the copy of an index file, the opening of a
data file), `store`, `meta` (the metadata query) and `report`. Between any two of
them 0-db may write and zstor may evict. A store may fail before or after it took
effect; the query may fail; a file that is gone counts as stored without having
been (`StoreBatch` skips it).

**A refresh** lists, fetches and sends in three steps, so that its snapshot is old
when it arrives. `Known` is what `AssignFilenamesToMetadata` can look up: files
that were not eligible at the time of listing keep their hash as key and are not
found by path.

**A crash** loses everything in memory and ends the process's goroutines and
their zstor commands (systemd kills the control group; what the zstor service may
do for them later is an assumption, see the end of this file). `Boot` is `Init`
followed by `Run`; when its refresh fails, `Init` returns before it starts the
tickers, the error is dropped (`cmd/daemon.go:46`) and `Run` stalls (`BootFails`).
Every start may fail so, the first one included, in every run of the daemon.

### GridDeploy and the code

A contract is a node, a type and the run that made it. A run loads the contracts
there are (`loaded`), and adds to `deployed` those that it made and could load
again. A batch leaves contracts behind for any subset of its nodes (`made`), of
which any subset is known to the run (`known`): that covers failed deployments,
failed reloads and time-outs. The node pool and the queue are those of
`nodepool.go` and `deployInBatches`. The random choice of nodes is a choice of any
set. `Interrupted` ends a run between any two batches and before the
configuration is written; the next run starts from the contracts. The
configuration is generated (`Generated`, `Reachable`) from the loaded and the
deployed backends, and is refused when one of them is on a node without an
address of the configured type (`Connected`).

### Restore and the code

One step per retrieved file. `stored` is any set of closed files: uploads fail
independently, so the old frontend may have left any of them behind. `temporary`
is the 0-db that restore starts and kills when it returns. `Fails` ends an attempt
by an error, with the deferred cleanup; `Killed` ends it without. The disk stays
as it is, and `Start` begins again.

### Sizing and the code

The configuration is the initial state and `Load` the one step. A size is a number
of units, or absent, blank or malformed; how a string is split into the two is left
out. `ParseSize`, `Gigabytes`, `BackendSize`, `TotalStorage` and `Quotient` have
the signedness, the truncation and the wrap-around of the Go code; `LoadConfig` has
its order of checks, in which an error in one size hides the others. The width of
an integer and the factor between units are parameters (`Word`, `Kilo`), so that a
small instance wraps where the program does.

### HealthMetrics and the code

One step per file that is counted, per backend that is entered and per gauge that
is set, since the other goroutine may run between any two. Each goroutine holds the
map it iterates over: `handleMetadataUpdate` replaces the map in the struct, so the
scraper goes on with the former one; `handleUploadResult` writes into it, so the
scraper sees the new entry, misses it, or the Go runtime ends the process (`Fatal`).
The last two are the outcomes that a race on a map has. Only `handleMetadataUpdate`
replaces the map: the count at the end of a retry cycle (`HandleRetry`) iterates
over the one there is, and whoever shared it goes on sharing it. A process starts
with empty maps (`Start`), the first one included; or its `Init` fails, and it
neither scrapes, nor refreshes, nor serves the gauges (`StartFails`, `mute`) until
it ends.

### Services, Frontend and the code

A command is a list of steps, executed one at a time; a step that finds work to do
prepends it (`Then`), as the loops of the commands do. Between steps a service may
end, and systemd restarts it (`Restart=always`) and starts whatever it wants. A step
may fail up to `MaxFailures` times per command, with the consequence the code gives
it: `setup` ends at the first failure except that of `enable`; the others print it
and go on. A preparation that fails leaves any part of the programs, since a download
that fails truncates the file that was there, and the hook is linked only once they
are all there (`PartlyPrepared`). `is-active` says no of a service that waits for its restart.

`Frontend` adds the life of the daemon (`starting`, `listening`, and `mute`, after
`Init` failed), one segment of 0-db, and one call of the hook: the process dials,
the handler answers at once or when it is done (`IsBlocking`), the process ends with
a status. The end of the daemon cuts the connection, the end of 0-db kills the hook.
A retrieval in progress may complete after 0-db has ended.

## Runs

| Run | Instance | Distinct states | What it shows |
|---|---|---|---|
| `DaemonData` | 3 data segments, queue of 2, 2 uploads at a time, a refresh, a crash, a start that fails, reads of the first segment through the hook | 1 068 272 | Each file has at most one upload in flight and is marked exactly that long (`UploadTracked`); the loop never waits for itself when the queue holds all files (`NoSelfDeadlock`); the daemon implements `SegmentBackup` (`Implements`). |
| `DaemonIndex` | the namespace file, next to an active index segment, 2 versions, 2 refreshes, a start that fails | 51 084 | Old snapshots and late results never put the daemon ahead of the backends (`MetadataNeverAhead`); a file that changes after it was stored is stored again, unless the first refresh failed (`EventuallyStored`), and uploads come to an end (`UploadsSettle`). |
| `DaemonLiveData` | 2 data segments of 2 versions, freed and read again, a refresh, a crash, starts that fail | 72 248 | The inductive invariant of the proofs (`IInv`); no content is lost (`NoDataLoss`); closed segments are stored in the end, unless the first refresh of the present process failed (`EventuallyStored`). |
| `DaemonFullQueue` | queue of 1, 2 files to store | violation | The retry cycle blocks for ever on its own queue. |
| `GridDeploy` | 5 nodes of the farms, one without a suitable address, 2 metadata and 2 data backends, 2 retries, 2 runs | 313 990 | No node gets two backends of a type over all runs (`OneBackendPerNode`); no run tries a node twice for the same type (`OncePerRun`); a configuration is complete, on distinct nodes, and names only nodes that can be reached (`ConfigComplete`). |
| `Restore` | every set of stored files of 2 namespaces with 2 closed segments, 2 attempts | 360 864 | Services start only on a recovered frontend (`ServicesLast`); the directory always holds a prefix of the index (`GapFree`); attempts end (`AttemptEnds`). |
| `RestoreGap` | the same, 1 attempt | violation | Stored segments after a gap are not restored. |
| `Sizing` | integers of 8 bits, units of 2, sizes around every boundary, -1 to 5 shards | 6 606 768 | Whatever wraps, nothing larger than asked for is rented, nor mounted when one size is given (`NeverMoreThanAsked`); what falls short does so by less than half, and by the rounding only when `min_shards` divides `expected_shards` (`ShortfallBounded`); one given size is accepted only with usable shards (`ShardsChecked`). |
| `SizingFits` | 4 or 5 shards, a total of 5 units | violation | The file system that is mounted is larger than what the backends hold. |
| `HealthMetrics` | 2 backends, 2 files, 2 changes, starts that fail, 1 end of the process | 781 659 | The scraper counts with what it has just read (`CountsWhatItRead`); when changes end, the gauges become accurate, unless the process is one whose `Init` failed (`GaugesConverge`). |
| `Services` | all commands in any order, 1 failing step per command, services that end, reboots | 1 410 070 | A setup that reports success has done all its steps (`SetupComplete`); stop and uninstall leave what their code can leave, which for `uninstall` is less than its help text promises (`StopComplete`, `UninstallComplete`); the inductive invariant of the proofs (`ServicesInv`). No deadlock. |
| `Frontend` | setup, start, stop, stop all; hooks of three kinds | 277 476 | A hook tells 0-db the truth (`HonestExit`) and always returns (`CallsEnd`); a segment that is read comes back (`SegmentServed`). No deadlock. |

### Bounds, and why they are enough

* *Files.* `MaxNum` is the highest segment 0-db reaches. Files interact only
  through the queue, the order of results and the eligible listing, where one
  closed segment next to an active one, and two closed ones, are the cases there
  are. Index and data files follow different rules, so each has its own runs.
  `DaemonIndex` has `MaxNum = 0`, so that the namespace file is the only eligible
  one. A closed index segment follows the same rules
  (it may change after it was stored, is copied before it is stored and is never
  freed), and several files at once are in the other runs; the safety properties
  are proved for any number of index segments.
* *Goroutines.* `Workers` and `Refreshers` bound the goroutines at any one time; in
  the code they are unbounded. Two uploads (`DaemonData`) and two refreshes
  (`DaemonIndex`) give every overtaking of one by another. The proofs are for any
  number.
* *Versions.* Two show a change during an upload and after it. The proofs are for
  any number.
* *Queue.* `QueueCap` 1 and 2 against 100: what matters is whether there are more
  files than room, and both cases are checked.
* *Crashes*: one, in the runs with data segments. A crash resets everything but
  `disk` and `remote`, so a second one starts from a state of the same kind.
  `DaemonIndex` has none, for its size: its first start has any outcome, and the
  safety invariants are proved for any number of crashes; that an index file is
  stored after one is not checked. Starts may fail everywhere.
* *Retrievals*: one of each file at a time, and each is one step. What two of them
  that write the same file do to each other is outside the model.
* *Grid.* Counts of 2 instead of 4 and 5 nodes: enough for a batch that fails in
  part, a node used for both types, and a shortage. Two runs: one that leaves
  contracts behind and one that finds them. One of the nodes cannot be reached,
  which symmetry leaves out. The proofs are for any grid.
* *Restore.* Two closed segments give every gap and prefix; a second attempt finds
  what the first left.
* *Sizes.* The terabyte of the instance is 16 and the word 256, so every unit has
  sizes that fit, that change sign and that wrap. The proofs are for any width.
* *Metrics.* Two backends, both needed by each file: the order in which they are
  entered and the loss of one matter. Two changes: one during a count, one after.
  The process ends once: by a race while it serves the gauges, or for whatever
  reason when its first start failed, so the next start follows either.
* *Services.* The four services are as in the code. One failure per command, after
  which the code goes on or ends; `Frontend` has none, as failing commands only
  reach states that the end of services reaches as well.

`CHECK_DEADLOCK FALSE` is set where the system may really stop: a daemon with nothing
left to do or to hope for, the deadlock that `DaemonFullQueue` is about, the end of a
restore, a configuration that is loaded, and a daemon whose surroundings no longer
change and whose zstor does not answer, or whose `Init` failed (`HealthMetrics`).
Symmetry is used for goroutines and for nodes, in runs without liveness.

### Fairness

`QuantumDaemon!Fairness` is what the Go runtime and the service manager provide:

* the service manager restarts the daemon (`Boot`, weak);
* goroutines and the ticker run (`RetryTick`, `Upload`, `UploadFileSend`,
  `RetryDone`, `CheckFile`, and a refresh once it has begun: weak);
* `select` chooses at random among the ready cases, so none is passed over for ever
  (`HandleRetry`, `HandleUpload`, `HandleMetadataUpdate`: strong);
* listing, hashing, storing and querying one file do not fail for ever
  (`HandleRetry`, `RetryUpload`, `StoresFile`, `LearnsMetadata`: strong).

Nothing is assumed of 0-db, of evictions, of retrievals, or that a later refresh ever
starts or succeeds. Nor is the first one, in `Init`, assumed to succeed, but the
daemon does not get over its failure: `EventuallyStored` is claimed of a daemon that
is not `stalled` in the end. `UploadsSettle` holds of it as well. For `Restore`, the wait has a timeout and every command it runs
returns.

`HealthMetrics!FairSpec`: goroutines run, the ticker of the scraper goes on, and the
service manager starts a daemon that has ended (all weak). Its `Init` may fail or
not; `GaugesConverge` is claimed unless the daemon is `mute` in the end. Nothing is
assumed of the refreshes after that: the scraper alone makes the gauges accurate.

`Frontend!FairFrontendSpec`: the processes of a call go on (weak); 0-db goes on after
a call (weak); a segment whose reader gets an error is asked for again, and a
retrieval that is tried again and again succeeds (strong). Nothing is assumed of
systemd, of the operator, or that the daemon ever listens.

## What is proved

All theorems hold for every value of the constants that the named assumptions
(`ZdbFilesAssumption`, `QuantumDaemonAssumption`, `GridDeployAssumption`,
`RestoreAssumption`, `SizingAssumption`, `HealthAssumption`, `ServicesAssumption`) allow: sizes are natural numbers, names are
distinct, and a word has room for two terabytes.

**`QuantumDaemon_proofs`**

* `TypeCorrect`, and with it that no channel exceeds its capacity.
* `UploadsTracked`: an upload in flight is in one of four places, `Sending`,
  `Queued`, `Uploading`, `Completed`, and the marked files are their union. The
  statement is inductive together with the types: each step moves one file from
  one place to the next. The lemmas `SendAdds`, `ReceiveRemoves` and those about
  `FilesOf` say what a send and a receive do to the files in a channel.
* `NoSelfDeadlockWhenFewFiles`: when there are no more files than `uploadRequestCh`
  holds, the main loop never waits for itself. It is a pigeonhole argument on
  `SingleUpload`: the queue is injective and misses the file being sent. This is
  the exact condition that `DaemonFullQueue` breaks.
* `Invariance`: `IInv` is inductive. That nothing is lost is not inductive by
  itself; it needs that the disk has the latest content or nothing
  (`DiskCurrent`), that data goes to the backends whole and closed
  (`StoredComplete`, `OnlyClosed`), that what a goroutine is about to store is
  not older than what is stored (`StoresForward`, which rests on `SingleUpload`),
  and that only stored files are retrieved (`RetrievesStored`).
* `NeverAhead`, `DataIsSafe`: `MetadataNeverAhead` and `NoDataLoss` from it.
* `Refinement`: `Spec => Implements`. Every step is a step of `SegmentBackup` on the
  same three variables, or leaves them alone.
* `NeverBack`, `ReadsLatestContent`: what `SegmentBackup_proofs` shows of the
  promise, taken over through `Refinement`. `SamePromise` identifies the two
  instances of the specification.

**`SegmentBackup_proofs`**

* `BackupInvariance`, `KeepsContent`, `ReadsAreCurrent`, `GoesForward`: the promise
  is one worth keeping. Nothing is lost (`Durable`), nobody reads an old version
  (`ReadsLatest`), and the backends only go forward (`OnlyForward`), a data segment
  being final once it is stored. The last rests on `StoredClosed` and
  `StoredWritten`: a segment is stored only when it is closed, 0-db does not write
  a closed one, and a closed one stays so (`ClosedStays`).

**`GridDeploy_proofs`** (`NodesDistinct` and `ConfigsComplete` under `Automatic`:
no nodes are listed in the configuration, and existing deployments can be loaded;
`UnlistedNodesDistinct` under the latter; the others under neither)

* `TypeCorrect`: in particular no more batches fail than there are retries.
* `UnlistedNodesDistinct`, `NodesDistinct`: no node gets two backends of one type,
  unless the configuration lists it. It is inductive with `PoolComplete` (the run
  knows the node of every contract) and `FreshNodes` (but for listed ones, queued
  nodes have no backend of the type at hand).
* `ConfigsComplete`: every configuration that is written has `MetaCount` metadata
  and `ExpectedShards` data backends, each on a node of its own, and names only
  nodes with an address of the configured type. The code counts deployments;
  `AsManyNodes` and `EnoughNodes` turn the count into one of nodes, for which
  `BackendsCounted` keeps loaded and deployed backends apart.

For listed nodes, or when a deployment cannot be loaded (`deployments.go:135`),
`OneBackendPerNode` does not hold: see the hazard at `deploy.go:112`. What remains is
proved as well:

* `NodesTriedOnce`: no run goes twice to a node for the same type. The queue holds
  only untried nodes (`QueueUntried`): those of a batch leave it, with whatever
  result, and it is filled for data before any node was tried for data.
* `ConfigsHaveEnough`: there are enough backends of each type in a configuration,
  though not always on different nodes. Loaded and deployed backends are told apart
  by the run that made them (`RunsCounted`).

**`Restore_proofs`**

* `TypeCorrect`, `Invariance`, `AlwaysGapFree`, `RecoveredFirst`. The invariant
  (`Progress`) says what the loop has retrieved, why it ended, and which namespaces
  are done; `RecoveredStays` shows that an attempt that runs over a recovered
  namespace does not undo it.
* `RestoresWithoutGap`: the statement that `RestoreGap` refutes does hold as long as
  no index segment is missing below a stored one (`StoredGapFree`). The gap is the
  only reason for the loss.

**`Sizing_proofs`**

* `TypeCorrect`, `NotMoreThanAsked`, `ShortfallIsBounded`, `ShardsAreChecked`, for
  integers of any width. With both sizes given the first says nothing of the size
  that is mounted, and the third nothing at all (see the disagreements below).
  `DivisionBounds`, `WrapBounds`, `SignedBounds` say what
  truncation and wrap-around do to a number: neither enlarges it, and a number that
  is small enough stays. `BackendSizeBounds` is the arithmetic of
  `ComputeBackendSize`: with `expected = minimal * overhead + rest` and `rest <
  minimal`, the shards hold more than half of the total. `DataSizeBounds` and
  `ZdbfsSizeBounds` put the roundings together along the branches of `LoadConfig`,
  and `Loading` says that what is loaded is what `LoadConfig` makes of the
  configuration.

**`HealthMetrics_proofs`**

* `CountsRead`: `CountsWhatItRead`, for any backends, files and placements. The
  invariant says that the statuses processed so far are those that were read, which
  holds to the end of the count since only the scraper writes them, and that each
  file counted as healthy is so by them. `Shape` carries what two goroutines on one
  map need: the scraper's map is the shared one as long as `shared` says so.
* `TypeCorrect`: in particular the gauges stay within the number of files. A count is
  a set of pairs of a file and a placement, and the placement of a file may change
  while it goes on; `OnceInv` says that what was counted is no longer left to be
  counted, as an entry that the main loop adds is one the map did not have. So a
  count is a function of the file, and `CountIsBounded` bounds it.

**`Services_proofs`**

* `Invariance`: `ServicesInv`. Whatever a command has not done yet must be among the
  steps that are left: for each service, either the state that the command is to
  bring about is there already, or the step that does it is still owed. A step that
  finds work prepends it, so the invariant also has the order that this relies on:
  every service is stopped and disabled before the first unit file is removed, and
  0-db, which wants the daemon, is stopped before the daemon is tested. Between steps a service may end and come
  back, and start others; `DisturbedInv` shows that none of this undoes what was
  done. The lemmas `ToSetTail`, `BeforeTail`, `ToSetConcat`, `BeforeConcat` say what
  doing and prepending steps does to the set and the order of those that are left;
  `SetupProgram` and `UninstallProgram` say what a command owes when it begins.
* `TypeCorrect`, `SetupIsComplete`, `StopIsComplete`, `UninstallIsComplete` from it,
  the last of what the code leaves, not of what its help text says.

**`Frontend_proofs`**

* `ExitIsHonest`: `HonestExit`, for any commands and failures. The invariant follows
  a call: its outcome is open until it is done (`OpenUntilDone`), and the segment
  that an answer promises is there (`AnswerIsTrue`), as nothing is freed during a
  call.
* `ImplementsServices`: every step of the frontend is one of the services or leaves
  them alone. `TypesAtWork` and `CommandsAtWork` take over what is proved of them.

**Only model-checked:** liveness (`EventuallyStored`, `UploadsSettle`, `AttemptEnds`,
`GaugesConverge`, `CallsEnd`, `SegmentServed`), which needs fairness and `ENABLED`
and is out of the prover's reach, and the deadlock checks. Every invariant and every
action property that a passing run checks is a theorem. No module uses recursive
operators.

## What the models found

Three statements of the documentation and the comments do not hold of the code. Each
has a run whose counterexample shows it, and an entry under `findings`.

1. `daemon.go:508`: more files than `uploadRequestCh` holds block the main loop for
   ever (`DaemonFullQueue`).
2. `restore.go:275`: stored segments after a gap are not restored (`RestoreGap`).
3. `storage.go:23`: an integer division makes the backends smaller than the file
   system that is mounted on them, unless `min_shards` divides `expected_shards`
   (`SizingFits`).

Further disagreements the models have, without a run of their own:

* `cmd/daemon.go:46`: the error of `Init` is dropped. The daemon lives on, stores
  nothing, does not listen and serves no gauges (`BootFails`, `DaemonIsMute`,
  `StartFails`), where `docs/03_deployment.md:5` promises to recover from failures.
* `daemon.go:311`: freed segments are retrieved at every retry cycle
  (`RetryRetrieve`), which undoes the eviction.
* `deploy.go:112`: nodes listed in the configuration are dropped on a first
  deployment (`Accepted`), and a listed node may get a second backend of a type on
  a later one.
* `zstor/config.go:126`: a backend on a node without a suitable address is loaded
  by every later run, each of which ends with the same error.
* `deploy.go:199`: contracts that a run left behind are configured by the next one:
  more metadata backends than the four that `docs/02_planning.md` requires.
* `config.go:147`: with both sizes given, nothing checks the shards
  (`ShardsChecked` leaves that case out).
* `config.go:175`: with both sizes given, `total_storage_size` is mounted, whatever
  the backends of size `data_size` hold, where `config.example.yaml:28` says that
  `total_storage_size` "is ignored" then. `NeverMoreThanAsked` leaves that case out
  for the size that is mounted.
* `prometheus.go:163`: a backend that zstor no longer reports keeps its last status.
* `service.go:295`: `stop --all` skips a service that waits for its restart.
* `cmd/uninstall.go:24`: the help text says that `uninstall` "Stops all running QSFS
  services [...] and deletes all related binaries". It does neither.
  zstor may run on after it, without a unit file: zstor is stopped before zdbfs,
  and zdbfs, which wants it, starts it again when it is itself restarted in between.
  `zstor-metadata-decoder`, which setup installed, is not among the
  programs it deletes (`uninstall.go:102`). `UninstallComplete` states what
  is left: the decoder, and zstor only if a service ended meanwhile or was waiting
  for its restart when the command began.
* `cmd/hook.go:27`: a hook that cannot reach the daemon, or loses it, exits with
  0, so 0-db takes a segment that was not retrieved for one that was.
  `HonestExit` leaves out these calls (`cut`).

## What is not modelled

* The Prometheus server, and the two gauges that are times. `check` and `status`
  only print.
* The syntax of the configuration file, defaults that no size depends on, the TOML
  encoding of zstor's configuration and its key.
* zinit, which the code treats like systemd with other commands; the local backends
  `zdb-back1` to `zdb-back4` that `uninstall` also removes, which nothing sets up;
  the versions of downloads; systemd's limit on restarts.
* `zstor-metadata-decoder`: a read-only query.
* The hooks `close`, `jump-*` and `namespace-*`, which only log.
* Archived deployment methods (`_archive`, `docs/archive`) and shell tests.

Assumptions on the external programs: a retrieval is all or nothing; zstor frees
only data files that it stored; a store of one file takes effect at one moment; the
answer of a metadata query is right; names of deployments have no underscore; the
grid's list of contracts is up to date when a run begins; a new frontend is not used
before its restore has ended; a segment is not freed while the hook for it runs
(`Frontend`; `QuantumDaemon` frees at any time).

One more, on crashes: a store takes effect before the daemon that asked for it ends,
or never. The daemon's zstor commands do end with it, but the generated
configuration names a socket (`zstor/config.go:145`) and zstor runs as a service of
its own, so a store that this service has taken could still land after the daemon is
up again. For data segments that changes nothing, as their content is final once they
are closed. For an index file it could put an older copy over a newer one, until the
next refresh shows the daemon that it is older; neither `MetadataNeverAhead` nor
`OnlyForward` is claimed of that.

## Plan

Written, in this order: `ZdbFiles`, `SegmentBackup`, `QuantumDaemon` and its proofs,
since the daemon carries what users rely on; `GridDeploy` and `Restore` with theirs;
`Sizing` with its proofs; `HealthMetrics`; `Services` and, over it, `Frontend`.

Next:

1. `FrontendLoss`, composing `QuantumDaemon`'s storage, the loss of the machine,
   `Restore` and resumed writes: after a restore 0-db appends to a segment that is
   already stored (`restore.go:289`), and after a gap it reuses numbers that are.
   Abstract specification: `SegmentBackup` with a loss that keeps what was backed up.
2. `GridDeploy`: the count of metadata backends that zstor accepts, and names of
   deployments that are not found again.
3. Proofs: with `FrontendLoss`, what a loss and a restore keep, from
   `RestoresWithoutGap` and `NeverBack`; that the end of a count sets the gauges
   to what was counted, the safety part of `GaugesConverge`.
