---------------------------- MODULE HealthMetrics ---------------------------
(***************************************************************************)
(* The health of the backends and of the stored files, as quantumd         *)
(* publishes it (internal/zstor/prometheus.go, and the metrics of          *)
(* internal/daemon/daemon.go).                                             *)
(*                                                                         *)
(* Two goroutines count the healthy files: the scraper, after each scrape  *)
(* of zstor, and the main loop, after each refresh of the metadata and     *)
(* each retry cycle.  They share backendStatus, metadataStore and the      *)
(* gauges without a lock: the scraper writes the first, the main loop the  *)
(* second, both the third.                                                 *)
(***************************************************************************)
EXTENDS Integers, FiniteSets

CONSTANTS
    Backends,       \* the data backends
    Files,          \* the names of the stored files
    Placements,     \* bound: where a file may be stored
    MaxChanges,     \* bound: how often the surroundings change
    MaxFatal        \* bound: how often the process ends

Partial(S, T) == UNION {[D -> T] : D \in SUBSET S}
Empty == [x \in {} |-> TRUE]
Put(f, x, y) == [z \in DOMAIN f \cup {x} |-> IF z = x THEN y ELSE f[z]]

\* DataShards + DisposableShards of the shards must be in living backends.
PlacementType == [shards : SUBSET Backends, required : Nat]

ASSUME HealthAssumption ==
    /\ IsFiniteSet(Backends) /\ IsFiniteSet(Files)
    /\ Placements \subseteq PlacementType
    /\ MaxChanges \in Nat /\ MaxFatal \in Nat

VARIABLES
    report,         \* what the Prometheus endpoint of zstor says of backends
    endpoint,       \* whether it answers
    daemon,         \* the process: running, ended, or mute after Init failed
    backendStatus,  \* the last status of every backend ever reported
    metadataStore,  \* where the files are stored
    read,           \* the metrics of the last successful scrape
    todo,           \* the backends of it that are still to be processed
    proc,           \* the two goroutines
    statusGauge, healthyFileConfigs, unhealthyFileConfigs,
    changes, fatals

environment == <<report, endpoint, changes>>
gauges == <<statusGauge, healthyFileConfigs, unhealthyFileConfigs>>
vars == <<report, endpoint, daemon, backendStatus, metadataStore, read, todo,
          proc, gauges, changes, fatals>>

Goroutines == {"main", "scraper"}

\* The map that a goroutine iterates over (and whether it is still the one in
\* metadataStore), the files that are left, and those it counted.
Idle == [pc |-> "idle", map |-> Empty, shared |-> FALSE, left |-> {},
         good |-> {}, bad |-> {}]

Init ==
    /\ report \in Partial(Backends, BOOLEAN)
    /\ endpoint \in BOOLEAN
    /\ daemon = "ended"
    /\ backendStatus = Empty
    /\ metadataStore = Empty
    /\ read = Empty
    /\ todo = {}
    /\ proc = [g \in Goroutines |-> Idle]
    /\ statusGauge = Empty
    /\ healthyFileConfigs = 0
    /\ unhealthyFileConfigs = 0
    /\ changes = 0
    /\ fatals = 0

-----------------------------------------------------------------------------
(***************************************************************************)
(* zstor and the backends.                                                 *)
(***************************************************************************)

\* A backend fails, recovers or is reported for the first time; zstor is
\* restarted with other backends; its endpoint comes and goes.
Environment ==
    /\ changes < MaxChanges
    /\ changes' = changes + 1
    /\ \/ /\ report' \in Partial(Backends, BOOLEAN) \ {report}
          /\ UNCHANGED endpoint
       \/ endpoint' = ~ endpoint /\ UNCHANGED report
    /\ UNCHANGED <<daemon, backendStatus, metadataStore, read, todo, proc,
                   gauges, fatals>>

-----------------------------------------------------------------------------
(***************************************************************************)
(* Start and end of the process.                                           *)
(***************************************************************************)

\* The process ends: in a race, when a map that another goroutine iterates over
\* or reads is written and the Go runtime notices.
Fatal ==
    /\ fatals < MaxFatal
    /\ fatals' = fatals + 1
    /\ daemon' = "ended"
    /\ UNCHANGED <<environment, backendStatus, metadataStore, read, todo, proc,
                   gauges>>

\* The service manager starts a process, with empty maps and gauges.
NewProcess ==
    /\ daemon = "ended"
    /\ backendStatus' = Empty
    /\ read' = Empty
    /\ todo' = {}
    /\ proc' = [g \in Goroutines |-> Idle]
    /\ statusGauge' = Empty
    /\ healthyFileConfigs' = 0
    /\ unhealthyFileConfigs' = 0
    /\ UNCHANGED <<environment, fatals>>

\* Init fetches the metadata, then starts the goroutines.
Start ==
    /\ NewProcess
    /\ daemon' = "running"
    /\ metadataStore' \in Partial(Files, Placements)

\* The metadata cannot be fetched, and Init returns before any goroutine and the
\* server of the gauges start.  Its error is dropped: the process waits for ever.
StartFails ==
    /\ NewProcess
    /\ daemon' = "mute"
    /\ metadataStore' = Empty

\* Nothing but a signal ends a daemon that is mute.
EndMute == daemon = "mute" /\ Fatal

-----------------------------------------------------------------------------
(***************************************************************************)
(* updateHealthyFileConfigs, on either goroutine.                          *)
(***************************************************************************)

\* The goroutine starts to iterate over a map of metadata.
Counting(map) ==
    [Idle EXCEPT !.pc = "count", !.map = map, !.shared = TRUE, !.left = DOMAIN map]

LiveIn(status, placement) ==
    {b \in placement.shards : b \in DOMAIN status /\ status[b]}

Healthy(status, placement) ==
    Cardinality(LiveIn(status, placement)) >= placement.required

\* isFileBackendHealthy, for the next file of the iteration.
CountFile(g) ==
    /\ daemon = "running"
    /\ proc[g].pc = "count"
    /\ \E f \in proc[g].left :
          LET p == proc[g].map[f]
          IN  proc' = IF Healthy(backendStatus, p)
                      THEN [proc EXCEPT ![g].left = @ \ {f}, ![g].good = @ \cup {<<f, p>>}]
                      ELSE [proc EXCEPT ![g].left = @ \ {f}, ![g].bad = @ \cup {<<f, p>>}]
    /\ UNCHANGED <<environment, daemon, backendStatus, metadataStore, read, todo,
                   gauges, fatals>>

\* Mutant: the count is added to the gauge.
GaugeAdd(gauge, files) == gauge + Cardinality(files)

GaugeSet(gauge, files) == Cardinality(files)

SetHealthy(g) ==
    /\ daemon = "running"
    /\ proc[g].pc = "count" /\ proc[g].left = {}
    /\ healthyFileConfigs' = GaugeSet(healthyFileConfigs, proc[g].good)
    /\ proc' = [proc EXCEPT ![g].pc = "set", ![g].shared = FALSE]
    /\ UNCHANGED <<environment, daemon, backendStatus, metadataStore, read, todo,
                   statusGauge, unhealthyFileConfigs, fatals>>

SetUnhealthy(g) ==
    /\ daemon = "running"
    /\ proc[g].pc = "set"
    /\ unhealthyFileConfigs' = GaugeSet(unhealthyFileConfigs, proc[g].bad)
    /\ proc' = [proc EXCEPT ![g] = Idle]
    /\ UNCHANGED <<environment, daemon, backendStatus, metadataStore, read, todo,
                   statusGauge, healthyFileConfigs, fatals>>

-----------------------------------------------------------------------------
(***************************************************************************)
(* The main loop.                                                          *)
(***************************************************************************)

\* handleUploadResult writes into the map.  If the scraper iterates over the
\* same map it may notice the write, see a new entry, or miss it.
HandleUploadResult ==
    /\ daemon = "running"
    /\ proc["main"].pc = "idle"
    /\ changes < MaxChanges
    /\ \/ /\ changes' = changes + 1
          /\ \E f \in Files, p \in Placements :
                /\ metadataStore' = Put(metadataStore, f, p)
                /\ IF proc["scraper"].shared
                   THEN \E seen \in {{}, {f} \ DOMAIN metadataStore} :
                           proc' = [proc EXCEPT !["scraper"].map = metadataStore',
                                                !["scraper"].left = @ \cup seen]
                   ELSE UNCHANGED proc
          /\ UNCHANGED <<report, endpoint, daemon, backendStatus, read, todo,
                         gauges, fatals>>
       \/ proc["scraper"].shared /\ Fatal

\* A retry cycle ends with a count, of the map as it is.
HandleRetry ==
    /\ daemon = "running"
    /\ proc["main"].pc = "idle"
    /\ proc' = [proc EXCEPT !["main"] = Counting(metadataStore)]
    /\ UNCHANGED <<environment, daemon, backendStatus, metadataStore, read, todo,
                   gauges, fatals>>

\* handleMetadataUpdate replaces the map, by an equal one if nothing changed: the
\* scraper goes on with the former one.  Then the main loop counts.
HandleMetadataUpdate ==
    /\ daemon = "running"
    /\ proc["main"].pc = "idle"
    /\ \/ UNCHANGED <<metadataStore, changes>>
       \/ /\ changes < MaxChanges
          /\ changes' = changes + 1
          /\ metadataStore' \in Partial(Files, Placements) \ {metadataStore}
    /\ proc' = [proc EXCEPT !["main"] = Counting(metadataStore'),
                            !["scraper"].shared = FALSE]
    /\ UNCHANGED <<report, endpoint, daemon, backendStatus, read, todo, gauges,
                   fatals>>

-----------------------------------------------------------------------------
(***************************************************************************)
(* The scraper, every 30 seconds.                                          *)
(***************************************************************************)

\* A scrape that fails changes nothing and leaves the next one to try again.
Scrape ==
    /\ daemon = "running"
    /\ proc["scraper"].pc = "idle"
    /\ endpoint
    /\ read' = report
    /\ todo' = DOMAIN report
    /\ proc' = [proc EXCEPT !["scraper"].pc = "process"]
    /\ UNCHANGED <<environment, daemon, backendStatus, metadataStore, gauges, fatals>>

\* Mutant: what was once reported is not updated.
StatusFirstSeen(b) == IF b \in DOMAIN backendStatus THEN backendStatus[b] ELSE read[b]

NewStatus(b) == read[b]

\* processConnectionStatusMetric: a backend that is not in the map is entered,
\* which a main loop that counts may notice.
ProcessMetric ==
    /\ daemon = "running"
    /\ proc["scraper"].pc = "process"
    /\ \E b \in todo :
          \/ /\ backendStatus' = Put(backendStatus, b, NewStatus(b))
             /\ todo' = todo \ {b}
             /\ UNCHANGED <<environment, daemon, metadataStore, read, proc, gauges,
                            fatals>>
          \/ /\ b \notin DOMAIN backendStatus
             /\ proc["main"].pc = "count"
             /\ Fatal

\* Mutant: the files are not counted after a scrape.
AfterScrapeIdle == Idle

AfterScrape == Counting(metadataStore)

\* updatePrometheusMetrics, then handleMetricsUpdate.
UpdateGauges ==
    /\ daemon = "running"
    /\ proc["scraper"].pc = "process" /\ todo = {}
    /\ statusGauge' = backendStatus
    /\ proc' = [proc EXCEPT !["scraper"] = AfterScrape]
    /\ UNCHANGED <<environment, daemon, backendStatus, metadataStore, read, todo,
                   healthyFileConfigs, unhealthyFileConfigs, fatals>>

-----------------------------------------------------------------------------
Step(g) == CountFile(g) \/ SetHealthy(g) \/ SetUnhealthy(g)

Next ==
    \/ Environment
    \/ HandleUploadResult
    \/ HandleRetry
    \/ HandleMetadataUpdate
    \/ Scrape
    \/ ProcessMetric
    \/ UpdateGauges
    \/ \E g \in Goroutines : Step(g)
    \/ Start
    \/ StartFails
    \/ EndMute

Spec == Init /\ [][Next]_vars

\* Goroutines run, the ticker of the scraper goes on, and the service manager
\* starts the daemon again, whose Init may fail (StartFails).
FairSpec ==
    /\ Spec
    /\ \A g \in Goroutines : WF_vars(Step(g))
    /\ WF_vars(Scrape)
    /\ WF_vars(ProcessMetric)
    /\ WF_vars(UpdateGauges)
    /\ WF_vars(Start)
-----------------------------------------------------------------------------
TypeOK ==
    /\ report \in Partial(Backends, BOOLEAN)
    /\ endpoint \in BOOLEAN
    /\ daemon \in {"ended", "running", "mute"}
    /\ backendStatus \in Partial(Backends, BOOLEAN)
    /\ metadataStore \in Partial(Files, Placements)
    /\ read \in Partial(Backends, BOOLEAN)
    /\ todo \subseteq DOMAIN read
    /\ \A g \in Goroutines :
          /\ proc[g].pc \in {"idle", "count", "set"}
                                \cup IF g = "scraper" THEN {"process"} ELSE {}
          /\ proc[g].map \in Partial(Files, Placements)
          /\ proc[g].shared \in BOOLEAN
          /\ proc[g].left \subseteq DOMAIN proc[g].map
          /\ proc[g].good \cup proc[g].bad \subseteq Files \X Placements
    /\ statusGauge \in Partial(Backends, BOOLEAN)
    /\ healthyFileConfigs \in 0..Cardinality(Files)
    /\ unhealthyFileConfigs \in 0..Cardinality(Files)
    /\ changes \in 0..MaxChanges /\ fatals \in 0..MaxFatal

\* Every file that the scraper counts as healthy is so in the metrics it has
\* just read, however the metadata change meanwhile, unless zstor has stopped
\* to report a backend.
CountsWhatItRead ==
    LET g == proc["scraper"]
    IN  g.pc \in {"count", "set"} /\ DOMAIN backendStatus = DOMAIN read =>
           \A c \in g.good : Healthy(read, c[2])

HealthyFiles == {f \in DOMAIN metadataStore : Healthy(report, metadataStore[f])}

\* The gauges say what zstor says.
Accurate ==
    /\ statusGauge = report
    /\ healthyFileConfigs = Cardinality(HealthyFiles)
    /\ unhealthyFileConfigs = Cardinality(DOMAIN metadataStore \ HealthyFiles)

\* Whatever the two goroutines wrote over each other, and whether or not a
\* race ended the process: when the backends and files no longer change, zstor
\* answers and reports every backend it ever did, the gauges become accurate.
\* A daemon whose Init failed is excluded: it never scrapes, and serves none.
GaugesConverge ==
    <>[](daemon # "mute" /\ endpoint /\ DOMAIN backendStatus \subseteq DOMAIN report
            => Accurate)
=============================================================================
