----------------------------- MODULE GridDeploy -----------------------------
(***************************************************************************)
(* Deployment of the backends on the ThreeFold Grid: quantumd deploy and   *)
(* init (cmd/deploy.go, cmd/init.go, internal/grid).                       *)
(*                                                                         *)
(* A run loads the deployments that exist, deploys what is missing of the  *)
(* metadata backends in batches, then of the data backends, and writes the *)
(* configuration of zstor.  It keeps nothing when it fails: the contracts  *)
(* it made stay on the grid, and the next run loads them.                  *)
(***************************************************************************)
EXTENDS Integers, FiniteSets

CONSTANTS
    Nodes,                  \* the nodes of the grid
    FarmNodes,              \* those the configured farms offer
    MetaNodes,              \* meta_nodes of the configuration
    DataNodes,              \* data_nodes of the configuration
    MetaCount,              \* metaNodeCount, 4
    ExpectedShards,         \* expected_shards of the configuration
    MaxDeploymentRetries,   \* max_deployment_retries of the configuration
    MaxRuns,                \* bound: runs of the command
    LoadMayFail,            \* may an existing deployment fail to load?
    Connected               \* nodes with an address of zdb_connection_type

ASSUME GridDeployAssumption ==
    /\ FarmNodes \cup MetaNodes \cup DataNodes \cup Connected \subseteq Nodes
    /\ IsFiniteSet(Nodes)
    /\ MetaCount \in Nat \ {0}
    /\ ExpectedShards \in Nat \ {0}
    /\ MaxDeploymentRetries \in Nat
    /\ MaxRuns \in Nat
    /\ LoadMayFail \in BOOLEAN

VARIABLES
    contracts,      \* the deployments that exist on the grid
    run,            \* number of the current or last run
    phase,          \* idle, or the type of backend being deployed
    loaded,         \* existing deployments that this run loaded
    deployed,       \* deployments of this run that it knows to have succeeded
    pool,           \* the node pool: nodes used, and for which type
    queue,          \* nodes to deploy to before the farms are searched
    retries,        \* batches of this phase that were not enough
    config          \* the backends in the configuration of zstor

local == <<loaded, deployed, pool, queue, retries>>
vars == <<contracts, run, phase, local, config>>

Types == {"meta", "data"}
Contracts == [node : Nodes, type : Types, run : 1..MaxRuns]
NoQueue == [manual |-> {}, preferred |-> {}]

OfType(type, backends) == {c \in backends : c.type = type}
NodesOf(backends) == {c.node : c \in backends}
Uses(backends) == {<<c.node, c.type>> : c \in backends}

Init ==
    /\ contracts = {}
    /\ run = 0
    /\ phase = "idle"
    /\ loaded = {}
    /\ deployed = {}
    /\ pool = {}
    /\ queue = NoQueue
    /\ retries = 0
    /\ config = {}

-----------------------------------------------------------------------------
\* addNode: of the nodes given, those that have a backend of the other type.
Accepted(type, nodes) ==
    {n \in nodes : \E t \in Types \ {type} : <<n, t>> \in pool'}

QueueFor(type, manual, preferred) ==
    [manual |-> Accepted(type, manual),
     preferred |-> Accepted(type, preferred) \ Accepted(type, manual)]

\* LoadExistingDeployments: a deployment that cannot be loaded is skipped.
LoadsExisting ==
    IF LoadMayFail THEN loaded' \in SUBSET contracts ELSE loaded' = contracts

\* DeployBackends, until the metadata backends are to be deployed.
DeployBackends ==
    /\ phase = "idle"
    /\ run < MaxRuns
    /\ run' = run + 1
    /\ LoadsExisting
    /\ pool' = Uses(loaded')
    /\ phase' = "meta"
    /\ queue' = QueueFor("meta", MetaNodes, {})
    /\ deployed' = {}
    /\ retries' = 0
    /\ UNCHANGED <<contracts, config>>

-----------------------------------------------------------------------------
Count(type) == IF type = "meta" THEN MetaCount ELSE ExpectedShards

\* Mutant: one backend too few is enough.
NeededOffByOne ==
    Count(phase) - 1 - Cardinality(OfType(phase, loaded))
        - Cardinality(OfType(phase, deployed))

\* How many backends are still missing.
Needed ==
    Count(phase) - Cardinality(OfType(phase, loaded))
        - Cardinality(OfType(phase, deployed))

Queued == queue.manual \cup queue.preferred

\* Mutant: only the nodes used for the type at hand are filtered out.
AvailableByType == {n \in FarmNodes : <<n, phase>> \notin pool}

\* NodePool.Get: the nodes of the farms that no backend uses.
Available == {n \in FarmNodes : \A t \in Types : <<n, t>> \notin pool}

\* The nodes of the next batch: from the queue, the manual ones first, or
\* when it is empty from the farms, at random.
Batches ==
    IF Queued # {}
    THEN {batch \in SUBSET Queued :
             /\ \/ Cardinality(batch) = Needed
                \/ Cardinality(batch) < Needed /\ batch = Queued
             /\ batch \cap queue.preferred # {} => queue.manual \subseteq batch}
    ELSE {batch \in SUBSET Available : Cardinality(batch) = Needed}

NewBackends(nodes) == [node : nodes, type : {phase}, run : {run}]

\* Mutant: one batch too many.
RetriesLeftOffByOne == retries <= MaxDeploymentRetries

RetriesLeft == retries < MaxDeploymentRetries

\* Mutant: the nodes of a batch stay in the queue.
BatchEndsKeepsQueue(batch, made, known) ==
    /\ contracts' = contracts \cup NewBackends(made)
    /\ deployed' = deployed \cup NewBackends(known)
    /\ pool' = pool \cup (batch \X {phase})
    /\ queue' = queue
    /\ retries' = IF Cardinality(known) < Needed THEN retries + 1 ELSE retries

\* What a batch leaves behind: of its nodes, those in made have a contract,
\* and those in known reported it and could be loaded again.
BatchEnds(batch, made, known) ==
    /\ contracts' = contracts \cup NewBackends(made)
    /\ deployed' = deployed \cup NewBackends(known)
    /\ pool' = pool \cup (batch \X {phase})
    /\ queue' = [manual |-> queue.manual \ batch,
                 preferred |-> queue.preferred \ batch]
    /\ retries' = IF Cardinality(known) < Needed THEN retries + 1 ELSE retries

\* One pass of the loop of deployInBatches.  A backend that is not known to
\* have succeeded counts as failed, and its contract, if any, stays.
DeployBatch ==
    /\ phase \in Types
    /\ Needed > 0
    /\ RetriesLeft
    /\ \E batch \in Batches : \E made \in SUBSET batch : \E known \in SUBSET made :
          BatchEnds(batch, made, known)
    /\ UNCHANGED <<run, phase, loaded, config>>

\* The command ends, and with it what it knows.
Exit ==
    /\ phase' = "idle"
    /\ loaded' = {}
    /\ deployed' = {}
    /\ pool' = {}
    /\ queue' = NoQueue
    /\ retries' = 0

\* The retries are used up, or the farms have not enough nodes.
DeployFails ==
    /\ phase \in Types
    /\ Needed > 0
    /\ \/ ~ RetriesLeft
       \/ Queued = {} /\ Cardinality(Available) < Needed
    /\ Exit
    /\ UNCHANGED <<contracts, run, config>>

\* A query of the grid fails, the command is interrupted, or the configuration
\* cannot be generated: a backend has no address of the type asked for.
Interrupted ==
    /\ phase # "idle"
    /\ Exit
    /\ UNCHANGED <<contracts, run, config>>

\* All metadata backends are there: the nodes of the new ones are preferred
\* for data, after those the configuration lists.
MetaDone ==
    /\ phase = "meta"
    /\ Needed <= 0
    /\ phase' = "data"
    /\ UNCHANGED pool
    /\ queue' = QueueFor("data", DataNodes, NodesOf(deployed))
    /\ retries' = 0
    /\ UNCHANGED <<contracts, run, loaded, deployed, config>>

\* GenerateRemoteConfig: all backends, if each can be reached.
Generated == loaded \cup deployed
Reachable(backends) == NodesOf(backends) \subseteq Connected

\* All backends are there.
DataDone ==
    /\ phase = "data"
    /\ Needed <= 0
    /\ Reachable(Generated)
    /\ config' = Generated
    /\ Exit
    /\ UNCHANGED <<contracts, run>>

\* DestroyAllBackends: the contracts are cancelled in one transaction.
DestroyBackends ==
    /\ phase = "idle"
    /\ contracts' = {}
    /\ UNCHANGED <<run, phase, local, config>>

\* A contract ends: it ran out of funds, or was cancelled by other means.
ContractEnds ==
    /\ \E c \in contracts : contracts' = contracts \ {c}
    /\ UNCHANGED <<run, phase, local, config>>

Next ==
    \/ DeployBackends
    \/ DeployBatch
    \/ DeployFails
    \/ Interrupted
    \/ MetaDone
    \/ DataDone
    \/ DestroyBackends
    \/ ContractEnds

Spec == Init /\ [][Next]_vars

-----------------------------------------------------------------------------
\* Every variable has its type.
TypeOK ==
    /\ contracts \subseteq Contracts
    /\ run \in 0..MaxRuns
    /\ phase \in {"idle"} \cup Types
    /\ phase # "idle" => run > 0
    /\ loaded \subseteq Contracts
    /\ deployed \subseteq Contracts
    /\ pool \subseteq Nodes \X Types
    /\ queue \in [manual : SUBSET Nodes, preferred : SUBSET Nodes]
    /\ retries \in 0..MaxDeploymentRetries
    /\ config \subseteq Contracts

OnePerNode(backends) ==
    \A c, d \in backends : c.node = d.node /\ c.type = d.type => c = d

\* No node gets two backends of one type, over all runs, contracts of
\* batches that failed and interrupted runs included: the loss of one node
\* must cost one shard.
OneBackendPerNode == OnePerNode(contracts)

\* Only a node that the configuration lists may get a second one, when it has
\* a backend of each type already.
Listed == MetaNodes \cup DataNodes
OnePerUnlistedNode == OnePerNode({c \in contracts : c.node \notin Listed})

\* The run has not tried node n for the backends at hand.
Untried(n) == <<n, phase>> \in pool => <<n, phase>> \in Uses(loaded)

\* A batch never goes to a node that this run tried for the same type, with
\* whatever result: neither from the queue nor from the farms.
OncePerRun ==
    phase # "idle" => \A batch \in Batches : \A n \in batch : Untried(n)

(***************************************************************************)
(* What makes OneBackendPerNode inductive.                                 *)
(***************************************************************************)

\* A run knows the node of every backend there is.
PoolComplete == phase # "idle" => Uses(contracts) \subseteq pool

\* But for those listed, metadata backends go to nodes of the farms without
\* any backend, and data backends to such nodes or to those of the new metadata
\* backends.
FreshNodes ==
    /\ phase = "meta" =>
          /\ Queued \subseteq Listed
          /\ \A n \in NodesOf(deployed) \ Listed : <<n, "data">> \notin pool
    /\ phase = "data" => \A n \in Queued \ Listed : <<n, "data">> \notin pool

NodesInv == TypeOK /\ OnePerUnlistedNode /\ PoolComplete /\ FreshNodes

(***************************************************************************)
(* What ConfigComplete rests on.                                           *)
(***************************************************************************)

\* The backends of a run are on different nodes, whether or not they still
\* exist, and the metadata backends are complete before data is deployed.
BackendsCounted ==
    /\ phase # "idle" =>
          /\ Uses(loaded \cup deployed) \subseteq pool
          /\ OnePerNode(loaded \cup deployed)
          /\ loaded \cap deployed = {}
    /\ phase = "data" =>
          Cardinality(OfType("meta", loaded)) + Cardinality(OfType("meta", deployed))
              >= MetaCount

\* A configuration is written only with enough metadata and data backends,
\* each on a node of its own, whichever runs deployed them, and with none that
\* the frontend cannot reach, also when an earlier run left it behind.
ConfigComplete ==
    [][config' # config =>
          /\ NodesOf(config') \subseteq Connected
          /\ Cardinality(NodesOf(OfType("meta", config'))) >= MetaCount
          /\ Cardinality(NodesOf(OfType("data", config'))) >= ExpectedShards]_vars

\* A configuration is written only with enough metadata and data backends, of
\* this and of earlier runs, also when they are on nodes that were listed.
ConfigEnough ==
    [][config' # config =>
          /\ Cardinality(OfType("meta", config')) >= MetaCount
          /\ Cardinality(OfType("data", config')) >= ExpectedShards]_vars

(***************************************************************************)
(* What OncePerRun and ConfigEnough rest on.                               *)
(***************************************************************************)

\* The queue holds nodes that this run did not try, and while the metadata
\* backends are deployed it has tried none for data.
QueueUntried ==
    /\ phase # "idle" => \A n \in Queued : Untried(n)
    /\ phase = "meta" =>
          \A n \in Nodes : <<n, "data">> \in pool => <<n, "data">> \in Uses(loaded)

\* What a run loaded was made by earlier runs, what it deployed by itself; the
\* metadata backends are there before data is deployed.
RunsCounted ==
    /\ \A c \in contracts : c.run <= run
    /\ \A c \in loaded : c.run < run
    /\ \A c \in deployed : c.run = run
    /\ phase = "data" =>
          Cardinality(OfType("meta", loaded)) + Cardinality(OfType("meta", deployed))
              >= MetaCount

RunInv == TypeOK /\ QueueUntried /\ RunsCounted
=============================================================================
