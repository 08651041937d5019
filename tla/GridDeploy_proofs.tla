------------------------- MODULE GridDeploy_proofs --------------------------
(***************************************************************************)
(* Proofs about GridDeploy.                                                *)
(***************************************************************************)
EXTENDS GridDeploy, FiniteSetTheorems, TLAPS

\* Every node is selected from the farms, and the grid answers for every
\* deployment that exists.
Automatic == MetaNodes = {} /\ DataNodes = {} /\ ~ LoadMayFail

\* Type correctness: every variable of the deployment has its type.
THEOREM TypeCorrect == Spec => []TypeOK
<1>1. Init => TypeOK
  BY GridDeployAssumption DEF Init, TypeOK, NoQueue
<1>2. TypeOK /\ [Next]_vars => TypeOK'
  <2> SUFFICES ASSUME TypeOK, [Next]_vars PROVE TypeOK'
    OBVIOUS
  <2> USE GridDeployAssumption
  <2>e. ASSUME Exit, UNCHANGED <<contracts, run>>, config' \subseteq Contracts
        PROVE  TypeOK'
    BY <2>e DEF Exit, TypeOK, NoQueue
  <2>1. CASE DeployBackends
    <3>1. loaded' \subseteq Contracts
      BY <2>1 DEF DeployBackends, LoadsExisting, TypeOK
    <3>2. pool' \subseteq Nodes \X Types
      BY <2>1, <3>1 DEF DeployBackends, Uses, Contracts
    <3>3. queue' \in [manual : SUBSET Nodes, preferred : SUBSET Nodes]
      BY <2>1 DEF DeployBackends, QueueFor, Accepted
    <3> QED
      BY <2>1, <3>1, <3>2, <3>3 DEF DeployBackends, TypeOK, Types
  <2>2. CASE DeployBatch
    <3>1. PICK batch \in SUBSET Nodes : \E made \in SUBSET batch :
              \E known \in SUBSET batch : BatchEnds(batch, made, known)
      BY <2>2 DEF DeployBatch, Batches, Available, Queued, TypeOK
    <3>2. PICK made \in SUBSET batch, known \in SUBSET batch :
              BatchEnds(batch, made, known)
      BY <3>1
    <3>3. NewBackends(made) \subseteq Contracts /\ NewBackends(known) \subseteq Contracts
      BY <2>2 DEF DeployBatch, NewBackends, Contracts, TypeOK, Types
    <3>4. pool' \subseteq Nodes \X Types
      BY <2>2, <3>2 DEF DeployBatch, BatchEnds, TypeOK
    <3>5. queue' \in [manual : SUBSET Nodes, preferred : SUBSET Nodes]
      BY <3>2 DEF BatchEnds, TypeOK
    <3>6. retries' \in 0..MaxDeploymentRetries
      BY <2>2, <3>2 DEF DeployBatch, RetriesLeft, BatchEnds, TypeOK
    <3> QED
      BY <2>2, <3>2, <3>3, <3>4, <3>5, <3>6 DEF DeployBatch, BatchEnds, TypeOK
  <2>3. CASE MetaDone
    <3>1. NodesOf(deployed) \subseteq Nodes
      BY DEF NodesOf, TypeOK, Contracts
    <3>2. queue' \in [manual : SUBSET Nodes, preferred : SUBSET Nodes]
      BY <2>3, <3>1 DEF MetaDone, QueueFor, Accepted
    <3> QED
      BY <2>3, <3>2 DEF MetaDone, TypeOK, Types
  <2>4. CASE DeployFails
    BY <2>4, <2>e DEF DeployFails, TypeOK
  <2>5. CASE Interrupted
    BY <2>5, <2>e DEF Interrupted, TypeOK
  <2>6. CASE DataDone
    BY <2>6, <2>e DEF DataDone, Generated, TypeOK
  <2>7. CASE DestroyBackends
    BY <2>7 DEF DestroyBackends, TypeOK, local
  <2>8. CASE ContractEnds
    BY <2>8 DEF ContractEnds, TypeOK, local
  <2>9. CASE UNCHANGED vars
    BY <2>9 DEF vars, local, TypeOK
  <2> QED
    BY <2>1, <2>2, <2>3, <2>4, <2>5, <2>6, <2>7, <2>8, <2>9 DEF Next
<1> QED
  BY <1>1, <1>2, PTL DEF Spec

-----------------------------------------------------------------------------
(***************************************************************************)
(* OneBackendPerNode, for every grid, and every number of backends, of     *)
(* retries and of runs.                                                    *)
(***************************************************************************)

\* But for listed nodes, a batch goes to nodes that have no backend of the type
\* at hand.
LEMMA BatchIsFresh ==
    ASSUME FreshNodes, phase \in Types, NEW batch \in Batches
    PROVE  /\ \A n \in batch \ Listed : <<n, phase>> \notin pool
           /\ phase = "meta" => \A n \in batch \ Listed : <<n, "data">> \notin pool
  BY DEF FreshNodes, Batches, Available, Queued, Types

\* Every step preserves the invariant when all deployments can be loaded.
LEMMA NodesNext ==
    ASSUME ~ LoadMayFail, NodesInv, TypeOK', [Next]_vars
    PROVE  NodesInv'
<1> USE DEF NodesInv
<1>e. ASSUME Exit, contracts' = contracts PROVE NodesInv'
  BY <1>e DEF Exit, OnePerUnlistedNode, OnePerNode, PoolComplete, FreshNodes
<1>1. CASE DeployBackends
  <2>1. contracts' = contracts /\ loaded' = contracts /\ pool' = Uses(contracts)
        /\ phase' = "meta" /\ deployed' = {}
    BY <1>1 DEF DeployBackends, LoadsExisting
  <2>2. Queued' \subseteq Listed
    BY <1>1 DEF DeployBackends, QueueFor, Accepted, Queued, Listed
  <2> QED
    BY <2>1, <2>2 DEF OnePerUnlistedNode, OnePerNode, PoolComplete, FreshNodes, NodesOf
<1>2. CASE DeployBatch
  <2>0. phase \in Types /\ phase' = phase
    BY <1>2 DEF DeployBatch
  <2>1. PICK batch \in Batches : \E made \in SUBSET batch :
            \E known \in SUBSET batch : BatchEnds(batch, made, known)
    BY <1>2 DEF DeployBatch
  <2>2. PICK made \in SUBSET batch, known \in SUBSET batch :
            BatchEnds(batch, made, known)
    BY <2>1
  <2>3. /\ \A n \in batch \ Listed : <<n, phase>> \notin pool
        /\ phase = "meta" => \A n \in batch \ Listed : <<n, "data">> \notin pool
    BY <2>0, BatchIsFresh
  <2>4. OnePerUnlistedNode'
    <3>1. SUFFICES ASSUME NEW c \in contracts', NEW d \in contracts',
                          c.node = d.node, c.type = d.type, c.node \notin Listed
                   PROVE  c = d
      BY DEF OnePerUnlistedNode, OnePerNode, Listed
    <3>2. \A x \in contracts : <<x.node, x.type>> \in pool
      BY <2>0 DEF PoolComplete, Uses, Types
    <3>3. \A x \in NewBackends(made) :
              /\ x.node \notin Listed => <<x.node, x.type>> \notin pool
              /\ x = [node |-> x.node, type |-> phase, run |-> run]
      BY <2>3 DEF NewBackends
    <3>4. contracts' = contracts \cup NewBackends(made)
      BY <2>2 DEF BatchEnds
    <3>5. CASE c \in contracts /\ d \in contracts
      BY <3>1, <3>5 DEF OnePerUnlistedNode, OnePerNode
    <3>6. CASE c \in NewBackends(made) /\ d \in NewBackends(made)
      BY <3>1, <3>3, <3>6
    <3>7. CASE c \in contracts /\ d \in NewBackends(made)
      BY <3>1, <3>2, <3>3, <3>7
    <3>8. CASE c \in NewBackends(made) /\ d \in contracts
      BY <3>1, <3>2, <3>3, <3>8
    <3> QED
      BY <3>4, <3>5, <3>6, <3>7, <3>8
  <2>5. PoolComplete'
    <3>1. Uses(contracts) \subseteq pool
      BY <2>0 DEF PoolComplete, Types
    <3>2. \A c \in NewBackends(made) : <<c.node, c.type>> \in batch \X {phase}
      BY DEF NewBackends
    <3> QED
      BY <2>2, <3>1, <3>2 DEF PoolComplete, BatchEnds, Uses
  <2>6. FreshNodes'
    <3>1. CASE phase = "meta"
      <4>1. Queued' \subseteq Listed
        BY <2>2, <3>1 DEF BatchEnds, Queued, FreshNodes
      <4>2. \A n \in NodesOf(deployed') \ Listed : <<n, "data">> \notin pool
        <5>1. \A c \in NewBackends(known) : c.node \in batch
          BY DEF NewBackends
        <5> QED
          BY <2>2, <2>3, <3>1, <5>1 DEF BatchEnds, FreshNodes, NodesOf
      <4>3. pool' = pool \cup (batch \X {"meta"})
        BY <2>2, <3>1 DEF BatchEnds
      <4> QED
        BY <2>0, <3>1, <4>1, <4>2, <4>3 DEF FreshNodes, Listed
    <3>2. CASE phase = "data"
      <4>1. Queued' = Queued \ batch
        BY <2>2 DEF BatchEnds, Queued
      <4>2. pool' = pool \cup (batch \X {"data"})
        BY <2>2, <3>2 DEF BatchEnds
      <4> QED
        BY <2>0, <3>2, <4>1, <4>2 DEF FreshNodes, Listed
    <3> QED
      BY <2>0, <3>1, <3>2 DEF Types
  <2> QED
    BY <2>4, <2>5, <2>6
<1>3. CASE MetaDone
  <2>1. /\ contracts' = contracts /\ pool' = pool /\ deployed' = deployed
        /\ phase = "meta" /\ phase' = "data"
    BY <1>3 DEF MetaDone
  <2>2. Queued' \subseteq NodesOf(deployed) \cup Listed
    BY <1>3 DEF MetaDone, QueueFor, Accepted, Queued, Listed
  <2> QED
    BY <2>1, <2>2 DEF OnePerUnlistedNode, OnePerNode, PoolComplete, FreshNodes, Listed
<1>4. CASE DeployFails
  BY <1>4, <1>e DEF DeployFails
<1>5. CASE Interrupted
  BY <1>5, <1>e DEF Interrupted
<1>6. CASE DataDone
  BY <1>6, <1>e DEF DataDone
<1>7. CASE DestroyBackends \/ ContractEnds
  <2>1. contracts' \subseteq contracts /\ UNCHANGED <<phase, local>>
    BY <1>7 DEF DestroyBackends, ContractEnds
  <2>2. Uses(contracts') \subseteq Uses(contracts)
    BY <2>1 DEF Uses
  <2> QED
    BY <2>1, <2>2 DEF OnePerUnlistedNode, OnePerNode, PoolComplete, FreshNodes,
                      Queued, local, Listed
<1>8. CASE UNCHANGED vars
  BY <1>8 DEF vars, local, OnePerUnlistedNode, OnePerNode, PoolComplete, FreshNodes,
              Queued, Listed
<1> QED
  BY <1>1, <1>2, <1>3, <1>4, <1>5, <1>6, <1>7, <1>8 DEF Next

\* Initially nothing is deployed.
LEMMA NodesInit == Init => NodesInv
<1>1. Init => TypeOK
  BY GridDeployAssumption DEF Init, TypeOK, NoQueue
<1> QED
  BY <1>1 DEF Init, NodesInv, OnePerUnlistedNode, OnePerNode, PoolComplete, FreshNodes

\* The invariant when all deployments can be loaded.
LEMMA NodesInvariance ==
    ASSUME ~ LoadMayFail
    PROVE  Spec => []NodesInv
<1>1. TypeOK' /\ NodesInv /\ [Next]_vars => NodesInv'
  BY NodesNext
<1> QED
  BY <1>1, NodesInit, TypeCorrect, PTL DEF Spec

\* Without listed nodes, no node has two.
LEMMA NoneListed ==
    ASSUME Automatic, NodesInv
    PROVE  OneBackendPerNode
BY DEF Automatic, NodesInv, OnePerUnlistedNode, OneBackendPerNode, OnePerNode, Listed

\* Only a node that the configuration lists ever gets a second backend of one
\* type, however many batches fail, contracts are left behind, runs are
\* interrupted and contracts end.
THEOREM UnlistedNodesDistinct ==
    ASSUME ~ LoadMayFail
    PROVE  Spec => []OnePerUnlistedNode
<1>1. NodesInv => OnePerUnlistedNode
  BY DEF NodesInv
<1> QED
  BY <1>1, NodesInvariance, PTL

\* So when all nodes come from the farms, no node gets two.
THEOREM NodesDistinct ==
    ASSUME Automatic
    PROVE  Spec => []OneBackendPerNode
<1>1. ~ LoadMayFail
  BY DEF Automatic
<1>2. NodesInv => OneBackendPerNode
  BY NoneListed
<1> QED
  BY <1>1, <1>2, NodesInvariance, PTL

-----------------------------------------------------------------------------
(***************************************************************************)
(* ConfigComplete, under the same assumptions.                             *)
(***************************************************************************)

\* Backends of one type on different nodes are as many as their nodes.
LEMMA AsManyNodes ==
    ASSUME NEW type, NEW backends \in SUBSET Contracts, OnePerNode(backends)
    PROVE  /\ IsFiniteSet(OfType(type, backends))
           /\ Cardinality(OfType(type, backends)) \in Nat
           /\ Cardinality(NodesOf(OfType(type, backends)))
                  = Cardinality(OfType(type, backends))
<1> DEFINE S == OfType(type, backends)
           T == NodesOf(S)
           f == [c \in S |-> c.node]
<1>1. T \subseteq Nodes
  BY DEF NodesOf, OfType, Contracts
<1>2. IsFiniteSet(T)
  BY <1>1, GridDeployAssumption, FS_Subset
<1>3. f \in [S -> T]
  BY DEF NodesOf
<1>4. \A c, d \in S : f[c] = f[d] => c = d
  BY DEF OnePerNode, OfType
<1>5. f \in Injection(S, T)
  BY <1>3, <1>4 DEF Injection, IsInjective
<1>6. \A n \in T : \E c \in S : f[c] = n
  BY DEF NodesOf
<1>7. f \in Surjection(S, T)
  BY <1>3, <1>6 DEF Surjection
<1>8. IsFiniteSet(S) /\ Cardinality(S) = Cardinality(T)
  BY <1>2, <1>5, <1>7, FS_Injection
<1> QED
  BY <1>8, FS_CardinalityType

\* When none is missing, the nodes of a run's backends are enough.
LEMMA EnoughNodes ==
    ASSUME TypeOK, BackendsCounted, phase # "idle", NEW type, NEW n \in Nat,
           Cardinality(OfType(type, loaded)) + Cardinality(OfType(type, deployed)) >= n
    PROVE  Cardinality(NodesOf(OfType(type, loaded \cup deployed))) >= n
<1> DEFINE A == OfType(type, loaded)
           B == OfType(type, deployed)
<1>1. loaded \cup deployed \in SUBSET Contracts /\ OnePerNode(loaded \cup deployed)
  BY DEF TypeOK, BackendsCounted
<1>2. Cardinality(NodesOf(OfType(type, loaded \cup deployed)))
          = Cardinality(OfType(type, loaded \cup deployed))
  BY <1>1, AsManyNodes
<1>3. IsFiniteSet(A) /\ IsFiniteSet(B)
  <2>1. OnePerNode(loaded) /\ OnePerNode(deployed)
    BY <1>1 DEF OnePerNode
  <2> QED
    BY <2>1, AsManyNodes DEF TypeOK
<1>4. OfType(type, loaded \cup deployed) = A \cup B
  BY DEF OfType
<1>5. A \cap B = {}
  BY DEF OfType, BackendsCounted
<1>6. Cardinality(A \cup B) = Cardinality(A) + Cardinality(B) - Cardinality(A \cap B)
  BY <1>3, FS_Union
<1>7. Cardinality(A) \in Nat /\ Cardinality(B) \in Nat /\ Cardinality({}) = 0
  BY <1>3, FS_CardinalityType, FS_EmptySet
<1>8. Cardinality(A) + Cardinality(B) >= n
  OBVIOUS
<1> HIDE DEF A, B
<1>9. Cardinality(A \cup B) = Cardinality(A) + Cardinality(B)
  <2>1. Cardinality(A \cap B) = 0
    BY <1>5, <1>7, Zenon
  <2> QED
    BY <2>1, <1>6, <1>7
<1>10. Cardinality(A \cup B) >= n
  BY <1>7, <1>8, <1>9
<1> QED
  BY <1>2, <1>4, <1>10

\* Every step preserves BackendsCounted.
LEMMA CountedNext ==
    ASSUME Automatic, NodesInv, BackendsCounted, TypeOK', [Next]_vars
    PROVE  BackendsCounted'
<1>e. ASSUME Exit PROVE BackendsCounted'
  BY <1>e DEF Exit, BackendsCounted
<1>1. CASE DeployBackends
  <2>1. loaded' = contracts /\ pool' = Uses(contracts) /\ phase' = "meta" /\ deployed' = {}
    BY <1>1 DEF DeployBackends, LoadsExisting, Automatic
  <2> QED
    BY <2>1, NoneListed DEF BackendsCounted, OneBackendPerNode
<1>2. CASE DeployBatch
  <2>0. phase \in Types /\ phase' = phase /\ loaded' = loaded
    BY <1>2 DEF DeployBatch
  <2>1. PICK batch \in Batches : \E made \in SUBSET batch :
            \E known \in SUBSET batch : BatchEnds(batch, made, known)
    BY <1>2 DEF DeployBatch
  <2>2. PICK made \in SUBSET batch, known \in SUBSET batch :
            BatchEnds(batch, made, known)
    BY <2>1
  <2>3. /\ deployed' = deployed \cup NewBackends(known)
        /\ pool' = pool \cup (batch \X {phase})
    BY <2>2 DEF BatchEnds
  <2>4. /\ Uses(loaded \cup deployed) \subseteq pool
        /\ OnePerNode(loaded \cup deployed)
        /\ loaded \cap deployed = {}
    BY <2>0 DEF BackendsCounted, Types
  <2>5. \A x \in loaded \cup deployed : <<x.node, x.type>> \in pool
    BY <2>4 DEF Uses
  <2>6. \A x \in NewBackends(known) :
            /\ x = [node |-> x.node, type |-> phase, run |-> run]
            /\ x.node \in batch
            /\ <<x.node, x.type>> \notin pool
    <3>1. FreshNodes
      BY DEF NodesInv
    <3>2. \A n \in batch : <<n, phase>> \notin pool
      BY <2>0, <3>1, BatchIsFresh DEF Automatic, Listed
    <3> QED
      BY <3>2 DEF NewBackends
  <2>7. Uses(loaded \cup deployed') \subseteq pool'
    BY <2>3, <2>5, <2>6 DEF Uses
  <2>8. OnePerNode(loaded \cup deployed')
    <3>1. SUFFICES ASSUME NEW c \in loaded \cup deployed', NEW d \in loaded \cup deployed',
                          c.node = d.node, c.type = d.type
                   PROVE  c = d
      BY DEF OnePerNode
    <3>2. CASE c \in NewBackends(known) /\ d \in NewBackends(known)
      BY <2>6, <3>1, <3>2
    <3>3. CASE c \notin NewBackends(known) /\ d \notin NewBackends(known)
      BY <2>3, <2>4, <3>1, <3>3 DEF OnePerNode
    <3>4. CASE c \in NewBackends(known) /\ d \notin NewBackends(known)
      BY <2>3, <2>5, <2>6, <3>1, <3>4
    <3>5. CASE c \notin NewBackends(known) /\ d \in NewBackends(known)
      BY <2>3, <2>5, <2>6, <3>1, <3>5
    <3> QED
      BY <3>2, <3>3, <3>4, <3>5
  <2>9. loaded \cap deployed' = {}
    BY <2>3, <2>4, <2>5, <2>6
  <2>10. phase = "data" => OfType("meta", deployed') = OfType("meta", deployed)
    <3>1. \A x \in NewBackends(known) : x.type = phase
      BY DEF NewBackends
    <3> QED
      BY <2>3, <3>1 DEF OfType
  <2> QED
    BY <2>0, <2>7, <2>8, <2>9, <2>10 DEF BackendsCounted
<1>3. CASE MetaDone
  <2>1. /\ phase = "meta" /\ phase' = "data" /\ Needed <= 0
        /\ UNCHANGED <<loaded, deployed, pool>>
    BY <1>3 DEF MetaDone
  <2>2. /\ Cardinality(OfType("meta", loaded)) \in Nat
        /\ Cardinality(OfType("meta", deployed)) \in Nat
    <3>1. OnePerNode(loaded) /\ OnePerNode(deployed)
      BY <2>1 DEF BackendsCounted, OnePerNode
    <3> QED
      BY <3>1, AsManyNodes DEF NodesInv, TypeOK
  <2>3. Cardinality(OfType("meta", loaded)) + Cardinality(OfType("meta", deployed))
            >= MetaCount
    BY <2>1, <2>2, GridDeployAssumption DEF Needed, Count
  <2> QED
    BY <2>1, <2>3 DEF BackendsCounted
<1>4. CASE DeployFails \/ Interrupted \/ DataDone
  BY <1>4, <1>e DEF DeployFails, Interrupted, DataDone
<1>5. CASE DestroyBackends \/ ContractEnds \/ UNCHANGED vars
  BY <1>5 DEF DestroyBackends, ContractEnds, vars, local, BackendsCounted
<1> QED
  BY <1>1, <1>2, <1>3, <1>4, <1>5 DEF Next

\* When all nodes come from the farms, every configuration that is written
\* has its four metadata backends and its expected shards on as many nodes,
\* all of which can be reached.
THEOREM ConfigsComplete ==
    ASSUME Automatic
    PROVE  Spec => ConfigComplete
<1> DEFINE Complete(backends) ==
               /\ NodesOf(backends) \subseteq Connected
               /\ Cardinality(NodesOf(OfType("meta", backends))) >= MetaCount
               /\ Cardinality(NodesOf(OfType("data", backends))) >= ExpectedShards
<1>1. Init => NodesInv /\ BackendsCounted
  BY NodesInit DEF Init, BackendsCounted
<1>2. TypeOK' /\ NodesInv /\ BackendsCounted /\ [Next]_vars
          => NodesInv' /\ BackendsCounted'
  BY NodesNext, CountedNext DEF Automatic
<1>3. NodesInv /\ BackendsCounted /\ [Next]_vars => [config' # config => Complete(config')]_vars
  <2>1. ASSUME NodesInv, BackendsCounted, DataDone PROVE Complete(config')
    <3>1. phase = "data" /\ Needed <= 0 /\ config' = loaded \cup deployed
      BY <2>1 DEF DataDone, Generated
    <3>2. /\ Cardinality(OfType("data", loaded)) \in Nat
          /\ Cardinality(OfType("data", deployed)) \in Nat
      <4>1. OnePerNode(loaded) /\ OnePerNode(deployed)
        BY <2>1, <3>1 DEF BackendsCounted, OnePerNode
      <4> QED
        BY <2>1, <4>1, AsManyNodes DEF NodesInv, TypeOK
    <3>3. Cardinality(OfType("data", loaded)) + Cardinality(OfType("data", deployed))
              >= ExpectedShards
      BY <3>1, <3>2, GridDeployAssumption DEF Needed, Count
    <3>4. TypeOK /\ phase # "idle"
      BY <2>1, <3>1 DEF NodesInv
    <3>5. Cardinality(NodesOf(OfType("data", loaded \cup deployed))) >= ExpectedShards
      BY <2>1, <3>3, <3>4, EnoughNodes, GridDeployAssumption
    <3>6. Cardinality(OfType("meta", loaded)) + Cardinality(OfType("meta", deployed))
              >= MetaCount
      BY <2>1, <3>1 DEF BackendsCounted
    <3>7. Cardinality(NodesOf(OfType("meta", loaded \cup deployed))) >= MetaCount
      BY <2>1, <3>4, <3>6, EnoughNodes, GridDeployAssumption
    <3>8. NodesOf(loaded \cup deployed) \subseteq Connected
      BY <2>1 DEF DataDone, Generated, Reachable
    <3> QED
      BY <3>1, <3>5, <3>7, <3>8
  <2>2. [Next]_vars /\ config' # config => DataDone
    BY DEF Next, vars, DeployBackends, DeployBatch, DeployFails, Interrupted,
           MetaDone, DestroyBackends, ContractEnds
  <2> QED
    BY <2>1, <2>2
<1> QED
  BY <1>1, <1>2, <1>3, TypeCorrect, PTL DEF Spec, ConfigComplete

-----------------------------------------------------------------------------
(***************************************************************************)
(* What holds also with listed nodes, and when the grid does not answer    *)
(* for every deployment.                                                   *)
(***************************************************************************)

\* There are finitely many backends, and their number is a number.
LEMMA FiniteBackends ==
    ASSUME NEW backends \in SUBSET Contracts
    PROVE  IsFiniteSet(backends) /\ Cardinality(backends) \in Nat
<1> DEFINE P == (Nodes \X Types) \X (1..MaxRuns)
           f == [c \in Contracts |-> <<<<c.node, c.type>>, c.run>>]
<1>1. IsFiniteSet(Types) /\ IsFiniteSet(1..MaxRuns)
  <2>1. IsFiniteSet({"meta", "data"})
    <3>1. IsFiniteSet({} \cup {"meta"})
      BY FS_EmptySet, FS_AddElement
    <3>2. IsFiniteSet(({} \cup {"meta"}) \cup {"data"})
      BY <3>1, FS_AddElement
    <3>3. ({} \cup {"meta"}) \cup {"data"} = {"meta", "data"}
      OBVIOUS
    <3> QED
      BY <3>2, <3>3
  <2> QED
    BY <2>1, FS_Interval, GridDeployAssumption DEF Types
<1>2. IsFiniteSet(Nodes \X Types)
  BY <1>1, FS_Product, GridDeployAssumption
<1>3. IsFiniteSet(P)
  BY <1>1, <1>2, FS_Product
<1>4. f \in [Contracts -> P]
  BY DEF Contracts
<1>5. \A c, d \in Contracts : f[c] = f[d] => c = d
  <2> SUFFICES ASSUME NEW c \in Contracts, NEW d \in Contracts, f[c] = f[d]
               PROVE  c = d
    OBVIOUS
  <2>1. c.node = d.node /\ c.type = d.type /\ c.run = d.run
    OBVIOUS
  <2> QED
    BY <2>1 DEF Contracts
<1>6. f \in Injection(Contracts, P)
  BY <1>4, <1>5 DEF Injection, IsInjective
<1>7. IsFiniteSet(Contracts)
  BY <1>3, <1>6, FS_Injection
<1> QED
  BY <1>7, FS_Subset, FS_CardinalityType

\* The queue that a phase begins with holds nodes used for the other type.
LEMMA QueueAccepted ==
    ASSUME NEW type, NEW manual, NEW preferred, queue' = QueueFor(type, manual, preferred)
    PROVE  Queued' \subseteq manual \cup preferred
BY DEF QueueFor, Accepted, Queued

\* A batch, from the queue or from the farms, goes to untried nodes.
LEMMA BatchUntried ==
    ASSUME QueueUntried, phase \in Types
    PROVE  \A batch \in Batches : \A n \in batch : Untried(n)
BY DEF QueueUntried, Batches, Available, Untried, Types

\* Every step preserves QueueUntried.
LEMMA UntriedNext ==
    ASSUME TypeOK, QueueUntried, [Next]_vars
    PROVE  QueueUntried'
<1>1. CASE DeployBackends
  <2>1. pool' = Uses(loaded')
    BY <1>1 DEF DeployBackends
  <2> QED
    BY <2>1 DEF QueueUntried, Untried, Uses
<1>2. CASE DeployBatch
  <2>1. PICK batch \in Batches :
            /\ pool' = pool \cup (batch \X {phase})
            /\ queue' = [manual |-> queue.manual \ batch,
                         preferred |-> queue.preferred \ batch]
            /\ phase \in Types /\ phase' = phase /\ loaded' = loaded
    BY <1>2 DEF DeployBatch, BatchEnds
  <2>2. Queued' = Queued \ batch
    BY <2>1 DEF Queued
  <2>3. \A n \in Queued' : Untried(n)'
    BY <2>1, <2>2 DEF QueueUntried, Untried, Types, Uses
  <2>4. phase = "meta" => \A n : <<n, "data">> \in pool' => <<n, "data">> \in pool
    BY <2>1
  <2> QED
    BY <2>1, <2>3, <2>4 DEF QueueUntried, Uses
<1>3. CASE MetaDone
  <2>1. /\ phase = "meta" /\ phase' = "data" /\ UNCHANGED <<pool, loaded>>
        /\ queue' = QueueFor("data", DataNodes, NodesOf(deployed))
    BY <1>3 DEF MetaDone
  <2>2. Queued' \subseteq Nodes
    <3>1. NodesOf(deployed) \subseteq Nodes
      BY DEF NodesOf, TypeOK, Contracts
    <3> QED
      BY <2>1, <3>1, QueueAccepted, GridDeployAssumption
  <2> QED
    BY <2>1, <2>2 DEF QueueUntried, Untried, Uses
<1>4. CASE DeployFails \/ Interrupted \/ DataDone
  BY <1>4 DEF DeployFails, Interrupted, DataDone, Exit, QueueUntried
<1>5. CASE DestroyBackends \/ ContractEnds \/ UNCHANGED vars
  BY <1>5 DEF DestroyBackends, ContractEnds, vars, local, QueueUntried, Untried, Queued, Uses
<1> QED
  BY <1>1, <1>2, <1>3, <1>4, <1>5 DEF Next

\* Every step preserves RunsCounted.
LEMMA RunsNext ==
    ASSUME TypeOK, RunsCounted, [Next]_vars
    PROVE  RunsCounted'
<1>t. run \in Nat /\ \A c \in contracts : c.run \in Nat
  BY GridDeployAssumption DEF TypeOK, Contracts
<1>e. ASSUME Exit, UNCHANGED <<contracts, run>> PROVE RunsCounted'
  BY <1>e DEF Exit, RunsCounted
<1>1. CASE DeployBackends
  <2>1. /\ run' = run + 1 /\ contracts' = contracts /\ loaded' \subseteq contracts
        /\ deployed' = {} /\ phase' = "meta"
    BY <1>1 DEF DeployBackends, LoadsExisting
  <2> QED
    BY <1>t, <2>1 DEF RunsCounted
<1>2. CASE DeployBatch
  <2>1. PICK batch \in Batches : \E made \in SUBSET batch : \E known \in SUBSET made :
            BatchEnds(batch, made, known)
    BY <1>2 DEF DeployBatch
  <2>2. PICK made, known :
            /\ contracts' = contracts \cup NewBackends(made)
            /\ deployed' = deployed \cup NewBackends(known)
            /\ UNCHANGED <<run, phase, loaded>>
    BY <1>2, <2>1 DEF DeployBatch, BatchEnds
  <2>3. \A nodes : \A c \in NewBackends(nodes) : c.run = run /\ c.type = phase
    BY DEF NewBackends
  <2>4. phase = "data" => OfType("meta", deployed') = OfType("meta", deployed)
    BY <2>2, <2>3 DEF OfType
  <2> QED
    BY <1>t, <2>2, <2>3, <2>4 DEF RunsCounted
<1>3. CASE MetaDone
  <2>1. /\ phase = "meta" /\ phase' = "data" /\ Needed <= 0
        /\ UNCHANGED <<contracts, run, loaded, deployed>>
    BY <1>3 DEF MetaDone
  <2>2. OfType("meta", loaded) \in SUBSET Contracts /\ OfType("meta", deployed) \in SUBSET Contracts
    BY DEF OfType, TypeOK
  <2>3. /\ Cardinality(OfType("meta", loaded)) \in Nat
        /\ Cardinality(OfType("meta", deployed)) \in Nat
    BY <2>2, FiniteBackends
  <2>4. Cardinality(OfType("meta", loaded)) + Cardinality(OfType("meta", deployed)) >= MetaCount
    BY <2>1, <2>3, GridDeployAssumption DEF Needed, Count
  <2> QED
    BY <2>1, <2>4 DEF RunsCounted
<1>4. CASE DeployFails
  BY <1>4, <1>e DEF DeployFails
<1>5. CASE Interrupted
  BY <1>5, <1>e DEF Interrupted
<1>6. CASE DataDone
  BY <1>6, <1>e DEF DataDone
<1>7. CASE DestroyBackends \/ ContractEnds \/ UNCHANGED vars
  BY <1>7 DEF DestroyBackends, ContractEnds, vars, local, RunsCounted
<1> QED
  BY <1>1, <1>2, <1>3, <1>4, <1>5, <1>6, <1>7 DEF Next

\* The invariant of a run, whatever is listed and whatever is found.
LEMMA RunInvariance == Spec => []RunInv
<1>1. Init => QueueUntried /\ RunsCounted
  BY DEF Init, QueueUntried, RunsCounted
<1>2. TypeOK /\ QueueUntried /\ RunsCounted /\ [Next]_vars => QueueUntried' /\ RunsCounted'
  BY UntriedNext, RunsNext
<1>3. RunInv <=> TypeOK /\ QueueUntried /\ RunsCounted
  BY DEF RunInv
<1> QED
  BY <1>1, <1>2, <1>3, TypeCorrect, PTL DEF Spec

\* No run goes twice to a node for backends of one type, however many batches
\* fail, whichever nodes are listed and whatever the grid does not answer.
THEOREM NodesTriedOnce == Spec => []OncePerRun
<1>1. RunInv => OncePerRun
  BY BatchUntried DEF RunInv, OncePerRun, TypeOK
<1> QED
  BY <1>1, RunInvariance, PTL

\* The backends of one type of a run are those it loaded and those it made.
LEMMA BackendsAdd ==
    ASSUME RunInv, NEW type
    PROVE  Cardinality(OfType(type, Generated))
              = Cardinality(OfType(type, loaded)) + Cardinality(OfType(type, deployed))
<1> DEFINE A == OfType(type, loaded)
           B == OfType(type, deployed)
<1>1. A \in SUBSET Contracts /\ B \in SUBSET Contracts
  BY DEF OfType, RunInv, TypeOK
<1>2. IsFiniteSet(A) /\ IsFiniteSet(B) /\ Cardinality(A) \in Nat /\ Cardinality(B) \in Nat
  BY <1>1, FiniteBackends
<1>3. A \cap B = {}
  <2>1. \A c \in loaded : c.run < run /\ c.run \in Nat /\ run \in Nat
    BY GridDeployAssumption DEF RunInv, RunsCounted, TypeOK, Contracts
  <2>2. \A c \in deployed : c.run = run
    BY DEF RunInv, RunsCounted
  <2> QED
    BY <2>1, <2>2 DEF OfType
<1>4. OfType(type, Generated) = A \cup B
  BY DEF OfType, Generated
<1> HIDE DEF A, B
<1>5. Cardinality(A \cup B) = Cardinality(A) + Cardinality(B) - Cardinality(A \cap B)
  BY <1>2, FS_Union
<1>6. Cardinality(A \cap B) = 0
  BY <1>3, FS_EmptySet, Zenon
<1>7. Cardinality(A \cup B) = Cardinality(A) + Cardinality(B)
  BY <1>2, <1>5, <1>6
<1> QED
  BY <1>4, <1>7 DEF A, B

\* A configuration is written only when there are four metadata backends and
\* the expected shards, also when nodes are listed and deployments of earlier
\* runs are not found.
THEOREM ConfigsHaveEnough == Spec => ConfigEnough
<1>1. ASSUME RunInv, DataDone
      PROVE  /\ Cardinality(OfType("meta", config')) >= MetaCount
             /\ Cardinality(OfType("data", config')) >= ExpectedShards
  <2>1. phase = "data" /\ Needed <= 0 /\ config' = Generated
    BY <1>1 DEF DataDone
  <2>2. OfType("data", loaded) \in SUBSET Contracts /\ OfType("data", deployed) \in SUBSET Contracts
    BY <1>1 DEF OfType, RunInv, TypeOK
  <2>3. /\ Cardinality(OfType("data", loaded)) \in Nat
        /\ Cardinality(OfType("data", deployed)) \in Nat
    BY <2>2, FiniteBackends
  <2>4. Cardinality(OfType("data", loaded)) + Cardinality(OfType("data", deployed))
            >= ExpectedShards
    BY <2>1, <2>3, GridDeployAssumption DEF Needed, Count
  <2>5. Cardinality(OfType("meta", loaded)) + Cardinality(OfType("meta", deployed))
            >= MetaCount
    BY <1>1, <2>1 DEF RunInv, RunsCounted
  <2>6. Cardinality(OfType("meta", Generated)) >= MetaCount
    BY <1>1, <2>5, BackendsAdd
  <2>7. Cardinality(OfType("data", Generated)) >= ExpectedShards
    BY <1>1, <2>4, BackendsAdd
  <2> QED
    BY <2>1, <2>6, <2>7
<1>2. [Next]_vars /\ config' # config => DataDone
  BY DEF Next, vars, DeployBackends, DeployBatch, DeployFails, Interrupted,
         MetaDone, DestroyBackends, ContractEnds
<1>3. RunInv /\ [Next]_vars =>
         [config' # config =>
             /\ Cardinality(OfType("meta", config')) >= MetaCount
             /\ Cardinality(OfType("data", config')) >= ExpectedShards]_vars
  BY <1>1, <1>2
<1> QED
  BY <1>3, RunInvariance, PTL DEF Spec, ConfigEnough
=============================================================================
