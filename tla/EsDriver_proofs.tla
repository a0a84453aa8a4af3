-------------------------- MODULE EsDriver_proofs --------------------------
(***************************************************************************)
(* The type invariant of the specification of EsDriver, for every value of *)
(* its constants that its modules allow.                                   *)
(***************************************************************************)
EXTENDS EsProperties, FiniteSetTheorems, TLAPS

-----------------------------------------------------------------------------
(***************************************************************************)
(* Cardinalities and counts.                                               *)
(***************************************************************************)
\* There are finitely many Pod names.
LEMMA PodsFinite == IsFiniteSet(Pods)
<1>1. IsFiniteSet(Ordinals)
  BY FS_Interval, MaxReplicasAssumption DEF Ordinals
<1> QED
  BY <1>1, FS_Product, NodeSetsAssumption DEF Pods

\* The cardinality of a set of Pods is a natural number.
LEMMA PodsCardinality ==
  ASSUME NEW S, S \subseteq Pods
  PROVE  Cardinality(S) \in Nat
BY PodsFinite, FS_Subset, FS_CardinalityType

\* The quorum of a natural number is a natural number.
LEMMA QuorumType == ASSUME NEW n \in Nat PROVE Quorum(n) \in Nat
BY DEF Quorum

\* There is a template to give to what does not exist.
LEMMA SomeTemplateType == SomeTemplate \in Templates
BY TemplatesAssumption DEF SomeTemplate

-----------------------------------------------------------------------------
(***************************************************************************)
(* The records the operator and Kubernetes build are of their types.       *)
(***************************************************************************)
LEMMA StatefulSetTypes ==
  /\ \A uid \in Uids : NoStatefulSet(uid) \in StatefulSets
  /\ \A uid \in Uids, n \in 0 .. MaxReplicas, t \in Templates :
       NewStatefulSet(uid, n, t) \in StatefulSets
  /\ \A s \in StatefulSets, n \in 0 .. MaxReplicas, t \in Templates, r \in BOOLEAN :
       WrittenStatefulSet(s, n, t, r) \in StatefulSets
<1>1. \A uid \in Uids : NoStatefulSet(uid) \in StatefulSets
  BY SomeTemplateType, MaxReplicasAssumption DEF NoStatefulSet, StatefulSets, Uids
<1>2. \A uid \in Uids, n \in 0 .. MaxReplicas, t \in Templates :
        NewStatefulSet(uid, n, t) \in StatefulSets
  BY DEF NewStatefulSet, StatefulSets, Uids
<1>3. \A s \in StatefulSets, n \in 0 .. MaxReplicas, t \in Templates, r \in BOOLEAN :
        WrittenStatefulSet(s, n, t, r) \in StatefulSets
  <2> TAKE s \in StatefulSets, n \in 0 .. MaxReplicas, t \in Templates, r \in BOOLEAN
  <2> DEFINE gen == IF s.replicas = n /\ s.tmpl = t THEN s.gen ELSE s.gen + 1
  <2>1. gen \in Nat
    BY DEF StatefulSets
  <2>2. WrittenStatefulSet(s, n, t, r)
          = [s EXCEPT !.replicas = n, !.tmpl = t, !.rendered = r, !.gen = gen]
    BY DEF WrittenStatefulSet
  <2> HIDE DEF gen
  <2> QED
    BY <2>1, <2>2 DEF StatefulSets
<1> QED
  BY <1>1, <1>2, <1>3

\* A Pod that does not exist, and a new one, are Pods.
LEMMA PodTypes ==
  /\ \A uid \in Uids : NoPod(uid) \in PodRecords
  /\ \A uid \in Uids, t \in Templates : NewPod(uid, t) \in PodRecords
BY SomeTemplateType DEF NoPod, NewPod, PodRecords, Phases, Uids

\* What a reconciliation carries as it starts, and once it asks for another one.
LEMMA PassTypes ==
  /\ \A r \in Resources : NewPass(r) \in Passes
  /\ \A c \in Passes : Requeue(c) \in Passes
<1>1. \A r \in Resources : NewPass(r) \in Passes
  BY StatefulSetTypes DEF NewPass, Passes, Resources, Uids
<1>2. \A c \in Passes : Requeue(c) \in Passes
  BY DEF Requeue, Passes
<1> QED
  BY <1>1, <1>2

\* The nodes asked for once are a set of Pods.
LEMMA NodesTypes ==
  ASSUME TypeOK
  PROVE  /\ KnownNodes \subseteq Pods
         /\ \A c \in Passes : WithNodes(c) \in Passes
<1>1. pass \in Passes /\ joined \subseteq Pods
  BY DEF TypeOK, DriverTypeOK, ElasticsearchTypeOK
<1>2. pass.nodes \subseteq SUBSET Pods
  BY <1>1 DEF Passes
<1>3. KnownNodes \subseteq Pods
  BY <1>1, <1>2 DEF KnownNodes
<1>4. \A c \in Passes : WithNodes(c) \in Passes
  BY <1>3 DEF WithNodes, Passes
<1> QED
  BY <1>3, <1>4

\* What a validated specification holds.
LEMMA SpecTypes ==
  ASSUME NEW spec \in Specs
  PROVE  /\ spec.sets \subseteq NodeSets
         /\ \A s \in NodeSets : /\ spec.count[s] \in 0 .. MaxReplicas
                                /\ spec.tmpl[s] \in Templates
BY SpecsAssumption DEF SpecRecords

-----------------------------------------------------------------------------
(***************************************************************************)
(* Steps that leave the variables of a part unchanged.                     *)
(***************************************************************************)
LEMMA KubernetesUnchanged ==
  ASSUME KubernetesTypeOK, UNCHANGED kubernetesVars
  PROVE  KubernetesTypeOK'
BY DEF KubernetesTypeOK, kubernetesVars

\* The same, of the Elasticsearch cluster.
LEMMA ElasticsearchUnchanged ==
  ASSUME ElasticsearchTypeOK, UNCHANGED elasticsearchVars
  PROVE  ElasticsearchTypeOK'
BY DEF ElasticsearchTypeOK, elasticsearchVars

\* The same, of the expectations.
LEMMA ExpectationsUnchanged ==
  ASSUME ExpectationsTypeOK, UNCHANGED expectationsVars
  PROVE  ExpectationsTypeOK'
BY DEF ExpectationsTypeOK, expectationsVars

\* The same, of the resource, the queue and the reconciliation.
LEMMA DriverUnchanged ==
  ASSUME DriverTypeOK, UNCHANGED driverVars
  PROVE  DriverTypeOK'
BY DEF DriverTypeOK, driverVars, resourceVars, phaseVars

-----------------------------------------------------------------------------
(***************************************************************************)
(* What moves around the operator keeps its types.                         *)
(***************************************************************************)
LEMMA StatefulSetControllerType ==
  ASSUME KubernetesTypeOK, ElasticsearchTypeOK, StatefulSetController
  PROVE  KubernetesTypeOK' /\ ElasticsearchTypeOK'
<1>1. ASSUME NEW s \in NodeSets, PublishRevision(s)
      PROVE  KubernetesTypeOK'
  BY <1>1 DEF PublishRevision, KubernetesTypeOK, StatefulSets
<1>2. ASSUME NEW p \in Pods, NEW t \in Templates, CreatePod(p, t)
      PROVE  KubernetesTypeOK'
  <2>1. NextUid(pod[p].uid) \in Uids
    BY DEF KubernetesTypeOK, PodRecords, NextUid, Uids
  <2>2. NewPod(NextUid(pod[p].uid), t) \in PodRecords
    BY <2>1, PodTypes
  <2> QED
    BY <1>2, <2>2 DEF CreatePod, KubernetesTypeOK
<1>3. ASSUME NEW p \in Pods, CondemnPod(p)
      PROVE  KubernetesTypeOK'
  BY <1>3 DEF CondemnPod, KubernetesTypeOK, PodRecords
<1>4. UNCHANGED elasticsearchVars
  BY DEF StatefulSetController
<1> QED
  BY <1>1, <1>2, <1>3, <1>4, ElasticsearchUnchanged DEF StatefulSetController

\* Whatever leaves the cluster, the copies of the shards keep their types.
LEMMA LeaveType ==
  ASSUME ElasticsearchTypeOK, NEW p \in Pods, Leave(p), crashes' \in 0 .. MaxCrashes
  PROVE  ElasticsearchTypeOK'
<1>1. \A s \in Shards : CopiesWithout(s, p) \in [Pods -> CopyStates]
  BY DEF ElasticsearchTypeOK, CopiesWithout, CopyStates
<1>2. copy' \in [Shards -> [Pods -> CopyStates]]
  BY <1>1 DEF ElasticsearchTypeOK, Leave
<1> QED
  BY <1>2 DEF ElasticsearchTypeOK, Leave

\* The containers that start, get ready, crash and stop.
LEMMA KubeletType ==
  ASSUME KubernetesTypeOK, ElasticsearchTypeOK, Kubelet
  PROVE  KubernetesTypeOK' /\ ElasticsearchTypeOK'
<1>1. ASSUME NEW p \in Pods, StartPod(p), UNCHANGED elasticsearchVars
      PROVE  KubernetesTypeOK' /\ ElasticsearchTypeOK'
  <2> DEFINE boot == config[p[1]].initial
  <2>1. boot \in SUBSET Pods
    <3>1. p[1] \in NodeSets
      BY DEF Pods
    <3> QED
      BY <3>1 DEF KubernetesTypeOK, Configs
  <2>2. pod' = [pod EXCEPT ![p] = [pod[p] EXCEPT !.phase = "Running", !.boot = boot]]
    BY <1>1 DEF StartPod, KubernetesTypeOK
  <2> HIDE DEF boot
  <2>3. [pod[p] EXCEPT !.phase = "Running", !.boot = boot] \in PodRecords
    <3>1. pod[p] \in PodRecords
      BY DEF KubernetesTypeOK
    <3> QED
      BY <3>1, <2>1 DEF PodRecords, Phases
  <2>4. pod' \in [Pods -> PodRecords]
    BY <2>2, <2>3 DEF KubernetesTypeOK
  <2> QED
    BY <1>1, <2>4, ElasticsearchUnchanged DEF StartPod, KubernetesTypeOK
<1>2. ASSUME NEW p \in Pods, ReadyPod(p), UNCHANGED elasticsearchVars
      PROVE  KubernetesTypeOK' /\ ElasticsearchTypeOK'
  BY <1>2, ElasticsearchUnchanged DEF ReadyPod, KubernetesTypeOK, PodRecords, Phases
<1>3. ASSUME NEW p \in Pods, NodeCrashes(p)
      PROVE  KubernetesTypeOK' /\ ElasticsearchTypeOK'
  <2>1. KubernetesTypeOK'
    BY <1>3 DEF NodeCrashes, CrashPod, KubernetesTypeOK, PodRecords, Phases
  <2>2. crashes' \in 0 .. MaxCrashes
    BY <1>3, MaxCrashesAssumption DEF NodeCrashes, ElasticsearchTypeOK
  <2> QED
    BY <1>3, <2>1, <2>2, LeaveType DEF NodeCrashes
<1>4. ASSUME NEW p \in Pods, NodeStops(p)
      PROVE  KubernetesTypeOK' /\ ElasticsearchTypeOK'
  <2>1. NoPod(pod[p].uid) \in PodRecords
    BY PodTypes DEF KubernetesTypeOK, PodRecords
  <2>2. KubernetesTypeOK'
    BY <1>4, <2>1 DEF NodeStops, RemovePod, KubernetesTypeOK
  <2>3. crashes' \in 0 .. MaxCrashes
    BY <1>4 DEF NodeStops, ElasticsearchTypeOK
  <2> QED
    BY <1>4, <2>2, <2>3, LeaveType DEF NodeStops
<1> QED
  BY <1>1, <1>2, <1>3, <1>4 DEF Kubelet

\* The nodes that join and the copies of the shards that move.
LEMMA ClusterType ==
  ASSUME KubernetesTypeOK, ElasticsearchTypeOK, Cluster
  PROVE  KubernetesTypeOK' /\ ElasticsearchTypeOK'
<1> USE DEF ElasticsearchTypeOK, settingsVars
<1>1. UNCHANGED kubernetesVars
  BY DEF Cluster, JoinCluster, StartFromDisk, RecoverStale, AllocateReplica,
         StartRelocation, FinishRecovery, FinishRelocation
<1>2. ASSUME NEW s \in Shards, NEW p \in Pods, NEW state \in CopyStates, SetCopy(s, p, state)
      PROVE  copy' \in [Shards -> [Pods -> CopyStates]]
  BY <1>2 DEF SetCopy
<1>3. {"started", "recovering", "none", "relocating", "target"} \subseteq CopyStates
  BY DEF CopyStates
<1>4. ASSUME NEW p \in Pods, JoinCluster(p)
      PROVE  ElasticsearchTypeOK'
  BY <1>4 DEF JoinCluster
<1>5. ASSUME NEW s \in Shards, NEW p \in Pods, StartFromDisk(s, p)
      PROVE  ElasticsearchTypeOK'
  BY <1>2, <1>3, <1>5 DEF StartFromDisk
<1>6. ASSUME NEW s \in Shards, NEW p \in Pods, RecoverStale(s, p)
      PROVE  ElasticsearchTypeOK'
  BY <1>2, <1>3, <1>6 DEF RecoverStale
<1>7. ASSUME NEW s \in Shards, NEW p \in Pods, AllocateReplica(s, p)
      PROVE  ElasticsearchTypeOK'
  BY <1>2, <1>3, <1>7 DEF AllocateReplica
<1>8. ASSUME NEW s \in Shards, NEW p \in Pods, NEW q \in Pods, StartRelocation(s, p, q)
      PROVE  ElasticsearchTypeOK'
  BY <1>3, <1>8 DEF StartRelocation
<1>9. ASSUME NEW s \in Shards, NEW p \in Pods, FinishRecovery(s, p)
      PROVE  ElasticsearchTypeOK'
  BY <1>2, <1>3, <1>9 DEF FinishRecovery
<1>10. ASSUME NEW s \in Shards, NEW p \in Pods, NEW q \in Pods, FinishRelocation(s, p, q)
      PROVE  ElasticsearchTypeOK'
  BY <1>3, <1>10 DEF FinishRelocation
<1> QED
  BY <1>1, <1>4, <1>5, <1>6, <1>7, <1>8, <1>9, <1>10, KubernetesUnchanged DEF Cluster

-----------------------------------------------------------------------------
(***************************************************************************)
(* The calls of a reconciliation: faults, expectations, settings.          *)
(***************************************************************************)
\* A call that does not end well is one of the faults that may still happen.
LEMMA AccountType ==
  ASSUME DriverTypeOK, NEW o \in Outcomes, Account(o)
  PROVE  faults' \in 0 .. MaxFaults
BY BoundsAssumption DEF DriverTypeOK, Outcomes, Account

\* So is a call to Elasticsearch, if there is a cluster to answer it.
LEMMA EsAccountType ==
  ASSUME DriverTypeOK, NEW o \in EsOutcomes, EsAccount(o)
  PROVE  faults' \in 0 .. MaxFaults
BY BoundsAssumption DEF DriverTypeOK, Outcomes, Account, EsOutcomes, EsAccount

\* Dropping expectations leaves expectations.
LEMMA CheckExpectationsType ==
  ASSUME ExpectationsTypeOK, NEW ssets, CheckExpectations(ssets), UNCHANGED generations
  PROVE  ExpectationsTypeOK'
BY DEF ExpectationsTypeOK, CheckExpectations, DropSatisfiedDeletions

\* Setting minimum_master_nodes, from any location to any other.
LEMMA UpdateMinimumMasterNodesToType ==
  ASSUME TypeOK, NEW n \in Nat, NEW next \in Locations, NEW refused \in Locations,
         UpdateMinimumMasterNodesTo(n, next, refused)
  PROVE  /\ mmn' \in Nat
         /\ es' \in Resources
         /\ faults' \in 0 .. MaxFaults
         /\ pass' \in Passes
         /\ pc' \in {next, refused, "status"}
<1> DEFINE mine == [pass EXCEPT !.mine.mmn = n]
<1>1. /\ mmn \in Nat /\ es \in Resources /\ pass \in Passes
      /\ faults \in 0 .. MaxFaults
  BY DEF TypeOK, ElasticsearchTypeOK, DriverTypeOK
<1>2. mine \in Passes /\ Requeue(mine) \in Passes
  <2>1. pass.mine \in Resources
    BY <1>1 DEF Passes
  <2>2. [pass.mine EXCEPT !.mmn = n] \in Resources
    BY <2>1 DEF Resources
  <2>3. mine \in Passes
    BY <1>1, <2>2 DEF Passes
  <2> QED
    BY <2>3, PassTypes
<1>3. [es EXCEPT !.mmn = n] \in Resources
  BY <1>1 DEF Resources
<1>4. CASE n = pass.mine.mmn
  BY <1>1, <1>4 DEF UpdateMinimumMasterNodesTo
<1>5. CASE n # pass.mine.mmn
  <2>1. PICK o \in EsOutcomes :
          /\ mmn' = IF o = "error" THEN mmn ELSE n
          /\ IF o # "ok"
               THEN /\ pc' = next
                    /\ EsAccount(o)
                    /\ UNCHANGED <<es, pass>>
               ELSE \E w \in Outcomes :
                      /\ es' = IF es # pass.snap \/ w = "error" THEN es
                               ELSE [es EXCEPT !.mmn = n]
                      /\ Account(w)
                      /\ pass' = IF es # pass.snap \/ w # "ok" THEN Requeue(mine) ELSE mine
                      /\ pc' \in {next, refused, "status"}
    BY <1>5 DEF UpdateMinimumMasterNodesTo
  <2>2. mmn' \in Nat
    BY <1>1, <2>1
  <2>3. CASE o # "ok"
    BY <1>1, <2>1, <2>2, <2>3, EsAccountType DEF TypeOK
  <2>4. CASE o = "ok"
    <3> HIDE DEF mine
    <3>1. PICK w \in Outcomes :
            /\ es' = IF es # pass.snap \/ w = "error" THEN es
                     ELSE [es EXCEPT !.mmn = n]
            /\ Account(w)
            /\ pass' = IF es # pass.snap \/ w # "ok" THEN Requeue(mine) ELSE mine
            /\ pc' \in {next, refused, "status"}
      BY <2>1, <2>4
    <3>2. faults' \in 0 .. MaxFaults
      BY <3>1, AccountType DEF TypeOK
    <3> QED
      BY <1>1, <1>2, <1>3, <2>2, <3>1, <3>2
  <2> QED
    BY <2>3, <2>4
<1> QED
  BY <1>4, <1>5

-----------------------------------------------------------------------------
(***************************************************************************)
(* The steps of a reconciliation up to the phases keep the types.          *)
(***************************************************************************)
LEMMA StartReconcileType == ASSUME TypeOK, StartReconcile PROVE TypeOK'
<1>1. pass' \in Passes
  BY PassTypes DEF StartReconcile, TypeOK, DriverTypeOK
<1>2. DriverTypeOK'
  BY <1>1 DEF StartReconcile, TypeOK, DriverTypeOK, Locations, resourceVars, phaseVars
<1> QED
  BY <1>2, KubernetesUnchanged, ElasticsearchUnchanged, ExpectationsUnchanged
  DEF StartReconcile, TypeOK

\* Annotating the cluster UUID, or removing the annotation.
LEMMA ReconcileClusterUUIDType ==
  ASSUME TypeOK, ReconcileClusterUUID PROVE TypeOK'
<1>1. PICK pods \in {pod, cPod} :
        LET c == [pass EXCEPT !.reachable = Reachable(pods)]
            mine == [pass.mine EXCEPT !.uuid = ~@]
        IN \/ /\ pass' = c
              /\ pc' = "retrieve"
              /\ UNCHANGED <<es, faults>>
           \/ \E o \in Outcomes :
                /\ Account(o)
                /\ es' \in {es, mine}
                /\ \/ /\ pass' = Requeue(c)
                      /\ pc' = "status"
                   \/ /\ pass' = [c EXCEPT !.snap = mine, !.mine = mine]
                      /\ pc' = "retrieve"
  BY DEF ReconcileClusterUUID
<1> DEFINE reachable == Reachable(pods)
           c == [pass EXCEPT !.reachable = reachable]
           uuid == ~pass.mine.uuid
           mine == [pass.mine EXCEPT !.uuid = uuid]
           renewed == [c EXCEPT !.snap = mine, !.mine = mine]
<1>2. /\ pass \in Passes /\ es \in Resources /\ faults \in 0 .. MaxFaults
      /\ pass.mine \in Resources
  BY DEF TypeOK, DriverTypeOK, Passes
<1>3. c \in Passes
  <2>1. reachable \in BOOLEAN
    BY DEF Reachable
  <2> HIDE DEF reachable
  <2> QED
    BY <1>2, <2>1 DEF Passes
<1>4. mine \in Resources
  <2>1. uuid \in BOOLEAN
    OBVIOUS
  <2> HIDE DEF uuid
  <2> QED
    BY <1>2, <2>1 DEF Resources
<1>5. renewed \in Passes
  <2> HIDE DEF c, mine
  <2> QED
    BY <1>3, <1>4 DEF Passes
<1>6. /\ pass' \in {c, Requeue(c), renewed}
      /\ pc' \in {"retrieve", "status"}
      /\ es' \in {es, mine}
      /\ faults' = faults \/ \E o \in Outcomes : Account(o)
  BY <1>1
<1>7. faults' \in 0 .. MaxFaults
  BY <1>2, <1>6, AccountType DEF TypeOK
<1> HIDE DEF c, mine, renewed
<1>8. pass' \in Passes /\ es' \in Resources
  BY <1>2, <1>3, <1>4, <1>5, <1>6, PassTypes
<1>9. DriverTypeOK'
  BY <1>6, <1>7, <1>8
  DEF ReconcileClusterUUID, TypeOK, DriverTypeOK, Locations, phaseVars
<1> QED
  BY <1>9, KubernetesUnchanged, ElasticsearchUnchanged, ExpectationsUnchanged
  DEF ReconcileClusterUUID, TypeOK

\* Reading the StatefulSets from the cache.
LEMMA RetrieveActualStatefulSetsType ==
  ASSUME TypeOK, RetrieveActualStatefulSets PROVE TypeOK'
<1>1. pass' \in Passes
  BY DEF RetrieveActualStatefulSets, TypeOK, KubernetesTypeOK, DriverTypeOK, Passes
<1>2. DriverTypeOK'
  BY <1>1 DEF RetrieveActualStatefulSets, TypeOK, DriverTypeOK, Locations,
              resourceVars, phaseVars
<1> QED
  BY <1>2, KubernetesUnchanged, ElasticsearchUnchanged, ExpectationsUnchanged
  DEF RetrieveActualStatefulSets, TypeOK

\* Waiting for the cache.
LEMMA AwaitExpectationsType == ASSUME TypeOK, AwaitExpectations PROVE TypeOK'
<1>1. pass' \in Passes
  BY PassTypes DEF AwaitExpectations, TypeOK, DriverTypeOK
<1>2. DriverTypeOK'
  BY <1>1 DEF AwaitExpectations, TypeOK, DriverTypeOK, Locations,
              resourceVars, phaseVars
<1>3. ExpectationsTypeOK'
  BY CheckExpectationsType DEF AwaitExpectations, TypeOK
<1> QED
  BY <1>2, <1>3, KubernetesUnchanged, ElasticsearchUnchanged
  DEF AwaitExpectations, TypeOK

-----------------------------------------------------------------------------
(***************************************************************************)
(* The upscale phase.                                                      *)
(***************************************************************************)
\* The specification of the pass, and the StatefulSets it has read.
LEMMA PassParts ==
  ASSUME TypeOK
  PROVE  /\ pass \in Passes
         /\ pass.mine \in Resources
         /\ Desired \in Specs
         /\ pass.actual \in [NodeSets -> StatefulSets]
BY DEF TypeOK, DriverTypeOK, Passes, Resources, Desired

\* Counts of Pods are natural numbers, budgets are integers.
LEMMA CountTypes ==
  ASSUME TypeOK
  PROVE  /\ DesiredNodeCount \in Nat
         /\ ActualNodeCount \in Nat
         /\ Cardinality(Masters) \in Nat
         /\ Cardinality(JoiningMasters) \in Nat
         /\ CreatesAllowed \in Nat
<1>1. DesiredNodeCount \in Nat
  BY PodsCardinality DEF DesiredNodeCount, NodeCount
<1>2. ActualNodeCount \in Nat
  BY PodsCardinality DEF ActualNodeCount, NodeCount
<1>3. Cardinality(Masters) \in Nat
  BY PodsCardinality DEF Masters, Existing
<1>4. Cardinality(JoiningMasters) \in Nat
  BY PodsCardinality DEF JoiningMasters, Masters, Existing
<1>5. CreatesAllowed \in Nat
  BY <1>1, <1>2, BudgetAssumption DEF CreatesAllowed
<1> QED
  BY <1>1, <1>2, <1>3, <1>4, <1>5

\* limitNodesCreation never asks for more than what misses.
LEMMA NodesToCreateBound ==
  ASSUME TypeOK, NEW s \in Upscales
  PROVE  /\ NodesToCreate(s) \in Nat
         /\ NodesToCreate(s) <= Desired.count[s] - pass.actual[s].replicas
<1> DEFINE n == Desired.count[s] - pass.actual[s].replicas
<1>1. s \in NodeSets
  BY PassParts, SpecTypes DEF Upscales
<1>2. Desired.count[s] \in Nat /\ pass.actual[s].replicas \in Nat
  BY <1>1, PassParts, SpecTypes DEF StatefulSets
<1>3. n \in Nat /\ 1 <= n
  BY <1>2 DEF Upscales
<1>4. RecordedCreates(s) \in Nat
  BY CountTypes DEF RecordedCreates
<1>5. \A k \in Nat : MaxNodesToCreate(s, k) \in Int /\ MaxNodesToCreate(s, k) <= k
  BY <1>4, CountTypes, BudgetAssumption DEF MaxNodesToCreate
<1>6. pass.mine.uuid \in BOOLEAN
  BY PassParts DEF Resources
<1> HIDE DEF n
<1>7. MastersToCreate(s, n) \in Int /\ MastersToCreate(s, n) <= n
  BY <1>3, <1>5, <1>6 DEF MastersToCreate
<1>8. /\ NodesToCreate(s) \in {0, MastersToCreate(s, n), MaxNodesToCreate(s, n)}
      /\ NodesToCreate(s) >= 0
  BY <1>3, <1>5, <1>7 DEF NodesToCreate, n
<1> QED
  BY <1>3, <1>5, <1>7, <1>8 DEF n

\* An upscale never asks for more replicas than the specification.
LEMMA AdjustedReplicasType ==
  ASSUME TypeOK, NEW s \in NodeSets
  PROVE  AdjustedReplicas(s) \in 0 .. MaxReplicas
<1>1. /\ Desired.count[s] \in 0 .. MaxReplicas
      /\ pass.actual[s].replicas \in 0 .. MaxReplicas
  BY PassParts, SpecTypes DEF StatefulSets
<1>2. CASE s \notin Desired.sets
  BY <1>2, MaxReplicasAssumption DEF AdjustedReplicas, Upscales
<1>3. CASE s \in Upscales
  <2>1. s \in Desired.sets
    BY <1>3 DEF Upscales
  <2> QED
    BY <1>1, <1>3, <2>1, NodesToCreateBound, MaxReplicasAssumption DEF AdjustedReplicas
<1>4. CASE s \in Desired.sets /\ s \notin Upscales
  BY <1>1, <1>4 DEF AdjustedReplicas
<1> QED
  BY <1>2, <1>3, <1>4

\* The configuration of a nodeSet is one.
LEMMA AdjustedConfigType ==
  ASSUME TypeOK, NEW s \in NodeSets
  PROVE  AdjustedConfig(s) \in Configs
<1>1. Cardinality(AdjustedMasters) \in Nat /\ Cardinality(FormerMasters) \in Nat
  BY PodsCardinality DEF AdjustedMasters, FormerMasters, Masters, Existing
<1>2. Quorum(Cardinality(AdjustedMasters) + Cardinality(FormerMasters)) \in Nat
  BY <1>1, QuorumType
<1>3. AdjustedMasters \subseteq Pods
  BY DEF AdjustedMasters
<1> QED
  BY <1>2, <1>3 DEF AdjustedConfig, Configs

\* What the phases keep while none is in progress.
LEMMA NoPhaseTypes ==
  /\ NoUp \in Upscaling
  /\ NoDown \in Downscaling
  /\ NoRoll \in Rolling
<1>1. 0 \in 0 .. MaxReplicas
  BY MaxReplicasAssumption
<1>2. NoConfig \in Configs
  BY DEF NoConfig, Configs
<1>3. <<>> \in Seq(Plans)
  OBVIOUS
<1>4. NoPod(0) \in PodRecords
  BY PodTypes DEF Uids
<1> QED
  BY <1>1, <1>2, <1>3, <1>4 DEF NoUp, NoDown, NoRoll, Upscaling, Downscaling, Rolling

\* Computing what the upscale applies.
LEMMA AdjustResourcesType == ASSUME TypeOK, AdjustResources PROVE TypeOK'
<1>1. pass' \in Passes
  BY PassTypes, NodesTypes, PassParts DEF AdjustResources
<1>2. up' \in Upscaling
  <2>1. Desired.sets \subseteq NodeSets
    BY PassParts, SpecTypes
  <2> QED
    BY <2>1, AdjustedReplicasType, AdjustedConfigType
    DEF AdjustResources, TypeOK, DriverTypeOK, Upscaling
<1>3. DriverTypeOK'
  BY <1>1, <1>2 DEF AdjustResources, TypeOK, DriverTypeOK, Locations, resourceVars
<1> QED
  BY <1>3, KubernetesUnchanged, ElasticsearchUnchanged, ExpectationsUnchanged
  DEF AdjustResources, TypeOK

\* What the API server holds once a StatefulSet is applied.
LEMMA AppliedType ==
  ASSUME TypeOK, NEW s \in NodeSets
  PROVE  Applied(s) \in StatefulSets
<1>1. sset[s] \in StatefulSets
  BY DEF TypeOK, KubernetesTypeOK
<1>2. NextUid(sset[s].uid) \in Uids
  BY <1>1 DEF StatefulSets, NextUid, Uids
<1>3. up.replicas[s] \in 0 .. MaxReplicas
  BY DEF TypeOK, DriverTypeOK, Upscaling
<1>4. Desired.tmpl[s] \in Templates
  BY PassParts, SpecTypes
<1> QED
  BY <1>1, <1>2, <1>3, <1>4, StatefulSetTypes DEF Applied

\* Applying one nodeSet: its configuration, then its StatefulSet.
LEMMA ApplyResourceType ==
  ASSUME TypeOK, NEW s \in NodeSets, ApplyResource(s) PROVE TypeOK'
<1> DEFINE todo == up.todo \ {s}
           Done(seen) == SkipUnlessReachable([pass EXCEPT !.actual[s] = seen], todo)
<1>1. /\ \E o \in Outcomes : Account(o)
      /\ config' \in {config, [config EXCEPT ![s] = up.config[s]]}
      /\ sset' \in {sset, [sset EXCEPT ![s] = Applied(s)]}
      /\ generations' = generations \/ ExpectGeneration(s, Applied(s))
      /\ up' \in {NoUp, [up EXCEPT !.todo = todo]}
      /\ pc' \in {"status", NextAfterUpscale(todo)}
      /\ pass' \in {Requeue(pass), Done(cSset[s]), Done(Applied(s))}
  BY DEF ApplyResource
<1>2. Applied(s) \in StatefulSets /\ cSset[s] \in StatefulSets
  BY AppliedType DEF TypeOK, KubernetesTypeOK
<1>3. pass' \in Passes
  <2>1. ASSUME NEW seen \in StatefulSets PROVE Done(seen) \in Passes
    <3> DEFINE c == [pass EXCEPT !.actual[s] = seen]
    <3>1. c \in Passes
      BY <2>1, PassParts DEF Passes
    <3>2. [c EXCEPT !.requeue = TRUE, !.phase = "ApplyingChanges"] \in Passes
      <4> HIDE DEF c
      <4> QED
        BY <3>1 DEF Passes, OrchestrationPhases
    <3> QED
      BY <3>1, <3>2 DEF SkipUnlessReachable
  <2> HIDE DEF Done
  <2> QED
    BY <1>1, <1>2, <2>1, PassTypes, PassParts
<1>4. KubernetesTypeOK'
  <2>1. up.config[s] \in Configs
    BY DEF TypeOK, DriverTypeOK, Upscaling
  <2> HIDE DEF Done
  <2> QED
    BY <1>1, <1>2, <2>1 DEF ApplyResource, TypeOK, KubernetesTypeOK
<1>5. ExpectationsTypeOK'
  <2>1. [uid |-> Applied(s).uid, gen |-> Applied(s).gen] \in [uid : Uids, gen : Nat]
    BY <1>2 DEF StatefulSets
  <2> HIDE DEF Done
  <2> QED
    BY <1>1, <2>1 DEF ApplyResource, ExpectGeneration, TypeOK, ExpectationsTypeOK
<1>6. DriverTypeOK'
  <2>1. faults' \in 0 .. MaxFaults
    <3>1. PICK o \in Outcomes : Account(o)
      BY <1>1
    <3> QED
      BY <3>1, AccountType DEF TypeOK
  <2>2. up' \in Upscaling
    <3>1. todo \subseteq NodeSets
      BY DEF TypeOK, DriverTypeOK, Upscaling
    <3> HIDE DEF Done, todo
    <3>2. [up EXCEPT !.todo = todo] \in Upscaling
      BY <3>1 DEF TypeOK, DriverTypeOK, Upscaling
    <3> QED
      BY <1>1, <3>2, NoPhaseTypes
  <2>3. pc' \in Locations
    BY <1>1 DEF NextAfterUpscale, Locations
  <2> HIDE DEF Done, todo
  <2> QED
    BY <1>3, <2>1, <2>2, <2>3 DEF ApplyResource, TypeOK, DriverTypeOK, resourceVars
<1> QED
  BY <1>4, <1>5, <1>6, ElasticsearchUnchanged DEF ApplyResource, TypeOK

-----------------------------------------------------------------------------
(***************************************************************************)
(* Zen settings and the downscale phase.  The types need to know what the  *)
(* location implies: a downscale is only computed for a StatefulSet that   *)
(* has nodes to lose, and zen settings and replicas are only updated for   *)
(* the first downscale of the plan.                                        *)
(***************************************************************************)
DownscaleInProgress ==
  /\ pc = "calculate" => down.todo \subseteq Downscales
  /\ pc \in {"dsZen1", "dsZen2", "dsUpdate"} => down.plan # <<>>

\* Setting minimum_master_nodes to the quorum of the masters.
LEMMA UpdateMinimumMasterNodesType ==
  ASSUME TypeOK, UpdateMinimumMasterNodes PROVE TypeOK'
<1> DEFINE quorum == Quorum(Cardinality(Masters))
<1>1. quorum \in Nat
  BY CountTypes, QuorumType
<1>2. "zen2" \in Locations /\ "status" \in Locations
  BY DEF Locations
<1>3. \/ pc' = "zen2" /\ UNCHANGED <<mmn, es, faults>> /\ pass' \in {pass, Requeue(pass)}
      \/ UpdateMinimumMasterNodesTo(quorum, "zen2", "status")
  BY DEF UpdateMinimumMasterNodes
<1> HIDE DEF quorum
<1>4. /\ mmn' \in Nat /\ es' \in Resources /\ faults' \in 0 .. MaxFaults
      /\ pass' \in Passes /\ pc' \in Locations
  BY <1>1, <1>2, <1>3, PassTypes, PassParts, UpdateMinimumMasterNodesToType
  DEF TypeOK, ElasticsearchTypeOK, DriverTypeOK
<1>5. ElasticsearchTypeOK'
  BY <1>4 DEF UpdateMinimumMasterNodes, TypeOK, ElasticsearchTypeOK
<1>6. DriverTypeOK'
  BY <1>4 DEF UpdateMinimumMasterNodes, TypeOK, DriverTypeOK, phaseVars
<1> QED
  BY <1>5, <1>6, KubernetesUnchanged, ExpectationsUnchanged
  DEF UpdateMinimumMasterNodes, TypeOK

\* Clearing the voting configuration exclusions.
LEMMA ClearVotingConfigExclusionsType ==
  ASSUME TypeOK, ClearVotingConfigExclusions PROVE TypeOK'
<1>1. /\ voting' \in {voting, {}}
      /\ pc' \in {"downscale", "status"}
      /\ pass' \in {pass, Requeue(pass)}
      /\ faults' = faults \/ \E o \in EsOutcomes : EsAccount(o)
  BY DEF ClearVotingConfigExclusions
<1>2. faults' \in 0 .. MaxFaults
  BY <1>1, EsAccountType DEF TypeOK, DriverTypeOK
<1>3. ElasticsearchTypeOK'
  BY <1>1 DEF ClearVotingConfigExclusions, TypeOK, ElasticsearchTypeOK
<1>4. DriverTypeOK'
  BY <1>1, <1>2, PassTypes
  DEF ClearVotingConfigExclusions, TypeOK, DriverTypeOK, Locations, resourceVars, phaseVars
<1> QED
  BY <1>3, <1>4, KubernetesUnchanged, ExpectationsUnchanged
  DEF ClearVotingConfigExclusions, TypeOK

\* Computing what the change budget lets a downscale remove.
LEMMA StartDownscaleType == ASSUME TypeOK, StartDownscale PROVE TypeOK'
<1>1. /\ RemovalsAllowed \in Nat
      /\ Cardinality(ReadyNodes \cap Masters) \in Nat
  BY PodsCardinality, CountTypes, BudgetAssumption DEF RemovalsAllowed, ReadyNodes
<1>2. down' \in Downscaling
  <2>1. Downscales \subseteq NodeSets
    BY DEF Downscales
  <2> DEFINE masters == Cardinality(ReadyNodes \cap Masters)
  <2>2. down' = [NoDown EXCEPT !.removals = RemovalsAllowed, !.masters = masters,
                               !.todo = Downscales]
    BY DEF StartDownscale
  <2>3. RemovalsAllowed \in Int /\ masters \in Int
    BY <1>1
  <2>4. NoDown \in Downscaling
    BY NoPhaseTypes
  <2> HIDE DEF masters
  <2> QED
    BY <2>1, <2>2, <2>3, <2>4 DEF Downscaling
<1>3. DriverTypeOK'
  BY <1>2 DEF StartDownscale, TypeOK, DriverTypeOK, Locations, resourceVars
<1> QED
  BY <1>3, KubernetesUnchanged, ElasticsearchUnchanged, ExpectationsUnchanged
  DEF StartDownscale, TypeOK

\* A downscale that is allowed removes at most the nodes the StatefulSet has.
LEMMA ToRemoveBound ==
  ASSUME TypeOK, NEW s \in Downscales, CheckDownscaleInvariants(s)
  PROVE  /\ ToRemove(s) \in Nat
         /\ ToRemove(s) <= pass.actual[s].replicas
<1>1. s \in NodeSets
  BY DEF Downscales
<1>2. pass.actual[s].replicas \in Nat /\ FinalReplicas(s) \in Nat
  BY <1>1, PassParts, SpecTypes DEF StatefulSets, FinalReplicas
<1>3. FinalReplicas(s) <= pass.actual[s].replicas
  BY <1>2 DEF Downscales
<1>4. down.removals \in Int
  BY DEF TypeOK, DriverTypeOK, Downscaling
<1> DEFINE n == pass.actual[s].replicas - FinalReplicas(s)
<1>5. n \in Nat /\ n <= pass.actual[s].replicas
  BY <1>2, <1>3
<1> HIDE DEF n
<1> QED
  BY <1>2, <1>4, <1>5, BudgetAssumption DEF ToRemove, CheckDownscaleInvariants, n

\* Planning the downscale of one StatefulSet: no target is negative.
LEMMA CalculateDownscaleType ==
  ASSUME TypeOK, DownscaleInProgress, NEW s \in NodeSets, CalculateDownscale(s)
  PROVE  TypeOK'
<1>1. down \in Downscaling
  BY DEF TypeOK, DriverTypeOK
<1>2. ASSUME CheckDownscaleInvariants(s)
      PROVE  RecordRemoval(s, ToRemove(s)) \in Downscaling
  <2> DEFINE target == pass.actual[s].replicas - ToRemove(s)
             plan == Append(down.plan, [set |-> s, target |-> target])
             leaving == down.leaving \/ (ToRemove(s) > 0 /\ pass.actual[s].tmpl.master)
             masters == IF ToRemove(s) > 0 /\ pass.actual[s].tmpl.master
                          THEN down.masters - 1 ELSE down.masters
             removals == IF MaxUnavailable < 0 THEN down.removals
                                               ELSE down.removals - ToRemove(s)
  <2>1. s \in Downscales
    BY DEF CalculateDownscale, DownscaleInProgress
  <2>2. /\ ToRemove(s) \in Nat
        /\ ToRemove(s) <= pass.actual[s].replicas
    BY <1>2, <2>1, ToRemoveBound
  <2>3. pass.actual[s].replicas \in 0 .. MaxReplicas
    BY PassParts DEF StatefulSets
  <2>4. target \in 0 .. MaxReplicas
    BY <2>2, <2>3, MaxReplicasAssumption
  <2>5. plan \in Seq(Plans)
    <3>1. [set |-> s, target |-> target] \in Plans
      BY <2>4 DEF Plans
    <3>2. down.plan \in Seq(Plans)
      BY <1>1 DEF Downscaling
    <3> HIDE DEF target
    <3> QED
      BY <3>1, <3>2
  <2>6. leaving \in BOOLEAN
    OBVIOUS
  <2>7. masters \in Int /\ removals \in Int
    BY <1>1, <2>2 DEF Downscaling
  <2>8. RecordRemoval(s, ToRemove(s))
          = [down EXCEPT !.todo = down.todo \ {s}, !.plan = plan, !.leaving = leaving,
                         !.masters = masters, !.removals = removals]
    BY DEF RecordRemoval
  <2> HIDE DEF plan, leaving, masters, removals
  <2> QED
    BY <1>1, <2>5, <2>6, <2>7, <2>8 DEF Downscaling
<1>3. [down EXCEPT !.todo = @ \ {s}] \in Downscaling
  BY <1>1 DEF Downscaling
<1>4. down' \in Downscaling
  BY <1>2, <1>3 DEF CalculateDownscale
<1>5. DriverTypeOK'
  BY <1>4 DEF CalculateDownscale, TypeOK, DriverTypeOK, resourceVars
<1> QED
  BY <1>5, KubernetesUnchanged, ElasticsearchUnchanged, ExpectationsUnchanged
  DEF CalculateDownscale, TypeOK

\* Excluding the leaving nodes from shard allocation.
LEMMA MigrateDataType == ASSUME TypeOK, MigrateData PROVE TypeOK'
<1>1. /\ excluded' \in {excluded, LeavingNodes}
      /\ pc' \in {"attempt", "status"}
      /\ pass' \in {pass, Requeue(pass)}
      /\ \E o \in EsOutcomes : EsAccount(o)
  BY DEF MigrateData
<1>2. faults' \in 0 .. MaxFaults
  BY <1>1, EsAccountType DEF TypeOK
<1>3. LeavingNodes \subseteq Pods
  BY DEF LeavingNodes, PlannedNodes
<1>4. ElasticsearchTypeOK'
  BY <1>1, <1>3 DEF MigrateData, TypeOK, ElasticsearchTypeOK
<1>5. down' \in Downscaling
  BY <1>3 DEF MigrateData, TypeOK, DriverTypeOK, Downscaling
<1>6. DriverTypeOK'
  BY <1>1, <1>2, <1>5, PassTypes
  DEF MigrateData, TypeOK, DriverTypeOK, Locations, resourceVars, phaseVars
<1> QED
  BY <1>4, <1>6, KubernetesUnchanged, ExpectationsUnchanged DEF MigrateData, TypeOK

\* The first downscale of a plan, and the plan without it.
LEMMA PlanTypes ==
  ASSUME TypeOK, down.plan # <<>>
  PROVE  /\ Head(down.plan) \in Plans
         /\ Advance \in Downscaling
<1>1. down \in Downscaling /\ down.plan \in Seq(Plans)
  BY DEF TypeOK, DriverTypeOK, Downscaling
<1>2. Head(down.plan) \in Plans /\ Tail(down.plan) \in Seq(Plans)
  BY <1>1
<1> QED
  BY <1>1, <1>2 DEF Advance, Downscaling

\* Deleting an empty StatefulSet.
LEMMA RemoveStatefulSetType == ASSUME TypeOK, RemoveStatefulSet PROVE TypeOK'
<1> DEFINE s == Head(down.plan).set
<1>1. down.plan # <<>>
  BY DEF RemoveStatefulSet
<1>2. s \in NodeSets /\ Advance \in Downscaling
  BY <1>1, PlanTypes DEF Plans
<1>3. /\ \E o \in Outcomes : Account(o)
      /\ config' \in {config, [config EXCEPT ![s] = NoConfig]}
      /\ sset' \in {sset, [sset EXCEPT ![s] = NoStatefulSet(sset[s].uid)]}
      /\ pc' \in {"status", "attempt"}
      /\ pass' \in {pass, Requeue(pass)}
      /\ down' = Advance
  BY DEF RemoveStatefulSet
<1>4. KubernetesTypeOK'
  <2>1. NoStatefulSet(sset[s].uid) \in StatefulSets
    BY <1>2, StatefulSetTypes DEF TypeOK, KubernetesTypeOK, StatefulSets
  <2>2. NoConfig \in Configs
    BY DEF NoConfig, Configs
  <2> HIDE DEF s
  <2> QED
    BY <1>2, <1>3, <2>1, <2>2 DEF RemoveStatefulSet, TypeOK, KubernetesTypeOK
<1>5. DriverTypeOK'
  <2>1. faults' \in 0 .. MaxFaults
    BY <1>3, AccountType DEF TypeOK
  <2> QED
    BY <1>2, <1>3, <2>1, PassTypes
    DEF RemoveStatefulSet, TypeOK, DriverTypeOK, Locations, resourceVars
<1> QED
  BY <1>4, <1>5, ElasticsearchUnchanged, ExpectationsUnchanged
  DEF RemoveStatefulSet, TypeOK

\* Computing how far a StatefulSet may be scaled down.
LEMMA AttemptDownscaleType ==
  ASSUME TypeOK, NEW target \in 0 .. MaxReplicas, AttemptDownscale(target)
  PROVE  TypeOK'
<1> DEFINE phase == IF target # Head(down.plan).target THEN "MigratingData" ELSE pass.phase
           migrating == [pass EXCEPT !.requeue = TRUE, !.phase = phase]
<1>1. down.plan # <<>>
  BY DEF AttemptDownscale
<1>2. /\ pc' \in {pc, "status", "dsZen1", "dsUpdate"}
      /\ pass' \in {pass, Requeue(pass), migrating}
      /\ down' \in {down, Advance, [down EXCEPT !.target = target]}
  BY DEF AttemptDownscale
<1>3. migrating \in Passes
  <2>1. phase \in OrchestrationPhases
    BY PassParts DEF Passes, OrchestrationPhases
  <2> HIDE DEF phase
  <2> QED
    BY <2>1, PassParts DEF Passes
<1>4. [down EXCEPT !.target = target] \in Downscaling
  BY DEF TypeOK, DriverTypeOK, Downscaling
<1> HIDE DEF migrating
<1>5. DriverTypeOK'
  BY <1>1, <1>2, <1>3, <1>4, PlanTypes, PassTypes
  DEF AttemptDownscale, TypeOK, DriverTypeOK, Locations, resourceVars
<1> QED
  BY <1>5, KubernetesUnchanged, ElasticsearchUnchanged, ExpectationsUnchanged
  DEF AttemptDownscale, TypeOK

\* The zen settings are updated on the way to another location, by a downscale
\* and by a rolling upgrade.
LEMMA MaybeUpdateZen1Type ==
  ASSUME TypeOK, NEW next \in Locations, NEW refused \in Locations,
         MaybeUpdateZen1(next, refused)
  PROVE  TypeOK' /\ pc' \in {next, refused, "status"}
<1>1. \/ pc' = next /\ UNCHANGED <<mmn, es, faults, pass>>
      \/ UpdateMinimumMasterNodesTo(1, next, refused)
  BY DEF MaybeUpdateZen1
<1>2. /\ mmn' \in Nat /\ es' \in Resources /\ faults' \in 0 .. MaxFaults
      /\ pass' \in Passes /\ pc' \in {next, refused, "status"}
  BY <1>1, UpdateMinimumMasterNodesToType DEF TypeOK, ElasticsearchTypeOK, DriverTypeOK
<1>3. pc' \in Locations
  BY <1>2 DEF Locations
<1>4. ElasticsearchTypeOK'
  BY <1>2 DEF MaybeUpdateZen1, TypeOK, ElasticsearchTypeOK
<1>5. DriverTypeOK'
  BY <1>2, <1>3 DEF MaybeUpdateZen1, TypeOK, DriverTypeOK, phaseVars
<1> QED
  BY <1>2, <1>4, <1>5, KubernetesUnchanged, ExpectationsUnchanged
  DEF MaybeUpdateZen1, TypeOK

\* Excluding masters from the voting configuration.
LEMMA AddToVotingConfigExclusionsType ==
  ASSUME TypeOK, NEW nodes \in SUBSET Pods, NEW next \in Locations,
         AddToVotingConfigExclusions(nodes, next)
  PROVE  TypeOK' /\ pc' \in {next, "status"}
<1>1. /\ voting' \in {voting, voting \cup nodes}
      /\ pc' \in {next, "status"}
      /\ pass' \in {pass, Requeue(pass)}
      /\ faults' = faults \/ \E o \in EsOutcomes : EsAccount(o)
  BY DEF AddToVotingConfigExclusions
<1>2. faults' \in 0 .. MaxFaults
  BY <1>1, EsAccountType DEF TypeOK, DriverTypeOK
<1>3. ElasticsearchTypeOK'
  BY <1>1 DEF AddToVotingConfigExclusions, TypeOK, ElasticsearchTypeOK
<1>4. pc' \in Locations
  BY <1>1 DEF Locations
<1>5. DriverTypeOK'
  BY <1>1, <1>2, <1>4, PassTypes
  DEF AddToVotingConfigExclusions, TypeOK, DriverTypeOK, resourceVars, phaseVars
<1> QED
  BY <1>1, <1>3, <1>5, KubernetesUnchanged, ExpectationsUnchanged
  DEF AddToVotingConfigExclusions, TypeOK

\* Writing the lower replicas.
LEMMA UpdateReplicasType ==
  ASSUME TypeOK, DownscaleInProgress, UpdateReplicas PROVE TypeOK'
<1> DEFINE s == Head(down.plan).set
           written == WrittenStatefulSet(sset[s], down.target, pass.actual[s].tmpl, FALSE)
<1>1. down.plan # <<>>
  BY DEF UpdateReplicas, DownscaleInProgress
<1>2. s \in NodeSets /\ Advance \in Downscaling
  BY <1>1, PlanTypes DEF Plans
<1>3. written \in StatefulSets
  <2>1. sset[s] \in StatefulSets
    BY <1>2 DEF TypeOK, KubernetesTypeOK
  <2>2. down.target \in 0 .. MaxReplicas
    BY DEF TypeOK, DriverTypeOK, Downscaling
  <2>3. pass.actual[s].tmpl \in Templates
    BY <1>2, PassParts DEF StatefulSets
  <2> QED
    BY <2>1, <2>2, <2>3, StatefulSetTypes
<1>4. /\ \E o \in Outcomes : Account(o)
      /\ sset' \in {sset, [sset EXCEPT ![s] = written]}
      /\ generations' = generations \/ ExpectGeneration(s, written)
      /\ pc' \in {"status", "attempt"}
      /\ pass' \in {pass, Requeue(pass)}
      /\ down' = Advance
  BY DEF UpdateReplicas
<1> HIDE DEF s, written
<1>5. KubernetesTypeOK'
  BY <1>2, <1>3, <1>4 DEF UpdateReplicas, TypeOK, KubernetesTypeOK
<1>6. ExpectationsTypeOK'
  <2>1. [uid |-> written.uid, gen |-> written.gen] \in [uid : Uids, gen : Nat]
    BY <1>3 DEF StatefulSets
  <2> QED
    BY <1>4, <2>1 DEF UpdateReplicas, ExpectGeneration, TypeOK, ExpectationsTypeOK
<1>7. DriverTypeOK'
  <2>1. faults' \in 0 .. MaxFaults
    BY <1>4, AccountType DEF TypeOK
  <2> QED
    BY <1>2, <1>4, <2>1, PassTypes
    DEF UpdateReplicas, TypeOK, DriverTypeOK, Locations, resourceVars
<1> QED
  BY <1>5, <1>6, <1>7, ElasticsearchUnchanged DEF UpdateReplicas, TypeOK

\* Leaving the downscale phase.
LEMMA FinishDownscaleType == ASSUME TypeOK, FinishDownscale PROVE TypeOK'
<1>1. DriverTypeOK'
  BY NoPhaseTypes DEF FinishDownscale, TypeOK, DriverTypeOK, Locations, resourceVars
<1> QED
  BY <1>1, KubernetesUnchanged, ElasticsearchUnchanged, ExpectationsUnchanged
  DEF FinishDownscale, TypeOK

\* The two zen settings of a downscale of masters.
LEMMA DownscaleZenType ==
  ASSUME TypeOK, DownscaleInProgress, DownscaleZen1 \/ DownscaleZen2 PROVE TypeOK'
<1>1. {"dsZen2", "dsUpdate", "status"} \subseteq Locations
  BY DEF Locations
<1>2. CASE DownscaleZen1
  BY <1>1, <1>2, MaybeUpdateZen1Type DEF DownscaleZen1
<1>3. CASE DownscaleZen2
  <2>1. RemovedNodes \in SUBSET Pods
    BY DEF RemovedNodes, PlannedNodes
  <2> QED
    BY <1>1, <1>3, <2>1, AddToVotingConfigExclusionsType DEF DownscaleZen2
<1> QED
  BY <1>2, <1>3

-----------------------------------------------------------------------------
(***************************************************************************)
(* The rolling upgrade phase.                                              *)
(***************************************************************************)
LEMMA HandleRollingUpgradesType ==
  ASSUME TypeOK, HandleRollingUpgrades PROVE TypeOK'
<1> DEFINE upgrade == PodsToUpgrade(pass.actual)
           start == [NoRoll EXCEPT !.seen = cPod, !.upgrade = upgrade]
           allowed == AllowedDeletions
           healthy == HealthyPods
           reached == MaxUnavailable >= 0 /\ allowed <= 0
           forced == ForcedPods
           selecting == [start EXCEPT !.healthy = healthy, !.todo = upgrade,
                                      !.allowed = allowed, !.reached = reached]
           forcing == [start EXCEPT !.selected = forced]
<1>1. /\ pc' \in {"ready", "force", "status", "enable", "select"}
      /\ pass' \in {pass, Requeue(pass), WithNodes(pass)}
      /\ roll' \in {roll, forcing, selecting}
  BY DEF HandleRollingUpgrades
<1>2. upgrade \subseteq Pods /\ forced \subseteq Pods /\ healthy \subseteq Pods
  BY DEF PodsToUpgrade, ForcedPods, HealthyPods, ReadyPods, ActualPods, Existing
<1>3. allowed \in Int
  <2>1. ActualNames \subseteq Pods
    BY DEF ActualNames, PodNames
  <2>2. Cardinality(ActualNames) \in Nat /\ Cardinality(HealthyPods) \in Nat
    BY <1>2, <2>1, PodsCardinality
  <2> QED
    BY <2>2, BudgetAssumption DEF AllowedDeletions
<1>4. reached \in BOOLEAN
  OBVIOUS
<1> HIDE DEF upgrade, allowed, healthy, reached, forced
<1>5. start \in Rolling
  BY <1>2, NoPhaseTypes DEF Rolling, TypeOK, KubernetesTypeOK
<1> HIDE DEF start
<1>6. selecting \in Rolling /\ forcing \in Rolling
  BY <1>2, <1>3, <1>4, <1>5 DEF Rolling
<1> HIDE DEF selecting, forcing
<1>7. DriverTypeOK'
  BY <1>1, <1>6, PassTypes, PassParts, NodesTypes
  DEF HandleRollingUpgrades, TypeOK, DriverTypeOK, Locations, resourceVars
<1>8. ExpectationsTypeOK'
  BY CheckExpectationsType DEF HandleRollingUpgrades, TypeOK
<1> QED
  BY <1>7, <1>8, KubernetesUnchanged, ElasticsearchUnchanged
  DEF HandleRollingUpgrades, TypeOK

\* Selecting, or not, one candidate for deletion.
LEMMA ApplyPredicatesType ==
  ASSUME TypeOK, NEW p \in Pods, ApplyPredicates(p) PROVE TypeOK'
<1> DEFINE known == KnownGreen
           green == IF AsksForGreen(p) THEN {known} ELSE roll.green
           skipped == [roll EXCEPT !.todo = @ \ {p}, !.green = green]
<1>1. /\ pc' \in {pc, "status", "panic"}
      /\ pass' \in {pass, Requeue(pass)}
      /\ roll' \in {roll, SelectPod(p), skipped}
  BY DEF ApplyPredicates
<1>2. roll \in Rolling
  BY DEF TypeOK, DriverTypeOK
<1>3. known \in BOOLEAN
  <2>1. Green \in BOOLEAN
    BY Zenon DEF Green
  <2>2. (TRUE \in roll.green) \in BOOLEAN
    OBVIOUS
  <2> QED
    BY <2>1, <2>2, Zenon DEF KnownGreen
<1> HIDE DEF known
<1>4. green \subseteq BOOLEAN
  BY <1>2, <1>3 DEF Rolling
<1> HIDE DEF green
<1>5. skipped \in Rolling
  BY <1>2, <1>4 DEF Rolling
<1>6. SelectPod(p) \in Rolling
  <2> DEFINE selected == roll.selected \cup {p}
             healthy == roll.healthy \ {p}
             master == roll.master \/ SeenMaster(p) \/ p \in ExpectedMasters
             allowed == roll.allowed - 1
             todo == IF roll.allowed <= 1 THEN {} ELSE roll.todo \ {p}
             asked == {known}
  <2>1. SelectPod(p) = [roll EXCEPT !.selected = selected, !.healthy = healthy,
                          !.master = master, !.allowed = allowed, !.todo = todo,
                          !.green = asked]
    BY DEF SelectPod, known
  <2>2. /\ selected \subseteq Pods /\ healthy \subseteq Pods /\ todo \subseteq Pods
        /\ allowed \in Int /\ asked \subseteq BOOLEAN
    BY <1>2, <1>3 DEF Rolling
  <2>3. master \in BOOLEAN
    OBVIOUS
  <2> HIDE DEF selected, healthy, master, allowed, todo, asked
  <2> QED
    BY <1>2, <2>1, <2>2, <2>3 DEF Rolling
<1> HIDE DEF skipped
<1>7. DriverTypeOK'
  BY <1>1, <1>5, <1>6, PassTypes
  DEF ApplyPredicates, TypeOK, DriverTypeOK, Locations, resourceVars
<1> QED
  BY <1>7, KubernetesUnchanged, ElasticsearchUnchanged, ExpectationsUnchanged
  DEF ApplyPredicates, TypeOK

\* Selecting none.
LEMMA NoPodSelectedType == ASSUME TypeOK, NoPodSelected PROVE TypeOK'
<1>1. DriverTypeOK'
  BY PassTypes DEF NoPodSelected, TypeOK, DriverTypeOK, Locations, resourceVars, phaseVars
<1> QED
  BY <1>1, KubernetesUnchanged, ElasticsearchUnchanged, ExpectationsUnchanged
  DEF NoPodSelected, TypeOK

\* Disabling shard allocation before Pods are deleted.
LEMMA PrepareClusterForNodeRestartType ==
  ASSUME TypeOK, PrepareClusterForNodeRestart PROVE TypeOK'
<1> DEFINE enabled == allocation = "all"
           known == [pass EXCEPT !.enabled = {enabled}]
<1>1. /\ \E o \in EsOutcomes : EsAccount(o)
      /\ allocation' \in {allocation, "primaries"}
      /\ pc' \in {"rollZen1", "status"}
      /\ pass' \in {known, Requeue(known)}
  BY DEF PrepareClusterForNodeRestart
<1>2. enabled \in BOOLEAN
  OBVIOUS
<1> HIDE DEF enabled
<1>3. known \in Passes
  BY <1>2, PassParts DEF Passes
<1> HIDE DEF known
<1>4. faults' \in 0 .. MaxFaults
  BY <1>1, EsAccountType DEF TypeOK
<1>5. ElasticsearchTypeOK'
  BY <1>1 DEF PrepareClusterForNodeRestart, TypeOK, ElasticsearchTypeOK
<1>6. DriverTypeOK'
  BY <1>1, <1>3, <1>4, PassTypes
  DEF PrepareClusterForNodeRestart, TypeOK, DriverTypeOK, Locations, resourceVars, phaseVars
<1> QED
  BY <1>5, <1>6, KubernetesUnchanged, ExpectationsUnchanged
  DEF PrepareClusterForNodeRestart, TypeOK

\* A conflict of the annotation ends the deletions, and not the pass.
LEMMA RollZen1Leads ==
  ASSUME TypeOK, NEW p \in Pods, RollZen1(p)
  PROVE  /\ pc' \in {"rollZen2", "delete", "enable", "ready", "status"}
         /\ pc' = "enable" => ~roll.deleted
<1> DEFINE refused == IF roll.deleted THEN "ready" ELSE "enable"
<1>1. {"rollZen2", refused} \subseteq Locations
  BY DEF Locations
<1>2. \/ pc' = "delete"
      \/ MaybeUpdateZen1("rollZen2", refused)
  BY DEF RollZen1
<1>3. pc' \in {"rollZen2", "delete", refused, "status"}
  BY <1>1, <1>2, MaybeUpdateZen1Type
<1> QED
  BY <1>3

\* The two zen settings for a master that will not be one again.
LEMMA RollZenType ==
  ASSUME TypeOK, NEW p \in Pods, RollZen1(p) \/ RollZen2(p) PROVE TypeOK'
<1>1. {"rollZen2", "delete", "enable", "ready"} \subseteq Locations
  BY DEF Locations
<1>2. CASE RollZen1(p)
  <2>1. CASE MasterScaleDown(p)
    BY <1>1, <1>2, <2>1, MaybeUpdateZen1Type DEF RollZen1
  <2>2. CASE ~MasterScaleDown(p)
    <3>1. DriverTypeOK'
      BY <1>1, <1>2, <2>2 DEF RollZen1, TypeOK, DriverTypeOK, resourceVars, phaseVars
    <3> QED
      BY <1>2, <2>2, <3>1, KubernetesUnchanged, ElasticsearchUnchanged,
         ExpectationsUnchanged DEF RollZen1, TypeOK
  <2> QED
    BY <2>1, <2>2
<1>3. CASE RollZen2(p)
  BY <1>1, <1>3, AddToVotingConfigExclusionsType DEF RollZen2
<1> QED
  BY <1>2, <1>3

\* A Pod keeps its type when it is deleted, and so do the expected deletions.
LEMMA DeletePodType ==
  ASSUME TypeOK, NEW p \in Pods, NEW o, DeletePod(p, o),
         UNCHANGED <<sset, cSset, cPod, config, generations>>
  PROVE  KubernetesTypeOK' /\ ExpectationsTypeOK'
<1>1. roll.seen[p].uid \in Uids
  BY DEF TypeOK, DriverTypeOK, Rolling, PodRecords
<1>2. KubernetesTypeOK'
  BY DEF DeletePod, TypeOK, KubernetesTypeOK, PodRecords
<1>3. ExpectationsTypeOK'
  BY <1>1 DEF DeletePod, ExpectDeletion, CancelExpectedDeletion, TypeOK, ExpectationsTypeOK
<1> QED
  BY <1>2, <1>3

\* Deleting one selected Pod.
LEMMA DeleteType == ASSUME TypeOK, NEW p \in Pods, Delete(p) PROVE TypeOK'
<1> DEFINE rest == roll.selected \ {p}
           deleted == [roll EXCEPT !.selected = rest, !.deleted = TRUE]
<1>1. PICK o \in Outcomes :
        /\ Account(o)
        /\ DeletePod(p, o)
        /\ roll' \in {roll, deleted}
        /\ pc' \in {"ready", "rollZen1", "enable", "status"}
        /\ pass' = Requeue(pass)
  BY DEF Delete
<1>2. deleted \in Rolling
  BY DEF TypeOK, DriverTypeOK, Rolling
<1>3. faults' \in 0 .. MaxFaults
  BY <1>1, AccountType DEF TypeOK
<1> HIDE DEF deleted
<1>4. DriverTypeOK'
  BY <1>1, <1>2, <1>3, PassTypes
  DEF Delete, TypeOK, DriverTypeOK, Locations, resourceVars
<1>5. KubernetesTypeOK' /\ ExpectationsTypeOK'
  BY <1>1, DeletePodType DEF Delete
<1> QED
  BY <1>4, <1>5, ElasticsearchUnchanged DEF Delete, TypeOK

\* Deleting one Pod without any check.
LEMMA ForceDeleteType == ASSUME TypeOK, NEW p \in Pods, ForceDelete(p) PROVE TypeOK'
<1> DEFINE rest == roll.selected \ {p}
           deleted == [roll EXCEPT !.selected = rest]
<1>1. PICK o \in Outcomes :
        /\ Account(o)
        /\ DeletePod(p, o)
        /\ roll' = deleted
        /\ pc' \in {"ready", "force", "status"}
        /\ pass' \in {pass, Requeue(pass)}
  BY DEF ForceDelete
<1>2. deleted \in Rolling
  BY DEF TypeOK, DriverTypeOK, Rolling
<1>3. faults' \in 0 .. MaxFaults
  BY <1>1, AccountType DEF TypeOK
<1> HIDE DEF deleted
<1>4. DriverTypeOK'
  BY <1>1, <1>2, <1>3, PassTypes
  DEF ForceDelete, TypeOK, DriverTypeOK, Locations, resourceVars
<1>5. KubernetesTypeOK' /\ ExpectationsTypeOK'
  BY <1>1, DeletePodType DEF ForceDelete
<1> QED
  BY <1>4, <1>5, ElasticsearchUnchanged DEF ForceDelete, TypeOK

\* Enabling shard allocation.
LEMMA MaybeEnableShardsAllocationType ==
  ASSUME TypeOK, MaybeEnableShardsAllocation PROVE TypeOK'
<1>1. /\ DropSatisfiedDeletions \/ UNCHANGED deletions
      /\ allocation' \in {allocation, "all"}
      /\ pc' \in {"ready", "status"}
      /\ pass' \in {pass, Requeue(pass)}
      /\ faults' = faults \/ \E o \in EsOutcomes : EsAccount(o)
  BY DEF MaybeEnableShardsAllocation
<1>2. faults' \in 0 .. MaxFaults
  BY <1>1, EsAccountType DEF TypeOK, DriverTypeOK
<1>3. ElasticsearchTypeOK'
  BY <1>1 DEF MaybeEnableShardsAllocation, TypeOK, ElasticsearchTypeOK
<1>4. ExpectationsTypeOK'
  BY <1>1 DEF MaybeEnableShardsAllocation, DropSatisfiedDeletions, TypeOK, ExpectationsTypeOK
<1>5. DriverTypeOK'
  BY <1>1, <1>2, PassTypes
  DEF MaybeEnableShardsAllocation, TypeOK, DriverTypeOK, Locations, resourceVars, phaseVars
<1> QED
  BY <1>3, <1>4, <1>5, KubernetesUnchanged DEF MaybeEnableShardsAllocation, TypeOK

-----------------------------------------------------------------------------
(***************************************************************************)
(* The end of a reconciliation, and what happens around it.                *)
(***************************************************************************)
LEMMA FinishNodeSpecsType == ASSUME TypeOK, FinishNodeSpecs PROVE TypeOK'
<1> DEFINE phase == CASE Reconciled -> "Ready"
                      [] ~Reconciled /\ pass.phase = "Ready" -> "ApplyingChanges"
                      [] OTHER -> pass.phase
<1>1. phase \in OrchestrationPhases
  BY PassParts DEF Passes, OrchestrationPhases
<1>2. pass' = [pass EXCEPT !.phase = phase] /\ pc' = "status"
  BY DEF FinishNodeSpecs
<1> HIDE DEF phase
<1>3. pass' \in Passes
  BY <1>1, <1>2, PassParts DEF Passes
<1>4. DriverTypeOK'
  BY <1>2, <1>3
  DEF FinishNodeSpecs, TypeOK, DriverTypeOK, Locations, resourceVars, phaseVars
<1> QED
  BY <1>4, KubernetesUnchanged, ElasticsearchUnchanged, ExpectationsUnchanged
  DEF FinishNodeSpecs, TypeOK

\* What the worker carries while it is idle.
LEMMA IdlePassType == IdlePass \in Passes
<1>1. NewResource \in Resources
  BY SpecsAssumption DEF NewResource, Resources, OrchestrationPhases
<1> QED
  BY <1>1, PassTypes DEF IdlePass

\* Writing the status, and the end of the reconciliation.
LEMMA UpdateStatusType == ASSUME TypeOK, UpdateStatus PROVE TypeOK'
<1> DEFINE written == [es EXCEPT !.phase = pass.phase]
<1>1. /\ es' \in {es, written}
      /\ faults' = faults \/ \E o \in Outcomes : Account(o)
      /\ queued' \in BOOLEAN
  <2>1. CASE pass.phase = pass.start.phase
    BY <2>1, PassParts DEF UpdateStatus, TypeOK, DriverTypeOK, Passes
  <2>2. CASE pass.phase # pass.start.phase
    BY <2>2 DEF UpdateStatus
  <2> QED
    BY <2>1, <2>2
<1>2. written \in Resources
  BY PassParts DEF TypeOK, DriverTypeOK, Resources, Passes
<1>3. faults' \in 0 .. MaxFaults
  BY <1>1, AccountType DEF TypeOK, DriverTypeOK
<1> HIDE DEF written
<1>4. DriverTypeOK'
  BY <1>1, <1>2, <1>3, IdlePassType, NoPhaseTypes
  DEF UpdateStatus, TypeOK, DriverTypeOK, Locations
<1> QED
  BY <1>4, KubernetesUnchanged, ElasticsearchUnchanged, ExpectationsUnchanged
  DEF UpdateStatus, TypeOK

\* The restarts of the operator.
LEMMA RestartType ==
  ASSUME TypeOK, OperatorRestarts \/ RecoverFromPanic PROVE TypeOK'
<1>1. Restart /\ faults' \in 0 .. MaxFaults
  BY BoundsAssumption DEF OperatorRestarts, RecoverFromPanic, TypeOK, DriverTypeOK
<1>2. KubernetesTypeOK'
  BY <1>1 DEF Restart, TypeOK, KubernetesTypeOK
<1>3. ExpectationsTypeOK'
  BY <1>1 DEF Restart, ForgetExpectations, ExpectationsTypeOK, Uids
<1>4. DriverTypeOK'
  BY <1>1, IdlePassType, NoPhaseTypes DEF Restart, TypeOK, DriverTypeOK, Locations
<1> QED
  BY <1>1, <1>2, <1>3, <1>4, ElasticsearchUnchanged DEF Restart, TypeOK

\* An edit of the specification.
LEMMA ChangeSpecType ==
  ASSUME TypeOK, NEW spec \in Specs, ChangeSpec(spec) PROVE TypeOK'
<1>1. es' \in Resources
  BY DEF ChangeSpec, TypeOK, DriverTypeOK, Resources
<1>2. specChanges' \in 0 .. MaxSpecChanges
  BY BoundsAssumption DEF ChangeSpec, TypeOK, DriverTypeOK
<1>3. DriverTypeOK'
  BY <1>1, <1>2 DEF ChangeSpec, TypeOK, DriverTypeOK, phaseVars
<1> QED
  BY <1>3, KubernetesUnchanged, ElasticsearchUnchanged, ExpectationsUnchanged
  DEF ChangeSpec, TypeOK

\* The watches bring the caches up to date.
LEMMA WatchesType == ASSUME TypeOK, Watches PROVE TypeOK'
<1>1. CASE SyncEs
  <2>1. DriverTypeOK'
    BY <1>1 DEF SyncEs, TypeOK, DriverTypeOK, phaseVars
  <2> QED
    BY <1>1, <2>1, KubernetesUnchanged, ElasticsearchUnchanged, ExpectationsUnchanged
    DEF SyncEs, TypeOK
<1>2. CASE SyncStatefulSetCache \/ SyncPodCache
  <2>1. KubernetesTypeOK'
    BY <1>2 DEF SyncStatefulSetCache, SyncPodCache, SyncStatefulSets, SyncPods, TypeOK,
                KubernetesTypeOK
  <2>2. DriverTypeOK'
    BY <1>2 DEF SyncStatefulSetCache, SyncPodCache, TypeOK, DriverTypeOK, resourceVars,
                phaseVars
  <2> QED
    BY <1>2, <2>1, <2>2, ElasticsearchUnchanged, ExpectationsUnchanged
    DEF SyncStatefulSetCache, SyncPodCache, TypeOK
<1> QED
  BY <1>1, <1>2 DEF Watches

\* The observer finds, then stores, the state of the cluster.
LEMMA ObserverType == ASSUME TypeOK, Observer PROVE TypeOK'
<1>1. observed \in BOOLEAN /\ observing \subseteq BOOLEAN /\ queued \in BOOLEAN
  BY DEF TypeOK, DriverTypeOK
<1>2. observed' \in BOOLEAN /\ observing' \subseteq BOOLEAN /\ queued' \in BOOLEAN
  <2>1. CASE Observe
    <3>1. Formed \in BOOLEAN
      BY Zenon DEF Formed
    <3> QED
      BY <1>1, <2>1, <3>1, Zenon DEF Observe
  <2>2. CASE StoreObservation
    <3>1. observed' \in observing
      BY <2>2 DEF StoreObservation
    <3>2. observing' = {} /\ queued' = queued
      BY <2>2 DEF StoreObservation
    <3> QED
      BY <1>1, <3>1, <3>2
  <2> QED
    BY <2>1, <2>2 DEF Observer
<1>3. /\ es' = es /\ cEs' = cEs /\ specChanges' = specChanges /\ faults' = faults
      /\ pc' = pc /\ pass' = pass /\ UNCHANGED phaseVars
      /\ UNCHANGED <<kubernetesVars, elasticsearchVars, expectationsVars>>
  BY DEF Observer, Observe, StoreObservation
<1>4. DriverTypeOK'
  BY <1>2, <1>3 DEF TypeOK, DriverTypeOK, phaseVars
<1> QED
  BY <1>3, <1>4, KubernetesUnchanged, ElasticsearchUnchanged, ExpectationsUnchanged
  DEF TypeOK

\* Kubernetes and Elasticsearch move on their own.
LEMMA SurroundingsType == ASSUME TypeOK, Surroundings PROVE TypeOK'
BY StatefulSetControllerType, KubeletType, ClusterType, ExpectationsUnchanged,
   DriverUnchanged DEF Surroundings, TypeOK

-----------------------------------------------------------------------------
(***************************************************************************)
(* The type invariant, with what its proof needs of the downscale phase.   *)
(***************************************************************************)
LEMMA WorkerType == ASSUME TypeOK, DownscaleInProgress, Worker PROVE TypeOK'
BY StartReconcileType, ReconcileClusterUUIDType, RetrieveActualStatefulSetsType,
   AwaitExpectationsType, AdjustResourcesType, ApplyResourceType,
   UpdateMinimumMasterNodesType, ClearVotingConfigExclusionsType, StartDownscaleType,
   CalculateDownscaleType, MigrateDataType, AttemptDownscaleType,
   RemoveStatefulSetType, DownscaleZenType, UpdateReplicasType, FinishDownscaleType,
   HandleRollingUpgradesType, ApplyPredicatesType, NoPodSelectedType,
   PrepareClusterForNodeRestartType, RollZenType, DeleteType, ForceDeleteType,
   MaybeEnableShardsAllocationType, FinishNodeSpecsType, UpdateStatusType, RestartType
DEF Worker

\* Steps that are not the worker's leave the phases as they are.
LEMMA DownscaleUnchanged ==
  ASSUME DownscaleInProgress, UNCHANGED <<pc, pass, down>>
  PROVE  DownscaleInProgress'
BY DEF DownscaleInProgress, Downscales, FinalReplicas, Desired

\* A location outside the downscale phase says nothing of it.
LEMMA NotDownscaling ==
  ASSUME pc' \notin {"calculate", "dsZen1", "dsZen2", "dsUpdate"}
  PROVE  DownscaleInProgress'
BY DEF DownscaleInProgress

\* The steps of the downscale phase keep what their locations imply.
LEMMA DownscalePhaseStep ==
  ASSUME TypeOK, DownscaleInProgress,
         \/ StartDownscale
         \/ \E s \in NodeSets : CalculateDownscale(s)
         \/ \E target \in 0 .. MaxReplicas : AttemptDownscale(target)
         \/ DownscaleZen1
         \/ DownscaleZen2
  PROVE  DownscaleInProgress'
<1>1. CASE StartDownscale
  BY <1>1, NoPhaseTypes
  DEF StartDownscale, DownscaleInProgress, Downscales, FinalReplicas, Desired, NoDown
<1>2. ASSUME NEW s \in NodeSets, CalculateDownscale(s) PROVE DownscaleInProgress'
  <2>1. pc' = "calculate" /\ UNCHANGED pass
    BY <1>2 DEF CalculateDownscale
  <2>2. Downscales' = Downscales
    BY <2>1 DEF Downscales, FinalReplicas, Desired
  <2>3. down'.todo = down.todo \ {s}
    BY <1>2 DEF CalculateDownscale, RecordRemoval, TypeOK, DriverTypeOK, Downscaling
  <2>4. down.todo \subseteq Downscales
    BY <1>2 DEF CalculateDownscale, DownscaleInProgress
  <2> QED
    BY <2>1, <2>2, <2>3, <2>4 DEF DownscaleInProgress
<1>3. ASSUME NEW target \in 0 .. MaxReplicas, AttemptDownscale(target)
      PROVE  DownscaleInProgress'
  BY <1>3 DEF AttemptDownscale, DownscaleInProgress, Advance, TypeOK, DriverTypeOK, Downscaling
<1>4. CASE DownscaleZen1
  <2>1. pc' \in {"dsZen2", "status"}
    BY <1>4, MaybeUpdateZen1Type DEF DownscaleZen1, Locations
  <2>2. UNCHANGED down
    BY <1>4 DEF DownscaleZen1, MaybeUpdateZen1, phaseVars
  <2> QED
    BY <1>4, <2>1, <2>2 DEF DownscaleZen1, DownscaleInProgress
<1>5. CASE DownscaleZen2
  BY <1>5 DEF DownscaleZen2, AddToVotingConfigExclusions, DownscaleInProgress, phaseVars
<1> QED
  BY <1>1, <1>2, <1>3, <1>4, <1>5

\* Any other step of the worker leads to a location that implies nothing.
LEMMA OtherWorkerStep ==
  ASSUME TypeOK, DownscaleInProgress, Worker,
         ~ (\/ StartDownscale
            \/ \E s \in NodeSets : CalculateDownscale(s)
            \/ \E target \in 0 .. MaxReplicas : AttemptDownscale(target)
            \/ DownscaleZen1
            \/ DownscaleZen2)
  PROVE  DownscaleInProgress'
<1>1. ASSUME StartReconcile \/ ReconcileClusterUUID \/ RetrieveActualStatefulSets
             \/ AwaitExpectations \/ AdjustResources
             \/ (\E s \in NodeSets : ApplyResource(s))
      PROVE  DownscaleInProgress'
  BY <1>1, NotDownscaling
  DEF StartReconcile, ReconcileClusterUUID, RetrieveActualStatefulSets,
      AwaitExpectations, AdjustResources, ApplyResource, NextAfterUpscale
<1>2. ASSUME UpdateMinimumMasterNodes PROVE DownscaleInProgress'
  <2>1. Quorum(Cardinality(Masters)) \in Nat /\ {"zen2", "status"} \subseteq Locations
    BY CountTypes, QuorumType DEF Locations
  <2>2. pc' \in {"zen2", "status"}
    BY <1>2, <2>1, UpdateMinimumMasterNodesToType DEF UpdateMinimumMasterNodes
  <2> QED
    BY <2>2, NotDownscaling
<1>3. ASSUME ClearVotingConfigExclusions \/ MigrateData \/ RemoveStatefulSet
             \/ UpdateReplicas \/ FinishDownscale
      PROVE  DownscaleInProgress'
  BY <1>3, NotDownscaling
  DEF ClearVotingConfigExclusions, MigrateData, RemoveStatefulSet, UpdateReplicas,
      FinishDownscale
<1>4. ASSUME HandleRollingUpgrades \/ (\E p \in Pods : ApplyPredicates(p))
             \/ NoPodSelected \/ PrepareClusterForNodeRestart
      PROVE  DownscaleInProgress'
  BY <1>4, NotDownscaling
  DEF HandleRollingUpgrades, ApplyPredicates, NoPodSelected, PrepareClusterForNodeRestart
<1>5. ASSUME NEW p \in Pods, RollZen1(p) \/ RollZen2(p) PROVE DownscaleInProgress'
  <2>1. pc' \in {"rollZen2", "delete", "enable", "ready", "status"}
    BY <1>5, RollZen1Leads DEF RollZen2, AddToVotingConfigExclusions
  <2> QED
    BY <2>1, NotDownscaling
<1>6. ASSUME (\E p \in Pods : Delete(p)) \/ (\E p \in Pods : ForceDelete(p))
             \/ MaybeEnableShardsAllocation
      PROVE  DownscaleInProgress'
  BY <1>6, NotDownscaling DEF Delete, ForceDelete, MaybeEnableShardsAllocation
<1>7. ASSUME FinishNodeSpecs \/ UpdateStatus \/ RecoverFromPanic
      PROVE  DownscaleInProgress'
  BY <1>7, NotDownscaling DEF FinishNodeSpecs, UpdateStatus, RecoverFromPanic, Restart
<1> QED
  BY <1>1, <1>2, <1>3, <1>4, <1>5, <1>6, <1>7 DEF Worker

-----------------------------------------------------------------------------
(***************************************************************************)
(* The initial states.                                                     *)
(***************************************************************************)
\* The quorum of the masters of the first specification is a natural number.
LEMMA InitialTypes ==
  /\ InitialPods \subseteq Pods
  /\ InitialMasters \subseteq Pods
  /\ InitialQuorum \in Nat
  /\ InitialSpec \in Specs
  /\ \A s \in NodeSets : /\ InitialSpec.count[s] \in 0 .. MaxReplicas
                         /\ InitialSpec.tmpl[s] \in Templates
<1>1. InitialPods \subseteq Pods /\ InitialMasters \subseteq Pods
  BY DEF InitialPods, InitialMasters
<1>2. InitialQuorum \in Nat
  BY <1>1, PodsCardinality, QuorumType DEF InitialQuorum
<1> QED
  BY <1>1, <1>2, SpecTypes, SpecsAssumption

\* A cluster a user has just created.
LEMMA InitCreatedType ==
  ASSUME InitCreated, cSset = sset, cPod = pod
  PROVE  /\ KubernetesTypeOK
         /\ joined \subseteq Pods /\ mmn \in Nat
         /\ copy \in [Shards -> [Pods -> CopyStates]]
         /\ observed \in BOOLEAN
         /\ es \in Resources
<1>1. sset \in [NodeSets -> StatefulSets]
  BY StatefulSetTypes DEF InitCreated, Uids
<1>2. pod \in [Pods -> PodRecords]
  BY PodTypes DEF InitCreated, Uids
<1>3. config \in [NodeSets -> Configs]
  BY DEF InitCreated, NoConfig, Configs
<1>4. copy \in [Shards -> [Pods -> CopyStates]]
  BY DEF InitCreated, CopyStates
<1>5. es \in Resources
  BY InitialTypes DEF InitCreated, NewResource, Resources, OrchestrationPhases
<1> QED
  BY <1>1, <1>2, <1>3, <1>4, <1>5 DEF InitCreated, KubernetesTypeOK

\* A cluster that runs the first specification.
LEMMA InitRunningType ==
  ASSUME InitRunning, cSset = sset, cPod = pod
  PROVE  /\ KubernetesTypeOK
         /\ joined \subseteq Pods /\ mmn \in Nat
         /\ copy \in [Shards -> [Pods -> CopyStates]]
         /\ observed \in BOOLEAN
         /\ es \in Resources
<1>1. sset \in [NodeSets -> StatefulSets]
  <2>1. ASSUME NEW s \in NodeSets PROVE sset[s] \in StatefulSets
    <3>1. NewStatefulSet(0, InitialSpec.count[s], InitialSpec.tmpl[s]) \in StatefulSets
      BY StatefulSetTypes, InitialTypes DEF Uids
    <3>2. [NewStatefulSet(0, InitialSpec.count[s], InitialSpec.tmpl[s])
             EXCEPT !.upd = InitialSpec.tmpl[s]] \in StatefulSets
      BY <3>1, InitialTypes DEF StatefulSets
    <3>3. NoStatefulSet(0) \in StatefulSets
      BY StatefulSetTypes DEF Uids
    <3> QED
      BY <3>2, <3>3 DEF InitRunning
  <2> QED
    BY <2>1 DEF InitRunning
<1>2. pod \in [Pods -> PodRecords]
  <2>1. ASSUME NEW p \in Pods PROVE pod[p] \in PodRecords
    <3> DEFINE boot == IF p \in InitialMasters /\ MajorOf(InitialSpec) >= 7
                         THEN InitialMasters ELSE {}
               new == NewPod(0, InitialSpec.tmpl[p[1]])
    <3>1. p[1] \in NodeSets
      BY DEF Pods
    <3>2. new \in PodRecords
      BY <3>1, PodTypes, InitialTypes DEF Uids
    <3>3. boot \in SUBSET Pods
      BY InitialTypes
    <3>4. pod[p] = IF p \in InitialPods
                     THEN [new EXCEPT !.phase = "Ready", !.boot = boot]
                     ELSE NoPod(0)
      BY DEF InitRunning
    <3> HIDE DEF boot, new
    <3>5. [new EXCEPT !.phase = "Ready", !.boot = boot] \in PodRecords
      BY <3>2, <3>3 DEF PodRecords, Phases
    <3>6. NoPod(0) \in PodRecords
      BY PodTypes DEF Uids
    <3> QED
      BY <3>4, <3>5, <3>6
  <2> QED
    BY <2>1 DEF InitRunning
<1>3. config \in [NodeSets -> Configs]
  BY InitialTypes DEF InitRunning, NoConfig, Configs
<1>4. copy \in [Shards -> [Pods -> CopyStates]]
  <2> DEFINE C == {[p \in Pods |-> IF p \in S THEN "started" ELSE "none"] :
                     S \in {S \in SUBSET {p \in InitialPods : InitialSpec.tmpl[p[1]].data} :
                              Cardinality(S) = Copies}}
  <2>1. \A c \in C : c \in [Pods -> CopyStates]
    BY DEF CopyStates
  <2>2. copy \in [Shards -> C]
    BY DEF InitRunning
  <2> HIDE DEF C
  <2> QED
    BY <2>1, <2>2
<1>5. es \in Resources
  BY InitialTypes DEF InitRunning, Resources, OrchestrationPhases
<1> QED
  BY <1>1, <1>2, <1>3, <1>4, <1>5, InitialTypes DEF InitRunning, KubernetesTypeOK

\* Init establishes the type invariant, outside of any downscale.
LEMMA InitType == Init => TypeOK /\ DownscaleInProgress
<1> SUFFICES ASSUME Init PROVE TypeOK /\ DownscaleInProgress
  OBVIOUS
<1>1. /\ KubernetesTypeOK
      /\ joined \subseteq Pods /\ mmn \in Nat
      /\ copy \in [Shards -> [Pods -> CopyStates]]
      /\ observed \in BOOLEAN
      /\ es \in Resources
  BY InitCreatedType, InitRunningType DEF Init
<1>2. ElasticsearchTypeOK
  BY <1>1, MaxCrashesAssumption DEF Init, ElasticsearchTypeOK
<1>3. ExpectationsTypeOK
  BY DEF Init, NoExpectations, ExpectationsTypeOK, Uids
<1>4. DriverTypeOK
  BY <1>1, NoPhaseTypes, IdlePassType, BoundsAssumption DEF Init, DriverTypeOK, Locations
<1>5. DownscaleInProgress
  BY DEF Init, DownscaleInProgress
<1> QED
  BY <1>1, <1>2, <1>3, <1>4, <1>5 DEF TypeOK

-----------------------------------------------------------------------------
(***************************************************************************)
(* The type invariant of the whole.                                        *)
(***************************************************************************)
TypeInv == TypeOK /\ DownscaleInProgress

\* Every step, the ones that change nothing included, keeps both parts.
LEMMA TypeStep == TypeInv /\ [Next]_vars => TypeInv'
<1> SUFFICES ASSUME TypeOK, DownscaleInProgress, [Next]_vars
             PROVE  TypeOK' /\ DownscaleInProgress'
  BY DEF TypeInv
<1>1. CASE Worker
  BY <1>1, WorkerType, DownscalePhaseStep, OtherWorkerStep
<1>2. CASE Watches
  <2>1. UNCHANGED <<pc, pass, down>>
    BY <1>2 DEF Watches, SyncEs, SyncStatefulSetCache, SyncPodCache, phaseVars
  <2> QED
    BY <1>2, <2>1, WatchesType, DownscaleUnchanged
<1>3. CASE Observer
  <2>1. UNCHANGED <<pc, pass, down>>
    BY <1>3 DEF Observer, Observe, StoreObservation, phaseVars
  <2> QED
    BY <1>3, <2>1, ObserverType, DownscaleUnchanged
<1>4. CASE Surroundings
  <2>1. UNCHANGED <<pc, pass, down>>
    BY <1>4 DEF Surroundings, driverVars, phaseVars
  <2> QED
    BY <1>4, <2>1, SurroundingsType, DownscaleUnchanged
<1>5. CASE OperatorRestarts
  <2>1. pc' = "idle"
    BY <1>5 DEF OperatorRestarts, Restart
  <2> QED
    BY <1>5, <2>1, RestartType, NotDownscaling
<1>6. ASSUME NEW spec \in Specs, ChangeSpec(spec)
      PROVE  TypeOK' /\ DownscaleInProgress'
  <2>1. UNCHANGED <<pc, pass, down>>
    BY <1>6 DEF ChangeSpec, phaseVars
  <2> QED
    BY <1>6, <2>1, ChangeSpecType, DownscaleUnchanged
<1>7. CASE UNCHANGED vars
  <2>1. UNCHANGED <<pc, pass, down>>
    BY <1>7 DEF vars, driverVars, phaseVars
  <2>2. UNCHANGED <<kubernetesVars, elasticsearchVars, expectationsVars, driverVars>>
    BY <1>7 DEF vars
  <2>3. TypeOK'
    BY <2>2, KubernetesUnchanged, ElasticsearchUnchanged, ExpectationsUnchanged,
       DriverUnchanged DEF TypeOK
  <2> QED
    BY <2>1, <2>3, DownscaleUnchanged
<1> QED
  BY <1>1, <1>2, <1>3, <1>4, <1>5, <1>6, <1>7 DEF Next

\* Every variable of the operator, of Kubernetes and of Elasticsearch keeps its
\* type in every execution: in particular no downscale plans for more replicas
\* than there are, or for fewer than none.
THEOREM TypeCorrect == Spec => []TypeOK
<1>1. Init => TypeInv
  BY InitType DEF TypeInv
<1>2. TypeInv /\ [Next]_vars => TypeInv'
  BY TypeStep
<1>3. TypeInv => TypeOK
  BY DEF TypeInv
<1> QED
  BY <1>1, <1>2, <1>3, PTL DEF Spec
=============================================================================
