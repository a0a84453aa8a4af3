------------------------------ MODULE EsDriver ------------------------------
(***************************************************************************)
(* The Elasticsearch controller (elasticsearch_controller.go,              *)
(* driver/driver.go, driver/nodes.go): the reconciliation loop around the  *)
(* three phases, run by one worker, with everything that moves while it    *)
(* runs: the user, the caches, the observer, Kubernetes, Elasticsearch and *)
(* the restarts of the operator itself.                                    *)
(***************************************************************************)
EXTENDS RollingUpgrade

vars == <<kubernetesVars, elasticsearchVars, expectationsVars, driverVars>>

NewResource == [spec |-> InitialSpec, uuid |-> FALSE, mmn |-> 0, phase |-> ""]
IdlePass == NewPass(NewResource)

-----------------------------------------------------------------------------
(***************************************************************************)
(* A reconciliation up to the phases.                                      *)
(***************************************************************************)
\* The worker takes the cluster off the queue and reads it from the cache.
StartReconcile ==
  /\ pc = "idle"
  /\ queued
  /\ queued' = FALSE
  /\ pass' = NewPass(cEs)
  /\ pc' = "uuid"
  /\ UNCHANGED <<kubernetesVars, elasticsearchVars, expectationsVars,
                 resourceVars, faults, phaseVars>>

\* IsServiceReady: the endpoints of the service are the ready Pods, as of the
\* API server or of an older moment.
Reachable(pods) == \E p \in Pods : IsPodReady(pods, p) /\ ~pods[p].terminating

\* clusterNeedsReBootstrap: the only master is about to move to zen2.
NeedsReBootstrap ==
  /\ Cardinality(Masters) = 1
  /\ DesiredMajor >= 7
  /\ \A p \in Masters : cPod[p].tmpl.major < 7

\* ReconcileClusterUUID
ReconcileClusterUUID ==
  /\ pc = "uuid"
  /\ \E pods \in {pod, cPod} :
       LET c == [pass EXCEPT !.reachable = Reachable(pods)]
           changes == IF pass.mine.uuid THEN NeedsReBootstrap
                                        ELSE observed /\ ~NeedsReBootstrap
           mine == [pass.mine EXCEPT !.uuid = ~@]
       IN IF ~changes
            THEN /\ pass' = c
                 /\ pc' = "retrieve"
                 /\ UNCHANGED <<es, faults>>
            ELSE \E o \in Outcomes :
                   LET conflict == es # pass.snap
                   IN /\ Account(o)
                      /\ es' = IF conflict \/ o = "error" THEN es ELSE mine
                      /\ IF conflict \/ o # "ok"
                           THEN /\ pass' = Requeue(c)
                                /\ pc' = "status"
                           ELSE /\ pass' = [c EXCEPT !.snap = mine, !.mine = mine]
                                /\ pc' = "retrieve"
  /\ UNCHANGED <<kubernetesVars, elasticsearchVars, expectationsVars, cEs,
                 observed, observing, specChanges, queued, phaseVars>>

\* RetrieveActualStatefulSets
RetrieveActualStatefulSets ==
  /\ pc = "retrieve"
  /\ pass' = [pass EXCEPT !.actual = cSset]
  /\ pc' = "expect"
  /\ UNCHANGED <<kubernetesVars, elasticsearchVars, expectationsVars,
                 resourceVars, faults, queued, phaseVars>>

\* Nothing is changed until the cache shows what previous passes wrote.
AwaitExpectations ==
  /\ pc = "expect"
  /\ CheckExpectations(pass.actual)
  /\ IF ExpectationsMet(pass.actual)
       THEN pc' = "adjust" /\ UNCHANGED pass
       ELSE pc' = "status" /\ pass' = Requeue(pass)
  /\ UNCHANGED <<kubernetesVars, elasticsearchVars, generations, resourceVars,
                 faults, queued, phaseVars>>

-----------------------------------------------------------------------------
(***************************************************************************)
(* ... and after them.                                                     *)
(***************************************************************************)
\* Seeded defect: what the StatefulSets are is not looked at.
PodsReconciled ==
  /\ \A s \in Desired.sets : pass.actual[s].exists
  /\ PodsToUpgrade(pass.actual) = {}
Reconciled ==
  /\ \A s \in Desired.sets :
       /\ pass.actual[s].exists
       /\ EqualTemplateHash(pass.actual[s], Desired.count[s], Desired.tmpl[s])
  /\ PodsToUpgrade(pass.actual) = {}

FinishNodeSpecs ==
  /\ pc = "ready"
  /\ pass' = [pass EXCEPT !.phase =
       CASE Reconciled -> "Ready"
         [] ~Reconciled /\ @ = "Ready" -> "ApplyingChanges"
         [] OTHER -> @]
  /\ pc' = "status"
  /\ UNCHANGED <<kubernetesVars, elasticsearchVars, expectationsVars,
                 resourceVars, faults, queued, phaseVars>>

\* updateStatus, and the end of Reconcile: a conflict or any error puts the
\* cluster back in the queue.
UpdateStatus ==
  /\ pc = "status"
  /\ IF pass.phase = pass.start.phase
       THEN /\ queued' = (queued \/ pass.requeue)
            /\ UNCHANGED <<es, faults>>
       ELSE \E o \in Outcomes :
              LET conflict == es # pass.start
              IN /\ Account(o)
                 /\ es' = IF conflict \/ o = "error" THEN es
                          ELSE [es EXCEPT !.phase = pass.phase]
                 /\ queued' = (queued \/ pass.requeue \/ conflict \/ o # "ok")
  /\ pc' = "idle"
  /\ pass' = IdlePass
  /\ up' = NoUp
  /\ down' = NoDown
  /\ roll' = NoRoll
  /\ UNCHANGED <<kubernetesVars, elasticsearchVars, expectationsVars, cEs,
                 observed, observing, specChanges>>

-----------------------------------------------------------------------------
(***************************************************************************)
(* What happens around the worker.                                         *)
(***************************************************************************)
\* A user edits the specification; validation refuses a lower version.
ChangeSpec(spec) ==
  /\ specChanges < MaxSpecChanges
  /\ spec # es.spec
  /\ MajorOf(spec) >= MajorOf(es.spec)
  /\ es' = [es EXCEPT !.spec = spec]
  /\ specChanges' = specChanges + 1
  /\ UNCHANGED <<kubernetesVars, elasticsearchVars, expectationsVars, cEs,
                 observed, observing, faults, queued, pc, pass, phaseVars>>

\* The watches: an object that changed in the cache queues its cluster.
SyncEs ==
  /\ cEs # es
  /\ cEs' = es
  /\ queued' = TRUE
  /\ UNCHANGED <<kubernetesVars, elasticsearchVars, expectationsVars, es,
                 observed, observing, specChanges, faults, pc, pass, phaseVars>>

SyncStatefulSetCache ==
  /\ SyncStatefulSets
  /\ queued' = TRUE
  /\ UNCHANGED <<elasticsearchVars, expectationsVars, resourceVars, faults, pc,
                 pass, phaseVars>>

SyncPodCache ==
  /\ SyncPods
  /\ queued' = TRUE
  /\ UNCHANGED <<elasticsearchVars, expectationsVars, resourceVars, faults, pc,
                 pass, phaseVars>>

\* retrieveState calls onObservation, which queues a cluster whose health
\* changed, before it stores the state for LastState to return.
Observe ==
  /\ observing = {}
  /\ observed # Formed
  /\ observing' = {Formed}
  /\ queued' = TRUE
  /\ UNCHANGED <<kubernetesVars, elasticsearchVars, expectationsVars, es, cEs,
                 observed, specChanges, faults, pc, pass, phaseVars>>

StoreObservation ==
  /\ observed' \in observing
  /\ observing' = {}
  /\ UNCHANGED <<kubernetesVars, elasticsearchVars, expectationsVars, es, cEs,
                 specChanges, faults, queued, pc, pass, phaseVars>>

\* The operator process dies and starts again: what it kept in memory is lost,
\* its caches are listed anew, every cluster is queued.
Restart ==
  /\ ForgetExpectations
  /\ cSset' = sset
  /\ cPod' = pod
  /\ cEs' = es
  /\ observed' = FALSE
  /\ observing' = {}
  /\ queued' = TRUE
  /\ pc' = "idle"
  /\ pass' = IdlePass
  /\ up' = NoUp
  /\ down' = NoDown
  /\ roll' = NoRoll
  /\ UNCHANGED <<sset, pod, config, elasticsearchVars, es, specChanges>>

OperatorRestarts ==
  /\ pc # "panic"
  /\ "restart" \in FaultKinds
  /\ faults < MaxFaults
  /\ faults' = faults + 1
  /\ Restart

RecoverFromPanic ==
  /\ pc = "panic"
  /\ UNCHANGED faults
  /\ Restart

-----------------------------------------------------------------------------
(***************************************************************************)
(* The specification.  It starts either from a resource a user has just    *)
(* created, or from a cluster that runs InitialSpec.                       *)
(***************************************************************************)
InitialPods == {p \in Pods : p[1] \in InitialSpec.sets
                             /\ p[2] < InitialSpec.count[p[1]]}
InitialMasters == {p \in InitialPods : InitialSpec.tmpl[p[1]].master}
InitialQuorum ==
  IF MajorOf(InitialSpec) < 7 THEN Quorum(Cardinality(InitialMasters)) ELSE 0

InitCreated ==
  /\ sset = [s \in NodeSets |-> NoStatefulSet(0)]
  /\ pod = [p \in Pods |-> NoPod(0)]
  /\ config = [s \in NodeSets |-> NoConfig]
  /\ joined = {}
  /\ mmn = 0
  /\ copy = [s \in Shards |-> [p \in Pods |-> "none"]]
  /\ observed = FALSE
  /\ es = NewResource

InitRunning ==
  /\ sset = [s \in NodeSets |->
       IF s \in InitialSpec.sets
         THEN [NewStatefulSet(0, InitialSpec.count[s], InitialSpec.tmpl[s])
                 EXCEPT !.upd = InitialSpec.tmpl[s]]
         ELSE NoStatefulSet(0)]
  /\ pod = [p \in Pods |->
       IF p \in InitialPods
         THEN [NewPod(0, InitialSpec.tmpl[p[1]]) EXCEPT
                 !.phase = "Ready",
                 !.boot = IF p \in InitialMasters /\ MajorOf(InitialSpec) >= 7
                            THEN InitialMasters ELSE {}]
         ELSE NoPod(0)]
  /\ config = [s \in NodeSets |->
       IF s \in InitialSpec.sets THEN [mmn |-> InitialQuorum, initial |-> {}]
                                 ELSE NoConfig]
  /\ joined = InitialPods
  /\ mmn = InitialQuorum
  /\ copy \in [Shards -> {[p \in Pods |-> IF p \in S THEN "started" ELSE "none"] :
       S \in {S \in SUBSET {p \in InitialPods : InitialSpec.tmpl[p[1]].data} :
                Cardinality(S) = Copies}}]
  /\ observed = TRUE
  /\ es = [spec |-> InitialSpec, uuid |-> TRUE, mmn |-> InitialQuorum,
           phase |-> "Ready"]

Init ==
  /\ IF Bootstrapped THEN InitRunning ELSE InitCreated
  /\ cSset = sset
  /\ cPod = pod
  /\ cEs = es
  /\ allocation = "all"
  /\ excluded = {}
  /\ voting = {}
  /\ crashes = 0
  /\ NoExpectations
  /\ observing = {}
  /\ specChanges = 0
  /\ faults = 0
  /\ queued = TRUE
  /\ pc = "idle"
  /\ pass = IdlePass
  /\ up = NoUp
  /\ down = NoDown
  /\ roll = NoRoll

Worker ==
  \/ StartReconcile
  \/ ReconcileClusterUUID
  \/ RetrieveActualStatefulSets
  \/ AwaitExpectations
  \/ AdjustResources
  \/ \E s \in NodeSets : ApplyResource(s)
  \/ UpdateMinimumMasterNodes
  \/ ClearVotingConfigExclusions
  \/ StartDownscale
  \/ \E s \in NodeSets : CalculateDownscale(s)
  \/ MigrateData
  \/ \E target \in 0 .. MaxReplicas : AttemptDownscale(target)
  \/ RemoveStatefulSet
  \/ DownscaleZen1
  \/ DownscaleZen2
  \/ UpdateReplicas
  \/ FinishDownscale
  \/ HandleRollingUpgrades
  \/ \E p \in Pods : ApplyPredicates(p)
  \/ NoPodSelected
  \/ PrepareClusterForNodeRestart
  \/ \E p \in Pods : RollZen1(p)
  \/ \E p \in Pods : RollZen2(p)
  \/ \E p \in Pods : Delete(p)
  \/ \E p \in Pods : ForceDelete(p)
  \/ MaybeEnableShardsAllocation
  \/ FinishNodeSpecs
  \/ UpdateStatus
  \/ RecoverFromPanic

Watches == SyncEs \/ SyncStatefulSetCache \/ SyncPodCache
Observer == Observe \/ StoreObservation
Surroundings ==
  /\ StatefulSetController \/ Kubelet \/ Cluster
  /\ UNCHANGED <<expectationsVars, driverVars>>

Next ==
  \/ Worker
  \/ Watches
  \/ Observer
  \/ Surroundings
  \/ OperatorRestarts
  \/ \E spec \in Specs : ChangeSpec(spec)

Spec == Init /\ [][Next]_vars

\* The worker, the watches, the observer and the controllers of Kubernetes keep
\* going; a container starts, becomes ready, stops; a node joins and its shards
\* recover.  Nothing makes a user edit, a call fail or a container crash.
KubeletProgress ==
  \E p \in Pods :
    \/ StartPod(p) /\ UNCHANGED elasticsearchVars
    \/ ReadyPod(p) /\ UNCHANGED elasticsearchVars
    \/ NodeStops(p)
FairSpec ==
  /\ Spec
  /\ WF_vars(Worker)
  /\ WF_vars(SyncEs) /\ WF_vars(SyncStatefulSetCache) /\ WF_vars(SyncPodCache)
  /\ WF_vars(Observer)
  /\ WF_vars(StatefulSetController /\ UNCHANGED <<expectationsVars, driverVars>>)
  /\ WF_vars(KubeletProgress /\ UNCHANGED <<expectationsVars, driverVars>>)
  /\ WF_vars(Cluster /\ UNCHANGED <<expectationsVars, driverVars>>)
=============================================================================
