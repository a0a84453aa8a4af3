------------------------ MODULE Expectations_proofs ------------------------
(***************************************************************************)
(* What the expectations of the operator are worth.                        *)
(*                                                                         *)
(* They can always be satisfied.  What makes them so is that nothing goes  *)
(* back: the UIDs of a name grow, the generations of a UID grow, and a Pod *)
(* that terminates stays so.                                               *)
(*                                                                         *)
(* Thanks to them a pass that reports its cluster Ready has applied its    *)
(* specification.  The operator reads StatefulSets from a cache that may   *)
(* be behind, and writes some of them as it goes; what keeps it from       *)
(* reporting what it only believes is that a cache that is behind one of   *)
(* its own updates is behind the generation it expects, and that the only  *)
(* StatefulSet the cache shows and Kubernetes no longer has is one without *)
(* replicas.  No reply is lost there: the generation of an update whose    *)
(* reply is lost is not expected, and then the operator does report what   *)
(* it believes.                                                            *)
(***************************************************************************)
EXTENDS EsDriver_proofs, WellFoundedInduction

-----------------------------------------------------------------------------
GenerationsSatisfiable ==
  \A s \in NodeSets :
    /\ generations[s].uid <= sset[s].uid
    /\ sset[s].exists /\ sset[s].uid = generations[s].uid
         => generations[s].gen <= sset[s].gen
DeletionsSatisfiable ==
  \A p \in Pods : \A uid \in deletions[p] :
    /\ uid <= pod[p].uid
    /\ pod[p].exists /\ pod[p].uid = uid => pod[p].terminating

\* One StatefulSet, one Pod, as a step leaves it.
StatefulSetAdvances(old, new) ==
  /\ old.uid <= new.uid
  /\ new.exists /\ new.uid = old.uid => old.exists /\ old.gen <= new.gen
PodAdvances(old, new) ==
  /\ old.uid <= new.uid
  /\ new.exists /\ new.uid = old.uid
       => old.exists /\ (old.terminating => new.terminating)

\* While StatefulSets advance, the generations expected of them stay satisfiable.
LEMMA GenerationsKept ==
  ASSUME TypeOK, TypeOK', GenerationsSatisfiable, UNCHANGED generations,
         \A s \in NodeSets : StatefulSetAdvances(sset[s], sset'[s])
  PROVE  GenerationsSatisfiable'
<1> SUFFICES ASSUME NEW s \in NodeSets
             PROVE  /\ generations[s].uid <= sset'[s].uid
                    /\ sset'[s].exists /\ sset'[s].uid = generations[s].uid
                         => generations[s].gen <= sset'[s].gen
  BY DEF GenerationsSatisfiable
<1>1. /\ generations[s].uid \in Nat /\ generations[s].gen \in Nat
      /\ sset[s].uid \in Nat /\ sset[s].gen \in Nat
      /\ sset'[s].uid \in Nat /\ sset'[s].gen \in Nat
  BY DEF TypeOK, KubernetesTypeOK, ExpectationsTypeOK, StatefulSets, Uids
<1>2. StatefulSetAdvances(sset[s], sset'[s])
  OBVIOUS
<1>3. /\ generations[s].uid <= sset[s].uid
      /\ sset[s].exists /\ sset[s].uid = generations[s].uid
           => generations[s].gen <= sset[s].gen
  BY DEF GenerationsSatisfiable
<1> QED
  BY <1>1, <1>2, <1>3 DEF StatefulSetAdvances

\* While Pods advance, expected deletions stay satisfiable, even fewer of them.
LEMMA DeletionsKept ==
  ASSUME TypeOK, TypeOK', DeletionsSatisfiable,
         \A p \in Pods : deletions'[p] \subseteq deletions[p],
         \A p \in Pods : PodAdvances(pod[p], pod'[p])
  PROVE  DeletionsSatisfiable'
<1> SUFFICES ASSUME NEW p \in Pods, NEW uid \in deletions'[p]
             PROVE  /\ uid <= pod'[p].uid
                    /\ pod'[p].exists /\ pod'[p].uid = uid => pod'[p].terminating
  BY DEF DeletionsSatisfiable
<1>1. uid \in deletions[p]
  OBVIOUS
<1>2. uid \in Nat /\ pod[p].uid \in Nat /\ pod'[p].uid \in Nat
  BY <1>1 DEF TypeOK, KubernetesTypeOK, ExpectationsTypeOK, PodRecords, Uids
<1>3. uid <= pod[p].uid /\ (pod[p].exists /\ pod[p].uid = uid => pod[p].terminating)
  BY <1>1 DEF DeletionsSatisfiable
<1>4. PodAdvances(pod[p], pod'[p])
  OBVIOUS
<1> QED
  BY <1>2, <1>3, <1>4 DEF PodAdvances

\* A step that writes no StatefulSet and expects no generation.
LEMMA StatefulSetsUntouched ==
  ASSUME TypeOK, TypeOK', GenerationsSatisfiable, UNCHANGED <<sset, generations>>
  PROVE  GenerationsSatisfiable'
BY DEF GenerationsSatisfiable

\* A step that deletes no Pod and expects no deletion.
LEMMA PodsUntouched ==
  ASSUME DeletionsSatisfiable, UNCHANGED pod,
         \A p \in Pods : deletions'[p] \subseteq deletions[p]
  PROVE  DeletionsSatisfiable'
BY DEF DeletionsSatisfiable

\* Looking at expectations drops some of them and adds none.
LEMMA CheckExpectationsDrops ==
  ASSUME TypeOK, NEW ssets, CheckExpectations(ssets) \/ DropSatisfiedDeletions
  PROVE  \A p \in Pods : deletions'[p] \subseteq deletions[p]
BY DEF CheckExpectations, DropSatisfiedDeletions, TypeOK, ExpectationsTypeOK

\* A write keeps the UID of the StatefulSet and never lowers its generation.
LEMMA WrittenAdvances ==
  ASSUME NEW s \in StatefulSets, NEW n \in 0 .. MaxReplicas, NEW t \in Templates,
         NEW r \in BOOLEAN
  PROVE  /\ StatefulSetAdvances(s, WrittenStatefulSet(s, n, t, r))
         /\ WrittenStatefulSet(s, n, t, r).uid = s.uid
<1> DEFINE gen == IF s.replicas = n /\ s.tmpl = t THEN s.gen ELSE s.gen + 1
<1>1. gen \in Nat /\ s.gen <= gen
  BY DEF StatefulSets
<1>2. WrittenStatefulSet(s, n, t, r)
        = [s EXCEPT !.replicas = n, !.tmpl = t, !.rendered = r, !.gen = gen]
  BY DEF WrittenStatefulSet
<1> HIDE DEF gen
<1> QED
  BY <1>1, <1>2 DEF StatefulSets, StatefulSetAdvances, Uids

\* A StatefulSet left alone advances.
LEMMA SameAdvances ==
  /\ \A s \in StatefulSets : StatefulSetAdvances(s, s)
  /\ \A p \in PodRecords : PodAdvances(p, p)
BY DEF StatefulSets, PodRecords, StatefulSetAdvances, PodAdvances, Uids

\* The StatefulSet controller and the kubelet make Pods advance.
LEMMA SurroundingsAdvance ==
  ASSUME TypeOK, Surroundings
  PROVE  /\ \A s \in NodeSets : StatefulSetAdvances(sset[s], sset'[s])
         /\ \A p \in Pods : PodAdvances(pod[p], pod'[p])
<1> USE DEF TypeOK, KubernetesTypeOK
<1>1. ASSUME NEW s \in NodeSets, PublishRevision(s)
      PROVE  UNCHANGED pod /\ \A t \in NodeSets : StatefulSetAdvances(sset[t], sset'[t])
  BY <1>1 DEF PublishRevision, StatefulSets, StatefulSetAdvances, Uids
<1>2. ASSUME NEW q \in Pods, NEW t \in Templates, CreatePod(q, t)
      PROVE  UNCHANGED sset /\ \A p \in Pods : PodAdvances(pod[p], pod'[p])
  BY <1>2 DEF CreatePod, NewPod, NextUid, PodRecords, PodAdvances, Uids
<1>3. ASSUME NEW q \in Pods, CondemnPod(q)
      PROVE  UNCHANGED sset /\ \A p \in Pods : PodAdvances(pod[p], pod'[p])
  BY <1>3 DEF CondemnPod, PodRecords, PodAdvances, Uids
<1>4. ASSUME NEW q \in Pods, StartPod(q) \/ ReadyPod(q) \/ CrashPod(q)
      PROVE  UNCHANGED sset /\ \A p \in Pods : PodAdvances(pod[p], pod'[p])
  BY <1>4 DEF StartPod, ReadyPod, CrashPod, PodRecords, PodAdvances, Uids
<1>5. ASSUME NEW q \in Pods, RemovePod(q)
      PROVE  UNCHANGED sset /\ \A p \in Pods : PodAdvances(pod[p], pod'[p])
  BY <1>5 DEF RemovePod, NoPod, PodRecords, PodAdvances, Uids
<1>6. \/ \E s \in NodeSets : PublishRevision(s)
      \/ \E q \in Pods, t \in Templates : CreatePod(q, t)
      \/ \E q \in Pods : CondemnPod(q) \/ StartPod(q) \/ ReadyPod(q) \/ CrashPod(q)
                         \/ RemovePod(q)
      \/ UNCHANGED <<sset, pod>>
  BY DEF Surroundings, StatefulSetController, Kubelet, NodeCrashes, NodeStops,
         Cluster, JoinCluster, StartFromDisk, RecoverStale, AllocateReplica,
         StartRelocation, FinishRecovery, FinishRelocation, kubernetesVars
<1>7. /\ UNCHANGED sset => \A s \in NodeSets : StatefulSetAdvances(sset[s], sset'[s])
      /\ UNCHANGED pod => \A p \in Pods : PodAdvances(pod[p], pod'[p])
  BY SameAdvances
<1> QED
  BY <1>1, <1>2, <1>3, <1>4, <1>5, <1>6, <1>7

\* An upscale expects the generation its update returned, and none of a
\* StatefulSet it creates.
LEMMA ApplyResourceGenerations ==
  ASSUME TypeOK, TypeOK', GenerationsSatisfiable, NEW s \in NodeSets, ApplyResource(s)
  PROVE  GenerationsSatisfiable'
<1>1. /\ sset \in [NodeSets -> StatefulSets] /\ generations \in [NodeSets -> [uid : Uids, gen : Nat]]
      /\ up.replicas[s] \in 0 .. MaxReplicas /\ Desired.tmpl[s] \in Templates
  BY PassParts, SpecTypes
  DEF TypeOK, KubernetesTypeOK, ExpectationsTypeOK, DriverTypeOK, Upscaling, Desired, Resources
<1>2. StatefulSetAdvances(sset[s], Applied(s))
  <2>1. CASE sset[s].exists
    BY <1>1, <2>1, WrittenAdvances DEF Applied
  <2>2. CASE ~sset[s].exists
    BY <1>1, <2>2 DEF Applied, NewStatefulSet, NextUid, StatefulSetAdvances, StatefulSets, Uids
  <2> QED
    BY <2>1, <2>2
<1>3. sset' \in {sset, [sset EXCEPT ![s] = Applied(s)]}
  BY DEF ApplyResource
<1>4. \A t \in NodeSets : StatefulSetAdvances(sset[t], sset'[t])
  BY <1>1, <1>2, <1>3, SameAdvances
<1>5. \/ UNCHANGED generations
      \/ /\ ExpectGeneration(s, Applied(s))
         /\ sset' = [sset EXCEPT ![s] = Applied(s)]
  BY DEF ApplyResource
<1>6. CASE UNCHANGED generations
  BY <1>4, <1>6, GenerationsKept
<1>7. CASE ExpectGeneration(s, Applied(s)) /\ sset' = [sset EXCEPT ![s] = Applied(s)]
  <2>1. sset'[s].uid \in Nat /\ sset'[s].gen \in Nat
    BY DEF TypeOK, KubernetesTypeOK, StatefulSets, Uids
  <2>2. generations'[s] = [uid |-> sset'[s].uid, gen |-> sset'[s].gen]
    BY <1>1, <1>7 DEF ExpectGeneration
  <2>3. \A t \in NodeSets \ {s} : generations'[t] = generations[t] /\ sset'[t] = sset[t]
    BY <1>1, <1>7 DEF ExpectGeneration
  <2> QED
    BY <2>1, <2>2, <2>3 DEF GenerationsSatisfiable
<1> QED
  BY <1>5, <1>6, <1>7

\* So does a downscale, of the StatefulSet it read and nobody wrote since.
LEMMA UpdateReplicasGenerations ==
  ASSUME TypeOK, TypeOK', DownscaleInProgress, GenerationsSatisfiable, UpdateReplicas
  PROVE  GenerationsSatisfiable'
<1> DEFINE s == Head(down.plan).set
           written == WrittenStatefulSet(sset[s], down.target, pass.actual[s].tmpl, FALSE)
<1>1. s \in NodeSets /\ down.target \in 0 .. MaxReplicas
  BY PlanTypes DEF UpdateReplicas, DownscaleInProgress, TypeOK, DriverTypeOK, Downscaling, Plans
<1>2. /\ sset \in [NodeSets -> StatefulSets] /\ generations \in [NodeSets -> [uid : Uids, gen : Nat]]
      /\ pass.actual[s].tmpl \in Templates
  BY <1>1, PassParts DEF TypeOK, KubernetesTypeOK, ExpectationsTypeOK, StatefulSets
<1>3. \/ sset' \in {sset, [sset EXCEPT ![s] = written]} /\ UNCHANGED generations
      \/ sset' = [sset EXCEPT ![s] = written] /\ ExpectGeneration(s, written)
  BY DEF UpdateReplicas
<1>4. StatefulSetAdvances(sset[s], written)
  BY <1>1, <1>2, WrittenAdvances
<1> HIDE DEF s, written
<1>5. CASE sset' \in {sset, [sset EXCEPT ![s] = written]} /\ UNCHANGED generations
  <2>1. \A t \in NodeSets : StatefulSetAdvances(sset[t], sset'[t])
    BY <1>1, <1>2, <1>4, <1>5, SameAdvances
  <2> QED
    BY <1>5, <2>1, GenerationsKept
<1>6. CASE sset' = [sset EXCEPT ![s] = written] /\ ExpectGeneration(s, written)
  <2>1. sset'[s].uid \in Nat /\ sset'[s].gen \in Nat
    BY <1>1 DEF TypeOK, KubernetesTypeOK, StatefulSets, Uids
  <2>2. generations'[s] = [uid |-> sset'[s].uid, gen |-> sset'[s].gen]
    BY <1>1, <1>2, <1>6 DEF ExpectGeneration
  <2>3. \A t \in NodeSets \ {s} : generations'[t] = generations[t] /\ sset'[t] = sset[t]
    BY <1>1, <1>2, <1>6 DEF ExpectGeneration
  <2> QED
    BY <2>1, <2>2, <2>3 DEF GenerationsSatisfiable
<1> QED
  BY <1>3, <1>5, <1>6

\* Removing a StatefulSet leaves its name without a generation to wait for.
LEMMA RemoveStatefulSetGenerations ==
  ASSUME TypeOK, TypeOK', GenerationsSatisfiable, RemoveStatefulSet
  PROVE  GenerationsSatisfiable'
<1> DEFINE s == Head(down.plan).set
<1>1. s \in NodeSets
  BY PlanTypes DEF RemoveStatefulSet, TypeOK, DriverTypeOK, Downscaling, Plans
<1>2. sset' \in {sset, [sset EXCEPT ![s] = NoStatefulSet(sset[s].uid)]} /\ UNCHANGED generations
  BY DEF RemoveStatefulSet, expectationsVars
<1>3. sset \in [NodeSets -> StatefulSets]
  BY DEF TypeOK, KubernetesTypeOK
<1>4. StatefulSetAdvances(sset[s], NoStatefulSet(sset[s].uid))
  BY <1>1, <1>3 DEF NoStatefulSet, StatefulSetAdvances, StatefulSets, Uids
<1> HIDE DEF s
<1>5. \A t \in NodeSets : StatefulSetAdvances(sset[t], sset'[t])
  BY <1>1, <1>2, <1>3, <1>4, SameAdvances
<1> QED
  BY <1>2, <1>5, GenerationsKept

\* A deletion is only expected of the Pod that was deleted, once it terminates.
LEMMA DeletePodDeletions ==
  ASSUME TypeOK, TypeOK', DeletionsSatisfiable, NEW p \in Pods, NEW o, DeletePod(p, o)
  PROVE  DeletionsSatisfiable'
<1> SUFFICES ASSUME NEW q \in Pods, NEW uid \in deletions'[q]
             PROVE  /\ uid <= pod'[q].uid
                    /\ pod'[q].exists /\ pod'[q].uid = uid => pod'[q].terminating
  BY DEF DeletionsSatisfiable
<1>1. /\ pod \in [Pods -> PodRecords] /\ deletions \in [Pods -> SUBSET Uids]
      /\ pod[p].uid \in Nat
  BY DEF TypeOK, KubernetesTypeOK, ExpectationsTypeOK, PodRecords, Uids
<1>2. CASE q = p
  <2>1. /\ uid = roll.seen[p].uid /\ pod[p].exists /\ pod[p].uid = uid
        /\ pod' = [pod EXCEPT ![p].terminating = TRUE]
    BY <1>1, <1>2 DEF DeletePod, ExpectDeletion, CancelExpectedDeletion
  <2>2. pod'[p].uid = pod[p].uid /\ pod'[p].terminating
    BY <1>1, <2>1 DEF PodRecords
  <2> QED
    BY <1>1, <1>2, <2>1, <2>2
<1>3. CASE q # p
  <2>1. deletions'[q] = deletions[q]
    BY <1>1, <1>3 DEF DeletePod, ExpectDeletion, CancelExpectedDeletion
  <2>2. pod'[q] = pod[q]
    BY <1>1, <1>3 DEF DeletePod
  <2> QED
    BY <2>1, <2>2 DEF DeletionsSatisfiable
<1> QED
  BY <1>2, <1>3

\* Restarting the operator forgets all it expected.
LEMMA RestartExpectations ==
  ASSUME TypeOK, Restart
  PROVE  GenerationsSatisfiable' /\ DeletionsSatisfiable'
BY DEF Restart, ForgetExpectations, GenerationsSatisfiable, DeletionsSatisfiable,
       TypeOK, KubernetesTypeOK, StatefulSets, Uids

\* The steps of a reconciliation that write StatefulSets or delete Pods, and
\* the others.
LEMMA WorkerExpectations ==
  ASSUME TypeOK, TypeOK', DownscaleInProgress, GenerationsSatisfiable,
         DeletionsSatisfiable, Worker
  PROVE  GenerationsSatisfiable' /\ DeletionsSatisfiable'
<1>1. ASSUME NEW s \in NodeSets, ApplyResource(s)
      PROVE  GenerationsSatisfiable' /\ DeletionsSatisfiable'
  <2>1. UNCHANGED <<pod, deletions>>
    BY <1>1 DEF ApplyResource
  <2> QED
    BY <1>1, <2>1, ApplyResourceGenerations, PodsUntouched
<1>2. CASE UpdateReplicas
  <2>1. UNCHANGED <<pod, deletions>>
    BY <1>2 DEF UpdateReplicas
  <2> QED
    BY <1>2, <2>1, UpdateReplicasGenerations, PodsUntouched
<1>3. CASE RemoveStatefulSet
  <2>1. UNCHANGED <<pod, deletions>>
    BY <1>3 DEF RemoveStatefulSet, expectationsVars
  <2> QED
    BY <1>3, <2>1, RemoveStatefulSetGenerations, PodsUntouched
<1>4. ASSUME NEW p \in Pods, Delete(p) \/ ForceDelete(p)
      PROVE  GenerationsSatisfiable' /\ DeletionsSatisfiable'
  <2>1. UNCHANGED <<sset, generations>>
    BY <1>4 DEF Delete, ForceDelete
  <2>2. \E o \in Outcomes : DeletePod(p, o)
    BY <1>4 DEF Delete, ForceDelete
  <2> QED
    BY <2>1, <2>2, StatefulSetsUntouched, DeletePodDeletions
<1>5. CASE RecoverFromPanic
  BY <1>5, RestartExpectations DEF RecoverFromPanic
<1>6. CASE AwaitExpectations \/ HandleRollingUpgrades \/ MaybeEnableShardsAllocation
  <2>1. UNCHANGED <<sset, generations, pod>>
    BY <1>6 DEF AwaitExpectations, HandleRollingUpgrades, MaybeEnableShardsAllocation,
                kubernetesVars
  <2>2. \/ CheckExpectations(pass.actual)
        \/ DropSatisfiedDeletions
        \/ UNCHANGED deletions
    BY <1>6 DEF AwaitExpectations, HandleRollingUpgrades, MaybeEnableShardsAllocation
  <2>3. \A p \in Pods : deletions'[p] \subseteq deletions[p]
    BY <2>2, CheckExpectationsDrops
  <2> QED
    BY <2>1, <2>3, StatefulSetsUntouched, PodsUntouched
<1>7. CASE \/ StartReconcile \/ ReconcileClusterUUID \/ RetrieveActualStatefulSets
           \/ AdjustResources \/ UpdateMinimumMasterNodes
           \/ ClearVotingConfigExclusions \/ StartDownscale
           \/ (\E s \in NodeSets : CalculateDownscale(s)) \/ MigrateData
           \/ (\E target \in 0 .. MaxReplicas : AttemptDownscale(target))
           \/ DownscaleZen1 \/ DownscaleZen2 \/ FinishDownscale
           \/ (\E p \in Pods : ApplyPredicates(p)) \/ NoPodSelected
           \/ PrepareClusterForNodeRestart \/ (\E p \in Pods : RollZen1(p))
           \/ (\E p \in Pods : RollZen2(p)) \/ FinishNodeSpecs \/ UpdateStatus
  <2>1. UNCHANGED <<kubernetesVars, expectationsVars>>
    BY <1>7
    DEF StartReconcile, ReconcileClusterUUID, RetrieveActualStatefulSets, AdjustResources,
        UpdateMinimumMasterNodes, ClearVotingConfigExclusions, StartDownscale,
        CalculateDownscale, MigrateData, AttemptDownscale, DownscaleZen1, DownscaleZen2,
        MaybeUpdateZen1, AddToVotingConfigExclusions, FinishDownscale, ApplyPredicates,
        NoPodSelected, PrepareClusterForNodeRestart, RollZen1, RollZen2, FinishNodeSpecs,
        UpdateStatus
  <2> QED
    BY <2>1, StatefulSetsUntouched, PodsUntouched DEF kubernetesVars, expectationsVars
<1> QED
  BY <1>1, <1>2, <1>3, <1>4, <1>5, <1>6, <1>7 DEF Worker

\* The invariant of the theorem below.
ExpectationsInv == TypeInv /\ GenerationsSatisfiable /\ DeletionsSatisfiable

\* Every step keeps expectations satisfiable.
LEMMA ExpectationsStep == ExpectationsInv /\ [Next]_vars => ExpectationsInv'
<1> SUFFICES ASSUME TypeInv, GenerationsSatisfiable, DeletionsSatisfiable, [Next]_vars
             PROVE  TypeInv' /\ GenerationsSatisfiable' /\ DeletionsSatisfiable'
  BY DEF ExpectationsInv
<1>1. TypeInv' /\ TypeOK /\ TypeOK' /\ DownscaleInProgress
  BY TypeStep DEF TypeInv
<1>2. CASE Worker
  BY <1>1, <1>2, WorkerExpectations
<1>3. CASE Surroundings
  <2>1. UNCHANGED <<generations, deletions>>
    BY <1>3 DEF Surroundings, expectationsVars
  <2> QED
    BY <1>1, <1>3, <2>1, SurroundingsAdvance, GenerationsKept, DeletionsKept
<1>4. CASE OperatorRestarts
  BY <1>1, <1>4, RestartExpectations DEF OperatorRestarts
<1>5. CASE Watches \/ Observer \/ (\E spec \in Specs : ChangeSpec(spec)) \/ UNCHANGED vars
  <2>1. UNCHANGED <<sset, pod, generations, deletions>>
    BY <1>5 DEF Watches, SyncEs, SyncStatefulSetCache, SyncPodCache, SyncStatefulSets,
                SyncPods, Observer, Observe, StoreObservation, ChangeSpec, vars,
                kubernetesVars, expectationsVars
  <2> QED
    BY <1>1, <2>1, StatefulSetsUntouched, PodsUntouched
<1> QED
  BY <1>1, <1>2, <1>3, <1>4, <1>5 DEF Next

\* The operator never waits for what cannot come: every generation it expects
\* was written, every Pod it expects to go was deleted, whatever calls fail,
\* replies are lost and operators restart (common/expectations, its use in
\* upscale.go, downscale.go and upgrade_pods_deletion.go).
THEOREM ExpectationsAreSatisfiable == Spec => []ExpectationsSatisfiable
<1>1. Init => ExpectationsInv
  <2> SUFFICES ASSUME Init PROVE ExpectationsInv
    OBVIOUS
  <2>1. TypeInv /\ TypeOK
    BY InitType DEF TypeInv
  <2>2. GenerationsSatisfiable /\ DeletionsSatisfiable
    BY <2>1 DEF Init, NoExpectations, GenerationsSatisfiable, DeletionsSatisfiable,
                TypeOK, KubernetesTypeOK, StatefulSets, Uids
  <2> QED
    BY <2>1, <2>2 DEF ExpectationsInv
<1>2. ExpectationsInv /\ [Next]_vars => ExpectationsInv'
  BY ExpectationsStep
<1>3. ExpectationsInv => ExpectationsSatisfiable
  BY DEF ExpectationsInv, GenerationsSatisfiable, DeletionsSatisfiable,
         ExpectationsSatisfiable
<1> QED
  BY <1>1, <1>2, <1>3, PTL DEF Spec

-----------------------------------------------------------------------------
(***************************************************************************)
(* A pass that reports its cluster Ready.                                  *)
(***************************************************************************)
(***************************************************************************)
(* What a copy c of a StatefulSet shows of s, the one Kubernetes has, when *)
(* g is the generation expected of it.                                     *)
(***************************************************************************)
Current(c, s) ==
  c.exists => \/ ~s.exists /\ c.replicas = 0
              \/ s.exists /\ c.gen = s.gen /\ c.replicas = s.replicas /\ c.tmpl = s.tmpl
Behind(c, s, g) ==
  s.exists /\ c.gen < s.gen /\ g.uid = s.uid /\ g.gen = s.gen
Known(c, s, g) ==
  c.exists => c.uid = s.uid /\ (Current(c, s) \/ Behind(c, s, g))

\* The cache is behind the operator's own updates only, and it expects those.
CacheKnown == \A s \in NodeSets : Known(cSset[s], sset[s], generations[s])

\* The StatefulSets a pass starts from are those of the cache, which may have
\* been brought up to date since.
ActualKnown ==
  pc = "expect" => \A s \in NodeSets :
    /\ Known(pass.actual[s], sset[s], generations[s])
    /\ cSset[s] = pass.actual[s] \/ Current(cSset[s], sset[s])

\* Past that point the StatefulSets of the pass are as Kubernetes has them, but
\* for one the downscale made smaller, which still has too many nodes here.
PhaseLocations ==
  Locations \ {"idle", "uuid", "retrieve", "expect", "status", "panic"}
ActualCurrent ==
  pc \in PhaseLocations => \A s \in NodeSets :
    Current(pass.actual[s], sset[s]) \/ pass.actual[s].replicas > FinalReplicas(s)

\* So is the cache, of the StatefulSets the pass has not written yet and of the
\* empty ones it has to remove.
Untouched(s) ==
  \/ pc = "adjust"
  \/ pc = "apply" /\ s \in up.todo
  \/ s \notin Desired.sets /\ pass.actual[s].replicas = 0
CacheCurrent ==
  /\ pc \in PhaseLocations => \A s \in NodeSets :
       Untouched(s) => Current(cSset[s], sset[s])
  /\ pc = "apply" => up.todo # {} /\ up.todo \subseteq Desired.sets

\* Downscales are planned for StatefulSets that have to shrink, and those whose
\* replicas are about to be updated have some to lose.
PlanSound ==
  /\ pc \in {"calculate", "attempt", "dsZen1", "dsZen2", "dsUpdate"}
       => \A i \in DOMAIN down.plan : down.plan[i].set \in Downscales
  /\ pc \in {"dsZen1", "dsZen2", "dsUpdate"}
       => down.plan # <<>> /\ pass.actual[Head(down.plan).set].replicas > 0

ReadyInv ==
  /\ TypeInv
  /\ CacheKnown /\ ActualKnown
  /\ ActualCurrent /\ CacheCurrent
  /\ PlanSound

-----------------------------------------------------------------------------
(***************************************************************************)
(* Least elements, records and sequences.                                  *)
(***************************************************************************)
\* A set of natural numbers has a least element.
LEMMA LeastExists ==
  ASSUME NEW S, S \subseteq Nat, S # {}
  PROVE  \E m \in S : \A n \in S : m <= n
<1> DEFINE R == OpToRel(<, Nat)
<1>1. R = {ss \in Nat \X Nat : ss[1] < ss[2]}
  BY DEF OpToRel
<1>2. IsWellFoundedOn(R, Nat)
  BY NatLessThanWellFounded
<1> HIDE DEF R
<1>3. \E m \in S : \A n \in S : ~ (<<n, m>> \in R)
  BY <1>2, WFMin
<1>4. PICK m \in S : \A n \in S : ~ (<<n, m>> \in R)
  BY <1>3
<1>5. ASSUME NEW n \in S PROVE m <= n
  <2>1. n \in Nat /\ m \in Nat
    OBVIOUS
  <2>2. <<n, m>> \in R <=> n < m
    BY <1>1, <2>1
  <2> QED
    BY <1>4, <2>1, <2>2
<1> QED
  BY <1>5

\* The first nodeSet left to apply is one of those left.
LEMMA LeastOfBelongs ==
  ASSUME NEW S, S \subseteq Nat, S # {}
  PROVE  LeastOf(S) \in S
<1>1. \E m \in S : \A n \in S : m <= n
  BY LeastExists
<1> QED
  BY <1>1, Zenon DEF LeastOf

\* Asking for another reconciliation, or for the nodes, leaves what the pass
\* knows of the StatefulSets and of the resource.
SamePass(old, new) == new.actual = old.actual /\ new.mine.spec = old.mine.spec
LEMMA PassKept ==
  ASSUME NEW c \in Passes
  PROVE  /\ SamePass(c, c)
         /\ SamePass(c, Requeue(c))
         /\ SamePass(c, WithNodes(c))
         /\ \A n : SamePass(c, [c EXCEPT !.mine.mmn = n])
         /\ \A n \in Nat : SamePass(c, Requeue([c EXCEPT !.mine.mmn = n]))
BY DEF Passes, Resources, SamePass, Requeue, WithNodes

\* What is left of a plan is part of it.
LEMMA RestOfPlan ==
  ASSUME NEW plan \in Seq(Plans), plan # <<>>, NEW D,
         \A i \in DOMAIN plan : plan[i].set \in D
  PROVE  /\ Head(plan).set \in D
         /\ \A i \in DOMAIN Tail(plan) : Tail(plan)[i].set \in D
OBVIOUS

\* So is a plan with one more downscale.
LEMMA LongerPlan ==
  ASSUME NEW plan \in Seq(Plans), NEW D, NEW d \in Plans, d.set \in D,
         \A i \in DOMAIN plan : plan[i].set \in D
  PROVE  \A i \in DOMAIN Append(plan, d) : Append(plan, d)[i].set \in D
OBVIOUS

\* A nodeSet of the specification has nodes, and only one that has to go is
\* left without.
LEMMA FinalReplicasType ==
  ASSUME TypeOK, NEW s \in NodeSets
  PROVE  /\ FinalReplicas(s) \in Nat
         /\ s \in Desired.sets => FinalReplicas(s) = Desired.count[s] /\ FinalReplicas(s) > 0
BY PassParts, SpecTypes, SpecsAssumption DEF FinalReplicas

-----------------------------------------------------------------------------
(***************************************************************************)
(* Frames: the steps that write no StatefulSet.                            *)
(***************************************************************************)
\* A step of a pass that keeps what the pass knows, once all is written.
LEMMA QuietKeeps ==
  ASSUME CacheKnown, ActualCurrent, CacheCurrent,
         UNCHANGED <<sset, cSset, generations>>,
         pc' \notin {"expect", "adjust", "apply"},
         pc' \notin PhaseLocations \/ (pc \in PhaseLocations /\ SamePass(pass, pass'))
  PROVE  CacheKnown' /\ ActualKnown' /\ ActualCurrent' /\ CacheCurrent'
<1>1. CacheKnown' /\ ActualKnown'
  BY DEF CacheKnown, ActualKnown
<1>2. CASE pc' \notin PhaseLocations
  BY <1>1, <1>2 DEF ActualCurrent, CacheCurrent
<1>3. CASE pc \in PhaseLocations /\ SamePass(pass, pass')
  <2>1. \A s : /\ FinalReplicas(s)' = FinalReplicas(s)
               /\ (s \notin Desired.sets)' = (s \notin Desired.sets)
               /\ pass'.actual[s] = pass.actual[s]
    BY <1>3 DEF FinalReplicas, Desired, SamePass
  <2>2. ActualCurrent'
    BY <1>3, <2>1 DEF ActualCurrent
  <2>3. \A s : Untouched(s)' => Untouched(s)
    BY <2>1 DEF Untouched
  <2>4. CacheCurrent'
    BY <1>3, <2>3 DEF CacheCurrent
  <2> QED
    BY <1>1, <2>2, <2>4
<1> QED
  BY <1>2, <1>3

\* What moves around the worker keeps the StatefulSets as they are specified,
\* and brings the cache up to date or leaves it alone.
SameSpec(old, new) ==
  /\ new.exists = old.exists /\ new.uid = old.uid /\ new.gen = old.gen
  /\ new.replicas = old.replicas /\ new.tmpl = old.tmpl
LEMMA AroundKeeps ==
  ASSUME CacheKnown, ActualKnown, ActualCurrent, CacheCurrent, PlanSound,
         UNCHANGED <<generations, pc, pass, up, down>>,
         \A s \in NodeSets : SameSpec(sset[s], sset'[s]),
         cSset' = cSset \/ (cSset' = sset /\ sset' = sset)
  PROVE  CacheKnown' /\ ActualKnown' /\ ActualCurrent' /\ CacheCurrent' /\ PlanSound'
<1>1. ASSUME NEW c, NEW s \in NodeSets
      PROVE  /\ Current(c, sset'[s]) <=> Current(c, sset[s])
             /\ \A g : Known(c, sset'[s], g) <=> Known(c, sset[s], g)
  BY DEF SameSpec, Current, Behind, Known
<1>2. \A s \in NodeSets : cSset'[s] = cSset[s] \/ Current(cSset'[s], sset'[s])
  BY DEF Current
<1>3. CacheKnown'
  <2>1. CASE cSset' = cSset
    BY <1>1, <2>1 DEF CacheKnown
  <2>2. CASE cSset' = sset /\ sset' = sset
    BY <2>2 DEF CacheKnown, Known, Current
  <2> QED
    BY <2>1, <2>2
<1>4. ActualKnown'
  BY <1>1, <1>2 DEF ActualKnown
<1>5. ActualCurrent'
  BY <1>1 DEF ActualCurrent, FinalReplicas, Desired
<1>6. CacheCurrent'
  BY <1>1, <1>2 DEF CacheCurrent, Untouched, Desired
<1>7. PlanSound'
  BY DEF PlanSound, Downscales, FinalReplicas, Desired
<1> QED
  BY <1>3, <1>4, <1>5, <1>6, <1>7

\* The StatefulSet controller only publishes revisions.
LEMMA SurroundingsKeepSpecs ==
  ASSUME TypeOK, Surroundings
  PROVE  /\ \A s \in NodeSets : SameSpec(sset[s], sset'[s])
         /\ UNCHANGED <<cSset, generations, pc, pass, up, down>>
<1>1. \/ \E s \in NodeSets : PublishRevision(s)
      \/ UNCHANGED sset
  BY DEF Surroundings, StatefulSetController, CreatePod, CondemnPod, Kubelet, StartPod,
         ReadyPod, NodeCrashes, CrashPod, NodeStops, RemovePod, Cluster, JoinCluster,
         StartFromDisk, RecoverStale, AllocateReplica, StartRelocation, FinishRecovery,
         FinishRelocation, kubernetesVars
<1>2. UNCHANGED cSset
  BY DEF Surroundings, StatefulSetController, PublishRevision, CreatePod, CondemnPod,
         Kubelet, StartPod, ReadyPod, NodeCrashes, CrashPod, NodeStops, RemovePod,
         Cluster, JoinCluster, StartFromDisk, RecoverStale, AllocateReplica,
         StartRelocation, FinishRecovery, FinishRelocation, kubernetesVars
<1>3. ASSUME NEW s \in NodeSets, PublishRevision(s)
      PROVE  \A t \in NodeSets : SameSpec(sset[t], sset'[t])
  BY <1>3 DEF PublishRevision, SameSpec, TypeOK, KubernetesTypeOK, StatefulSets
<1>4. UNCHANGED sset => \A t \in NodeSets : SameSpec(sset[t], sset'[t])
  BY DEF SameSpec
<1> QED
  BY <1>1, <1>2, <1>3, <1>4 DEF Surroundings, expectationsVars, driverVars, phaseVars

\* The watches, the observer, the user, and a step that changes nothing.
LEMMA OthersKeepSpecs ==
  ASSUME Watches \/ Observer \/ (\E spec \in Specs : ChangeSpec(spec)) \/ UNCHANGED vars
  PROVE  /\ UNCHANGED <<sset, generations, pc, pass, up, down>>
         /\ cSset' \in {cSset, sset}
BY DEF Watches, SyncEs, SyncStatefulSetCache, SyncPodCache, SyncStatefulSets, SyncPods,
       Observer, Observe, StoreObservation, ChangeSpec, vars, kubernetesVars,
       expectationsVars, driverVars, phaseVars

-----------------------------------------------------------------------------
(***************************************************************************)
(* The steps of a pass that write no StatefulSet.                          *)
(***************************************************************************)
Quiet ==
  /\ UNCHANGED <<sset, cSset, generations>>
  /\ pc \in PhaseLocations
  /\ pc' \notin {"expect", "adjust", "apply"}
  /\ SamePass(pass, pass')
PlanLocations == {"calculate", "attempt", "dsZen1", "dsZen2", "dsUpdate"}

\* A location that says nothing of the plan.
LEMMA NoPlan == ASSUME pc' \notin PlanLocations PROVE PlanSound'
BY DEF PlanSound, PlanLocations

\* Setting minimum_master_nodes only changes the annotations of the resource.
LEMMA UpdateMinimumMasterNodesToQuiet ==
  ASSUME TypeOK, NEW n \in Nat, NEW next \in Locations, NEW refused \in Locations,
         UpdateMinimumMasterNodesTo(n, next, refused)
  PROVE  SamePass(pass, pass') /\ pc' \in {next, refused, "status"}
<1> DEFINE mine == [pass EXCEPT !.mine.mmn = n]
<1>1. pc' \in {next, refused, "status"}
  BY UpdateMinimumMasterNodesToType
<1>2. pass' \in {pass, mine, Requeue(mine)}
  BY DEF UpdateMinimumMasterNodesTo
<1> HIDE DEF mine
<1>3. SamePass(pass, pass) /\ SamePass(pass, mine) /\ SamePass(pass, Requeue(mine))
  BY PassParts, PassKept DEF mine
<1> QED
  BY <1>1, <1>2, <1>3

\* The same, before masters leave.
LEMMA MaybeUpdateZen1Quiet ==
  ASSUME TypeOK, NEW next \in Locations, NEW refused \in Locations,
         MaybeUpdateZen1(next, refused)
  PROVE  /\ SamePass(pass, pass') /\ pc' \in {next, refused, "status"}
         /\ UNCHANGED <<sset, cSset, generations, down>>
<1>1. \/ pc' = next /\ UNCHANGED pass
      \/ UpdateMinimumMasterNodesTo(1, next, refused)
  BY DEF MaybeUpdateZen1
<1>2. UNCHANGED <<sset, cSset, generations, down>>
  BY DEF MaybeUpdateZen1, kubernetesVars, expectationsVars, phaseVars
<1> QED
  BY <1>1, <1>2, PassParts, PassKept, UpdateMinimumMasterNodesToQuiet

\* Excluding masters from the voting configuration.
LEMMA AddToVotingConfigExclusionsQuiet ==
  ASSUME TypeOK, NEW nodes, NEW next, AddToVotingConfigExclusions(nodes, next)
  PROVE  /\ SamePass(pass, pass') /\ pc' \in {next, "status"}
         /\ UNCHANGED <<sset, cSset, generations, down>>
BY PassParts, PassKept
DEF AddToVotingConfigExclusions, kubernetesVars, expectationsVars, phaseVars

\* Zen settings, between the upscale and the downscale.
LEMMA ZenQuiet ==
  ASSUME TypeOK, UpdateMinimumMasterNodes \/ ClearVotingConfigExclusions
  PROVE  Quiet /\ pc' \notin PlanLocations
<1> USE DEF Quiet, PhaseLocations, PlanLocations, Locations
<1>1. CASE UpdateMinimumMasterNodes
  <2> DEFINE quorum == Quorum(Cardinality(Masters))
  <2>1. quorum \in Nat /\ {"zen2", "status"} \subseteq Locations
    BY CountTypes, QuorumType
  <2>2. \/ pc' = "zen2" /\ pass' \in {pass, Requeue(pass)}
        \/ UpdateMinimumMasterNodesTo(quorum, "zen2", "status")
    BY <1>1 DEF UpdateMinimumMasterNodes
  <2> HIDE DEF quorum
  <2>3. SamePass(pass, pass') /\ pc' \in {"zen2", "status"}
    BY <2>1, <2>2, PassParts, PassKept, UpdateMinimumMasterNodesToQuiet
  <2> QED
    BY <1>1, <2>3 DEF UpdateMinimumMasterNodes, kubernetesVars, expectationsVars
<1>2. CASE ClearVotingConfigExclusions
  BY <1>2, PassParts, PassKept
  DEF ClearVotingConfigExclusions, kubernetesVars, expectationsVars
<1> QED
  BY <1>1, <1>2

\* The rolling upgrade, up to the deletions.
LEMMA SelectionQuiet ==
  ASSUME TypeOK,
         \/ HandleRollingUpgrades
         \/ \E p \in Pods : ApplyPredicates(p)
         \/ NoPodSelected
         \/ PrepareClusterForNodeRestart
  PROVE  (Quiet \/ pc' = "panic") /\ pc' \notin PlanLocations
         /\ UNCHANGED <<sset, cSset, generations>>
<1> USE PassParts, PassKept
    DEF Quiet, PhaseLocations, PlanLocations, Locations, kubernetesVars, expectationsVars
<1>1. CASE HandleRollingUpgrades
  BY <1>1 DEF HandleRollingUpgrades
<1>2. ASSUME NEW p \in Pods, ApplyPredicates(p)
      PROVE  (Quiet \/ pc' = "panic") /\ pc' \notin PlanLocations
             /\ UNCHANGED <<sset, cSset, generations>>
  BY <1>2 DEF ApplyPredicates
<1>3. CASE NoPodSelected
  BY <1>3 DEF NoPodSelected
<1>4. CASE PrepareClusterForNodeRestart
  <2> DEFINE known == [pass EXCEPT !.enabled = {allocation = "all"}]
  <2>1. known \in Passes /\ SamePass(pass, known)
    BY DEF Passes, SamePass
  <2>2. pass' \in {known, Requeue(known)} /\ pc' \in {"rollZen1", "status"} /\ pc = "select"
    BY <1>4 DEF PrepareClusterForNodeRestart
  <2> HIDE DEF known
  <2>3. SamePass(pass, pass')
    BY <2>1, <2>2 DEF SamePass
  <2> QED
    BY <1>4, <2>2, <2>3 DEF PrepareClusterForNodeRestart
<1> QED
  BY <1>1, <1>2, <1>3, <1>4

\* The deletions, and what follows them.
LEMMA DeletionQuiet ==
  ASSUME TypeOK,
         \/ \E p \in Pods : RollZen1(p) \/ RollZen2(p) \/ Delete(p) \/ ForceDelete(p)
         \/ MaybeEnableShardsAllocation
         \/ FinishNodeSpecs
  PROVE  Quiet /\ pc' \notin PlanLocations
<1> USE DEF Quiet, PhaseLocations, PlanLocations, Locations
<1>1. ASSUME NEW p \in Pods, RollZen1(p) \/ RollZen2(p)
      PROVE  Quiet /\ pc' \notin PlanLocations
  <2> DEFINE refused == IF roll.deleted THEN "ready" ELSE "enable"
  <2>1. CASE MaybeUpdateZen1("rollZen2", refused) /\ pc = "rollZen1"
    BY <2>1, MaybeUpdateZen1Quiet
  <2>2. CASE RollZen1(p) /\ ~MaybeUpdateZen1("rollZen2", refused)
    BY <2>2, PassParts, PassKept DEF RollZen1, kubernetesVars, expectationsVars
  <2>3. CASE RollZen2(p)
    BY <2>3, AddToVotingConfigExclusionsQuiet DEF RollZen2
  <2> QED
    BY <1>1, <2>1, <2>2, <2>3 DEF RollZen1
<1>2. ASSUME NEW p \in Pods, Delete(p) \/ ForceDelete(p)
      PROVE  Quiet /\ pc' \notin PlanLocations
  BY <1>2, PassParts, PassKept DEF Delete, ForceDelete
<1>3. CASE MaybeEnableShardsAllocation
  BY <1>3, PassParts, PassKept DEF MaybeEnableShardsAllocation, kubernetesVars
<1>4. CASE FinishNodeSpecs
  BY <1>4, PassParts DEF FinishNodeSpecs, Passes, SamePass, kubernetesVars, expectationsVars
<1> QED
  BY <1>1, <1>2, <1>3, <1>4

-----------------------------------------------------------------------------
(***************************************************************************)
(* The downscale phase: what is planned, and what is written.              *)
(***************************************************************************)
\* The steps that only decide.
LEMMA DownscaleQuiet ==
  ASSUME TypeOK, DownscaleInProgress, PlanSound,
         \/ StartDownscale
         \/ \E s \in NodeSets : CalculateDownscale(s)
         \/ MigrateData
         \/ \E target \in 0 .. MaxReplicas : AttemptDownscale(target)
         \/ DownscaleZen1
         \/ DownscaleZen2
         \/ FinishDownscale
  PROVE  Quiet /\ PlanSound'
<1> USE DEF Quiet, PhaseLocations, Locations, kubernetesVars, expectationsVars
<1>1. /\ pass \in Passes /\ pass.actual \in [NodeSets -> StatefulSets]
      /\ down \in Downscaling /\ down.plan \in Seq(Plans)
      /\ SamePass(pass, pass) /\ SamePass(pass, Requeue(pass))
  BY PassParts, PassKept DEF TypeOK, DriverTypeOK, Downscaling
<1>2. SamePass(pass, pass') => Downscales' = Downscales /\ pass'.actual = pass.actual
  BY DEF Downscales, FinalReplicas, Desired, SamePass
<1>3. CASE StartDownscale
  <2>1. Quiet
    BY <1>1, <1>3 DEF StartDownscale
  <2>2. down'.plan = <<>> /\ pc' = "calculate"
    BY <1>3 DEF StartDownscale, NoDown
  <2> QED
    BY <2>1, <2>2 DEF PlanSound
<1>4. ASSUME NEW s \in NodeSets, CalculateDownscale(s) PROVE Quiet /\ PlanSound'
  <2>1. Quiet /\ pc' = "calculate" /\ pc = "calculate"
    BY <1>1, <1>4 DEF CalculateDownscale
  <2>2. s \in Downscales
    BY <1>4 DEF CalculateDownscale, DownscaleInProgress
  <2>3. \/ down'.plan = down.plan
        \/ \E n : down'.plan = Append(down.plan, [set |-> s, target |-> n])
    BY <1>1, <1>4 DEF CalculateDownscale, RecordRemoval, Downscaling
  <2>4. \A i \in DOMAIN down.plan : down.plan[i].set \in Downscales
    BY <2>1 DEF PlanSound
  <2>5. \A n : LET longer == Append(down.plan, [set |-> s, target |-> n])
               IN  \A i \in DOMAIN longer : longer[i].set \in Downscales
    BY <1>1, <2>2, <2>4
  <2>6. \A i \in DOMAIN down'.plan : down'.plan[i].set \in Downscales
    BY <2>3, <2>4, <2>5
  <2> QED
    BY <1>2, <2>1, <2>6 DEF PlanSound
<1>5. CASE MigrateData
  <2>1. /\ Quiet /\ pc' \in {"attempt", "status"} /\ pc = "calculate"
        /\ down'.plan = down.plan /\ down'.todo = down.todo /\ down'.target = down.target
    BY <1>1, <1>5 DEF MigrateData, TypeOK, DriverTypeOK, Downscaling
  <2> QED
    BY <1>2, <2>1 DEF PlanSound
<1>6. ASSUME NEW target \in 0 .. MaxReplicas, AttemptDownscale(target)
      PROVE  Quiet /\ PlanSound'
  <2> DEFINE d == Head(down.plan)
             migrating == [pass EXCEPT !.requeue = TRUE, !.phase =
                             IF target # d.target THEN "MigratingData" ELSE @]
  <2>1. d \in Plans /\ down.plan # <<>> /\ pc = "attempt"
    BY <1>6, PlanTypes DEF AttemptDownscale
  <2>2. SamePass(pass, migrating)
    BY <1>1 DEF Passes, SamePass
  <2>3. pass' \in {pass, migrating, Requeue(pass)} /\ UNCHANGED <<sset, cSset, generations>>
    BY <1>6 DEF AttemptDownscale
  <2>4. \/ pc' = "status"
        \/ pc' = "attempt" /\ down' = Advance
        \/ /\ pc' \in {"dsZen1", "dsUpdate"}
           /\ down' = [down EXCEPT !.target = target]
           /\ IsReplicaDecrease(d)
    BY <1>6 DEF AttemptDownscale
  <2> HIDE DEF d, migrating
  <2>5. Quiet
    BY <1>1, <2>1, <2>2, <2>3, <2>4
  <2>6. \A i \in DOMAIN down.plan : down.plan[i].set \in Downscales
    BY <2>1 DEF PlanSound
  <2>7. CASE pc' = "status"
    BY <2>5, <2>7 DEF PlanSound
  <2>8. CASE pc' = "attempt" /\ down' = Advance
    <3>1. down'.plan = Tail(down.plan)
      BY <1>1, <2>8 DEF Advance, Downscaling
    <3>2. \A i \in DOMAIN Tail(down.plan) : Tail(down.plan)[i].set \in Downscales
      BY <1>1, <2>1, <2>6, RestOfPlan
    <3> QED
      BY <1>2, <2>5, <2>8, <3>1, <3>2 DEF PlanSound
  <2>9. CASE /\ pc' \in {"dsZen1", "dsUpdate"}
             /\ down' = [down EXCEPT !.target = target]
             /\ IsReplicaDecrease(d)
    <3>1. down'.plan = down.plan
      BY <1>1, <2>9 DEF Downscaling
    <3>2. pass.actual[d.set].replicas > 0
      BY <1>1, <2>1, <2>9 DEF IsReplicaDecrease, Plans, StatefulSets
    <3> QED
      BY <1>2, <2>1, <2>5, <2>6, <2>9, <3>1, <3>2 DEF PlanSound, d
  <2> QED
    BY <2>4, <2>7, <2>8, <2>9
<1>7. CASE DownscaleZen1 \/ DownscaleZen2
  <2>1. /\ SamePass(pass, pass') /\ UNCHANGED <<sset, cSset, generations, down>>
        /\ pc' \in {"dsZen2", "dsUpdate", "status"} /\ pc \in {"dsZen1", "dsZen2"}
    BY <1>7, MaybeUpdateZen1Quiet, AddToVotingConfigExclusionsQuiet
    DEF DownscaleZen1, DownscaleZen2
  <2> QED
    BY <1>2, <2>1 DEF PlanSound
<1>8. CASE FinishDownscale
  BY <1>1, <1>8 DEF FinishDownscale, PlanSound
<1> QED
  BY <1>3, <1>4, <1>5, <1>6, <1>7, <1>8

\* Without lost replies a call either fails or is known to have succeeded.
LEMMA NothingLost ==
  ASSUME "lost" \notin FaultKinds, NEW o \in Outcomes
  PROVE  o \in {"ok", "error"}
BY DEF Outcomes

\* An update of the replicas: the generation it returns is expected, and the
\* StatefulSet still has too many nodes for this pass.
LEMMA UpdateReplicasKeeps ==
  ASSUME "lost" \notin FaultKinds, TypeOK, CacheKnown, ActualCurrent, CacheCurrent,
         PlanSound, UpdateReplicas
  PROVE  CacheKnown' /\ ActualKnown' /\ ActualCurrent' /\ CacheCurrent' /\ PlanSound'
<1> DEFINE s == Head(down.plan).set
           written == WrittenStatefulSet(sset[s], down.target, pass.actual[s].tmpl, FALSE)
<1>1. /\ pc = "dsUpdate" /\ down.plan # <<>> /\ pass.actual[s].replicas > 0
      /\ \A i \in DOMAIN down.plan : down.plan[i].set \in Downscales
  BY DEF UpdateReplicas, PlanSound
<1>2. /\ s \in NodeSets /\ s \in Downscales
      /\ \A i \in DOMAIN Tail(down.plan) : Tail(down.plan)[i].set \in Downscales
      /\ down \in Downscaling /\ down.target \in 0 .. MaxReplicas
  BY <1>1, RestOfPlan DEF TypeOK, DriverTypeOK, Downscaling, Downscales
<1>3. /\ sset \in [NodeSets -> StatefulSets] /\ cSset \in [NodeSets -> StatefulSets]
      /\ generations \in [NodeSets -> [uid : Uids, gen : Nat]]
      /\ pass \in Passes /\ pass.actual \in [NodeSets -> StatefulSets]
      /\ SamePass(pass, pass) /\ SamePass(pass, Requeue(pass))
  BY PassParts, PassKept DEF TypeOK, KubernetesTypeOK, ExpectationsTypeOK
<1>4. PICK o \in Outcomes :
        LET conflict == sset[s] # pass.actual[s]
            failed == conflict \/ o # "ok"
        IN /\ sset' = IF conflict \/ o = "error" THEN sset
                      ELSE [sset EXCEPT ![s] = written]
           /\ IF failed
                THEN pc' = "status" /\ pass' = Requeue(pass) /\ UNCHANGED generations
                ELSE pc' = "attempt" /\ ExpectGeneration(s, written) /\ UNCHANGED pass
           /\ down' = Advance
  BY DEF UpdateReplicas
<1>5. UNCHANGED cSset
  BY DEF UpdateReplicas
<1>6. written \in StatefulSets /\ written.uid = sset[s].uid /\ written.exists = sset[s].exists
      /\ (sset[s].replicas # down.target => written.gen = sset[s].gen + 1)
      /\ (sset[s].replicas = down.target /\ sset[s].tmpl = pass.actual[s].tmpl
           => written.gen = sset[s].gen)
      /\ written.gen >= sset[s].gen
      /\ written.replicas = down.target /\ written.tmpl = pass.actual[s].tmpl
  <2> DEFINE gen == IF sset[s].replicas = down.target /\ sset[s].tmpl = pass.actual[s].tmpl
                      THEN sset[s].gen ELSE sset[s].gen + 1
  <2>1. written = [sset[s] EXCEPT !.replicas = down.target, !.tmpl = pass.actual[s].tmpl,
                                  !.rendered = FALSE, !.gen = gen]
    BY DEF WrittenStatefulSet
  <2>2. sset[s] \in StatefulSets /\ gen \in Nat /\ gen >= sset[s].gen
    <3>1. sset[s] \in StatefulSets /\ sset[s].gen \in Nat
      BY <1>2, <1>3 DEF StatefulSets
    <3>2. gen \in {sset[s].gen, sset[s].gen + 1}
      BY Zenon
    <3> HIDE DEF gen
    <3> QED
      BY <3>1, <3>2
  <2>3. pass.actual[s].tmpl \in Templates
    BY <1>2, <1>3 DEF StatefulSets
  <2>4. /\ sset[s].replicas # down.target => gen = sset[s].gen + 1
        /\ sset[s].replicas = down.target /\ sset[s].tmpl = pass.actual[s].tmpl
             => gen = sset[s].gen
    OBVIOUS
  <2> HIDE DEF gen, written
  <2> QED
    BY <1>2, <2>1, <2>2, <2>3, <2>4 DEF StatefulSets
<1>7. CASE sset[s] # pass.actual[s] \/ o # "ok"
  <2>1. UNCHANGED <<sset, cSset, generations>> /\ pc' = "status"
    BY <1>4, <1>5, <1>7, NothingLost
  <2>2. PlanSound'
    BY <2>1 DEF PlanSound
  <2> QED
    BY <2>1, <2>2, QuietKeeps DEF PhaseLocations
<1>8. CASE sset[s] = pass.actual[s] /\ o = "ok"
  <2>1. /\ sset' = [sset EXCEPT ![s] = written] /\ pc' = "attempt"
        /\ generations' = [generations EXCEPT ![s] = [uid |-> written.uid, gen |-> written.gen]]
        /\ UNCHANGED <<pass, cSset>> /\ down' = Advance
    BY <1>4, <1>5, <1>8 DEF ExpectGeneration
  <2> HIDE DEF s, written
  <2>2. \A t \in NodeSets \ {s} : sset'[t] = sset[t] /\ generations'[t] = generations[t]
    BY <1>2, <1>3, <2>1
  <2>3. sset'[s] = written /\ generations'[s] = [uid |-> written.uid, gen |-> written.gen]
    BY <1>2, <1>3, <2>1
  <2>4. sset[s].exists
    BY <1>2, <1>8 DEF Downscales
  <2>5. Known(cSset[s], written, [uid |-> written.uid, gen |-> written.gen])
    <3>1. Known(cSset[s], sset[s], generations[s])
      BY <1>2 DEF CacheKnown
    <3>2. /\ cSset[s].gen \in Nat /\ sset[s].gen \in Nat /\ written.gen \in Nat
          /\ cSset[s].replicas \in Nat
      BY <1>2, <1>3, <1>6 DEF StatefulSets
    <3>3. sset[s].tmpl = pass.actual[s].tmpl
      BY <1>8
    <3> QED
      BY <1>6, <2>4, <3>1, <3>2, <3>3 DEF Known, Current, Behind
  <2>6. CacheKnown'
    BY <2>1, <2>2, <2>3, <2>5 DEF CacheKnown
  <2>7. pass.actual[s].replicas > FinalReplicas(s)
    BY <1>1, <1>2 DEF Downscales, s
  <2>8. ActualCurrent'
    BY <1>1, <2>1, <2>2, <2>7
    DEF ActualCurrent, PhaseLocations, Locations, FinalReplicas, Desired
  <2>9. CacheCurrent'
    <3>1. \A t \in NodeSets : Untouched(t)' => t # s /\ Untouched(t)
      BY <1>1, <2>1 DEF Untouched, Desired, s
    <3>2. \A t \in NodeSets : Untouched(t)' => Current(cSset[t], sset'[t])
      BY <1>1, <2>2, <3>1 DEF CacheCurrent, PhaseLocations, Locations
    <3> QED
      BY <1>1, <2>1, <2>2, <3>1, <3>2 DEF CacheCurrent, PhaseLocations, Locations
  <2>10. PlanSound'
    <3>1. down'.plan = Tail(down.plan)
      BY <1>2, <2>1 DEF Advance, Downscaling
    <3> QED
      BY <1>2, <2>1, <3>1 DEF PlanSound, Downscales, FinalReplicas, Desired
  <2> QED
    BY <2>1, <2>6, <2>8, <2>9, <2>10 DEF ActualKnown
<1> QED
  BY <1>7, <1>8

\* A removal: the StatefulSet has no replicas, neither in Kubernetes nor in the
\* cache, which may show it for a while.
LEMMA RemoveStatefulSetKeeps ==
  ASSUME TypeOK, CacheKnown, ActualCurrent, CacheCurrent, PlanSound, RemoveStatefulSet
  PROVE  CacheKnown' /\ ActualKnown' /\ ActualCurrent' /\ CacheCurrent' /\ PlanSound'
<1> DEFINE s == Head(down.plan).set
<1>1. /\ pc = "attempt" /\ down.plan # <<>> /\ pass.actual[s].replicas = 0
      /\ \A i \in DOMAIN down.plan : down.plan[i].set \in Downscales
  BY DEF RemoveStatefulSet, PlanSound, IsRemoval
<1>2. /\ s \in NodeSets /\ s \in Downscales /\ down \in Downscaling
      /\ \A i \in DOMAIN Tail(down.plan) : Tail(down.plan)[i].set \in Downscales
  BY <1>1, RestOfPlan DEF TypeOK, DriverTypeOK, Downscaling, Downscales
<1>3. /\ sset \in [NodeSets -> StatefulSets] /\ pass \in Passes
      /\ SamePass(pass, pass) /\ SamePass(pass, Requeue(pass))
  BY PassParts, PassKept DEF TypeOK, KubernetesTypeOK
<1>4. /\ sset' \in {sset, [sset EXCEPT ![s] = NoStatefulSet(sset[s].uid)]}
      /\ UNCHANGED <<cSset, generations>>
      /\ pc' \in {"status", "attempt"} /\ pass' \in {pass, Requeue(pass)}
      /\ down' = Advance
  BY DEF RemoveStatefulSet, expectationsVars
<1>5. SamePass(pass, pass') /\ pc' \in {"status", "attempt"} /\ pc \in PhaseLocations
  BY <1>1, <1>3, <1>4 DEF PhaseLocations, Locations
<1>6. Downscales' = Downscales /\ pass'.actual = pass.actual
  BY <1>5 DEF Downscales, FinalReplicas, Desired, SamePass
<1>7. PlanSound'
  <2>1. down'.plan = Tail(down.plan)
    BY <1>2, <1>4 DEF Advance, Downscaling
  <2> QED
    BY <1>2, <1>5, <1>6, <2>1 DEF PlanSound
<1>8. CASE sset' = sset
  BY <1>4, <1>5, <1>7, <1>8, QuietKeeps
<1>9. CASE sset' = [sset EXCEPT ![s] = NoStatefulSet(sset[s].uid)]
  <2> HIDE DEF s
  <2>1. \A t \in NodeSets \ {s} : sset'[t] = sset[t]
    BY <1>2, <1>3, <1>9
  <2>2. ~sset'[s].exists /\ sset'[s].uid = sset[s].uid
    BY <1>2, <1>3, <1>9 DEF NoStatefulSet
  <2>3. s \notin Desired.sets /\ pass.actual[s].exists /\ pass.actual[s].replicas = 0
        /\ FinalReplicas(s) = 0
    BY <1>1, <1>2, FinalReplicasType DEF Downscales, FinalReplicas, s
  <2>4. Current(pass.actual[s], sset[s]) /\ Current(cSset[s], sset[s])
    BY <1>2, <1>5, <2>3 DEF ActualCurrent, CacheCurrent, Untouched
  <2>5. cSset[s].exists => cSset[s].replicas = 0 /\ cSset[s].uid = sset[s].uid
    BY <1>2, <2>3, <2>4 DEF Current, CacheKnown, Known
  <2>6. CacheKnown'
    BY <1>4, <2>1, <2>2, <2>5 DEF CacheKnown, Known, Current
  <2>7. ActualCurrent'
    <3>1. \A t : FinalReplicas(t)' = FinalReplicas(t)
      BY <1>5 DEF FinalReplicas, Desired, SamePass
    <3>2. Current(pass.actual[s], sset'[s])
      BY <2>2, <2>3 DEF Current
    <3> QED
      BY <1>5, <1>6, <2>1, <3>1, <3>2 DEF ActualCurrent
  <2>8. CacheCurrent'
    <3>1. \A t \in NodeSets : Untouched(t)' => Untouched(t)
      BY <1>5, <1>6 DEF Untouched, Desired, SamePass
    <3>2. Current(cSset[s], sset'[s])
      BY <2>2, <2>5 DEF Current
    <3> QED
      BY <1>4, <1>5, <2>1, <3>1, <3>2 DEF CacheCurrent
  <2> QED
    BY <1>5, <1>7, <2>6, <2>7, <2>8 DEF ActualKnown
<1> QED
  BY <1>4, <1>8, <1>9

-----------------------------------------------------------------------------
(***************************************************************************)
(* The upscale phase, and what leads to it.                                *)
(***************************************************************************)
\* A pass only begins, or ends: it carries nothing the invariant speaks of.
LEMMA OutsideKeeps ==
  ASSUME CacheKnown,
         UNCHANGED <<sset, cSset, generations>> \/ (UNCHANGED sset /\ cSset' = sset),
         pc' \notin PhaseLocations, pc' # "expect"
  PROVE  CacheKnown' /\ ActualKnown' /\ ActualCurrent' /\ CacheCurrent' /\ PlanSound'
<1>1. CacheKnown'
  BY DEF CacheKnown, Known, Current
<1>2. pc' \notin {"apply", "calculate", "attempt", "dsZen1", "dsZen2", "dsUpdate"}
  BY DEF PhaseLocations, Locations
<1> QED
  BY <1>1, <1>2 DEF ActualKnown, ActualCurrent, CacheCurrent, PlanSound

\* The pass takes the StatefulSets of the cache.
LEMMA RetrieveKeeps ==
  ASSUME TypeOK, CacheKnown, RetrieveActualStatefulSets
  PROVE  CacheKnown' /\ ActualKnown' /\ ActualCurrent' /\ CacheCurrent' /\ PlanSound'
<1>1. /\ pc' = "expect" /\ pass'.actual = cSset
      /\ UNCHANGED <<sset, cSset, generations>>
  BY PassParts DEF RetrieveActualStatefulSets, Passes, kubernetesVars, expectationsVars
<1>2. CacheKnown' /\ ActualKnown'
  BY <1>1 DEF CacheKnown, ActualKnown
<1> QED
  BY <1>1, <1>2 DEF ActualCurrent, CacheCurrent, PlanSound, PhaseLocations

\* Expectations that are met leave nothing behind of the operator's updates.
LEMMA AwaitExpectationsKeeps ==
  ASSUME TypeOK, CacheKnown, ActualKnown, AwaitExpectations
  PROVE  CacheKnown' /\ ActualKnown' /\ ActualCurrent' /\ CacheCurrent' /\ PlanSound'
<1>1. /\ UNCHANGED <<sset, cSset, generations>> /\ pc = "expect"
      /\ pc' \in {"adjust", "status"}
  BY DEF AwaitExpectations, kubernetesVars
<1>2. CASE pc' = "status"
  BY <1>1, <1>2, OutsideKeeps DEF PhaseLocations
<1>3. CASE pc' = "adjust"
  <2>1. SatisfiedGenerations(pass.actual) /\ UNCHANGED pass
    BY <1>3 DEF AwaitExpectations, ExpectationsMet
  <2>2. ASSUME NEW s \in NodeSets
        PROVE  Current(pass.actual[s], sset[s]) /\ Current(cSset[s], sset[s])
    <3>1. pass.actual[s].gen \in Nat /\ sset[s].gen \in Nat
      BY PassParts DEF TypeOK, KubernetesTypeOK, StatefulSets
    <3>2. ~Behind(pass.actual[s], sset[s], generations[s])
          \/ ~pass.actual[s].exists \/ pass.actual[s].uid # sset[s].uid
      BY <2>1, <3>1 DEF Behind, SatisfiedGenerations
    <3>3. Known(pass.actual[s], sset[s], generations[s])
      BY <1>1 DEF ActualKnown
    <3>4. Current(pass.actual[s], sset[s])
      BY <3>2, <3>3 DEF Known, Current
    <3> QED
      BY <1>1, <3>4 DEF ActualKnown
  <2>3. CacheKnown'
    BY <1>1 DEF CacheKnown
  <2>4. ActualCurrent'
    BY <1>1, <2>1, <2>2 DEF ActualCurrent
  <2>5. CacheCurrent'
    BY <1>1, <1>3, <2>2 DEF CacheCurrent
  <2> QED
    BY <1>3, <2>3, <2>4, <2>5 DEF ActualKnown, PlanSound
<1> QED
  BY <1>1, <1>2, <1>3

\* Every StatefulSet of the specification is left to apply.
LEMMA AdjustResourcesKeeps ==
  ASSUME TypeOK, CacheKnown, ActualCurrent, CacheCurrent, AdjustResources
  PROVE  CacheKnown' /\ ActualKnown' /\ ActualCurrent' /\ CacheCurrent' /\ PlanSound'
<1>1. /\ UNCHANGED <<sset, cSset, generations>> /\ pc = "adjust"
      /\ pc' \in {"apply", "status"}
  BY DEF AdjustResources, kubernetesVars, expectationsVars
<1>2. CASE pc' = "status"
  BY <1>1, <1>2, OutsideKeeps DEF PhaseLocations
<1>3. CASE pc' = "apply"
  <2>1. SamePass(pass, pass')
    BY <1>3, PassParts, PassKept DEF AdjustResources
  <2>2. up'.todo = Desired.sets
    BY <1>3 DEF AdjustResources
  <2>3. Desired.sets # {} /\ Desired' = Desired /\ pass'.actual = pass.actual
    BY <2>1, PassParts, SpecsAssumption DEF Desired, SamePass
  <2>4. \A s \in NodeSets :
          /\ Current(pass.actual[s], sset[s]) \/ pass.actual[s].replicas > FinalReplicas(s)
          /\ Current(cSset[s], sset[s])
    BY <1>1 DEF ActualCurrent, CacheCurrent, Untouched, PhaseLocations, Locations
  <2>5. CacheKnown'
    BY <1>1 DEF CacheKnown
  <2>6. ActualCurrent'
    BY <1>1, <2>3, <2>4 DEF ActualCurrent, FinalReplicas
  <2>7. CacheCurrent'
    BY <1>1, <2>2, <2>3, <2>4 DEF CacheCurrent
  <2> QED
    BY <1>3, <2>5, <2>6, <2>7 DEF ActualKnown, PlanSound
<1> QED
  BY <1>1, <1>2, <1>3

\* What the upscale writes: the StatefulSet it asks for, one generation further
\* unless that changes nothing.
LEMMA AppliedSpec ==
  ASSUME TypeOK, NEW s \in NodeSets
  PROVE  /\ Applied(s) \in StatefulSets /\ Applied(s).exists
         /\ sset[s].exists =>
              /\ Applied(s).uid = sset[s].uid
              /\ Applied(s).gen >= sset[s].gen
              /\ \/ Applied(s).gen > sset[s].gen
                 \/ /\ Applied(s).gen = sset[s].gen
                    /\ Applied(s).replicas = sset[s].replicas
                    /\ Applied(s).tmpl = sset[s].tmpl
<1>1. /\ sset[s] \in StatefulSets /\ up.replicas[s] \in 0 .. MaxReplicas
      /\ Desired.tmpl[s] \in Templates
  BY PassParts, SpecTypes DEF TypeOK, KubernetesTypeOK, DriverTypeOK, Upscaling
<1>2. CASE ~sset[s].exists
  BY <1>2, AppliedType DEF Applied, NewStatefulSet
<1>3. CASE sset[s].exists
  <2> DEFINE same == sset[s].replicas = up.replicas[s] /\ sset[s].tmpl = Desired.tmpl[s]
             gen == IF same THEN sset[s].gen ELSE sset[s].gen + 1
  <2>1. Applied(s) = [sset[s] EXCEPT !.replicas = up.replicas[s], !.tmpl = Desired.tmpl[s],
                                     !.rendered = TRUE, !.gen = gen]
    BY <1>3 DEF Applied, WrittenStatefulSet
  <2>2. sset[s].gen \in Nat /\ gen \in Nat
        /\ ((gen = sset[s].gen /\ same) \/ gen = sset[s].gen + 1)
    <3>1. sset[s].gen \in Nat
      BY <1>1 DEF StatefulSets
    <3>2. (gen = sset[s].gen /\ same) \/ gen = sset[s].gen + 1
      OBVIOUS
    <3> HIDE DEF gen
    <3> QED
      BY <3>1, <3>2
  <2> HIDE DEF gen
  <2>3. Applied(s) \in StatefulSets /\ Applied(s).exists /\ Applied(s).uid = sset[s].uid
        /\ Applied(s).gen = gen /\ Applied(s).replicas = up.replicas[s]
        /\ Applied(s).tmpl = Desired.tmpl[s]
    BY <1>1, <1>3, <2>1, <2>2 DEF StatefulSets
  <2> QED
    BY <2>2, <2>3
<1> QED
  BY <1>2, <1>3

\* A StatefulSet is created, updated with its generation expected, or left as it
\* is; the pass then knows what Kubernetes has.
LEMMA ApplyResourceKeeps ==
  ASSUME "lost" \notin FaultKinds, TypeOK, CacheKnown, ActualCurrent, CacheCurrent,
         NEW s \in NodeSets, ApplyResource(s)
  PROVE  CacheKnown' /\ ActualKnown' /\ ActualCurrent' /\ CacheCurrent' /\ PlanSound'
<1> DEFINE todo == up.todo \ {s}
           upToDate == cSset[s].exists
                       /\ EqualTemplateHash(cSset[s], up.replicas[s], Desired.tmpl[s])
           refused == ~upToDate /\ cSset[s].exists # sset[s].exists
           seen == IF upToDate THEN cSset[s] ELSE Applied(s)
           known == [pass EXCEPT !.actual[s] = seen]
<1>1. /\ pc = "apply" /\ s = LeastOf(up.todo) /\ up.todo # {} /\ up.todo \subseteq Desired.sets
      /\ UNCHANGED cSset
  BY DEF ApplyResource, CacheCurrent
<1>2. /\ sset \in [NodeSets -> StatefulSets] /\ cSset \in [NodeSets -> StatefulSets]
      /\ generations \in [NodeSets -> [uid : Uids, gen : Nat]]
      /\ pass \in Passes /\ pass.actual \in [NodeSets -> StatefulSets]
      /\ up \in Upscaling /\ Desired.sets \subseteq NodeSets /\ NodeSets \subseteq Nat
  BY PassParts, SpecTypes, NodeSetsAssumption
  DEF TypeOK, KubernetesTypeOK, ExpectationsTypeOK, DriverTypeOK
<1>3. s \in up.todo
  BY <1>1, <1>2, LeastOfBelongs
<1>4. /\ Current(cSset[s], sset[s]) /\ Known(cSset[s], sset[s], generations[s])
  BY <1>1, <1>3 DEF CacheCurrent, CacheKnown, Untouched, PhaseLocations, Locations
<1>5. PICK o \in Outcomes :
        LET failed == refused \/ o # "ok"
            written == ~upToDate /\ ~refused /\ o # "error"
        IN /\ sset' = IF written THEN [sset EXCEPT ![s] = Applied(s)] ELSE sset
           /\ IF written /\ o = "ok" /\ cSset[s].exists
                THEN ExpectGeneration(s, Applied(s))
                ELSE UNCHANGED generations
           /\ up' = IF todo = {} THEN NoUp ELSE [up EXCEPT !.todo = todo]
           /\ IF failed
                THEN pc' = "status"
                ELSE /\ pc' = NextAfterUpscale(todo)
                     /\ pass' = SkipUnlessReachable(known, todo)
  BY DEF ApplyResource
<1>6. upToDate \in BOOLEAN /\ refused \in BOOLEAN
  BY Zenon DEF EqualTemplateHash
<1>7. upToDate => cSset[s].exists
  OBVIOUS
<1>8. ~refused <=> upToDate \/ (cSset[s].exists <=> sset[s].exists)
  BY <1>2 DEF StatefulSets
<1>9. seen = (IF upToDate THEN cSset[s] ELSE Applied(s)) /\ seen \in StatefulSets
      /\ known = [pass EXCEPT !.actual[s] = seen]
  BY <1>2, AppliedSpec
<1> HIDE DEF upToDate, refused, seen, known
<1>10. o \in {"ok", "error"}
  BY NothingLost
<1>11. CASE refused \/ o # "ok"
  <2>1. UNCHANGED <<sset, cSset, generations>> /\ pc' = "status"
    BY <1>1, <1>5, <1>10, <1>11
  <2> QED
    BY <2>1, OutsideKeeps DEF PhaseLocations
<1>12. CASE ~refused /\ o = "ok"
  <2>1. /\ pass'.actual = [pass.actual EXCEPT ![s] = seen] /\ pass'.mine.spec = pass.mine.spec
    <3>1. pass' = SkipUnlessReachable(known, todo)
      BY <1>5, <1>12
    <3>2. known.actual = [pass.actual EXCEPT ![s] = seen] /\ known.mine = pass.mine
          /\ known \in Passes
      BY <1>2, <1>9 DEF Passes
    <3>3. SamePass(known, SkipUnlessReachable(known, todo))
      BY <3>2 DEF SkipUnlessReachable, SamePass, Passes
    <3> QED
      BY <3>1, <3>2, <3>3 DEF SamePass
  <2>2. pc' = NextAfterUpscale(todo) /\ up' = IF todo = {} THEN NoUp ELSE [up EXCEPT !.todo = todo]
    BY <1>5, <1>12
  <2>3. /\ sset' = IF upToDate THEN sset ELSE [sset EXCEPT ![s] = Applied(s)]
        /\ generations' = IF ~upToDate /\ cSset[s].exists
             THEN [generations EXCEPT ![s] = [uid |-> Applied(s).uid, gen |-> Applied(s).gen]]
             ELSE generations
    BY <1>5, <1>12 DEF ExpectGeneration
  <2>4. \A t \in NodeSets \ {s} :
          /\ sset'[t] = sset[t] /\ generations'[t] = generations[t]
          /\ pass'.actual[t] = pass.actual[t]
    BY <1>2, <2>1, <2>3
  <2>5. Known(cSset[s], sset'[s], generations'[s])
    <3>1. CASE upToDate
      BY <1>4, <2>3, <3>1
    <3>2. CASE ~upToDate /\ ~cSset[s].exists
      BY <3>2 DEF Known
    <3>3. CASE ~upToDate /\ cSset[s].exists
      <4>1. /\ sset'[s] = Applied(s) /\ sset[s].exists
            /\ generations'[s] = [uid |-> Applied(s).uid, gen |-> Applied(s).gen]
        BY <1>2, <1>8, <1>12, <2>3, <3>3
      <4>2. sset[s].gen \in Nat /\ cSset[s].gen \in Nat /\ Applied(s).gen \in Nat
        BY <1>2, AppliedSpec DEF StatefulSets
      <4> QED
        BY <1>4, <4>1, <4>2, AppliedSpec DEF Known, Current, Behind
    <3> QED
      BY <1>6, <3>1, <3>2, <3>3
  <2>6. Current(pass'.actual[s], sset'[s])
    <3>1. pass'.actual[s] = seen
      BY <1>2, <2>1
    <3>2. CASE upToDate
      BY <1>4, <1>9, <2>3, <3>1, <3>2
    <3>3. CASE ~upToDate
      BY <1>2, <1>9, <2>3, <3>1, <3>3, AppliedSpec DEF Current
    <3> QED
      BY <3>2, <3>3
  <2>7. CacheKnown'
    BY <1>1, <2>4, <2>5 DEF CacheKnown
  <2>8. \A t : FinalReplicas(t)' = FinalReplicas(t) /\ (Desired.sets)' = Desired.sets
    BY <2>1 DEF FinalReplicas, Desired
  <2>9. ActualCurrent'
    BY <1>1, <2>4, <2>6, <2>8 DEF ActualCurrent, PhaseLocations, Locations
  <2>10. pc' \in {"apply", "zen1", "rolling"} /\ (pc' = "apply" => todo # {})
    BY <2>2 DEF NextAfterUpscale
  <2>11. pc' = "apply" => up'.todo = todo
    BY <1>2, <2>2, <2>10 DEF Upscaling
  <2>12. \A t \in NodeSets : Untouched(t)' => Untouched(t) /\ t # s
    BY <1>1, <1>3, <2>4, <2>8, <2>10, <2>11 DEF Untouched
  <2>13. CacheCurrent'
    BY <1>1, <2>4, <2>8, <2>10, <2>11, <2>12 DEF CacheCurrent, PhaseLocations, Locations
  <2> QED
    BY <2>7, <2>9, <2>10, <2>13 DEF ActualKnown, PlanSound
<1> QED
  BY <1>11, <1>12

-----------------------------------------------------------------------------
(***************************************************************************)
(* The whole.                                                              *)
(***************************************************************************)
\* The steps of the worker.
LEMMA WorkerKeeps ==
  ASSUME "lost" \notin FaultKinds, TypeOK, DownscaleInProgress, CacheKnown, ActualKnown,
         ActualCurrent, CacheCurrent, PlanSound, Worker
  PROVE  CacheKnown' /\ ActualKnown' /\ ActualCurrent' /\ CacheCurrent' /\ PlanSound'
<1> DEFINE Goal ==
      CacheKnown' /\ ActualKnown' /\ ActualCurrent' /\ CacheCurrent' /\ PlanSound'
<1>1. ASSUME StartReconcile \/ ReconcileClusterUUID \/ UpdateStatus \/ RecoverFromPanic
      PROVE  Goal
  <2>1. /\ pc' \notin PhaseLocations /\ pc' # "expect"
        /\ UNCHANGED <<sset, cSset, generations>> \/ (UNCHANGED sset /\ cSset' = sset)
    BY <1>1
    DEF StartReconcile, ReconcileClusterUUID, UpdateStatus, RecoverFromPanic, Restart,
        PhaseLocations, kubernetesVars, expectationsVars
  <2> QED
    BY <2>1, OutsideKeeps
<1>2. ASSUME \/ RetrieveActualStatefulSets \/ AwaitExpectations \/ AdjustResources
             \/ \E s \in NodeSets : ApplyResource(s)
      PROVE  Goal
  BY <1>2, RetrieveKeeps, AwaitExpectationsKeeps, AdjustResourcesKeeps, ApplyResourceKeeps
<1>3. ASSUME \/ StartDownscale
             \/ \E s \in NodeSets : CalculateDownscale(s)
             \/ MigrateData
             \/ \E target \in 0 .. MaxReplicas : AttemptDownscale(target)
             \/ DownscaleZen1
             \/ DownscaleZen2
             \/ FinishDownscale
      PROVE  Goal
  <2>1. Quiet /\ PlanSound'
    BY <1>3, DownscaleQuiet
  <2> QED
    BY <2>1, QuietKeeps DEF Quiet
<1>4. ASSUME UpdateReplicas \/ RemoveStatefulSet PROVE Goal
  BY <1>4, UpdateReplicasKeeps, RemoveStatefulSetKeeps
<1>5. ASSUME UpdateMinimumMasterNodes \/ ClearVotingConfigExclusions PROVE Goal
  <2>1. Quiet /\ PlanSound'
    BY <1>5, ZenQuiet, NoPlan
  <2> QED
    BY <2>1, QuietKeeps DEF Quiet
<1>6. ASSUME \/ HandleRollingUpgrades
             \/ \E p \in Pods : ApplyPredicates(p)
             \/ NoPodSelected
             \/ PrepareClusterForNodeRestart
      PROVE  Goal
  <2>1. (Quiet \/ pc' = "panic") /\ PlanSound' /\ UNCHANGED <<sset, cSset, generations>>
    BY <1>6, SelectionQuiet, NoPlan
  <2> QED
    BY <2>1, QuietKeeps, OutsideKeeps DEF Quiet, PhaseLocations
<1>7. ASSUME \/ \E p \in Pods : RollZen1(p) \/ RollZen2(p) \/ Delete(p) \/ ForceDelete(p)
             \/ MaybeEnableShardsAllocation
             \/ FinishNodeSpecs
      PROVE  Goal
  <2>1. Quiet /\ PlanSound'
    BY <1>7, DeletionQuiet, NoPlan
  <2> QED
    BY <2>1, QuietKeeps DEF Quiet
<1> QED
  BY <1>1, <1>2, <1>3, <1>4, <1>5, <1>6, <1>7 DEF Worker

\* Every step keeps what the operator knows of the StatefulSets.
LEMMA ReadyStep == "lost" \notin FaultKinds /\ ReadyInv /\ [Next]_vars => ReadyInv'
<1> SUFFICES ASSUME "lost" \notin FaultKinds, TypeInv, CacheKnown, ActualKnown,
                    ActualCurrent, CacheCurrent, PlanSound, [Next]_vars
             PROVE  /\ TypeInv' /\ CacheKnown' /\ ActualKnown'
                    /\ ActualCurrent' /\ CacheCurrent' /\ PlanSound'
  BY DEF ReadyInv
<1>1. TypeInv' /\ TypeOK /\ DownscaleInProgress
  BY TypeStep DEF TypeInv
<1>2. CASE Worker
  BY <1>1, <1>2, WorkerKeeps
<1>3. CASE Surroundings
  BY <1>1, <1>3, SurroundingsKeepSpecs, AroundKeeps
<1>4. CASE OperatorRestarts
  <2>1. UNCHANGED sset /\ cSset' = sset /\ pc' = "idle"
    BY <1>4 DEF OperatorRestarts, Restart
  <2> QED
    BY <1>1, <2>1, OutsideKeeps DEF PhaseLocations
<1>5. CASE Watches \/ Observer \/ (\E spec \in Specs : ChangeSpec(spec)) \/ UNCHANGED vars
  <2>1. \A s \in NodeSets : SameSpec(sset[s], sset'[s])
    BY <1>5, OthersKeepSpecs DEF SameSpec
  <2> QED
    BY <1>1, <1>5, <2>1, OthersKeepSpecs, AroundKeeps
<1> QED
  BY <1>2, <1>3, <1>4, <1>5 DEF Next

\* Only the end of the phases leads from there to the status.
LEMMA OnlyFinishNodeSpecs ==
  ASSUME [Next]_vars, pc = "ready", pc' = "status"
  PROVE  FinishNodeSpecs
<1>1. ~Watches /\ ~Observer /\ ~Surroundings /\ ~UNCHANGED vars
      /\ ~(\E spec \in Specs : ChangeSpec(spec))
  BY DEF Watches, SyncEs, SyncStatefulSetCache, SyncPodCache, Observer, Observe,
         StoreObservation, Surroundings, ChangeSpec, vars, driverVars
<1>2. ~OperatorRestarts
  BY DEF OperatorRestarts, Restart
<1> QED
  BY <1>1, <1>2
  DEF Next, Worker, StartReconcile, ReconcileClusterUUID, RetrieveActualStatefulSets,
      AwaitExpectations, AdjustResources, ApplyResource, UpdateMinimumMasterNodes,
      ClearVotingConfigExclusions, StartDownscale, CalculateDownscale, MigrateData,
      AttemptDownscale, RemoveStatefulSet, DownscaleZen1, DownscaleZen2, UpdateReplicas,
      FinishDownscale, HandleRollingUpgrades, ApplyPredicates, NoPodSelected,
      PrepareClusterForNodeRestart, RollZen1, RollZen2, Delete, ForceDelete,
      MaybeEnableShardsAllocation, UpdateStatus, RecoverFromPanic

\* A pass that has reached its end, and finds the StatefulSets it knows to be the
\* ones it wants, has them in Kubernetes.
LEMMA ReadyApplied ==
  ASSUME TypeOK, ActualCurrent, FinishNodeSpecs, pass'.phase = "Ready",
         NEW s \in Desired.sets
  PROVE  /\ sset[s].exists
         /\ sset[s].replicas = Desired.count[s]
         /\ sset[s].tmpl = Desired.tmpl[s]
<1>1. pass \in Passes /\ s \in NodeSets /\ pc = "ready"
  BY PassParts, SpecTypes DEF FinishNodeSpecs
<1>2. Reconciled
  <2> SUFFICES ASSUME ~Reconciled PROVE pass'.phase # "Ready"
    OBVIOUS
  <2>1. pass'.phase = CASE Reconciled -> "Ready"
                        [] ~Reconciled /\ pass.phase = "Ready" -> "ApplyingChanges"
                        [] OTHER -> pass.phase
    BY <1>1 DEF FinishNodeSpecs, Passes
  <2> QED
    BY <2>1
<1>3. /\ pass.actual[s].exists /\ pass.actual[s].replicas = Desired.count[s]
      /\ pass.actual[s].tmpl = Desired.tmpl[s]
  BY <1>2 DEF Reconciled, EqualTemplateHash
<1>4. FinalReplicas(s) = Desired.count[s] /\ Desired.count[s] > 0 /\ Desired.count[s] \in Nat
  BY <1>1, FinalReplicasType
<1>5. Current(pass.actual[s], sset[s])
  BY <1>1, <1>3, <1>4 DEF ActualCurrent, PhaseLocations, Locations
<1> QED
  BY <1>3, <1>4, <1>5 DEF Current

\* The caches agree with Kubernetes at first.
LEMMA ReadyInit == Init => ReadyInv
<1> SUFFICES ASSUME Init PROVE ReadyInv
  OBVIOUS
<1>1. TypeInv /\ cSset = sset /\ pc = "idle"
  BY InitType DEF TypeInv, Init
<1> QED
  BY <1>1 DEF ReadyInv, CacheKnown, Known, Current, ActualKnown, ActualCurrent,
              CacheCurrent, PlanSound, PhaseLocations

\* Unless the reply of a write is lost, a pass only reports its cluster Ready when
\* Kubernetes has the StatefulSets of the specification it reconciled: failed
\* calls, restarts of the operator, stale caches and edits of the resource never
\* make it report what it only believes (driver/nodes.go, Reconciled, over the
\* StatefulSets that upscale.go returns).
THEOREM ReadyIsApplied == "lost" \notin FaultKinds => (Spec => ReadyMeansApplied)
<1> SUFFICES ASSUME "lost" \notin FaultKinds PROVE Spec => ReadyMeansApplied
  OBVIOUS
<1>1. Init => ReadyInv
  BY ReadyInit
<1>2. ReadyInv /\ [Next]_vars => ReadyInv'
  BY ReadyStep
<1>3. ReadyInv /\ [Next]_vars =>
        [pc = "ready" /\ pc' = "status" /\ pass'.phase = "Ready" => \A s \in Desired.sets :
           /\ sset[s].exists
           /\ sset[s].replicas = Desired.count[s]
           /\ sset[s].tmpl = Desired.tmpl[s]]_vars
  BY OnlyFinishNodeSpecs, ReadyApplied DEF ReadyInv, TypeInv
<1> QED
  BY <1>1, <1>2, <1>3, PTL DEF Spec, ReadyMeansApplied
=============================================================================
