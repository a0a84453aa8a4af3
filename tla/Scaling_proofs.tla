--------------------------- MODULE Scaling_proofs ---------------------------
(***************************************************************************)
(* What the upscale, the downscale and the rolling upgrade never do to the *)
(* Pods of a running cluster: the upscale removes none of them, masters    *)
(* leave one by one, the ones that leave are excluded from the voting      *)
(* configuration, masters join one by one, a downscale leaves the ready    *)
(* Pods that the budget of changes asks for, a rolling upgrade restarts no *)
(* more Pods than it allows and masters one by one, and shards are         *)
(* allocated again only when every Pod is back; and, while templates stay  *)
(* and no container crashes, a downscale loses no data.                    *)
(***************************************************************************)
EXTENDS Expectations_proofs

-----------------------------------------------------------------------------
\* The user only removes nodeSets.
OnlyGo == es'.spec.sets \subseteq es.spec.sets
NodeSetsOnlyGo == [][OnlyGo]_es

\* Every StatefulSet there is belongs to a nodeSet the user started with, is in
\* the cache, and in the pass; a nodeSet of the specification, of its cached copy
\* and of the copy the pass works with, has its StatefulSet.
Shrinking ==
  /\ es.spec.sets \subseteq cEs.spec.sets
  /\ \A s \in cEs.spec.sets : sset[s].exists
  /\ pc # "idle" => /\ cEs.spec.sets \subseteq Desired.sets
                    /\ \A s \in Desired.sets : sset[s].exists
  /\ \A s \in NodeSets : sset[s].exists => s \in InitialSpec.sets /\ cSset[s].exists
  /\ pc \in {"expect"} \cup PhaseLocations
       => \A s \in NodeSets : sset[s].exists => pass.actual[s].exists

\* Until the downscale writes, the StatefulSets of the pass are as Kubernetes has
\* them.
Early == {"adjust", "apply", "zen1", "zen2", "downscale", "calculate"}
EarlyCurrent == pc \in Early => \A s \in NodeSets : Current(pass.actual[s], sset[s])

\* The upscale asks for no fewer replicas than there are, and for no more than
\* the specification when it adds some.
ApplyGrows ==
  pc = "apply" => \A s \in up.todo :
    /\ pass.actual[s].replicas <= up.replicas[s]
    /\ up.replicas[s] <= pass.actual[s].replicas \/ up.replicas[s] <= Desired.count[s]

GoInv == Shrinking /\ EarlyCurrent /\ ApplyGrows

-----------------------------------------------------------------------------
(***************************************************************************)
(* The steps of a pass, by what they leave alone.                          *)
(***************************************************************************)
Still == UNCHANGED <<sset, cSset, pod, cPod, generations>>

\* A pass begins, up to the wait for the expectations; or it ends.
LEMMA OutsideSteps ==
  ASSUME TypeOK,
         \/ StartReconcile \/ ReconcileClusterUUID \/ RetrieveActualStatefulSets
         \/ UpdateStatus
  PROVE  /\ Still /\ UNCHANGED <<deletions, joined, crashes, voting, cEs>>
         /\ \/ pc = "idle" /\ pc' = "uuid" /\ pass' = NewPass(cEs)
            \/ /\ pc = "uuid" /\ pc' \in {"retrieve", "status"}
               /\ SamePass(pass, pass') /\ pass'.nodes = pass.nodes
            \/ /\ pc = "retrieve" /\ pc' = "expect"
               /\ pass' = [pass EXCEPT !.actual = cSset]
            \/ pc = "status" /\ pc' = "idle"
<1> USE DEF Still, kubernetesVars, elasticsearchVars, expectationsVars, resourceVars
<1>1. CASE StartReconcile
  BY <1>1 DEF StartReconcile
<1>2. CASE ReconcileClusterUUID
  <2>1. PICK pods \in {pod, cPod} :
          LET c == [pass EXCEPT !.reachable = Reachable(pods)]
              mine == [pass.mine EXCEPT !.uuid = ~@]
          IN \/ pass' = c /\ pc' = "retrieve"
             \/ pass' = Requeue(c) /\ pc' = "status"
             \/ pass' = [c EXCEPT !.snap = mine, !.mine = mine] /\ pc' = "retrieve"
    BY <1>2, Zenon DEF ReconcileClusterUUID
  <2> DEFINE c == [pass EXCEPT !.reachable = Reachable(pods)]
             mine == [pass.mine EXCEPT !.uuid = ~@]
             d == [c EXCEPT !.snap = mine, !.mine = mine]
             Same(new) == /\ new.actual = pass.actual /\ new.mine.spec = pass.mine.spec
                          /\ new.nodes = pass.nodes
  <2>2. mine.spec = pass.mine.spec
    BY PassParts DEF Resources
  <2>3. Same(c) /\ Same(Requeue(c))
    BY PassParts DEF Passes, Requeue
  <2>4. d.actual = pass.actual /\ d.mine = mine /\ d.nodes = pass.nodes
    <3> HIDE DEF mine
    <3> QED
      BY PassParts DEF Passes
  <2>5. pass' \in {c, Requeue(c), d}
    BY <2>1
  <2> HIDE DEF c, mine, d
  <2>6. Same(d)
    BY <2>2, <2>4
  <2>7. Same(pass')
    BY <2>3, <2>5, <2>6
  <2>8. SamePass(pass, pass') /\ pass'.nodes = pass.nodes
    BY <2>7 DEF SamePass
  <2> QED
    BY <1>2, <2>1, <2>8 DEF ReconcileClusterUUID
<1>3. CASE RetrieveActualStatefulSets
  BY <1>3 DEF RetrieveActualStatefulSets
<1>4. CASE UpdateStatus
  BY <1>4 DEF UpdateStatus
<1> QED
  BY <1>1, <1>2, <1>3, <1>4

\* The upscale and the downscale, but for what they write in Kubernetes.
Scaling == Early \cup {"attempt", "dsZen1", "dsZen2", "dsUpdate"}
Decision ==
  \/ AdjustResources
  \/ UpdateMinimumMasterNodes
  \/ ClearVotingConfigExclusions
  \/ StartDownscale
  \/ \E s \in NodeSets : CalculateDownscale(s)
  \/ MigrateData
  \/ \E target \in 0 .. MaxReplicas : AttemptDownscale(target)
  \/ DownscaleZen1
  \/ DownscaleZen2
  \/ FinishDownscale
LEMMA DecisionSteps ==
  ASSUME TypeOK, DownscaleInProgress, PlanSound, Decision
  PROVE  /\ Still /\ UNCHANGED <<deletions, joined, crashes, cEs>>
         /\ pc \in Scaling /\ pc' \in Scaling \cup {"rolling", "status"}
         /\ pc' \in Early => pc \in Early
         /\ pc' = "apply" => pc = "adjust"
         /\ pc' # "adjust"
         /\ SamePass(pass, pass')
<1> USE DEF Still, kubernetesVars, elasticsearchVars, expectationsVars, resourceVars,
            Scaling, Early
<1>1. CASE AdjustResources
  BY <1>1, PassParts, PassKept DEF AdjustResources
<1>2. CASE UpdateMinimumMasterNodes \/ ClearVotingConfigExclusions
  <2>1. Quiet
    BY <1>2, ZenQuiet
  <2>2. \/ pc = "zen1" /\ pc' \in {"zen2", "status"}
        \/ pc = "zen2" /\ pc' \in {"downscale", "status"}
    <3>1. CASE UpdateMinimumMasterNodes
      BY <3>1, CountTypes, QuorumType, UpdateMinimumMasterNodesToType
      DEF UpdateMinimumMasterNodes, Locations
    <3>2. CASE ClearVotingConfigExclusions
      BY <3>2 DEF ClearVotingConfigExclusions
    <3> QED
      BY <1>2, <3>1, <3>2
  <2> QED
    BY <1>2, <2>1, <2>2 DEF Quiet, UpdateMinimumMasterNodes, ClearVotingConfigExclusions
<1>3. CASE \/ StartDownscale
           \/ \E s \in NodeSets : CalculateDownscale(s)
           \/ MigrateData
           \/ \E target \in 0 .. MaxReplicas : AttemptDownscale(target)
           \/ DownscaleZen1
           \/ DownscaleZen2
           \/ FinishDownscale
  <2>1. Quiet
    BY <1>3, DownscaleQuiet
  <2>2. UNCHANGED <<pod, cPod, deletions, joined, crashes, cEs>>
    BY <1>3 DEF StartDownscale, CalculateDownscale, MigrateData, AttemptDownscale,
       DownscaleZen1, DownscaleZen2, FinishDownscale, MaybeUpdateZen1,
       AddToVotingConfigExclusions
  <2>3. \/ pc = "downscale" /\ pc' = "calculate"
        \/ pc = "calculate" /\ pc' \in {"calculate", "attempt", "status"}
        \/ pc \in Scaling \ Early /\ pc' \in (Scaling \ Early) \cup {"rolling", "status"}
    <3>1. CASE StartDownscale \/ \E s \in NodeSets : CalculateDownscale(s)
      BY <3>1 DEF StartDownscale, CalculateDownscale
    <3>2. CASE MigrateData \/ FinishDownscale
      BY <3>2 DEF MigrateData, FinishDownscale
    <3>3. ASSUME NEW target \in 0 .. MaxReplicas, AttemptDownscale(target)
          PROVE  pc = "attempt" /\ pc' \in {"status", "attempt", "dsZen1", "dsUpdate"}
      BY <3>3 DEF AttemptDownscale
    <3>4. CASE DownscaleZen1 \/ DownscaleZen2
      BY <3>4, MaybeUpdateZen1Quiet, AddToVotingConfigExclusionsQuiet
      DEF DownscaleZen1, DownscaleZen2, Locations
    <3> QED
      BY <1>3, <3>1, <3>2, <3>3, <3>4
  <2> QED
    BY <2>1, <2>2, <2>3 DEF Quiet
<1> QED
  BY <1>1, <1>2, <1>3 DEF Decision

\* The rolling upgrade and the end of the phases, but for the deletions.
Rollout ==
  \/ HandleRollingUpgrades
  \/ \E p \in Pods : ApplyPredicates(p)
  \/ NoPodSelected
  \/ PrepareClusterForNodeRestart
  \/ \E p \in Pods : RollZen1(p)
  \/ \E p \in Pods : RollZen2(p)
  \/ MaybeEnableShardsAllocation
  \/ FinishNodeSpecs
Removal == \E p \in Pods : Delete(p) \/ ForceDelete(p)
LEMMA RolloutSteps ==
  ASSUME TypeOK, Rollout \/ Removal
  PROVE  /\ UNCHANGED <<sset, cSset, cPod, generations, joined, crashes, cEs>>
         /\ Rollout => UNCHANGED pod
         /\ pc \in PhaseLocations \ Scaling
         /\ pc' \in (PhaseLocations \ Scaling) \cup {"status", "panic"}
         /\ pc' # "rolling"
         /\ SamePass(pass, pass')
<1> USE DEF kubernetesVars, elasticsearchVars, expectationsVars, resourceVars,
            Scaling, Early, PhaseLocations, Locations
<1>1. CASE HandleRollingUpgrades
  BY <1>1, PassParts, PassKept DEF HandleRollingUpgrades, Rollout, Removal
<1>2. ASSUME \/ \E p \in Pods : ApplyPredicates(p)
             \/ NoPodSelected \/ PrepareClusterForNodeRestart
      PROVE  /\ UNCHANGED <<sset, cSset, cPod, generations, joined, crashes, cEs, pod>>
             /\ pc = "select" /\ pc' \in {"select", "enable", "rollZen1", "status", "panic"}
  BY <1>2 DEF ApplyPredicates, NoPodSelected, PrepareClusterForNodeRestart
<1>3. ASSUME \/ \E p \in Pods : ApplyPredicates(p)
             \/ NoPodSelected \/ PrepareClusterForNodeRestart
      PROVE  SamePass(pass, pass')
  <2>1. Quiet \/ pc' = "panic"
    BY <1>3, SelectionQuiet
  <2>2. pc' = "panic" => UNCHANGED pass
    BY <1>3 DEF ApplyPredicates, NoPodSelected, PrepareClusterForNodeRestart
  <2> QED
    BY <2>1, <2>2 DEF Quiet, SamePass
<1>4. ASSUME NEW p \in Pods, RollZen1(p) \/ RollZen2(p) \/ Delete(p) \/ ForceDelete(p)
      PROVE  /\ UNCHANGED <<sset, cSset, cPod, generations, joined, crashes, cEs>>
             /\ RollZen1(p) \/ RollZen2(p) => UNCHANGED pod
             /\ pc \in {"rollZen1", "rollZen2", "delete", "force"}
             /\ SamePass(pass, pass')
             /\ pc' \in {"rollZen1", "rollZen2", "delete", "force", "enable", "ready", "status"}
  <2>1. SamePass(pass, pass')
    BY <1>4, DeletionQuiet DEF Quiet
  <2>2. /\ UNCHANGED <<sset, cSset, cPod, generations, joined, crashes, cEs>>
        /\ RollZen1(p) \/ RollZen2(p) => UNCHANGED pod
        /\ pc \in {"rollZen1", "rollZen2", "delete", "force"}
    BY <1>4 DEF RollZen1, RollZen2, Delete, ForceDelete, MaybeUpdateZen1,
                AddToVotingConfigExclusions
  <2>3. pc' \in {"rollZen1", "rollZen2", "delete", "force", "enable", "ready", "status"}
    <3>1. RollZen1(p) => pc' \in {"delete", "rollZen2", "enable", "ready", "status"}
      BY RollZen1Leads
    <3>2. RollZen2(p) => pc' \in {"delete", "status"}
      BY AddToVotingConfigExclusionsQuiet DEF RollZen2
    <3>3. Delete(p) => pc' \in {"rollZen1", "enable", "ready", "status"}
      BY DEF Delete
    <3>4. ForceDelete(p) => pc' \in {"force", "ready", "status"}
      BY DEF ForceDelete
    <3> QED
      BY <1>4, <3>1, <3>2, <3>3, <3>4
  <2> QED
    BY <2>1, <2>2, <2>3
<1>5. CASE MaybeEnableShardsAllocation \/ FinishNodeSpecs
  <2>1. SamePass(pass, pass')
    BY <1>5, DeletionQuiet DEF Quiet
  <2> QED
    BY <1>5, <2>1 DEF MaybeEnableShardsAllocation, FinishNodeSpecs
<1> QED
  BY <1>1, <1>2, <1>3, <1>4, <1>5 DEF Rollout, Removal

-----------------------------------------------------------------------------
(***************************************************************************)
(* The nodeSets only go.                                                   *)
(***************************************************************************)
LEMMA SpecSets ==
  ASSUME TypeOK
  PROVE  /\ es.spec.sets \subseteq NodeSets /\ cEs.spec.sets \subseteq NodeSets
         /\ Desired.sets \subseteq NodeSets
BY PassParts, SpecTypes DEF TypeOK, DriverTypeOK, Resources

\* A step that removes no StatefulSet of the specification.
LEMMA ShrinkingKept ==
  ASSUME Shrinking, OnlyGo, TypeOK, TypeOK',
         cEs' = cEs \/ (cEs' = es /\ es' = es),
         cSset' = cSset \/ cSset' = sset',
         \A s \in NodeSets : /\ sset'[s].exists => sset[s].exists
                             /\ sset[s].exists /\ ~sset'[s].exists
                                  => pc # "idle" /\ s \notin Desired.sets,
         pc' # "idle" => \/ pc # "idle" /\ (Desired.sets)' = Desired.sets
                         \/ cEs' = cEs /\ (Desired.sets)' = cEs.spec.sets,
         pc' \in {"expect"} \cup PhaseLocations
           => \A s \in NodeSets : sset'[s].exists => pass'.actual[s].exists
  PROVE  Shrinking'
<1>1. /\ es.spec.sets \subseteq NodeSets /\ cEs.spec.sets \subseteq NodeSets
      /\ Desired.sets \subseteq NodeSets
  BY SpecSets
<1>2. cEs'.spec.sets \subseteq cEs.spec.sets /\ es'.spec.sets \subseteq cEs'.spec.sets
  BY DEF Shrinking, OnlyGo
<1>3. \A s \in cEs'.spec.sets : sset'[s].exists
  BY <1>1, <1>2 DEF Shrinking
<1>4. pc' # "idle" => /\ cEs'.spec.sets \subseteq (Desired.sets)'
                      /\ \A s \in (Desired.sets)' : sset'[s].exists
  BY <1>1, <1>2, <1>3 DEF Shrinking
<1>5. \A s \in NodeSets : sset'[s].exists => s \in InitialSpec.sets /\ cSset'[s].exists
  BY DEF Shrinking
<1> QED
  BY <1>2, <1>3, <1>4, <1>5 DEF Shrinking

\* What the pass takes of the cached resource when it begins.
LEMMA NewPassParts ==
  ASSUME NEW r
  PROVE  NewPass(r).mine = r /\ NewPass(r).nodes = {}
BY DEF NewPass

\* The upscale is given replicas that only grow.
LEMMA AdjustedGrows ==
  ASSUME TypeOK, AdjustResources, pc' = "apply", NEW s \in Desired.sets
  PROVE  /\ pass.actual[s].replicas <= up'.replicas[s]
         /\ up'.replicas[s] <= pass.actual[s].replicas \/ up'.replicas[s] <= Desired.count[s]
<1>1. s \in NodeSets /\ up'.replicas[s] = AdjustedReplicas(s)
  BY SpecSets DEF AdjustResources
<1>2. pass.actual[s].replicas \in Nat /\ Desired.count[s] \in Nat
  BY <1>1, PassParts, SpecTypes DEF StatefulSets
<1>3. CASE s \in Upscales
  <2>1. /\ NodesToCreate(s) \in Nat
        /\ NodesToCreate(s) <= Desired.count[s] - pass.actual[s].replicas
    BY <1>3, NodesToCreateBound
  <2>2. AdjustedReplicas(s) = pass.actual[s].replicas + NodesToCreate(s)
    BY <1>3 DEF AdjustedReplicas
  <2> QED
    BY <1>1, <1>2, <2>1, <2>2
<1>4. CASE s \notin Upscales
  BY <1>1, <1>2, <1>4 DEF AdjustedReplicas
<1> QED
  BY <1>3, <1>4

\* What one nodeSet of the upscale writes, and what the pass then knows of it.
LEMMA ApplySteps ==
  ASSUME TypeOK, CacheCurrent, Shrinking, NEW s \in NodeSets, ApplyResource(s)
  PROVE  /\ pc = "apply" /\ s \in up.todo /\ s \in Desired.sets /\ sset[s].exists
         /\ UNCHANGED <<pod, cSset, cPod, deletions, joined, crashes, voting, cEs, down, roll>>
         /\ pc' \in {"apply", "zen1", "rolling", "status"}
         /\ pass'.mine.spec = pass.mine.spec
         /\ \/ sset' = sset
            \/ sset' = [sset EXCEPT ![s] = Applied(s)]
         /\ pc' # "status" =>
              /\ up' = NoUp \/ (up'.todo = up.todo \ {s} /\ up'.replicas = up.replicas)
              /\ pc' = "apply" => up'.todo = up.todo \ {s} /\ up'.replicas = up.replicas
              /\ \E c : /\ pass'.actual = [pass.actual EXCEPT ![s] = c]
                        /\ c.exists
                        /\ \/ sset' = [sset EXCEPT ![s] = Applied(s)] /\ c = Applied(s)
                           \/ /\ sset' = sset /\ c = cSset[s] /\ c.replicas = up.replicas[s]
                              /\ c.tmpl = Desired.tmpl[s]
         /\ pc' # "status" => pass'.mine = pass.mine
<1> DEFINE todo == up.todo \ {s}
           upToDate == cSset[s].exists
                       /\ EqualTemplateHash(cSset[s], up.replicas[s], Desired.tmpl[s])
           refused == ~upToDate /\ cSset[s].exists # sset[s].exists
           seen == IF upToDate THEN cSset[s] ELSE Applied(s)
           known == [pass EXCEPT !.actual[s] = seen]
<1>1. /\ pc = "apply" /\ s = LeastOf(up.todo) /\ up.todo # {} /\ up.todo \subseteq Desired.sets
      /\ UNCHANGED <<pod, cSset, cPod, deletions, joined, crashes, voting, cEs, down, roll>>
  BY DEF ApplyResource, CacheCurrent, elasticsearchVars, resourceVars
<1>2. /\ pass \in Passes /\ pass.actual \in [NodeSets -> StatefulSets]
      /\ up \in Upscaling /\ Desired.sets \subseteq NodeSets /\ NodeSets \subseteq Nat
  BY PassParts, SpecTypes, NodeSetsAssumption DEF TypeOK, DriverTypeOK
<1>3. s \in up.todo /\ s \in Desired.sets /\ sset[s].exists /\ cSset[s].exists
  BY <1>1, <1>2, LeastOfBelongs DEF Shrinking
<1>4. PICK o \in Outcomes :
        LET failed == refused \/ o # "ok"
            written == ~upToDate /\ ~refused /\ o # "error"
        IN /\ sset' = IF written THEN [sset EXCEPT ![s] = Applied(s)] ELSE sset
           /\ up' = IF todo = {} THEN NoUp ELSE [up EXCEPT !.todo = todo]
           /\ IF failed
                THEN pc' = "status" /\ pass' = Requeue(pass)
                ELSE /\ pc' = NextAfterUpscale(todo)
                     /\ pass' = SkipUnlessReachable(known, todo)
  BY DEF ApplyResource
<1>5. seen = (IF upToDate THEN cSset[s] ELSE Applied(s)) /\ seen \in StatefulSets
      /\ known = [pass EXCEPT !.actual[s] = seen] /\ seen.exists
  BY <1>2, <1>3, AppliedSpec DEF TypeOK, KubernetesTypeOK
<1>6. upToDate => cSset[s].replicas = up.replicas[s] /\ cSset[s].tmpl = Desired.tmpl[s]
  BY DEF EqualTemplateHash
<1>7. upToDate \in BOOLEAN /\ refused \in BOOLEAN
  BY Zenon DEF EqualTemplateHash
<1>8. sset' = sset \/ sset' = [sset EXCEPT ![s] = Applied(s)]
  BY <1>4
<1> HIDE DEF upToDate, refused, seen, known
<1>9. CASE refused \/ o # "ok"
  BY <1>1, <1>2, <1>3, <1>4, <1>8, <1>9, PassKept DEF SamePass
<1>10. CASE ~refused /\ o = "ok"
  <2>1. pc' = NextAfterUpscale(todo) /\ pass' = SkipUnlessReachable(known, todo)
    BY <1>4, <1>10
  <2>2. pc' \in {"apply", "zen1", "rolling"} /\ (pc' = "apply" => todo # {})
    BY <2>1 DEF NextAfterUpscale
  <2>3. /\ up' = NoUp \/ (up'.todo = todo /\ up'.replicas = up.replicas)
        /\ pc' = "apply" => up'.todo = todo /\ up'.replicas = up.replicas
    BY <1>2, <1>4, <2>2 DEF Upscaling
  <2>4. known.actual = [pass.actual EXCEPT ![s] = seen] /\ known.mine = pass.mine
        /\ known \in Passes
    BY <1>2, <1>5 DEF Passes
  <2>5. pass'.actual = known.actual /\ pass'.mine = known.mine
    BY <2>1, <2>4 DEF SkipUnlessReachable, Passes
  <2>6. sset' = IF upToDate THEN sset ELSE [sset EXCEPT ![s] = Applied(s)]
    BY <1>4, <1>7, <1>10
  <2>7. \/ sset' = [sset EXCEPT ![s] = Applied(s)] /\ seen = Applied(s)
        \/ /\ sset' = sset /\ seen = cSset[s] /\ seen.replicas = up.replicas[s]
           /\ seen.tmpl = Desired.tmpl[s]
    BY <1>5, <1>6, <1>7, <2>6
  <2>8. /\ pass'.actual = [pass.actual EXCEPT ![s] = seen] /\ seen.exists
        /\ pass'.mine = pass.mine
    BY <1>5, <2>4, <2>5
  <2> QED
    BY <1>1, <1>3, <1>8, <2>2, <2>3, <2>7, <2>8
<1> QED
  BY <1>9, <1>10

\* The steps that write no StatefulSet, of a pass in progress.
LEMMA GoQuiet ==
  ASSUME TypeOK, TypeOK', GoInv, OnlyGo,
         UNCHANGED <<sset, cSset, cEs>>, SamePass(pass, pass'),
         pc \in PhaseLocations, pc' \in PhaseLocations \cup {"status", "panic"},
         pc' \in Early => pc \in Early, pc' # "apply"
  PROVE  GoInv'
<1>1. (Desired.sets)' = Desired.sets /\ pass'.actual = pass.actual /\ pc # "idle"
  BY DEF SamePass, Desired, PhaseLocations
<1>2. Shrinking'
  BY <1>1, ShrinkingKept DEF GoInv, Shrinking, PhaseLocations
<1>3. EarlyCurrent' /\ ApplyGrows'
  BY <1>1 DEF GoInv, EarlyCurrent, ApplyGrows
<1> QED
  BY <1>2, <1>3 DEF GoInv

\* A pass begins or ends.
LEMMA GoOutside ==
  ASSUME TypeOK, TypeOK', GoInv, OnlyGo,
         \/ StartReconcile \/ ReconcileClusterUUID \/ RetrieveActualStatefulSets
         \/ UpdateStatus
  PROVE  GoInv'
<1>1. UNCHANGED <<sset, cSset, cEs>>
  BY OutsideSteps DEF Still
<1>2. /\ pc' \in {"uuid", "retrieve", "status", "expect", "idle"}
      /\ pc' # "idle" => \/ pc # "idle" /\ (Desired.sets)' = Desired.sets
                         \/ (Desired.sets)' = cEs.spec.sets
      /\ pc' = "expect" => pass'.actual = cSset
  <2>1. CASE pc = "retrieve" /\ pass' = [pass EXCEPT !.actual = cSset] /\ pc' = "expect"
    BY <2>1, PassParts DEF Passes, Desired
  <2>2. CASE pc = "idle" /\ pc' = "uuid" /\ pass' = NewPass(cEs)
    BY <2>2, NewPassParts DEF Desired
  <2> QED
    BY <2>1, <2>2, OutsideSteps DEF SamePass, Desired
<1>3. Shrinking'
  BY <1>1, <1>2, ShrinkingKept DEF GoInv, Shrinking, PhaseLocations
<1> QED
  BY <1>2, <1>3 DEF GoInv, EarlyCurrent, ApplyGrows, Early

\* Once the expectations are met the pass knows the StatefulSets.
LEMMA GoAwait ==
  ASSUME TypeOK, TypeOK', ActualKnown, GoInv, OnlyGo, AwaitExpectations
  PROVE  GoInv'
<1>1. /\ UNCHANGED <<sset, cSset, cEs>> /\ pc = "expect" /\ pc' \in {"adjust", "status"}
      /\ SamePass(pass, pass')
  BY PassParts, PassKept DEF AwaitExpectations, kubernetesVars, resourceVars
<1>2. (Desired.sets)' = Desired.sets /\ pass'.actual = pass.actual
  BY <1>1 DEF SamePass, Desired
<1>3. Shrinking'
  BY <1>1, <1>2, ShrinkingKept DEF GoInv, Shrinking, PhaseLocations
<1>4. EarlyCurrent'
  <2> SUFFICES ASSUME pc' = "adjust", NEW s \in NodeSets
               PROVE  Current(pass.actual[s], sset[s])
    BY <1>1, <1>2 DEF EarlyCurrent, Early
  <2>1. SatisfiedGenerations(pass.actual)
    BY DEF AwaitExpectations, ExpectationsMet
  <2>2. pass.actual[s].gen \in Nat /\ sset[s].gen \in Nat
    BY PassParts DEF TypeOK, KubernetesTypeOK, StatefulSets
  <2> QED
    BY <1>1, <2>1, <2>2 DEF ActualKnown, Known, Current, Behind, SatisfiedGenerations
<1> QED
  BY <1>1, <1>3, <1>4 DEF GoInv, ApplyGrows

\* The upscale is decided.
LEMMA GoAdjust ==
  ASSUME TypeOK, TypeOK', DownscaleInProgress, PlanSound, GoInv, OnlyGo, AdjustResources
  PROVE  GoInv'
<1>1. /\ UNCHANGED <<sset, cSset, cEs>> /\ SamePass(pass, pass')
  BY DecisionSteps DEF Decision, Still
<1>2. pc = "adjust" /\ pc' \in {"apply", "status"}
  BY DEF AdjustResources
<1>3. (Desired.sets)' = Desired.sets /\ pass'.actual = pass.actual /\ Desired' = Desired
  BY <1>1 DEF SamePass, Desired
<1>4. Shrinking'
  BY <1>1, <1>2, <1>3, ShrinkingKept DEF GoInv, Shrinking, PhaseLocations, Locations
<1>5. EarlyCurrent'
  BY <1>1, <1>2, <1>3 DEF GoInv, EarlyCurrent, Early
<1>6. ApplyGrows'
  <2> SUFFICES ASSUME pc' = "apply", NEW s \in up'.todo
               PROVE  /\ pass'.actual[s].replicas <= up'.replicas[s]
                      /\ \/ up'.replicas[s] <= pass'.actual[s].replicas
                         \/ up'.replicas[s] <= Desired'.count[s]
    BY DEF ApplyGrows
  <2>1. s \in Desired.sets
    BY DEF AdjustResources
  <2> QED
    BY <1>3, <2>1, AdjustedGrows
<1> QED
  BY <1>4, <1>5, <1>6 DEF GoInv

\* One nodeSet is applied.
LEMMA GoApply ==
  ASSUME TypeOK, TypeOK', CacheCurrent, GoInv, OnlyGo, NEW s \in NodeSets, ApplyResource(s)
  PROVE  GoInv'
<1>1. Shrinking
  BY DEF GoInv
<1>2. /\ sset \in [NodeSets -> StatefulSets] /\ pass.actual \in [NodeSets -> StatefulSets]
      /\ Applied(s).exists
  BY PassParts, AppliedSpec DEF TypeOK, KubernetesTypeOK
<1>3. /\ pc = "apply" /\ s \in up.todo /\ s \in Desired.sets /\ sset[s].exists
      /\ UNCHANGED <<cSset, cEs>> /\ pc' \in {"apply", "zen1", "rolling", "status"}
      /\ (Desired.sets)' = Desired.sets
      /\ sset' = sset \/ sset' = [sset EXCEPT ![s] = Applied(s)]
  BY <1>1, ApplySteps DEF Desired
<1>4. \A t \in NodeSets : /\ sset'[t].exists <=> sset[t].exists
                          /\ t # s => sset'[t] = sset[t]
  BY <1>2, <1>3
<1>5. pc' # "status" =>
        \E c : /\ pass'.actual = [pass.actual EXCEPT ![s] = c] /\ c.exists
               /\ \/ sset' = [sset EXCEPT ![s] = Applied(s)] /\ c = Applied(s)
                  \/ sset' = sset /\ c = cSset[s]
  BY <1>1, ApplySteps
<1>6. Current(cSset[s], sset[s])
  BY <1>3 DEF CacheCurrent, Untouched, PhaseLocations, Locations
<1>7. pc' # "status" => \A t \in NodeSets :
        /\ t # s => pass'.actual[t] = pass.actual[t]
        /\ t = s => pass'.actual[t].exists /\ Current(pass'.actual[t], sset'[t])
  <2> SUFFICES ASSUME pc' # "status"
               PROVE  \A t \in NodeSets :
                        /\ t # s => pass'.actual[t] = pass.actual[t]
                        /\ t = s => /\ pass'.actual[t].exists
                                    /\ Current(pass'.actual[t], sset'[t])
    OBVIOUS
  <2>1. PICK c : /\ pass'.actual = [pass.actual EXCEPT ![s] = c] /\ c.exists
                 /\ \/ sset' = [sset EXCEPT ![s] = Applied(s)] /\ c = Applied(s)
                    \/ sset' = sset /\ c = cSset[s]
    BY <1>5
  <2>2. /\ \A t \in NodeSets : t # s => pass'.actual[t] = pass.actual[t]
        /\ pass'.actual[s] = c
    BY <1>2, <2>1
  <2>3. CASE sset' = [sset EXCEPT ![s] = Applied(s)] /\ c = Applied(s)
    <3>1. sset'[s] = c
      BY <1>2, <2>3
    <3> QED
      BY <1>2, <2>1, <2>2, <3>1 DEF Current
  <2>4. CASE sset' = sset /\ c = cSset[s]
    BY <1>6, <2>1, <2>2, <2>4
  <2> QED
    BY <2>1, <2>2, <2>3, <2>4
<1>8. Shrinking'
  BY <1>1, <1>3, <1>4, <1>7, ShrinkingKept DEF Shrinking, PhaseLocations, Locations
<1>9. EarlyCurrent'
  BY <1>3, <1>4, <1>7 DEF GoInv, EarlyCurrent, Early
<1>10. ApplyGrows'
  <2> SUFFICES ASSUME pc' = "apply", NEW t \in up'.todo
               PROVE  /\ pass'.actual[t].replicas <= up'.replicas[t]
                      /\ \/ up'.replicas[t] <= pass'.actual[t].replicas
                         \/ up'.replicas[t] <= Desired'.count[t]
    BY DEF ApplyGrows
  <2>1. /\ up'.todo = up.todo \ {s} /\ up'.replicas = up.replicas
        /\ pass'.mine.spec = pass.mine.spec
    BY <1>1, ApplySteps
  <2>2. t \in NodeSets /\ t # s /\ t \in up.todo
    BY <1>3, <2>1, SpecSets DEF CacheCurrent
  <2> QED
    BY <1>3, <1>7, <2>1, <2>2 DEF GoInv, ApplyGrows, Desired
<1> QED
  BY <1>8, <1>9, <1>10 DEF GoInv

\* The downscale writes.
LEMMA WriteSteps ==
  ASSUME TypeOK, PlanSound, UpdateReplicas \/ RemoveStatefulSet
  PROVE  LET s == Head(down.plan).set
             written == WrittenStatefulSet(sset[s], down.target, pass.actual[s].tmpl, FALSE)
         IN /\ down.plan # <<>> /\ s \in NodeSets /\ s \in Downscales
            /\ UNCHANGED <<pod, cSset, cPod, deletions, joined, crashes, voting, cEs>>
            /\ pc' \in {"attempt", "status"} /\ SamePass(pass, pass')
            /\ down' = Advance /\ down'.plan = Tail(down.plan)
            /\ UpdateReplicas =>
                 /\ pc = "dsUpdate"
                 /\ \/ sset' = sset
                    \/ sset' = [sset EXCEPT ![s] = written] /\ sset[s] = pass.actual[s]
            /\ RemoveStatefulSet =>
                 /\ pc = "attempt" /\ s \notin Desired.sets /\ pass.actual[s].replicas = 0
                 /\ Head(down.plan).target = 0
                 /\ sset' \in {sset, [sset EXCEPT ![s] = NoStatefulSet(sset[s].uid)]}
<1> DEFINE s == Head(down.plan).set
<1>1. /\ down.plan # <<>> /\ \A i \in DOMAIN down.plan : down.plan[i].set \in Downscales
  BY DEF PlanSound, UpdateReplicas, RemoveStatefulSet
<1>2. s \in NodeSets /\ s \in Downscales /\ down \in Downscaling
  BY <1>1, RestOfPlan DEF TypeOK, DriverTypeOK, Downscaling, Downscales
<1>3. UNCHANGED <<pod, cSset, cPod, deletions, joined, crashes, voting, cEs>>
  BY DEF UpdateReplicas, RemoveStatefulSet, elasticsearchVars, expectationsVars, resourceVars
<1>4. pc' \in {"attempt", "status"} /\ SamePass(pass, pass') /\ down' = Advance
  BY PassParts, PassKept DEF UpdateReplicas, RemoveStatefulSet
<1>5. down'.plan = Tail(down.plan)
  BY <1>2, <1>4 DEF Advance, Downscaling
<1>6. UpdateReplicas =>
        /\ pc = "dsUpdate"
        /\ \/ sset' = sset
           \/ /\ sset' = [sset EXCEPT ![s] = WrittenStatefulSet(sset[s], down.target,
                                                pass.actual[s].tmpl, FALSE)]
              /\ sset[s] = pass.actual[s]
  BY DEF UpdateReplicas
<1>7. RemoveStatefulSet =>
        /\ pc = "attempt" /\ pass.actual[s].replicas = 0 /\ Head(down.plan).target = 0
        /\ sset' \in {sset, [sset EXCEPT ![s] = NoStatefulSet(sset[s].uid)]}
  BY DEF RemoveStatefulSet, IsRemoval
<1>8. RemoveStatefulSet => s \notin Desired.sets
  BY <1>2, <1>7, FinalReplicasType DEF Downscales
<1> QED
  BY <1>1, <1>2, <1>3, <1>4, <1>5, <1>6, <1>7, <1>8

\* A replica decrease keeps the StatefulSet, a removal is of a nodeSet that is gone.
LEMMA GoWrite ==
  ASSUME TypeOK, TypeOK', PlanSound, GoInv, OnlyGo, UpdateReplicas \/ RemoveStatefulSet
  PROVE  GoInv'
<1> DEFINE s == Head(down.plan).set
           written == WrittenStatefulSet(sset[s], down.target, pass.actual[s].tmpl, FALSE)
<1>1. /\ s \in NodeSets /\ UNCHANGED <<cSset, cEs>>
      /\ pc' \in {"attempt", "status"} /\ SamePass(pass, pass')
      /\ pc \in {"dsUpdate", "attempt"}
      /\ \/ sset' = sset
         \/ sset' = [sset EXCEPT ![s] = written]
         \/ sset' = [sset EXCEPT ![s] = NoStatefulSet(sset[s].uid)] /\ s \notin Desired.sets
  BY WriteSteps
<1>2. sset \in [NodeSets -> StatefulSets]
  BY DEF TypeOK, KubernetesTypeOK
<1>3. written.exists = sset[s].exists /\ ~NoStatefulSet(sset[s].uid).exists
  BY <1>1, <1>2 DEF WrittenStatefulSet, NoStatefulSet, StatefulSets
<1> HIDE DEF s, written
<1>4. \A t \in NodeSets : /\ sset'[t].exists => sset[t].exists
                          /\ sset[t].exists /\ ~sset'[t].exists => t \notin Desired.sets
  BY <1>1, <1>2, <1>3
<1>5. (Desired.sets)' = Desired.sets /\ pass'.actual = pass.actual
  BY <1>1 DEF SamePass, Desired
<1>6. Shrinking'
  BY <1>1, <1>4, <1>5, ShrinkingKept DEF GoInv, Shrinking, PhaseLocations, Locations
<1> QED
  BY <1>1, <1>6 DEF GoInv, EarlyCurrent, ApplyGrows, Early

\* What happens around the worker.
LEMMA GoAround ==
  ASSUME TypeOK, TypeOK', GoInv, OnlyGo,
         UNCHANGED <<pc, pass, up>>,
         cEs' = cEs \/ (cEs' = es /\ es' = es),
         \A s \in NodeSets : SameSpec(sset[s], sset'[s]),
         cSset' = cSset \/ (cSset' = sset /\ sset' = sset)
  PROVE  GoInv'
<1>1. Shrinking'
  BY ShrinkingKept DEF GoInv, Shrinking, SameSpec, Desired
<1>2. EarlyCurrent' /\ ApplyGrows'
  BY DEF GoInv, EarlyCurrent, ApplyGrows, Current, SameSpec, Desired
<1> QED
  BY <1>1, <1>2 DEF GoInv

\* The operator starts again.
LEMMA GoRestart ==
  ASSUME TypeOK, TypeOK', GoInv, OnlyGo, Restart
  PROVE  GoInv'
<1>1. cEs' = es /\ es' = es /\ cSset' = sset' /\ sset' = sset /\ pc' = "idle"
  BY DEF Restart
<1>2. Shrinking'
  BY <1>1, ShrinkingKept DEF GoInv, PhaseLocations
<1> QED
  BY <1>1, <1>2 DEF GoInv, EarlyCurrent, ApplyGrows, Early

\* The cached copy of the resource, and its surroundings.
LEMMA AroundSteps ==
  ASSUME TypeOK,
         \/ Surroundings \/ Watches \/ Observer
         \/ \E spec \in Specs : ChangeSpec(spec)
         \/ UNCHANGED vars
  PROVE  /\ UNCHANGED <<pc, pass, up, down, roll, generations, deletions>>
         /\ cEs' = cEs \/ (cEs' = es /\ es' = es)
         /\ \A s \in NodeSets : SameSpec(sset[s], sset'[s])
         /\ cSset' = cSset \/ (cSset' = sset /\ sset' = sset)
<1> USE DEF vars, kubernetesVars, elasticsearchVars, expectationsVars, driverVars,
            resourceVars, phaseVars
<1>1. CASE Surroundings
  BY <1>1, SurroundingsKeepSpecs DEF Surroundings
<1>2. CASE \/ Watches \/ Observer
           \/ \E spec \in Specs : ChangeSpec(spec)
           \/ UNCHANGED vars
  <2>1. \A s \in NodeSets : SameSpec(sset[s], sset'[s])
    BY <1>2, OthersKeepSpecs DEF SameSpec
  <2>2. UNCHANGED <<pc, pass, up, down, roll, generations, deletions>>
    BY <1>2 DEF Watches, SyncEs, SyncStatefulSetCache, SyncPodCache, Observer, Observe,
                StoreObservation, ChangeSpec
  <2>3. cEs' = cEs \/ (cEs' = es /\ es' = es)
    BY <1>2 DEF Watches, SyncEs, SyncStatefulSetCache, SyncPodCache, Observer, Observe,
                StoreObservation, ChangeSpec
  <2> QED
    BY <1>2, <2>1, <2>2, <2>3, OthersKeepSpecs
<1> QED
  BY <1>1, <1>2

\* Every step of the worker is of one of these kinds.
LEMMA WorkerSteps ==
  ASSUME Worker
  PROVE  \/ StartReconcile \/ ReconcileClusterUUID \/ RetrieveActualStatefulSets
         \/ UpdateStatus
         \/ AwaitExpectations
         \/ Decision
         \/ \E s \in NodeSets : ApplyResource(s)
         \/ UpdateReplicas \/ RemoveStatefulSet
         \/ Rollout \/ Removal
         \/ RecoverFromPanic
BY DEF Worker, Decision, Rollout, Removal

\* Every step keeps this.
LEMMA GoStep ==
  ASSUME ReadyInv, ReadyInv', GoInv, OnlyGo, [Next]_vars
  PROVE  GoInv'
<1>1. TypeOK /\ TypeOK' /\ DownscaleInProgress /\ PlanSound /\ CacheCurrent /\ ActualKnown
  BY DEF ReadyInv, TypeInv
<1>2. ASSUME Worker PROVE GoInv'
  <2>1. CASE \/ StartReconcile \/ ReconcileClusterUUID \/ RetrieveActualStatefulSets
             \/ UpdateStatus
    BY <1>1, <2>1, GoOutside
  <2>2. CASE AwaitExpectations
    BY <1>1, <2>2, GoAwait
  <2>3. CASE Decision
    <3>1. CASE AdjustResources
      BY <1>1, <3>1, GoAdjust
    <3>2. CASE ~AdjustResources
      <4>1. pc # "adjust"
        BY <2>3, <3>2, ZenQuiet, DownscaleQuiet, <1>1
        DEF Decision, UpdateMinimumMasterNodes, ClearVotingConfigExclusions, StartDownscale,
            CalculateDownscale, MigrateData, AttemptDownscale, DownscaleZen1, DownscaleZen2,
            FinishDownscale
      <4> QED
        BY <1>1, <2>3, <4>1, DecisionSteps, GoQuiet
        DEF Still, Scaling, Early, PhaseLocations, Locations
    <3> QED
      BY <3>1, <3>2
  <2>4. ASSUME NEW s \in NodeSets, ApplyResource(s) PROVE GoInv'
    BY <1>1, <2>4, GoApply
  <2>5. CASE UpdateReplicas \/ RemoveStatefulSet
    BY <1>1, <2>5, GoWrite
  <2>6. CASE Rollout \/ Removal
    BY <1>1, <2>6, RolloutSteps, GoQuiet DEF Scaling, Early
  <2>7. CASE RecoverFromPanic
    BY <1>1, <2>7, GoRestart DEF RecoverFromPanic
  <2> QED
    BY <1>2, <2>1, <2>2, <2>3, <2>4, <2>5, <2>6, <2>7, WorkerSteps
<1>3. CASE OperatorRestarts
  BY <1>1, <1>3, GoRestart DEF OperatorRestarts
<1>4. CASE \/ Surroundings \/ Watches \/ Observer
           \/ \E spec \in Specs : ChangeSpec(spec)
           \/ UNCHANGED vars
  BY <1>1, <1>4, AroundSteps, GoAround
<1> QED
  BY <1>2, <1>3, <1>4 DEF Next

\* A cluster that runs the specification it started with.
LEMMA GoInit ==
  ASSUME Bootstrapped, Init
  PROVE  GoInv
<1>1. /\ \A s \in NodeSets : sset[s].exists <=> s \in InitialSpec.sets
      /\ es.spec = InitialSpec /\ cEs = es /\ cSset = sset /\ pc = "idle"
  <2>1. /\ \A s \in NodeSets : sset[s] =
             IF s \in InitialSpec.sets
               THEN [NewStatefulSet(0, InitialSpec.count[s], InitialSpec.tmpl[s])
                       EXCEPT !.upd = InitialSpec.tmpl[s]]
               ELSE NoStatefulSet(0)
        /\ es.spec = InitialSpec /\ cEs = es /\ cSset = sset /\ pc = "idle"
    <3>1. InitRunning /\ cEs = es /\ cSset = sset /\ pc = "idle"
      BY Zenon DEF Init
    <3>2. es.spec = InitialSpec
      BY <3>1 DEF InitRunning
    <3> QED
      BY <3>1, <3>2, Zenon DEF InitRunning
  <2>2. \A n, u, v : [NewStatefulSet(0, n, u) EXCEPT !.upd = v].exists = TRUE
    BY DEF NewStatefulSet
  <2>3. NoStatefulSet(0).exists = FALSE
    BY DEF NoStatefulSet
  <2>4. ASSUME NEW s \in NodeSets, s \in InitialSpec.sets PROVE sset[s].exists
    <3>1. sset[s] = [NewStatefulSet(0, InitialSpec.count[s], InitialSpec.tmpl[s])
                       EXCEPT !.upd = InitialSpec.tmpl[s]]
      BY <2>1, <2>4
    <3> QED
      BY <2>2, <3>1
  <2>5. ASSUME NEW s \in NodeSets, s \notin InitialSpec.sets PROVE ~sset[s].exists
    BY <2>1, <2>3, <2>5, Zenon
  <2> QED
    BY <2>1, <2>4, <2>5
<1>2. InitialSpec.sets \subseteq NodeSets
  BY SpecTypes, SpecsAssumption
<1> QED
  BY <1>1, <1>2 DEF GoInv, Shrinking, EarlyCurrent, ApplyGrows, Early, PhaseLocations

\* Only the upscale writes a StatefulSet while it applies its nodeSets.
LEMMA OnlyApply ==
  ASSUME TypeInv, PlanSound, [Next]_vars, pc = "apply",
         ~ (\E s \in NodeSets : ApplyResource(s))
  PROVE  \A s \in NodeSets : SameSpec(sset[s], sset'[s])
<1>1. CASE Worker
  <2>1. ~ (StartReconcile \/ ReconcileClusterUUID \/ RetrieveActualStatefulSets
           \/ UpdateStatus \/ AwaitExpectations \/ UpdateReplicas \/ RemoveStatefulSet
           \/ RecoverFromPanic)
    BY DEF StartReconcile, ReconcileClusterUUID, RetrieveActualStatefulSets, UpdateStatus,
           AwaitExpectations, UpdateReplicas, RemoveStatefulSet, RecoverFromPanic
  <2>2. CASE Decision
    BY <2>2, DecisionSteps DEF TypeInv, Still, SameSpec
  <2>3. CASE Rollout \/ Removal
    BY <2>3, RolloutSteps DEF TypeInv, SameSpec
  <2> QED
    BY <1>1, <2>1, <2>2, <2>3, WorkerSteps
<1>2. CASE OperatorRestarts
  BY <1>2 DEF OperatorRestarts, Restart, SameSpec
<1>3. CASE \/ Surroundings \/ Watches \/ Observer
           \/ \E spec \in Specs : ChangeSpec(spec)
           \/ UNCHANGED vars
  BY <1>3, AroundSteps DEF TypeInv
<1> QED
  BY <1>1, <1>2, <1>3 DEF Next

\* What the upscale writes has no fewer replicas.
LEMMA UpscaleGrows ==
  ASSUME ReadyInv, GoInv, pc = "apply", [Next]_vars
  PROVE  WantedPods \subseteq WantedPods'
<1> SUFFICES ASSUME NEW p \in Pods, Wanted(p) PROVE Wanted(p)'
  BY DEF WantedPods
<1>1. TypeOK /\ p[1] \in NodeSets /\ p[2] \in Nat
  BY DEF ReadyInv, TypeInv, Pods, Ordinals
<1>2. ASSUME NEW s \in NodeSets, ApplyResource(s) PROVE Wanted(p)'
  <2>1. \/ sset' = sset
        \/ sset' = [sset EXCEPT ![s] = Applied(s)]
    BY <1>1, <1>2, ApplySteps DEF ReadyInv, GoInv
  <2>2. CASE sset' = sset \/ p[1] # s
    BY <1>1, <2>1, <2>2 DEF Wanted, TypeOK, KubernetesTypeOK
  <2>3. CASE sset' = [sset EXCEPT ![s] = Applied(s)] /\ p[1] = s
    <3>1. s \in up.todo /\ sset[s].exists /\ pass.actual[s].exists
      BY <1>1, <1>2, ApplySteps DEF ReadyInv, GoInv, Shrinking, PhaseLocations, Locations
    <3>2. sset[s].replicas <= up.replicas[s]
      BY <3>1 DEF GoInv, EarlyCurrent, Early, Current, ApplyGrows
    <3>3. sset'[s].exists /\ sset'[s].replicas = up.replicas[s]
      BY <1>1, <2>3, <3>1 DEF TypeOK, KubernetesTypeOK, Applied, WrittenStatefulSet, StatefulSets
    <3>4. sset[s].replicas \in Nat /\ up.replicas[s] \in Nat
      BY <1>1 DEF TypeOK, KubernetesTypeOK, DriverTypeOK, Upscaling, StatefulSets
    <3> QED
      BY <1>1, <2>3, <3>2, <3>3, <3>4 DEF Wanted
  <2> QED
    BY <2>1, <2>2, <2>3
<1>3. CASE ~ (\E s \in NodeSets : ApplyResource(s))
  <2>1. SameSpec(sset[p[1]], sset'[p[1]])
    BY <1>1, <1>3, OnlyApply DEF ReadyInv
  <2> QED
    BY <2>1 DEF Wanted, SameSpec
<1> QED
  BY <1>2, <1>3

\* From a running cluster, and while the user only takes nodeSets away, no upscale
\* removes a Pod: not after failed calls, restarts of the operator, edits of the
\* other fields of the specification or reads of a stale cache, as long as no reply
\* of a write is lost (driver/upscale.go, upscale_state.go).
THEOREM UpscaleKeepsPods ==
  Bootstrapped /\ "lost" \notin FaultKinds => (Spec /\ NodeSetsOnlyGo => UpscaleNeverRemoves)
<1> SUFFICES ASSUME Bootstrapped, "lost" \notin FaultKinds
             PROVE  Spec /\ NodeSetsOnlyGo => UpscaleNeverRemoves
  OBVIOUS
<1>1. Init => ReadyInv /\ GoInv
  BY GoInit, ReadyInit
<1>2. ReadyInv /\ GoInv /\ [Next]_vars /\ [OnlyGo]_es => ReadyInv' /\ GoInv'
  BY ReadyStep, GoStep DEF OnlyGo
<1>3. ReadyInv /\ GoInv /\ [Next]_vars =>
        [pc = "apply" => WantedPods \subseteq WantedPods']_vars
  BY UpscaleGrows
<1> QED
  BY <1>1, <1>2, <1>3, PTL DEF Spec, NodeSetsOnlyGo, UpscaleNeverRemoves

-----------------------------------------------------------------------------
(***************************************************************************)
(* What the operator's cache of Pods, and a pass, know of the Pods, when   *)
(* no reply is lost and the operator only restarts when it panics.         *)
(***************************************************************************)
\* The cache holds p as it is, and nobody deletes it.
Fresh(p) == pod[p].exists /\ pod[p].uid = cPod[p].uid /\ ~pod[p].terminating
Stable(p) == cPod[p].exists /\ Fresh(p) /\ deletions[p] = {}
Named(p) == p \in PodNames(pass.actual, p[1])

\* A Pod that is not wanted, or that a rolling upgrade deletes, is in the cache
\* until it is gone, and its deletion is expected; the cache misses nothing else.
PodKnown(p) ==
  /\ ~sset[p[1]].exists => ~pod[p].exists /\ ~cPod[p].exists
  /\ ~Wanted(p) /\ pod[p].exists => cPod[p].exists
  /\ Wanted(p) /\ pod[p].exists /\ pod[p].terminating =>
       cPod[p].exists /\ cPod[p].uid = pod[p].uid /\ deletions[p] = {pod[p].uid}
  /\ Wanted(p) /\ cPod[p].exists => Fresh(p) \/ deletions[p] = {cPod[p].uid}
PodsKnown == \A p \in Pods : PodKnown(p)

\* Past its expectations the pass knows the StatefulSets, or expects the
\* generations it does not know.
ActualTracked ==
  pc \in Scaling \cup {"rolling"} =>
    \A s \in NodeSets : Known(pass.actual[s], sset[s], generations[s])

\* Until the rolling upgrade, a Pod is one of those the pass counts, no deletion
\* is expected, and a node that may leave is in the cache.
PodNamed(p) ==
  /\ pod[p].exists \/ cPod[p].exists \/ Wanted(p) => Named(p)
  /\ deletions[p] = {}
  /\ Wanted(p) /\ p[2] >= FinalReplicas(p[1]) => cPod[p].exists
PodsNamed == pc \in Scaling => \A p \in Pods : PodNamed(p)

\* A rolling upgrade starts when all Pods are there, and the ones it deletes stay
\* as it has seen them.
Deleting == {"select", "rollZen1", "rollZen2", "delete", "force"}
Candidates == roll.selected \cup (IF pc = "select" THEN roll.todo ELSE {})
PodsSelected ==
  /\ pc \in {"select", "panic"} => \A p \in Pods : Wanted(p) => Stable(p)
  /\ pc \in Deleting => \A p \in Candidates :
       p \in Pods /\ Wanted(p) /\ Stable(p) /\ roll.seen[p].uid = pod[p].uid
  /\ pc \in {"rollZen1", "rollZen2", "delete"} => roll.selected # {}

\* A downscale never goes below the replicas of the specification.
PlanBounded ==
  pc \in PlanLocations =>
    /\ \A i \in DOMAIN down.plan : down.plan[i].target >= FinalReplicas(down.plan[i].set)
    /\ pc \in {"dsZen1", "dsZen2", "dsUpdate"} =>
         /\ down.target >= Head(down.plan).target
         /\ down.target < pass.actual[Head(down.plan).set].replicas

PodsInv == PodsKnown /\ ActualTracked /\ PodsNamed /\ PodsSelected /\ PlanBounded

-----------------------------------------------------------------------------
(***************************************************************************)
(* What happens to the Pods around the worker.                             *)
(***************************************************************************)
\* One Pod stays, or is created, condemned or gone.
PodMove(p) ==
  \/ /\ pod'[p].exists = pod[p].exists /\ pod'[p].uid = pod[p].uid
     /\ pod'[p].terminating = pod[p].terminating /\ pod'[p].tmpl = pod[p].tmpl
  \/ /\ Wanted(p) /\ ~pod[p].exists /\ pod'[p].exists /\ ~pod'[p].terminating
     /\ pod'[p].tmpl \in {sset[p[1]].tmpl, sset[p[1]].upd} \ {NoRevision}
  \/ /\ ~Wanted(p) /\ pod[p].exists /\ pod'[p].exists
     /\ pod'[p].tmpl = pod[p].tmpl
  \/ pod[p].exists /\ pod[p].terminating /\ ~pod'[p].exists

\* The controllers of Kubernetes move Pods one by one.
LEMMA SurroundingsMove ==
  ASSUME TypeOK, Surroundings, NEW p \in Pods
  PROVE  PodMove(p)
<1> USE DEF TypeOK, KubernetesTypeOK, PodRecords
<1>1. pod \in [Pods -> PodRecords]
  OBVIOUS
<1>2. CASE StatefulSetController
  <2>1. ASSUME NEW s \in NodeSets, PublishRevision(s) PROVE pod' = pod
    BY <2>1 DEF PublishRevision
  <2>2. ASSUME NEW q \in Pods, NEW t \in Templates, CreatePod(q, t)
        PROVE  PodMove(p)
    BY <1>1, <2>2 DEF CreatePod, PodMove, NewPod
  <2>3. ASSUME NEW q \in Pods, CondemnPod(q) PROVE PodMove(p)
    BY <1>1, <2>3 DEF CondemnPod, PodMove
  <2> QED
    BY <1>2, <2>1, <2>2, <2>3 DEF StatefulSetController, PodMove
<1>3. CASE Kubelet
  <2>1. ASSUME NEW q \in Pods, StartPod(q) \/ ReadyPod(q) \/ CrashPod(q)
        PROVE  PodMove(p)
    BY <1>1, <2>1 DEF StartPod, ReadyPod, CrashPod, PodMove
  <2>2. ASSUME NEW q \in Pods, RemovePod(q) PROVE PodMove(p)
    BY <1>1, <2>2 DEF RemovePod, PodMove, NoPod
  <2> QED
    BY <1>3, <2>1, <2>2 DEF Kubelet, NodeCrashes, NodeStops
<1>4. CASE Cluster
  BY <1>4 DEF Cluster, JoinCluster, StartFromDisk, RecoverStale, AllocateReplica,
     StartRelocation, FinishRecovery, FinishRelocation, kubernetesVars, PodMove
<1> QED
  BY <1>2, <1>3, <1>4 DEF Surroundings

\* Everything around the worker.
LEMMA AroundMoves ==
  ASSUME TypeOK,
         \/ Surroundings \/ Watches \/ Observer
         \/ \E spec \in Specs : ChangeSpec(spec)
         \/ UNCHANGED vars
  PROVE  /\ \A p \in Pods : PodMove(p)
         /\ cPod' = cPod \/ (cPod' = pod /\ pod' = pod)
         /\ \A p \in Pods : Wanted(p)' <=> Wanted(p)
<1>1. \A s \in NodeSets : SameSpec(sset[s], sset'[s])
  BY AroundSteps
<1>2. \A p \in Pods : Wanted(p)' <=> Wanted(p)
  BY <1>1 DEF Wanted, SameSpec, Pods
<1>3. CASE Surroundings
  <2>1. \A p \in Pods : PodMove(p)
    BY <1>3, SurroundingsMove
  <2>2. cPod' = cPod
    BY <1>3 DEF Surroundings, StatefulSetController, PublishRevision, CreatePod, CondemnPod,
       Kubelet, StartPod, ReadyPod, NodeCrashes, CrashPod, NodeStops, RemovePod,
       Cluster, JoinCluster, StartFromDisk, RecoverStale, AllocateReplica,
       StartRelocation, FinishRecovery, FinishRelocation, kubernetesVars
  <2> QED
    BY <1>2, <2>1, <2>2
<1>4. CASE \/ Watches \/ Observer
           \/ \E spec \in Specs : ChangeSpec(spec)
           \/ UNCHANGED vars
  <2>1. pod' = pod /\ (cPod' = cPod \/ cPod' = pod)
    BY <1>4 DEF Watches, SyncEs, SyncStatefulSetCache, SyncPodCache, SyncStatefulSets,
       SyncPods, Observer, Observe, StoreObservation, ChangeSpec, vars, kubernetesVars
  <2> QED
    BY <1>2, <2>1 DEF PodMove
<1> QED
  BY <1>3, <1>4

\* They keep what is known of a Pod.
LEMMA AroundKnown ==
  ASSUME NEW p \in Pods, TypeOK, PodKnown(p), PodMove(p),
         cPod' = cPod \/ (cPod' = pod /\ pod' = pod),
         Wanted(p)' <=> Wanted(p), sset'[p[1]].exists = sset[p[1]].exists,
         deletions' = deletions
  PROVE  PodKnown(p)' /\ (Stable(p) /\ Wanted(p) => Stable(p)' /\ pod'[p].uid = pod[p].uid)
<1>1. CASE cPod' = pod /\ pod' = pod
  BY <1>1 DEF PodKnown, Stable, Fresh
<1>2. CASE cPod' = cPod
  BY <1>2 DEF PodKnown, Stable, Fresh, PodMove, Wanted
<1> QED
  BY <1>1, <1>2

\* They keep a Pod among those the pass counts.
LEMMA AroundNamed ==
  ASSUME NEW p \in Pods, TypeOK, PodKnown(p), PodNamed(p), PodMove(p),
         cPod' = cPod \/ (cPod' = pod /\ pod' = pod),
         Wanted(p)' <=> Wanted(p),
         UNCHANGED <<deletions, pass>>
  PROVE  PodNamed(p)'
<1>1. FinalReplicas(p[1])' = FinalReplicas(p[1]) /\ (Named(p)' <=> Named(p))
  BY DEF FinalReplicas, Desired, Named, PodNames
<1>2. CASE cPod' = pod /\ pod' = pod
  BY <1>1, <1>2 DEF PodKnown, PodNamed, Fresh
<1>3. CASE cPod' = cPod
  BY <1>1, <1>3 DEF PodNamed, PodMove
<1> QED
  BY <1>2, <1>3

\* What happens around the worker keeps all of it.
LEMMA PodsAround ==
  ASSUME TypeOK, PodsInv,
         \/ Surroundings \/ Watches \/ Observer
         \/ \E spec \in Specs : ChangeSpec(spec)
         \/ UNCHANGED vars
  PROVE  PodsInv'
<1>1. /\ UNCHANGED <<pc, pass, up, down, roll, generations, deletions>>
      /\ \A s \in NodeSets : SameSpec(sset[s], sset'[s])
  BY AroundSteps
<1>2. /\ \A p \in Pods : PodMove(p) /\ (Wanted(p)' <=> Wanted(p))
      /\ cPod' = cPod \/ (cPod' = pod /\ pod' = pod)
  BY AroundMoves
<1>3. \A p \in Pods : p[1] \in NodeSets
  BY DEF Pods
<1>4. \A p \in Pods :
        PodKnown(p)' /\ (Stable(p) /\ Wanted(p) => Stable(p)' /\ pod'[p].uid = pod[p].uid)
  BY <1>1, <1>2, <1>3, AroundKnown DEF SameSpec, PodsInv, PodsKnown
<1>5. ActualTracked'
  BY <1>1 DEF PodsInv, ActualTracked, Known, Current, Behind, SameSpec
<1>6. PodsNamed'
  BY <1>1, <1>2, AroundNamed DEF PodsInv, PodsNamed, PodsKnown
<1>7. PodsSelected'
  <2>1. Candidates' = Candidates
    BY <1>1 DEF Candidates
  <2>2. pc \in Deleting => \A p \in Candidates :
          p \in Pods /\ Wanted(p)' /\ Stable(p)' /\ roll'.seen[p].uid = pod'[p].uid
    BY <1>1, <1>2, <1>4 DEF PodsInv, PodsSelected
  <2> QED
    BY <1>1, <1>2, <1>4, <2>1, <2>2 DEF PodsInv, PodsSelected
<1>8. PlanBounded'
  BY <1>1 DEF PodsInv, PlanBounded, FinalReplicas, Desired
<1> QED
  BY <1>4, <1>5, <1>6, <1>7, <1>8 DEF PodsInv, PodsKnown

-----------------------------------------------------------------------------
(***************************************************************************)
(* The worker, up to the rolling upgrade.                                  *)
(***************************************************************************)
\* Dropping the deletions that are over loses none that matters.
LEMMA DropKnown ==
  ASSUME NEW p \in Pods, TypeOK, PodKnown(p), UNCHANGED <<sset, pod, cPod>>,
         deletions' = deletions \/ DropSatisfiedDeletions
  PROVE  /\ PodKnown(p)'
         /\ Wanted(p)' <=> Wanted(p)
         /\ Stable(p) => Stable(p)'
<1>1. deletions'[p] = deletions[p] \/ (CanRemoveExpectation(p) /\ deletions'[p] = {})
  BY DEF DropSatisfiedDeletions
<1>2. Wanted(p)' <=> Wanted(p)
  BY DEF Wanted
<1>3. CanRemoveExpectation(p) => \A uid \in deletions[p] : ~cPod[p].exists \/ cPod[p].uid # uid
  BY DEF CanRemoveExpectation
<1> QED
  BY <1>1, <1>2, <1>3 DEF PodKnown, Stable, Fresh

\* When no deletion is expected any more, a cached Pod that is wanted is there.
LEMMA MetStable ==
  ASSUME NEW p \in Pods, TypeOK, PodKnown(p), UNCHANGED <<sset, pod, cPod>>,
         SatisfiedDeletions, DropSatisfiedDeletions
  PROVE  /\ deletions'[p] = {}
         /\ Wanted(p) /\ cPod[p].exists => Stable(p)'
<1>1. CanRemoveExpectation(p) /\ deletions'[p] = {}
  BY DEF SatisfiedDeletions, DropSatisfiedDeletions
<1>2. deletions[p] # {cPod[p].uid} \/ ~cPod[p].exists
  BY <1>1 DEF CanRemoveExpectation
<1> QED
  BY <1>1, <1>2 DEF PodKnown, Stable, Fresh

\* A pass that knows the StatefulSets knows which Pods are wanted.
LEMMA WantedNamed ==
  ASSUME NEW p \in Pods, TypeOK, Current(pass.actual[p[1]], sset[p[1]]),
         sset[p[1]].exists => pass.actual[p[1]].exists
  PROVE  Wanted(p) <=> Named(p)
<1>1. p[1] \in NodeSets /\ p[2] \in Nat
  BY DEF Pods, Ordinals
<1> QED
  BY <1>1 DEF Wanted, Named, PodNames, Current

\* The Pods a pass counts, once its cache agrees with them.
LEMMA ReconciledNamed ==
  ASSUME NEW p \in Pods, TypeOK, PodReconciliationDone(pass.actual)
  PROVE  /\ Named(p) => cPod[p].exists
         /\ cPod[p].exists /\ pass.actual[p[1]].exists => Named(p)
<1>1. p[1] \in NodeSets
  BY DEF Pods
<1>2. pass.actual[p[1]].exists =>
        {q \in Existing(cPod) : q[1] = p[1]} = PodNames(pass.actual, p[1])
  BY <1>1 DEF PodReconciliationDone
<1>3. Named(p) => pass.actual[p[1]].exists
  BY DEF Named, PodNames
<1>4. p \in {q \in Existing(cPod) : q[1] = p[1]} <=> cPod[p].exists
  BY DEF Existing
<1> QED
  BY <1>2, <1>3, <1>4 DEF Named

\* A pass begins, or ends.
LEMMA PodsOutside ==
  ASSUME TypeOK, PodsInv,
         \/ StartReconcile \/ ReconcileClusterUUID \/ RetrieveActualStatefulSets
         \/ UpdateStatus
  PROVE  PodsInv'
<1>1. /\ UNCHANGED <<sset, pod, cPod, deletions>>
      /\ pc' \in {"uuid", "retrieve", "status", "expect", "idle"}
  BY OutsideSteps DEF Still
<1>2. PodsKnown'
  BY <1>1 DEF PodsInv, PodsKnown, PodKnown, Wanted, Fresh
<1> QED
  BY <1>1, <1>2 DEF PodsInv, ActualTracked, PodsNamed, PodsSelected, PlanBounded, Scaling,
     Early, Deleting, PlanLocations

\* The expectations are met: what the pass counts is what there is.
LEMMA PodsAwait ==
  ASSUME TypeOK, ActualKnown, GoInv, GoInv', PodsInv, AwaitExpectations
  PROVE  PodsInv'
<1>1. /\ UNCHANGED <<sset, pod, cPod, generations>> /\ pc = "expect"
      /\ pc' \in {"adjust", "status"}
      /\ SamePass(pass, pass')
      /\ CheckExpectations(pass.actual)
      /\ pc' = "adjust" => ExpectationsMet(pass.actual)
  BY PassParts, PassKept DEF AwaitExpectations, kubernetesVars
<1>2. deletions' = deletions \/ DropSatisfiedDeletions
  BY <1>1 DEF CheckExpectations
<1>3. PodsKnown'
  BY <1>1, <1>2, DropKnown DEF PodsInv, PodsKnown
<1>4. ActualTracked'
  BY <1>1 DEF ActualTracked, ActualKnown, SamePass
<1>5. PodsNamed'
  <2> SUFFICES ASSUME pc' = "adjust", NEW p \in Pods PROVE PodNamed(p)'
    BY <1>1 DEF PodsNamed, Scaling, Early
  <2>1. SatisfiedDeletions /\ DropSatisfiedDeletions /\ PodReconciliationDone(pass.actual)
    BY <1>1 DEF ExpectationsMet, CheckExpectations
  <2>2. p[1] \in NodeSets /\ pass'.actual = pass.actual
    BY <1>1 DEF Pods, SamePass
  <2>3. Current(pass.actual[p[1]], sset[p[1]])
    BY <1>1, <2>2 DEF GoInv, EarlyCurrent, Early
  <2>4. sset[p[1]].exists => pass.actual[p[1]].exists
    BY <1>1, <2>2 DEF GoInv, Shrinking
  <2>5. /\ Wanted(p) <=> Named(p)
        /\ Named(p) => cPod[p].exists
        /\ cPod[p].exists /\ pass.actual[p[1]].exists => Named(p)
        /\ deletions'[p] = {}
    BY <1>1, <2>1, <2>3, <2>4, WantedNamed, ReconciledNamed, MetStable DEF PodsInv, PodsKnown
  <2>6. pod[p].exists \/ cPod[p].exists \/ Wanted(p) => Named(p)
    BY <2>4, <2>5 DEF PodsInv, PodsKnown, PodKnown
  <2>7. (Named(p)' <=> Named(p)) /\ (Wanted(p)' <=> Wanted(p))
    BY <1>1, <2>2 DEF Named, PodNames, Wanted
  <2> QED
    BY <1>1, <2>5, <2>6, <2>7 DEF PodNamed
<1> QED
  BY <1>1, <1>3, <1>4, <1>5 DEF PodsInv, PodsSelected, PlanBounded, PlanLocations, Deleting

\* The steps of a pass that leave Kubernetes and the expectations alone.
LEMMA PodsQuiet ==
  ASSUME TypeOK, PodsKnown, ActualTracked, PodsNamed,
         UNCHANGED <<sset, pod, cPod, generations, deletions>>, SamePass(pass, pass'),
         pc' \in Scaling => pc \in Scaling,
         pc' = "rolling" => pc \in Scaling
  PROVE  PodsKnown' /\ ActualTracked' /\ PodsNamed'
<1>1. pass'.actual = pass.actual /\ Desired' = Desired
  BY DEF SamePass, Desired
<1>2. \A p \in Pods : Wanted(p)' <=> Wanted(p)
  BY DEF Wanted
<1>3. PodsKnown'
  BY DEF PodsKnown, PodKnown, Wanted, Fresh
<1>4. ActualTracked'
  BY <1>1 DEF ActualTracked
<1>5. \A p \in Pods : PodNamed(p) => PodNamed(p)'
  BY <1>1, <1>2 DEF PodNamed, Named, PodNames, FinalReplicas
<1>6. PodsNamed'
  BY <1>5 DEF PodsNamed
<1> QED
  BY <1>3, <1>4, <1>6

-----------------------------------------------------------------------------
(***************************************************************************)
(* The plan of a downscale.                                                *)
(***************************************************************************)
\* The rest of a plan, and a plan with one more downscale.
LEMMA PlanParts ==
  ASSUME NEW plan \in Seq(Plans)
  PROVE  /\ plan # <<>> =>
              /\ 1 \in DOMAIN plan /\ Head(plan) = plan[1]
              /\ Tail(plan) \in Seq(Plans)
              /\ \A i \in DOMAIN Tail(plan) :
                   i \in Nat /\ i + 1 \in DOMAIN plan /\ i + 1 # 1 /\ Tail(plan)[i] = plan[i + 1]
         /\ \A d \in Plans : \A i \in DOMAIN Append(plan, d) :
              \/ i \in DOMAIN plan /\ Append(plan, d)[i] = plan[i]
              \/ i = Len(plan) + 1 /\ i \notin DOMAIN plan /\ Append(plan, d)[i] = d
         /\ \A i \in DOMAIN plan : plan[i] \in Plans /\ i \in Nat
OBVIOUS

\* One downscale removes no more than there is to remove, than the budget has
\* left, and than one master.
LEMMA ToRemoveLimits ==
  ASSUME TypeOK, NEW s \in Downscales, CheckDownscaleInvariants(s)
  PROVE  /\ ToRemove(s) \in Nat
         /\ ToRemove(s) <= pass.actual[s].replicas - FinalReplicas(s)
         /\ MaxUnavailable >= 0 => ToRemove(s) <= down.removals
         /\ pass.actual[s].tmpl.master => ToRemove(s) <= 1
<1>1. s \in NodeSets
  BY DEF Downscales
<1>2. pass.actual[s].replicas \in Nat /\ FinalReplicas(s) \in Nat
  BY <1>1, PassParts, SpecTypes DEF StatefulSets, FinalReplicas
<1>3. FinalReplicas(s) <= pass.actual[s].replicas
  BY <1>2 DEF Downscales
<1>4. down.removals \in Int
  BY DEF TypeOK, DriverTypeOK, Downscaling
<1> DEFINE n == pass.actual[s].replicas - FinalReplicas(s)
<1>5. n \in Nat
  BY <1>2, <1>3
<1> HIDE DEF n
<1> QED
  BY <1>4, <1>5, BudgetAssumption DEF ToRemove, CheckDownscaleInvariants, n

\* The data that still moves only raises the target.
LEMMA PerformableAbove ==
  ASSUME TypeOK, NEW d \in Plans
  PROVE  /\ PerformableTarget(d) >= d.target
         /\ \/ PerformableTarget(d) = d.target
            \/ \E p \in PlannedNodes(d) : PerformableTarget(d) = p[2] + 1
<1> DEFINE blocked == {p \in PlannedNodes(d) : IsMigratingData(p, down.nodes)}
           tops == {p[2] + 1 : p \in blocked}
           gaps == {MaxReplicas - m : m \in tops}
<1>1. d.target \in Nat /\ MaxReplicas \in Nat
  BY MaxReplicasAssumption DEF Plans
<1>2. \A p \in blocked : p[2] \in Ordinals /\ p[2] >= d.target
  BY DEF PlannedNodes, Pods
<1>3. \A m \in tops : m \in Nat /\ m <= MaxReplicas /\ m >= d.target
  BY <1>1, <1>2 DEF Ordinals
<1>4. PerformableTarget(d) = IF blocked = {} THEN d.target
                             ELSE CHOOSE k \in tops : \A p \in blocked : p[2] + 1 <= k
  BY Zenon DEF PerformableTarget
<1>5. blocked \subseteq PlannedNodes(d)
  OBVIOUS
<1> HIDE DEF blocked
<1>6. CASE blocked = {}
  BY <1>1, <1>6, <1>4
<1>7. CASE blocked # {}
  <2>1. gaps \subseteq Nat /\ gaps # {}
    <3>1. PICK p \in blocked : TRUE
      BY <1>7
    <3>2. p[2] + 1 \in tops
      OBVIOUS
    <3>3. MaxReplicas - (p[2] + 1) \in gaps
      BY <3>2
    <3> HIDE DEF tops
    <3>4. gaps \subseteq Nat
      BY <1>1, <1>3
    <3> QED
      BY <3>3, <3>4
  <2>2. \E g \in gaps : \A h \in gaps : g <= h
    BY <2>1, LeastExists
  <2>3. PICK m \in tops : \A h \in gaps : MaxReplicas - m <= h
    BY <2>2
  <2>4. \A k \in tops : k <= m
    <3> SUFFICES ASSUME NEW k \in tops PROVE k <= m
      OBVIOUS
    <3>1. MaxReplicas - k \in gaps
      OBVIOUS
    <3>2. MaxReplicas - m <= MaxReplicas - k
      BY <2>3, <3>1
    <3> HIDE DEF tops, gaps
    <3>3. k \in Nat /\ m \in Nat
      BY <1>3
    <3> QED
      BY <1>1, <3>2, <3>3
  <2>5. \A p \in blocked : p[2] + 1 <= m
    BY <2>4
  <2>6. PerformableTarget(d) \in tops
    <3>1. PerformableTarget(d) = CHOOSE k \in tops : \A p \in blocked : p[2] + 1 <= k
      BY <1>7, <1>4
    <3> HIDE DEF tops
    <3> QED
      BY <2>3, <2>5, <3>1
  <2> QED
    BY <1>3, <1>5, <2>6
<1> QED
  BY <1>6, <1>7

\* How a plan is made and carried out.
LEMMA PlanSteps ==
  ASSUME TypeOK, DownscaleInProgress, PlanSound, Decision, pc' \in PlanLocations
  PROVE  \/ /\ pc = "downscale" /\ pc' = "calculate" /\ pass' = pass
            /\ down' = [NoDown EXCEPT !.removals = RemovalsAllowed,
                                      !.masters = Cardinality(ReadyNodes \cap Masters),
                                      !.todo = Downscales]
         \/ /\ pc = "calculate" /\ pc' = "calculate" /\ pass' = pass
            /\ \E s \in Downscales :
                 \/ down' = [down EXCEPT !.todo = @ \ {s}]
                 \/ CheckDownscaleInvariants(s) /\ down' = RecordRemoval(s, ToRemove(s))
         \/ /\ pc = "calculate" /\ pc' = "attempt"
            /\ down' = [down EXCEPT !.nodes = LeavingNodes]
            /\ down'.plan = down.plan /\ down'.target = down.target
            /\ down'.leaving = down.leaving /\ down'.removals = down.removals
            /\ down'.masters = down.masters /\ down'.todo = down.todo
         \/ pc = "attempt" /\ pc' = "attempt" /\ down.plan # <<>> /\ down' = Advance
         \/ /\ pc = "attempt" /\ down.plan # <<>>
            /\ pc' = IF pass.actual[Head(down.plan).set].tmpl.master THEN "dsZen1"
                                                                     ELSE "dsUpdate"
            /\ down' = [down EXCEPT !.target = PerformableTarget(Head(down.plan))]
            /\ IsReplicaDecrease(Head(down.plan))
            /\ PerformableTarget(Head(down.plan)) \in 0 .. MaxReplicas
            /\ PerformableTarget(Head(down.plan)) # pass.actual[Head(down.plan).set].replicas
         \/ pc = "dsZen1" /\ pc' = "dsZen2" /\ down' = down
         \/ pc = "dsZen2" /\ pc' = "dsUpdate" /\ down' = down
<1>1. CASE AdjustResources \/ UpdateMinimumMasterNodes \/ ClearVotingConfigExclusions
  <2>1. AdjustResources => pc' \notin PlanLocations
    BY DEF AdjustResources, PlanLocations
  <2> QED
    BY <1>1, <2>1, ZenQuiet
<1>2. CASE StartDownscale
  BY <1>2 DEF StartDownscale
<1>3. ASSUME NEW s \in NodeSets, CalculateDownscale(s)
      PROVE  /\ pc = "calculate" /\ pc' = "calculate" /\ s \in Downscales /\ pass' = pass
             /\ \/ down' = [down EXCEPT !.todo = @ \ {s}]
                \/ CheckDownscaleInvariants(s) /\ down' = RecordRemoval(s, ToRemove(s))
  BY <1>3 DEF CalculateDownscale, DownscaleInProgress
<1>4. CASE MigrateData
  BY <1>4 DEF MigrateData, PlanLocations, TypeOK, DriverTypeOK, Downscaling
<1>5. ASSUME NEW target \in 0 .. MaxReplicas, AttemptDownscale(target)
      PROVE  \/ pc = "attempt" /\ pc' = "attempt" /\ down.plan # <<>> /\ down' = Advance
             \/ /\ pc = "attempt" /\ down.plan # <<>>
                /\ pc' = IF pass.actual[Head(down.plan).set].tmpl.master THEN "dsZen1"
                                                                         ELSE "dsUpdate"
                /\ down' = [down EXCEPT !.target = target]
                /\ IsReplicaDecrease(Head(down.plan))
                /\ target = PerformableTarget(Head(down.plan))
                /\ target # pass.actual[Head(down.plan).set].replicas
  BY <1>5 DEF AttemptDownscale, PlanLocations
<1>6. CASE DownscaleZen1
  BY <1>6, MaybeUpdateZen1Quiet DEF DownscaleZen1, PlanLocations, Locations
<1>7. CASE DownscaleZen2
  BY <1>7, AddToVotingConfigExclusionsQuiet DEF DownscaleZen2, PlanLocations
<1>8. CASE FinishDownscale
  BY <1>8 DEF FinishDownscale, PlanLocations
<1> QED
  BY <1>1, <1>2, <1>3, <1>4, <1>5, <1>6, <1>7, <1>8 DEF Decision

\* The plan stays within the specification.
LEMMA PlanBoundedDecision ==
  ASSUME TypeOK, DownscaleInProgress, PlanSound, PlanBounded, Decision
  PROVE  PlanBounded'
<1> SUFFICES ASSUME pc' \in PlanLocations PROVE PlanBounded'
  BY DEF PlanBounded
<1>1. down \in Downscaling /\ down.plan \in Seq(Plans)
  BY DEF TypeOK, DriverTypeOK, Downscaling
<1>2. SamePass(pass, pass')
  BY DecisionSteps
<1>3. pass'.actual = pass.actual /\ \A s : FinalReplicas(s)' = FinalReplicas(s)
  BY <1>2 DEF SamePass, FinalReplicas, Desired
<1>4. pc \in PlanLocations =>
        \A i \in DOMAIN down.plan : down.plan[i].target >= FinalReplicas(down.plan[i].set)
  BY DEF PlanBounded
<1>5. CASE pc = "downscale" /\ down'.plan = <<>> /\ pc' = "calculate"
  BY <1>5 DEF PlanBounded
<1>6. CASE /\ pc = "calculate" /\ pc' = "calculate"
           /\ \E s \in Downscales :
                \/ down' = [down EXCEPT !.todo = @ \ {s}]
                \/ CheckDownscaleInvariants(s) /\ down' = RecordRemoval(s, ToRemove(s))
  <2> SUFFICES ASSUME NEW i \in DOMAIN down'.plan
               PROVE  down'.plan[i].target >= FinalReplicas(down'.plan[i].set)
    BY <1>3, <1>6 DEF PlanBounded
  <2>1. CASE down'.plan = down.plan
    BY <1>4, <1>6, <2>1 DEF PlanLocations
  <2>2. ASSUME NEW s \in Downscales, CheckDownscaleInvariants(s),
               down' = RecordRemoval(s, ToRemove(s))
        PROVE  down'.plan[i].target >= FinalReplicas(down'.plan[i].set)
    <3> DEFINE d == [set |-> s, target |-> pass.actual[s].replicas - ToRemove(s)]
    <3>1. /\ ToRemove(s) \in Nat
          /\ ToRemove(s) <= pass.actual[s].replicas - FinalReplicas(s)
          /\ pass.actual[s].replicas \in 0 .. MaxReplicas /\ FinalReplicas(s) \in Nat
          /\ s \in NodeSets
      BY <2>2, ToRemoveLimits, FinalReplicasType, PassParts DEF Downscales, StatefulSets
    <3>2. d \in Plans /\ d.target >= FinalReplicas(d.set)
      BY <3>1, MaxReplicasAssumption DEF Plans
    <3>3. down'.plan = Append(down.plan, d)
      BY <1>1, <2>2 DEF RecordRemoval, Downscaling
    <3> HIDE DEF d
    <3>4. \/ i \in DOMAIN down.plan /\ down'.plan[i] = down.plan[i]
          \/ down'.plan[i] = d
      BY <1>1, <3>2, <3>3, PlanParts
    <3> QED
      BY <1>4, <1>6, <3>2, <3>4 DEF PlanLocations
  <2> QED
    BY <1>1, <1>6, <2>1, <2>2 DEF Downscaling
<1>7. CASE /\ pc \in {"calculate", "attempt"} /\ pc' = "attempt"
           /\ down'.plan = down.plan /\ down'.target = down.target
  BY <1>3, <1>4, <1>7 DEF PlanBounded, PlanLocations
<1>8. CASE pc = "attempt" /\ pc' = "attempt" /\ down.plan # <<>> /\ down' = Advance
  <2>1. down'.plan = Tail(down.plan)
    BY <1>1, <1>8 DEF Advance, Downscaling
  <2> QED
    BY <1>1, <1>3, <1>4, <1>8, <2>1, PlanParts DEF PlanBounded, PlanLocations
<1>9. CASE /\ pc = "attempt" /\ down.plan # <<>> /\ pc' \in {"dsZen1", "dsUpdate"}
           /\ down' = [down EXCEPT !.target = PerformableTarget(Head(down.plan))]
           /\ IsReplicaDecrease(Head(down.plan))
           /\ PerformableTarget(Head(down.plan)) \in 0 .. MaxReplicas
           /\ PerformableTarget(Head(down.plan)) # pass.actual[Head(down.plan).set].replicas
  <2> DEFINE d == Head(down.plan)
  <2>1. d \in Plans /\ down'.plan = down.plan /\ down'.target = PerformableTarget(d)
    BY <1>1, <1>9, PlanTypes DEF Downscaling
  <2>2. PerformableTarget(d) >= d.target
    BY <2>1, PerformableAbove
  <2>3. PerformableTarget(d) < pass.actual[d.set].replicas
    <3>1. pass.actual[d.set].replicas \in Nat /\ d.target < pass.actual[d.set].replicas
      BY <1>9, <2>1, PassParts DEF IsReplicaDecrease, Plans, StatefulSets
    <3>2. CASE PerformableTarget(d) = d.target
      BY <3>1, <3>2
    <3>3. CASE PerformableTarget(d) # d.target
      <4>1. PICK p \in PlannedNodes(d) : PerformableTarget(d) = p[2] + 1
        BY <2>1, <3>3, PerformableAbove
      <4>2. p[2] \in Nat /\ p[2] < pass.actual[d.set].replicas
        BY DEF PlannedNodes, Pods, Ordinals
      <4> QED
        BY <1>9, <3>1, <4>1, <4>2
    <3> QED
      BY <3>2, <3>3
  <2> HIDE DEF d
  <2>4. Head(down'.plan) = d
    BY <2>1 DEF d
  <2> QED
    BY <1>3, <1>4, <1>9, <2>1, <2>2, <2>3, <2>4 DEF PlanBounded, PlanLocations
<1>10. CASE pc \in {"dsZen1", "dsZen2"} /\ down' = down
  BY <1>3, <1>10 DEF PlanBounded, PlanLocations
<1> QED
  BY <1>5, <1>6, <1>7, <1>8, <1>9, <1>10, PlanSteps DEF NoDown

-----------------------------------------------------------------------------
(***************************************************************************)
(* What the upscale and the downscale write.                               *)
(***************************************************************************)
\* The nodeSet s, as the pass knows it once it has applied it.
LEMMA AppliedReplicas ==
  ASSUME TypeOK, NEW s \in NodeSets, sset[s].exists
  PROVE  /\ Applied(s).exists /\ Applied(s).uid = sset[s].uid
         /\ Applied(s).replicas = up.replicas[s] /\ Applied(s).tmpl = Desired.tmpl[s]
         /\ Applied(s).upd = sset[s].upd
BY DEF TypeOK, KubernetesTypeOK, StatefulSets, Applied, WrittenStatefulSet

\* Applying a nodeSet keeps what is known of a Pod, and names the new ones.
LEMMA ApplyPod ==
  ASSUME TypeOK, CacheCurrent, GoInv, PodsInv, NEW s \in NodeSets, ApplyResource(s),
         NEW p \in Pods
  PROVE  /\ PodKnown(p)'
         /\ pc' \in Scaling => PodNamed(p)'
<1>1. /\ pc = "apply" /\ s \in up.todo /\ s \in Desired.sets /\ sset[s].exists
      /\ UNCHANGED <<pod, cSset, cPod, deletions>>
      /\ pass'.mine.spec = pass.mine.spec
      /\ sset' = sset \/ sset' = [sset EXCEPT ![s] = Applied(s)]
      /\ pc' # "status" =>
           \E c : /\ pass'.actual = [pass.actual EXCEPT ![s] = c] /\ c.exists
                  /\ \/ sset' = [sset EXCEPT ![s] = Applied(s)] /\ c = Applied(s)
                     \/ sset' = sset /\ c = cSset[s] /\ c.replicas = up.replicas[s]
  BY ApplySteps DEF GoInv
<1>2. /\ sset \in [NodeSets -> StatefulSets] /\ pass.actual \in [NodeSets -> StatefulSets]
      /\ p[1] \in NodeSets /\ p[2] \in Nat
      /\ up.replicas[s] \in Nat /\ pass.actual[s].replicas \in Nat /\ Desired.count[s] \in Nat
      /\ FinalReplicas(s) = Desired.count[s]
  BY <1>1, PassParts, SpecTypes, FinalReplicasType
     DEF TypeOK, KubernetesTypeOK, DriverTypeOK, Upscaling, StatefulSets, Pods, Ordinals
<1>3. /\ pass.actual[s].exists /\ sset[s].replicas = pass.actual[s].replicas
      /\ pass.actual[s].replicas <= up.replicas[s]
      /\ up.replicas[s] <= pass.actual[s].replicas \/ up.replicas[s] <= Desired.count[s]
  BY <1>1 DEF GoInv, Shrinking, EarlyCurrent, Early, ApplyGrows, Current, PhaseLocations,
     Locations
<1>4. /\ Applied(s).exists /\ Applied(s).replicas = up.replicas[s]
  BY <1>1, AppliedReplicas
<1>5. PodKnown(p) /\ PodNamed(p)
  BY <1>1 DEF PodsInv, PodsKnown, PodsNamed, Scaling, Early
<1>6. /\ sset'[p[1]].exists = sset[p[1]].exists
      /\ Wanted(p) => Wanted(p)'
      /\ Wanted(p)' /\ ~Wanted(p) => p[1] = s /\ p[2] >= pass.actual[s].replicas /\ p[2] < up.replicas[s]
                                     /\ sset' = [sset EXCEPT ![s] = Applied(s)]
  <2>1. CASE sset' = sset
    BY <2>1 DEF Wanted
  <2>2. CASE sset' = [sset EXCEPT ![s] = Applied(s)] /\ p[1] # s
    <3>1. sset'[p[1]] = sset[p[1]]
      BY <1>2, <2>2
    <3> QED
      BY <3>1 DEF Wanted
  <2>3. CASE sset' = [sset EXCEPT ![s] = Applied(s)] /\ p[1] = s
    <3>1. sset'[p[1]].exists /\ sset'[p[1]].replicas = up.replicas[s]
      BY <1>2, <1>4, <2>3
    <3>2. sset[p[1]].exists /\ sset[p[1]].replicas = pass.actual[s].replicas
      BY <1>1, <1>3, <2>3
    <3>3. pass.actual[s].replicas \in Nat /\ pass.actual[s].replicas <= up.replicas[s]
      BY <1>2, <1>3
    <3>4. /\ Wanted(p) <=> p[2] < pass.actual[s].replicas
          /\ Wanted(p)' <=> p[2] < up.replicas[s]
      BY <3>1, <3>2 DEF Wanted
    <3>5. /\ Wanted(p) => Wanted(p)'
          /\ Wanted(p)' /\ ~Wanted(p) => p[2] >= pass.actual[s].replicas /\ p[2] < up.replicas[s]
      BY <1>2, <3>3, <3>4
    <3> QED
      BY <2>3, <3>1, <3>2, <3>5
  <2> QED
    BY <1>1, <2>1, <2>2, <2>3
<1>7. Wanted(p)' /\ ~Wanted(p) => ~pod[p].exists /\ ~cPod[p].exists
  BY <1>2, <1>5, <1>6 DEF PodNamed, Named, PodNames
<1>8. PodKnown(p)'
  BY <1>1, <1>5, <1>6, <1>7 DEF PodKnown, Fresh
<1>9. ASSUME pc' \in Scaling PROVE PodNamed(p)'
  <2>1. PICK c : /\ pass'.actual = [pass.actual EXCEPT ![s] = c] /\ c.exists
                 /\ \/ sset' = [sset EXCEPT ![s] = Applied(s)] /\ c = Applied(s)
                    \/ sset' = sset /\ c = cSset[s] /\ c.replicas = up.replicas[s]
    BY <1>1, <1>9 DEF Scaling, Early
  <2>2. /\ p[1] = s => pass'.actual[p[1]].exists /\ pass'.actual[p[1]].replicas = up.replicas[s]
        /\ p[1] # s => pass'.actual[p[1]] = pass.actual[p[1]]
    BY <1>2, <1>4, <2>1
  <2>3. Named(p) => Named(p)'
    BY <1>2, <1>3, <2>2 DEF Named, PodNames
  <2>4. Wanted(p)' => Named(p)'
    <3>1. CASE Wanted(p)
      BY <1>5, <2>3, <3>1 DEF PodNamed
    <3>2. CASE Wanted(p)' /\ ~Wanted(p)
      BY <1>6, <2>2, <3>2 DEF Named, PodNames
    <3> QED
      BY <3>1, <3>2
  <2>5. FinalReplicas(p[1])' = FinalReplicas(p[1])
    BY <1>1 DEF FinalReplicas, Desired
  <2>6. Wanted(p)' /\ p[2] >= FinalReplicas(p[1]) => Wanted(p)
    <3> SUFFICES ASSUME Wanted(p)', ~Wanted(p) PROVE p[2] < FinalReplicas(p[1])
      BY <1>2, FinalReplicasType
    <3>1. p[1] = s /\ p[2] >= pass.actual[s].replicas /\ p[2] < up.replicas[s]
      BY <1>6
    <3>2. up.replicas[s] <= Desired.count[s] /\ FinalReplicas(p[1]) = Desired.count[s]
      BY <1>2, <1>3, <3>1
    <3> QED
      BY <1>2, <3>1, <3>2
  <2> QED
    BY <1>1, <1>5, <2>3, <2>4, <2>5, <2>6 DEF PodNamed
<1> QED
  BY <1>8, <1>9

\* The upscale.
LEMMA PodsApply ==
  ASSUME TypeOK, CacheKnown, CacheCurrent, GoInv, PodsInv, "lost" \notin FaultKinds,
         NEW s \in NodeSets, ApplyResource(s)
  PROVE  PodsInv'
<1>1. /\ pc = "apply" /\ sset[s].exists
      /\ pc' \in {"apply", "zen1", "rolling", "status"}
      /\ sset' = sset \/ sset' = [sset EXCEPT ![s] = Applied(s)]
      /\ UNCHANGED cSset
      /\ pc' # "status" =>
           \E c : /\ pass'.actual = [pass.actual EXCEPT ![s] = c] /\ c.exists
                  /\ \/ sset' = [sset EXCEPT ![s] = Applied(s)] /\ c = Applied(s)
                     \/ sset' = sset /\ c = cSset[s]
  BY ApplySteps DEF GoInv
<1>2. \A t \in NodeSets : t # s => generations'[t] = generations[t]
  BY DEF ApplyResource, ExpectGeneration, TypeOK, ExpectationsTypeOK
<1>3. sset' = sset => generations' = generations \/ sset[s] = Applied(s)
  <2>1. \/ generations' = generations
        \/ sset' = [sset EXCEPT ![s] = Applied(s)]
    BY DEF ApplyResource
  <2> QED
    BY <2>1 DEF TypeOK, KubernetesTypeOK
<1>4. ActualTracked'
  <2> SUFFICES ASSUME pc' # "status", NEW t \in NodeSets
               PROVE  Known(pass'.actual[t], sset'[t], generations'[t])
    BY <1>1 DEF ActualTracked, Scaling, Early
  <2>1. PICK c : /\ pass'.actual = [pass.actual EXCEPT ![s] = c] /\ c.exists
                 /\ \/ sset' = [sset EXCEPT ![s] = Applied(s)] /\ c = Applied(s)
                    \/ sset' = sset /\ c = cSset[s]
    BY <1>1
  <2>2. sset \in [NodeSets -> StatefulSets] /\ pass.actual \in [NodeSets -> StatefulSets]
    BY PassParts DEF TypeOK, KubernetesTypeOK
  <2>3. CASE t # s
    BY <1>1, <1>2, <2>1, <2>2, <2>3 DEF PodsInv, ActualTracked, Scaling, Early
  <2>4. CASE t = s /\ sset' = [sset EXCEPT ![s] = Applied(s)] /\ c = Applied(s)
    <3>1. pass'.actual[t] = c /\ sset'[t] = c
      BY <2>1, <2>2, <2>4
    <3> QED
      BY <2>1, <3>1 DEF Known, Current
  <2>5. CASE t = s /\ sset' = sset /\ c = cSset[s]
    <3>1. pass'.actual[t] = cSset[s] /\ sset'[t] = sset[s]
      BY <2>1, <2>2, <2>5
    <3>2. Current(cSset[s], sset[s]) /\ (cSset[s].exists => cSset[s].uid = sset[s].uid)
      BY <1>1, ApplySteps DEF CacheKnown, Known, CacheCurrent, Untouched, PhaseLocations,
         Locations, GoInv
    <3> QED
      BY <3>1, <3>2 DEF Known
  <2> QED
    BY <2>1, <2>3, <2>4, <2>5
<1>5. PodsKnown' /\ PodsNamed'
  BY ApplyPod DEF PodsKnown, PodsNamed
<1> QED
  BY <1>1, <1>4, <1>5 DEF PodsInv, PodsSelected, PlanBounded, PlanLocations, Deleting

\* A write of the downscale keeps what is known of a Pod.
LEMMA WritePod ==
  ASSUME TypeOK, DownscaleInProgress, PlanSound, PodsInv, UpdateReplicas \/ RemoveStatefulSet,
         NEW p \in Pods
  PROVE  /\ PodKnown(p)'
         /\ pc' \in Scaling => PodNamed(p)'
         /\ Wanted(p)' => Wanted(p)
         /\ Wanted(p) /\ ~Wanted(p)' =>
              p[1] = Head(down.plan).set /\ UpdateReplicas /\ p \in RemovedNodes
<1> DEFINE s == Head(down.plan).set
           written == WrittenStatefulSet(sset[s], down.target, pass.actual[s].tmpl, FALSE)
<1>1. /\ s \in NodeSets /\ s \in Downscales /\ down.plan # <<>>
      /\ UNCHANGED <<pod, cPod, deletions>>
      /\ SamePass(pass, pass')
      /\ UpdateReplicas =>
           /\ pc = "dsUpdate"
           /\ \/ sset' = sset
              \/ sset' = [sset EXCEPT ![s] = written] /\ sset[s] = pass.actual[s]
      /\ RemoveStatefulSet =>
           /\ pc = "attempt" /\ pass.actual[s].replicas = 0
           /\ sset' \in {sset, [sset EXCEPT ![s] = NoStatefulSet(sset[s].uid)]}
  BY WriteSteps
<1>2. /\ sset \in [NodeSets -> StatefulSets] /\ pass.actual \in [NodeSets -> StatefulSets]
      /\ p[1] \in NodeSets /\ p[2] \in Nat /\ down.target \in Nat
      /\ pass.actual[s].replicas \in Nat /\ FinalReplicas(s) \in Nat
      /\ Head(down.plan) \in Plans
  <2>1. sset \in [NodeSets -> StatefulSets] /\ pass.actual \in [NodeSets -> StatefulSets]
    BY PassParts DEF TypeOK, KubernetesTypeOK
  <2>2. p[1] \in NodeSets /\ p[2] \in Nat
    BY DEF Pods, Ordinals
  <2>3. down.target \in Nat /\ Head(down.plan) \in Plans
    BY <1>1, PlanTypes DEF TypeOK, DriverTypeOK, Downscaling
  <2>4. FinalReplicas(s) \in Nat
    BY <1>1, FinalReplicasType
  <2>5. pass.actual[s].replicas \in Nat
    BY <1>1, <2>1 DEF StatefulSets
  <2> QED
    BY <2>1, <2>2, <2>3, <2>4, <2>5
<1>3. PodKnown(p) /\ PodNamed(p)
  BY <1>1 DEF PodsInv, PodsKnown, PodsNamed, Scaling
<1>4. pc = "dsUpdate" => FinalReplicas(s) <= down.target /\ down.target < pass.actual[s].replicas
  <2> SUFFICES ASSUME pc = "dsUpdate"
               PROVE  FinalReplicas(s) <= down.target /\ down.target < pass.actual[s].replicas
    OBVIOUS
  <2>1. down.plan \in Seq(Plans)
    BY DEF TypeOK, DriverTypeOK, Downscaling
  <2>2. 1 \in DOMAIN down.plan /\ Head(down.plan) = down.plan[1]
    BY <1>1, <2>1, PlanParts
  <2>3. Head(down.plan).target >= FinalReplicas(s)
    BY <2>2 DEF PodsInv, PlanBounded, PlanLocations
  <2>4. /\ down.target >= Head(down.plan).target
        /\ down.target < pass.actual[s].replicas
    BY DEF PodsInv, PlanBounded, PlanLocations
  <2>5. Head(down.plan).target \in Nat
    BY <1>2 DEF Plans
  <2> QED
    BY <1>2, <2>3, <2>4, <2>5
<1>5. /\ written.exists = sset[s].exists /\ written.replicas = down.target
      /\ ~NoStatefulSet(sset[s].uid).exists
  BY <1>1, <1>2 DEF WrittenStatefulSet, NoStatefulSet, StatefulSets
<1> HIDE DEF s, written
<1>6. \/ sset' = sset
      \/ /\ UpdateReplicas /\ sset' = [sset EXCEPT ![s] = written]
         /\ sset[s].replicas = pass.actual[s].replicas /\ pc = "dsUpdate"
      \/ /\ RemoveStatefulSet /\ sset' = [sset EXCEPT ![s] = NoStatefulSet(sset[s].uid)]
         /\ pass.actual[s].replicas = 0
  BY <1>1
<1>7. p[1] # s => sset'[p[1]] = sset[p[1]]
  BY <1>2, <1>6
<1>8. CASE sset' = sset \/ p[1] # s
  <2>1. sset'[p[1]] = sset[p[1]]
    BY <1>7, <1>8
  <2>2. (Wanted(p)' <=> Wanted(p)) /\ (Named(p)' <=> Named(p))
        /\ FinalReplicas(p[1])' = FinalReplicas(p[1])
    BY <1>1, <2>1 DEF Wanted, Named, PodNames, SamePass, FinalReplicas, Desired
  <2> QED
    BY <1>1, <1>3, <2>1, <2>2 DEF PodKnown, PodNamed, Fresh
<1>9. (Named(p)' <=> Named(p)) /\ FinalReplicas(p[1])' = FinalReplicas(p[1])
  BY <1>1 DEF Named, PodNames, SamePass, FinalReplicas, Desired
<1>10. CASE /\ UpdateReplicas /\ sset' = [sset EXCEPT ![s] = written] /\ p[1] = s
            /\ sset[s].replicas = pass.actual[s].replicas /\ pc = "dsUpdate"
  <2>1. sset'[p[1]].exists = sset[p[1]].exists /\ sset'[p[1]].replicas = down.target
    BY <1>1, <1>2, <1>5, <1>10
  <2>2. Wanted(p)' => Wanted(p)
    BY <1>2, <1>4, <1>10, <2>1 DEF Wanted
  <2>3. Wanted(p) /\ ~Wanted(p)' => /\ p[2] >= down.target
                                    /\ p[2] < pass.actual[s].replicas
    <3>1. sset[p[1]].replicas = pass.actual[s].replicas
      BY <1>10
    <3> QED
      BY <1>2, <2>1, <3>1 DEF Wanted
  <2>4. Wanted(p) /\ ~Wanted(p)' => cPod[p].exists /\ p \in RemovedNodes
    BY <1>2, <1>3, <1>4, <1>10, <2>3 DEF PodNamed, RemovedNodes, PlannedNodes, s
  <2>5. PodKnown(p)' /\ PodNamed(p)'
    BY <1>1, <1>3, <1>9, <2>1, <2>2, <2>4 DEF PodKnown, PodNamed, Fresh
  <2> QED
    BY <1>10, <2>2, <2>4, <2>5 DEF s
<1>11. CASE /\ RemoveStatefulSet /\ sset' = [sset EXCEPT ![s] = NoStatefulSet(sset[s].uid)]
            /\ pass.actual[s].replicas = 0 /\ p[1] = s
  <2>1. ~sset'[p[1]].exists
    BY <1>1, <1>2, <1>5, <1>11
  <2>2. ~Named(p)
    BY <1>2, <1>11 DEF Named, PodNames
  <2>3. ~pod[p].exists /\ ~cPod[p].exists /\ ~Wanted(p) /\ ~Wanted(p)'
    BY <1>3, <2>1, <2>2 DEF PodNamed, Wanted
  <2> QED
    BY <1>1, <1>3, <2>1, <2>3 DEF PodKnown, PodNamed
<1> QED
  BY <1>6, <1>8, <1>10, <1>11

\* The writes of the downscale.
LEMMA PodsWrite ==
  ASSUME TypeOK, DownscaleInProgress, PlanSound, PodsInv, UpdateReplicas \/ RemoveStatefulSet
  PROVE  PodsInv'
<1> DEFINE s == Head(down.plan).set
           written == WrittenStatefulSet(sset[s], down.target, pass.actual[s].tmpl, FALSE)
<1>1. /\ s \in NodeSets /\ down.plan # <<>>
      /\ pc \in PlanLocations /\ pc' \in {"attempt", "status"}
      /\ SamePass(pass, pass') /\ down'.plan = Tail(down.plan)
      /\ UpdateReplicas =>
           /\ pc = "dsUpdate"
           /\ \/ sset' = sset
              \/ sset' = [sset EXCEPT ![s] = written] /\ sset[s] = pass.actual[s]
      /\ RemoveStatefulSet =>
           /\ pass.actual[s].replicas = 0
           /\ sset' \in {sset, [sset EXCEPT ![s] = NoStatefulSet(sset[s].uid)]}
  BY WriteSteps DEF PlanLocations
<1>2. PodsKnown' /\ PodsNamed'
  BY WritePod DEF PodsKnown, PodsNamed
<1>3. ActualTracked'
  <2> SUFFICES ASSUME pc' = "attempt", NEW t \in NodeSets
               PROVE  Known(pass.actual[t], sset'[t], generations'[t])
    BY <1>1 DEF ActualTracked, SamePass, Scaling, Early
  <2>1. Known(pass.actual[t], sset[t], generations[t])
    BY <1>1 DEF PodsInv, ActualTracked, Scaling, PlanLocations, Early
  <2>2. /\ sset \in [NodeSets -> StatefulSets] /\ pass.actual \in [NodeSets -> StatefulSets]
        /\ generations \in [NodeSets -> [uid : Uids, gen : Nat]]
    BY PassParts DEF TypeOK, KubernetesTypeOK, ExpectationsTypeOK
  <2>3. CASE UpdateReplicas
    <3>1. /\ sset[s] = pass.actual[s] /\ sset' = [sset EXCEPT ![s] = written]
          /\ generations' = [generations EXCEPT ![s] = [uid |-> written.uid, gen |-> written.gen]]
      BY <2>3 DEF UpdateReplicas, ExpectGeneration
    <3>2. CASE t # s
      BY <1>1, <2>1, <2>2, <3>1, <3>2
    <3>3. CASE t = s
      <4>1. /\ pc = "dsUpdate" /\ down.target < pass.actual[s].replicas
            /\ down.target \in Nat /\ pass.actual[s].replicas \in Nat
        BY <1>1, <2>2, <2>3 DEF PodsInv, PlanBounded, PlanLocations, StatefulSets, TypeOK,
           DriverTypeOK, Downscaling
      <4>2. /\ written.exists = sset[s].exists /\ written.uid = sset[s].uid
            /\ written.gen = sset[s].gen + 1 /\ sset[s].gen \in Nat
        BY <1>1, <2>2, <3>1, <4>1 DEF WrittenStatefulSet, StatefulSets
      <4>3. /\ sset'[t] = written /\ generations'[t].uid = written.uid
            /\ generations'[t].gen = written.gen
        BY <1>1, <2>2, <3>1, <3>3
      <4> HIDE DEF written, s
      <4>4. /\ sset'[t].exists = pass.actual[t].exists /\ sset'[t].uid = pass.actual[t].uid
            /\ sset'[t].gen = pass.actual[t].gen + 1 /\ pass.actual[t].gen \in Nat
            /\ generations'[t].uid = sset'[t].uid /\ generations'[t].gen = sset'[t].gen
        BY <3>1, <3>3, <4>2, <4>3
      <4> QED
        BY <4>4 DEF Known, Behind
    <3> QED
      BY <3>2, <3>3
  <2>4. CASE RemoveStatefulSet
    <3>1. generations' = generations /\ pass.actual[s].replicas = 0
      BY <1>1, <2>4 DEF RemoveStatefulSet, expectationsVars
    <3>2. CASE sset' = sset \/ t # s
      BY <1>1, <2>1, <2>2, <2>4, <3>1, <3>2
    <3>3. CASE sset' = [sset EXCEPT ![s] = NoStatefulSet(sset[s].uid)] /\ t = s
      <4>1. sset'[t] = NoStatefulSet(sset[s].uid)
        BY <1>1, <2>2, <3>3
      <4>2. ~sset'[t].exists /\ sset'[t].uid = sset[t].uid
        BY <3>3, <4>1 DEF NoStatefulSet
      <4> QED
        BY <2>1, <3>1, <3>3, <4>2 DEF Known, Current, Behind
    <3> QED
      BY <1>1, <2>4, <3>2, <3>3
  <2> QED
    BY <2>3, <2>4
<1>4. PlanBounded'
  <2>1. down.plan \in Seq(Plans)
    BY DEF TypeOK, DriverTypeOK, Downscaling
  <2>2. \A i \in DOMAIN down.plan : down.plan[i].target >= FinalReplicas(down.plan[i].set)
    BY <1>1 DEF PodsInv, PlanBounded
  <2>3. \A t : FinalReplicas(t)' = FinalReplicas(t)
    BY <1>1 DEF SamePass, FinalReplicas, Desired
  <2> HIDE DEF s, written
  <2>4. \A i \in DOMAIN down'.plan : down'.plan[i].target >= FinalReplicas(down'.plan[i].set)
    BY <1>1, <2>1, <2>2, PlanParts
  <2> QED
    BY <1>1, <2>3, <2>4 DEF PlanBounded
<1> QED
  BY <1>1, <1>2, <1>3, <1>4 DEF PodsInv, PodsSelected, Deleting

-----------------------------------------------------------------------------
(***************************************************************************)
(* The rolling upgrade.                                                    *)
(***************************************************************************)
\* The Pods of a set can be sorted: one of them comes first.
LEMMA FirstOfBelongs ==
  ASSUME TypeOK, NEW S, S \subseteq Pods, S # {}
  PROVE  FirstOf(S) \in S
<1>1. \A p \in Pods : /\ SeenMaster(p) \in BOOLEAN /\ p[1] \in Nat /\ p[2] \in Nat
                      /\ MaxReplicas - p[2] \in Nat /\ p = <<p[1], p[2]>>
  <2>1. \A p \in Pods : SeenMaster(p) \in BOOLEAN
    BY TemplatesAssumption DEF TypeOK, DriverTypeOK, Rolling, PodRecords, SeenMaster
  <2>2. \A p \in Pods : p[1] \in Nat /\ p[2] \in Nat /\ MaxReplicas - p[2] \in Nat
    <3> SUFFICES ASSUME NEW p \in Pods
                 PROVE  p[1] \in Nat /\ p[2] \in Nat /\ MaxReplicas - p[2] \in Nat
      OBVIOUS
    <3>1. p[1] \in NodeSets /\ p[2] \in 0 .. MaxReplicas - 1
      BY DEF Pods, Ordinals
    <3>2. p[1] \in Nat
      BY <3>1, NodeSetsAssumption
    <3> QED
      BY <3>1, <3>2, MaxReplicasAssumption
  <2>3. \A p \in Pods : p = <<p[1], p[2]>>
    BY DEF Pods
  <2> QED
    BY <2>1, <2>2, <2>3
<1>2. PICK U : /\ U \subseteq S /\ U # {}
               /\ \A p, q \in U : SeenMaster(p) = SeenMaster(q)
               /\ \A p \in U, q \in S \ U : ~SeenMaster(p) /\ SeenMaster(q)
  <2>1. CASE \E p \in S : ~SeenMaster(p)
    <3> DEFINE T == {p \in S : ~SeenMaster(p)}
    <3>1. /\ T \subseteq S /\ T # {}
          /\ \A p, q \in T : SeenMaster(p) = SeenMaster(q)
          /\ \A p \in T, q \in S \ T : ~SeenMaster(p) /\ SeenMaster(q)
      BY <1>1, <2>1
    <3> QED
      BY <3>1
  <2>2. CASE ~ \E p \in S : ~SeenMaster(p)
    BY <1>1, <2>2
  <2> QED
    BY <2>1, <2>2
<1> DEFINE names == {p[1] : p \in U}
<1>3. names \subseteq Nat /\ names # {}
  BY <1>1, <1>2
<1>4. \E n \in names : \A m \in names : n <= m
  BY <1>3, LeastExists
<1>5. PICK r \in U : \A q \in U : r[1] <= q[1]
  BY <1>4
<1> DEFINE V == {q \in U : q[1] = r[1]}
           gaps == {MaxReplicas - q[2] : q \in V}
<1>6. gaps \subseteq Nat /\ gaps # {}
  BY <1>1, <1>2, <1>5
<1>7. \E g \in gaps : \A h \in gaps : g <= h
  BY <1>6, LeastExists
<1>8. PICK p \in V : \A h \in gaps : MaxReplicas - p[2] <= h
  BY <1>7
<1>9. \A q \in V : MaxReplicas - p[2] <= MaxReplicas - q[2]
  BY <1>8
<1> HIDE DEF names, gaps
<1>10. ASSUME NEW q \in S \ {p} PROVE Before(p, q)
  <2>1. p \in U /\ p[1] = r[1] /\ p \in Pods /\ q \in Pods
    BY <1>2, <1>8
  <2>2. CASE q \notin U
    BY <1>2, <1>10, <2>1, <2>2 DEF Before
  <2>3. CASE q \in U /\ q[1] # r[1]
    <3>1. p[1] < q[1]
      BY <1>1, <1>5, <2>1, <2>3
    <3> QED
      BY <1>2, <2>1, <2>3, <3>1 DEF Before
  <2>4. CASE q \in U /\ q[1] = r[1]
    <3>1. q \in V /\ MaxReplicas - p[2] <= MaxReplicas - q[2]
      BY <1>9, <2>4
    <3>2. p[2] # q[2]
      BY <1>1, <1>10, <2>1, <2>4
    <3>3. p[2] > q[2]
      BY <1>1, <2>1, <3>1, <3>2, MaxReplicasAssumption
    <3> QED
      BY <1>2, <2>1, <2>4, <3>3 DEF Before
  <2> QED
    BY <2>2, <2>3, <2>4
<1>11. p \in S
  BY <1>2, <1>8
<1> QED
  BY <1>10, <1>11, Zenon DEF FirstOf

\* The steps of a rolling upgrade that delete no Pod.
LEMMA RolloutKnown ==
  ASSUME TypeOK, PodsInv, UNCHANGED <<sset, pod, cPod>>,
         deletions' = deletions \/ DropSatisfiedDeletions,
         pc' \notin Scaling \cup {"rolling"}
  PROVE  /\ PodsKnown' /\ ActualTracked' /\ PodsNamed' /\ PlanBounded'
         /\ \A p \in Pods : /\ Wanted(p)' <=> Wanted(p)
                            /\ Stable(p) => Stable(p)'
<1>1. \A p \in Pods : /\ PodKnown(p)'
                      /\ Wanted(p)' <=> Wanted(p)
                      /\ Stable(p) => Stable(p)'
  BY DropKnown DEF PodsInv, PodsKnown
<1> QED
  BY <1>1 DEF PodsKnown, ActualTracked, PodsNamed, PlanBounded, Scaling, Early, PlanLocations

\* A rolling upgrade starts from what the cache shows.
LEMMA PodsUpgrade ==
  ASSUME TypeOK, GoInv, PodsInv, HandleRollingUpgrades
  PROVE  PodsInv'
<1>1. /\ pc = "rolling" /\ UNCHANGED <<sset, pod, cPod>>
      /\ CheckExpectations(pass.actual)
      /\ pc' \in {"ready", "force", "status", "enable", "select"}
      /\ pc' \in {"force", "select"} =>
           /\ ExpectationsMet(pass.actual)
           /\ roll'.seen = cPod
           /\ Candidates' \subseteq PodsToUpgrade(pass.actual)
  BY DEF HandleRollingUpgrades, kubernetesVars, NoRoll, Candidates, ForcedPods
<1>2. deletions' = deletions \/ DropSatisfiedDeletions
  BY <1>1 DEF CheckExpectations
<1>3. PodsKnown' /\ ActualTracked' /\ PodsNamed' /\ PlanBounded'
  BY <1>1, <1>2, RolloutKnown DEF Scaling, Early
<1>4. ASSUME pc' \in {"force", "select"}, NEW p \in Pods
      PROVE  /\ Wanted(p) <=> Named(p)
             /\ Wanted(p)' <=> Wanted(p)
             /\ Wanted(p) => Stable(p)'
  <2>1. /\ SatisfiedGenerations(pass.actual) /\ PodReconciliationDone(pass.actual)
        /\ SatisfiedDeletions /\ DropSatisfiedDeletions
    BY <1>1, <1>4 DEF ExpectationsMet, CheckExpectations
  <2>2. p[1] \in NodeSets /\ PodKnown(p)
    BY DEF Pods, PodsInv, PodsKnown
  <2>3. Known(pass.actual[p[1]], sset[p[1]], generations[p[1]])
    BY <1>1, <2>2 DEF PodsInv, ActualTracked
  <2>4. ~ (pass.actual[p[1]].exists /\ Behind(pass.actual[p[1]], sset[p[1]], generations[p[1]]))
    <3>1. /\ pass.actual[p[1]].gen \in Nat /\ generations[p[1]].gen \in Nat
      BY <2>2, PassParts DEF StatefulSets, TypeOK, ExpectationsTypeOK
    <3> QED
      BY <2>1, <2>2, <2>3, <3>1 DEF SatisfiedGenerations, Known, Behind
  <2>5. Current(pass.actual[p[1]], sset[p[1]])
    BY <2>3, <2>4 DEF Known, Current
  <2>6. sset[p[1]].exists => pass.actual[p[1]].exists
    BY <1>1, <2>2 DEF GoInv, Shrinking, PhaseLocations, Locations
  <2>7. Wanted(p) <=> Named(p)
    BY <2>5, <2>6, WantedNamed
  <2>8. Wanted(p) => cPod[p].exists
    BY <2>1, <2>7, ReconciledNamed
  <2>9. Wanted(p)' <=> Wanted(p)
    BY <1>1 DEF Wanted
  <2> QED
    BY <1>1, <2>1, <2>2, <2>7, <2>8, <2>9, MetStable
<1>5. PodsSelected'
  <2> SUFFICES ASSUME pc' \in {"force", "select"} PROVE PodsSelected'
    BY <1>1 DEF PodsSelected, Deleting
  <2>1. ASSUME NEW p \in Candidates'
        PROVE  p \in Pods /\ Wanted(p)' /\ Stable(p)' /\ roll'.seen[p].uid = pod'[p].uid
    <3>1. p \in Pods /\ Named(p) /\ cPod[p].exists
      BY <1>1, <2>1 DEF PodsToUpgrade, Existing, Named
    <3>2. Wanted(p)' /\ Stable(p)'
      BY <1>4, <3>1
    <3> QED
      BY <1>1, <3>1, <3>2 DEF Stable, Fresh
  <2>2. \A p \in Pods : Wanted(p)' => Stable(p)'
    BY <1>4
  <2> QED
    BY <1>1, <2>1, <2>2 DEF PodsSelected
<1> QED
  BY <1>3, <1>5 DEF PodsInv

\* The other steps of a rolling upgrade that delete no Pod.
LEMMA SelectionSteps ==
  ASSUME TypeOK, Rollout, ~HandleRollingUpgrades
  PROVE  /\ UNCHANGED <<sset, pod, cPod>>
         /\ \/ /\ pc = "select" /\ pc' \in {"select", "rollZen1", "panic"}
               /\ deletions' = deletions /\ roll'.seen = roll.seen
               /\ Candidates' \subseteq Candidates
               /\ pc' = "rollZen1" => roll'.selected # {}
            \/ /\ pc \in {"rollZen1", "rollZen2"} /\ pc' \in {"rollZen2", "delete", "status"}
               /\ deletions' = deletions /\ roll' = roll
            \/ /\ pc' \in {"enable", "ready", "status"}
               /\ deletions' = deletions \/ DropSatisfiedDeletions
<1> USE DEF kubernetesVars, expectationsVars, phaseVars
<1>1. ASSUME NEW p \in Pods, ApplyPredicates(p)
      PROVE  /\ UNCHANGED <<sset, pod, cPod, deletions>> /\ pc = "select"
             /\ pc' \in {"select", "panic", "status"}
             /\ roll'.seen = roll.seen
             /\ Candidates' \subseteq Candidates
  <2>1. roll.todo # {} /\ p = FirstOf(roll.todo) /\ roll.todo \subseteq Pods /\ roll \in Rolling
    BY <1>1 DEF ApplyPredicates, TypeOK, DriverTypeOK, Rolling
  <2>2. p \in roll.todo
    BY <2>1, FirstOfBelongs
  <2> DEFINE skipped == [roll EXCEPT !.todo = @ \ {p},
                           !.green = IF AsksForGreen(p) THEN {KnownGreen} ELSE @]
  <2>3. /\ UNCHANGED <<sset, pod, cPod, deletions>> /\ pc = "select"
        /\ pc' \in {"select", "panic", "status"}
        /\ roll' \in {roll, skipped, SelectPod(p)}
    BY <1>1 DEF ApplyPredicates
  <2>4. /\ skipped.seen = roll.seen /\ skipped.todo \subseteq roll.todo
        /\ skipped.selected = roll.selected
    BY <2>1 DEF Rolling
  <2>5. /\ SelectPod(p).seen = roll.seen /\ SelectPod(p).todo \subseteq roll.todo
        /\ SelectPod(p).selected = roll.selected \cup {p}
    BY <2>1 DEF Rolling, SelectPod
  <2> HIDE DEF skipped
  <2>6. /\ roll'.seen = roll.seen /\ roll'.todo \subseteq roll.todo
        /\ roll'.selected \subseteq roll.selected \cup {p}
    BY <2>3, <2>4, <2>5
  <2> QED
    BY <2>2, <2>3, <2>6 DEF Candidates
<1>2. CASE NoPodSelected \/ PrepareClusterForNodeRestart
  BY <1>2 DEF NoPodSelected, PrepareClusterForNodeRestart, Candidates
<1>3. ASSUME NEW p \in Pods, RollZen1(p) \/ RollZen2(p)
      PROVE  /\ UNCHANGED <<sset, pod, cPod, deletions, roll>>
             /\ pc \in {"rollZen1", "rollZen2"}
             /\ pc' \in {"rollZen2", "delete", "enable", "ready", "status"}
  <2>1. /\ UNCHANGED <<sset, pod, cPod, deletions, roll>> /\ pc \in {"rollZen1", "rollZen2"}
    BY <1>3 DEF RollZen1, RollZen2, MaybeUpdateZen1, AddToVotingConfigExclusions
  <2>2. RollZen1(p) => pc' \in {"delete", "rollZen2", "enable", "ready", "status"}
    BY RollZen1Leads
  <2>3. RollZen2(p) => pc' \in {"delete", "status"}
    BY AddToVotingConfigExclusionsQuiet DEF RollZen2
  <2> QED
    BY <1>3, <2>1, <2>2, <2>3
<1>4. CASE MaybeEnableShardsAllocation \/ FinishNodeSpecs
  BY <1>4 DEF MaybeEnableShardsAllocation, FinishNodeSpecs
<1> QED
  BY <1>1, <1>2, <1>3, <1>4 DEF Rollout

\* They keep the Pods as they were seen.
LEMMA PodsSelection ==
  ASSUME TypeOK, PodsInv, Rollout, ~HandleRollingUpgrades
  PROVE  PodsInv'
<1>1. /\ UNCHANGED <<sset, pod, cPod>>
      /\ deletions' = deletions \/ DropSatisfiedDeletions
      /\ pc' \notin Scaling \cup {"rolling"}
  BY SelectionSteps DEF Scaling, Early
<1>2. /\ PodsKnown' /\ ActualTracked' /\ PodsNamed' /\ PlanBounded'
      /\ \A p \in Pods : /\ Wanted(p)' <=> Wanted(p)
                         /\ Stable(p) => Stable(p)'
  BY <1>1, RolloutKnown
<1>3. PodsSelected'
  <2>1. CASE /\ pc = "select" /\ pc' \in {"select", "rollZen1", "panic"}
             /\ roll'.seen = roll.seen
             /\ Candidates' \subseteq Candidates
             /\ pc' = "rollZen1" => roll'.selected # {}
    <3>1. \A p \in Candidates : /\ p \in Pods /\ Wanted(p) /\ Stable(p)
                                /\ roll.seen[p].uid = pod[p].uid
      BY <2>1 DEF PodsInv, PodsSelected, Deleting
    <3>2. \A p \in Candidates' : /\ p \in Pods /\ Wanted(p)' /\ Stable(p)'
                                 /\ roll'.seen[p].uid = pod'[p].uid
      BY <1>1, <1>2, <2>1, <3>1
    <3>3. \A p \in Pods : Wanted(p)' => Stable(p)'
      BY <1>2, <2>1 DEF PodsInv, PodsSelected
    <3> QED
      BY <2>1, <3>2, <3>3 DEF PodsSelected
  <2>2. CASE /\ pc \in {"rollZen1", "rollZen2"} /\ pc' \in {"rollZen2", "delete", "status"}
             /\ roll' = roll
    <3>1. /\ roll.selected # {} /\ Candidates = roll.selected /\ Candidates' = roll.selected
          /\ \A p \in Candidates : /\ p \in Pods /\ Wanted(p) /\ Stable(p)
                                   /\ roll.seen[p].uid = pod[p].uid
      BY <2>2 DEF PodsInv, PodsSelected, Deleting, Candidates
    <3>2. \A p \in Candidates' : /\ p \in Pods /\ Wanted(p)' /\ Stable(p)'
                                 /\ roll'.seen[p].uid = pod'[p].uid
      BY <1>1, <1>2, <2>2, <3>1
    <3> QED
      BY <2>2, <3>1, <3>2 DEF PodsSelected
  <2>3. CASE pc' \in {"enable", "ready", "status"}
    BY <2>3 DEF PodsSelected, Deleting
  <2> QED
    BY <2>1, <2>2, <2>3, SelectionSteps
<1> QED
  BY <1>2, <1>3 DEF PodsInv

\* What a deletion does to the Pods: it is expected when it is accepted.
LEMMA DeletionSteps ==
  ASSUME TypeOK, PodsInv, FaultKinds \subseteq {"error"}, NEW p \in Pods,
         Delete(p) \/ ForceDelete(p)
  PROVE  /\ UNCHANGED <<sset, cPod>>
         /\ p \in roll.selected /\ Wanted(p) /\ Stable(p)
         /\ \/ UNCHANGED <<pod, deletions>> /\ pc' = "status"
            \/ /\ pod' = [pod EXCEPT ![p].terminating = TRUE]
               /\ deletions' = [deletions EXCEPT ![p] = {pod[p].uid}]
               /\ roll'.seen = roll.seen /\ roll'.selected = roll.selected \ {p}
               /\ \/ pc' = "ready"
                  \/ pc' = "rollZen1" /\ roll'.selected # {}
                  \/ pc' = "force"
<1>1. /\ UNCHANGED <<sset, cPod>> /\ pc \in Deleting /\ roll \in Rolling
      /\ deletions \in [Pods -> SUBSET Uids]
  BY DEF Delete, ForceDelete, Deleting, TypeOK, DriverTypeOK, ExpectationsTypeOK
<1>2. p \in roll.selected
  <2>1. Delete(p) => roll.selected # {} /\ p = FirstOf(roll.selected) /\ roll.selected \subseteq Pods
    BY <1>1 DEF Delete, PodsInv, PodsSelected, Rolling
  <2> QED
    BY <2>1, FirstOfBelongs DEF ForceDelete
<1>3. Wanted(p) /\ Stable(p) /\ roll.seen[p].uid = pod[p].uid
  BY <1>1, <1>2 DEF PodsInv, PodsSelected, Candidates
<1>4. Deletable(p) /\ deletions[p] = {}
  BY <1>3 DEF Deletable, Stable, Fresh
<1>5. Outcomes \subseteq {"ok", "error"}
  BY DEF Outcomes
<1>6. PICK o \in {"ok", "error"} :
        /\ DeletePod(p, o)
        /\ IF o = "ok"
             THEN /\ roll'.seen = roll.seen /\ roll'.selected = roll.selected \ {p}
                  /\ \/ pc' = "ready"
                     \/ pc' = "rollZen1" /\ roll'.selected # {}
                     \/ pc' = "force"
             ELSE pc' = "status"
  <2>1. CASE Delete(p)
    BY <1>1, <1>4, <1>5, <2>1 DEF Delete, Rolling
  <2>2. CASE ForceDelete(p)
    BY <1>1, <1>4, <1>5, <2>2 DEF ForceDelete, Rolling
  <2> QED
    BY <2>1, <2>2
<1>7. CASE o = "ok"
  BY <1>1, <1>2, <1>3, <1>4, <1>6, <1>7 DEF DeletePod, Deletable, ExpectDeletion
<1>8. CASE o = "error"
  BY <1>1, <1>2, <1>3, <1>4, <1>6, <1>8 DEF DeletePod, CancelExpectedDeletion
<1> QED
  BY <1>7, <1>8

\* The deletions of a rolling upgrade.
LEMMA PodsRemoval ==
  ASSUME TypeOK, PodsInv, FaultKinds \subseteq {"error"}, Removal
  PROVE  PodsInv'
<1>1. PICK p \in Pods : Delete(p) \/ ForceDelete(p)
  BY DEF Removal
<1>2. /\ UNCHANGED <<sset, cPod>>
      /\ p \in roll.selected /\ Wanted(p) /\ Stable(p)
      /\ \/ UNCHANGED <<pod, deletions>> /\ pc' = "status"
         \/ /\ pod' = [pod EXCEPT ![p].terminating = TRUE]
            /\ deletions' = [deletions EXCEPT ![p] = {pod[p].uid}]
            /\ roll'.seen = roll.seen /\ roll'.selected = roll.selected \ {p}
            /\ \/ pc' = "ready"
               \/ pc' = "rollZen1" /\ roll'.selected # {}
               \/ pc' = "force"
  BY <1>1, DeletionSteps
<1>3. /\ pod \in [Pods -> PodRecords] /\ deletions \in [Pods -> SUBSET Uids]
      /\ \A q \in Pods : Wanted(q)' <=> Wanted(q)
  BY <1>2 DEF TypeOK, KubernetesTypeOK, ExpectationsTypeOK, Wanted
<1>4. ASSUME NEW q \in Pods
      PROVE  PodKnown(q)' /\ (Stable(q) /\ q # p => Stable(q)' /\ pod'[q].uid = pod[q].uid)
  <2>1. PodKnown(q)
    BY DEF PodsInv, PodsKnown
  <2>2. CASE UNCHANGED <<pod, deletions>> \/ q # p
    <3>1. pod'[q] = pod[q] /\ deletions'[q] = deletions[q]
      BY <1>2, <1>3, <2>2
    <3> QED
      BY <1>2, <1>3, <2>1, <3>1 DEF PodKnown, Stable, Fresh
  <2>3. CASE q = p /\ pod' = [pod EXCEPT ![p].terminating = TRUE]
             /\ deletions' = [deletions EXCEPT ![p] = {pod[p].uid}]
    <3>1. /\ pod'[p].exists = pod[p].exists /\ pod'[p].uid = pod[p].uid
          /\ deletions'[p] = {pod[p].uid}
      BY <1>3, <2>3 DEF PodRecords
    <3> QED
      BY <1>2, <1>3, <2>3, <3>1 DEF PodKnown, Stable, Fresh, Wanted
  <2> QED
    BY <1>2, <2>2, <2>3
<1>5. pc \in Deleting /\ pc # "select" /\ pc' \in {"status", "ready", "rollZen1", "force"}
  BY <1>1, <1>2 DEF Delete, ForceDelete, Deleting
<1>6. \A q \in roll.selected : q \in Pods /\ Wanted(q) /\ Stable(q) /\ roll.seen[q].uid = pod[q].uid
  BY <1>5 DEF PodsInv, PodsSelected, Candidates
<1>7. PodsSelected'
  <2>1. CASE pc' \in {"status", "ready"}
    BY <2>1 DEF PodsSelected, Deleting
  <2>2. CASE pc' \in {"rollZen1", "force"}
    <3>1. /\ Candidates' = roll.selected \ {p} /\ roll'.seen = roll.seen
          /\ pc' = "rollZen1" => roll'.selected # {}
      BY <1>2, <2>2 DEF Candidates
    <3>2. \A q \in Candidates' : /\ q \in Pods /\ Wanted(q)' /\ Stable(q)'
                                 /\ roll'.seen[q].uid = pod'[q].uid
      BY <1>3, <1>4, <1>6, <3>1
    <3> QED
      BY <2>2, <3>1, <3>2 DEF PodsSelected
  <2> QED
    BY <1>5, <2>1, <2>2
<1> QED
  BY <1>4, <1>5, <1>7 DEF PodsInv, PodsKnown, ActualTracked, PodsNamed, PlanBounded, Scaling,
     Early, PlanLocations

\* The operator restarts after it crashed: it did while it selected the Pods to
\* delete, when all of them were there.
LEMMA PodsRecover ==
  ASSUME TypeOK, PodsInv, RecoverFromPanic
  PROVE  PodsInv'
<1>1. /\ pc = "panic" /\ pc' = "idle" /\ UNCHANGED <<sset, pod>> /\ cPod' = pod
  BY DEF RecoverFromPanic, Restart
<1>2. \A p \in Pods : Wanted(p) => pod[p].exists /\ ~pod[p].terminating
  BY <1>1 DEF PodsInv, PodsSelected, Stable, Fresh
<1>3. PodsKnown'
  BY <1>1, <1>2 DEF PodsInv, PodsKnown, PodKnown, Wanted, Fresh
<1> QED
  BY <1>1, <1>3 DEF PodsInv, ActualTracked, PodsNamed, PodsSelected, PlanBounded, Scaling,
     Early, Deleting, PlanLocations

\* Every step keeps what is known of the Pods.
LEMMA PodsStep ==
  ASSUME FaultKinds \subseteq {"error"}, ReadyInv, GoInv, GoInv', PodsInv, [Next]_vars
  PROVE  PodsInv'
<1>1. /\ TypeOK /\ DownscaleInProgress /\ PlanSound /\ CacheCurrent /\ ActualKnown
      /\ CacheKnown /\ "lost" \notin FaultKinds
  BY DEF ReadyInv, TypeInv
<1>2. ASSUME Worker PROVE PodsInv'
  <2>1. CASE \/ StartReconcile \/ ReconcileClusterUUID \/ RetrieveActualStatefulSets
             \/ UpdateStatus
    BY <1>1, <2>1, PodsOutside
  <2>2. CASE AwaitExpectations
    BY <1>1, <2>2, PodsAwait
  <2>3. CASE Decision
    <3>1. /\ Still /\ deletions' = deletions /\ pc \in Scaling
          /\ pc' \in Scaling \cup {"rolling", "status"}
          /\ SamePass(pass, pass')
      BY <1>1, <2>3, DecisionSteps
    <3>2. PodsKnown' /\ ActualTracked' /\ PodsNamed'
      BY <1>1, <3>1, PodsQuiet DEF Still, PodsInv
    <3>3. PlanBounded'
      BY <1>1, <2>3, PlanBoundedDecision DEF PodsInv
    <3>4. PodsSelected'
      BY <3>1 DEF PodsSelected, Scaling, Early, Deleting
    <3> QED
      BY <3>2, <3>3, <3>4 DEF PodsInv
  <2>4. ASSUME NEW s \in NodeSets, ApplyResource(s) PROVE PodsInv'
    BY <1>1, <2>4, PodsApply
  <2>5. CASE UpdateReplicas \/ RemoveStatefulSet
    BY <1>1, <2>5, PodsWrite
  <2>6. CASE HandleRollingUpgrades
    BY <1>1, <2>6, PodsUpgrade
  <2>7. CASE Rollout /\ ~HandleRollingUpgrades
    BY <1>1, <2>7, PodsSelection
  <2>8. CASE Removal
    BY <1>1, <2>8, PodsRemoval
  <2>9. CASE RecoverFromPanic
    BY <1>1, <2>9, PodsRecover
  <2> QED
    BY <1>2, <2>1, <2>2, <2>3, <2>4, <2>5, <2>6, <2>7, <2>8, <2>9, WorkerSteps
<1>3. ~OperatorRestarts
  BY DEF OperatorRestarts
<1>4. CASE \/ Surroundings \/ Watches \/ Observer
           \/ \E spec \in Specs : ChangeSpec(spec)
           \/ UNCHANGED vars
  BY <1>1, <1>4, PodsAround
<1> QED
  BY <1>2, <1>3, <1>4 DEF Next

\* A running cluster, all of whose Pods are there.
LEMMA PodsInit ==
  ASSUME Bootstrapped, Init
  PROVE  PodsInv
<1>1. /\ InitRunning /\ cPod = pod /\ pc = "idle"
      /\ deletions = [p \in Pods |-> {}]
  BY Zenon DEF Init, NoExpectations
<1>2. ASSUME NEW p \in Pods
      PROVE  /\ sset[p[1]].exists <=> p[1] \in InitialSpec.sets
             /\ p[1] \in InitialSpec.sets => sset[p[1]].replicas = InitialSpec.count[p[1]]
  <2>1. sset[p[1]] = IF p[1] \in InitialSpec.sets
                       THEN [NewStatefulSet(0, InitialSpec.count[p[1]], InitialSpec.tmpl[p[1]])
                               EXCEPT !.upd = InitialSpec.tmpl[p[1]]]
                       ELSE NoStatefulSet(0)
    BY <1>1, Zenon DEF InitRunning, Pods
  <2>2. \A n, u, v : /\ [NewStatefulSet(0, n, u) EXCEPT !.upd = v].exists
                     /\ [NewStatefulSet(0, n, u) EXCEPT !.upd = v].replicas = n
    BY DEF NewStatefulSet
  <2>3. ~NoStatefulSet(0).exists
    BY DEF NoStatefulSet
  <2> QED
    BY <2>1, <2>2, <2>3
<1>3. ASSUME NEW p \in Pods
      PROVE  /\ pod[p].exists <=> p \in InitialPods
             /\ ~pod[p].terminating
  <2>1. pod[p] = IF p \in InitialPods
                   THEN [NewPod(0, InitialSpec.tmpl[p[1]]) EXCEPT
                           !.phase = "Ready",
                           !.boot = IF p \in InitialMasters /\ MajorOf(InitialSpec) >= 7
                                      THEN InitialMasters ELSE {}]
                   ELSE NoPod(0)
    BY <1>1, Zenon DEF InitRunning
  <2>2. \A u, v : /\ [NewPod(0, u) EXCEPT !.phase = "Ready", !.boot = v].exists
                  /\ ~[NewPod(0, u) EXCEPT !.phase = "Ready", !.boot = v].terminating
    BY DEF NewPod
  <2>3. ~NoPod(0).exists /\ ~NoPod(0).terminating
    BY DEF NoPod
  <2> QED
    BY <2>1, <2>2, <2>3
<1>4. \A p \in Pods : Wanted(p) <=> pod[p].exists
  BY <1>2, <1>3 DEF Wanted, InitialPods
<1>5. PodsKnown
  BY <1>1, <1>2, <1>3, <1>4 DEF PodsKnown, PodKnown, Fresh, Wanted
<1> QED
  BY <1>1, <1>5 DEF PodsInv, ActualTracked, PodsNamed, PodsSelected, PlanBounded, Scaling,
     Early, Deleting, PlanLocations

-----------------------------------------------------------------------------
(***************************************************************************)
(* The masters that leave, when no edit changes the roles of a nodeSet.    *)
(***************************************************************************)
MasterSet(s) == InitialSpec.tmpl[s].master
RolesStay ==
  \A spec \in Specs : \A s \in spec.sets \cap InitialSpec.sets :
    spec.tmpl[s].master = MasterSet(s)

\* A StatefulSet, or a Pod, of the nodeSet s has the roles s started with.
HasRole(r, s) == r.exists => r.tmpl.master = MasterSet(s)
HasRoles(r, s) ==
  HasRole(r, s) /\ (r.exists /\ r.upd # NoRevision => r.upd.master = MasterSet(s))
Roles ==
  /\ \A s \in NodeSets : HasRoles(sset[s], s) /\ HasRole(cSset[s], s)
  /\ \A p \in Pods : HasRole(pod[p], p[1]) /\ HasRole(cPod[p], p[1])
  /\ pc \in {"expect"} \cup PhaseLocations =>
       \A s \in NodeSets : HasRole(pass.actual[s], s)

\* A master that leaves; a planned downscale that removes masters removes one, is
\* the only one that does, and there is none before it.
Leaving(p) == pod[p].exists /\ MasterSet(p[1]) /\ ~Wanted(p)
RemovesMaster(d) == MasterSet(d.set) /\ d.target < pass.actual[d.set].replicas
OneRemoval ==
  pc \in PlanLocations => \A i \in DOMAIN down.plan : RemovesMaster(down.plan[i]) =>
    /\ down.plan[i].target + 1 = pass.actual[down.plan[i].set].replicas
    /\ down.leaving
    /\ \A p \in Pods : ~Leaving(p)
    /\ \A j \in DOMAIN down.plan : RemovesMaster(down.plan[j]) => i = j
OneLeaves == \A p, q \in Pods : Leaving(p) /\ Leaving(q) => p = q

LeaveInv == Roles /\ OneRemoval /\ OneLeaves

-----------------------------------------------------------------------------
\* The StatefulSet controller publishes the revision of what is applied.
LEMMA AroundRevision ==
  ASSUME TypeOK,
         \/ Surroundings \/ Watches \/ Observer
         \/ \E spec \in Specs : ChangeSpec(spec)
         \/ UNCHANGED vars,
         NEW s \in NodeSets
  PROVE  sset'[s].upd \in {sset[s].upd, sset[s].tmpl}
<1>1. CASE Surroundings
  <2>1. \/ \E t \in NodeSets : PublishRevision(t)
        \/ UNCHANGED sset
    BY <1>1 DEF Surroundings, StatefulSetController, CreatePod, CondemnPod, Kubelet, StartPod,
       ReadyPod, NodeCrashes, CrashPod, NodeStops, RemovePod, Cluster, JoinCluster,
       StartFromDisk, RecoverStale, AllocateReplica, StartRelocation, FinishRecovery,
       FinishRelocation, kubernetesVars
  <2>2. ASSUME NEW t \in NodeSets, PublishRevision(t)
        PROVE  sset'[s].upd \in {sset[s].upd, sset[s].tmpl}
    BY <2>2 DEF PublishRevision, TypeOK, KubernetesTypeOK, StatefulSets
  <2> QED
    BY <2>1, <2>2
<1>2. CASE \/ Watches \/ Observer
           \/ \E spec \in Specs : ChangeSpec(spec)
           \/ UNCHANGED vars
  BY <1>2, OthersKeepSpecs
<1> QED
  BY <1>1, <1>2

\* What happens around the worker changes no role.
LEMMA RolesAround ==
  ASSUME TypeOK, Roles,
         \/ Surroundings \/ Watches \/ Observer
         \/ \E spec \in Specs : ChangeSpec(spec)
         \/ UNCHANGED vars
  PROVE  Roles'
<1>1. /\ UNCHANGED <<pc, pass>>
      /\ \A s \in NodeSets : SameSpec(sset[s], sset'[s])
      /\ cSset' = cSset \/ (cSset' = sset /\ sset' = sset)
  BY AroundSteps
<1>2. /\ \A p \in Pods : PodMove(p)
      /\ cPod' = cPod \/ (cPod' = pod /\ pod' = pod)
  BY AroundMoves
<1>3. \A s \in NodeSets : HasRoles(sset'[s], s) /\ HasRole(cSset'[s], s)
  <2> SUFFICES ASSUME NEW s \in NodeSets PROVE HasRoles(sset'[s], s) /\ HasRole(cSset'[s], s)
    OBVIOUS
  <2>1. HasRoles(sset[s], s) /\ HasRole(cSset[s], s)
    BY DEF Roles
  <2>2. sset'[s].upd \in {sset[s].upd, sset[s].tmpl} /\ SameSpec(sset[s], sset'[s])
    BY <1>1, AroundRevision
  <2>3. HasRoles(sset'[s], s)
    BY <2>1, <2>2 DEF HasRoles, HasRole, SameSpec
  <2>4. HasRole(cSset'[s], s)
    BY <1>1, <2>1 DEF HasRoles
  <2> QED
    BY <2>3, <2>4
<1>4. ASSUME NEW p \in Pods PROVE HasRole(pod'[p], p[1]) /\ HasRole(cPod'[p], p[1])
  <2>1. /\ HasRole(pod[p], p[1]) /\ HasRole(cPod[p], p[1])
        /\ HasRoles(sset[p[1]], p[1]) /\ PodMove(p)
    BY <1>2 DEF Roles, Pods
  <2>2. HasRole(pod'[p], p[1])
    BY <2>1 DEF PodMove, HasRoles, HasRole, Wanted
  <2> QED
    BY <1>2, <2>1, <2>2
<1>5. pc' \in {"expect"} \cup PhaseLocations => \A s \in NodeSets : HasRole(pass'.actual[s], s)
  BY <1>1 DEF Roles
<1> QED
  BY <1>3, <1>4, <1>5 DEF Roles

\* What the operator applies has the roles of the specification.
LEMMA RolesApply ==
  ASSUME TypeOK, RolesStay, CacheCurrent, GoInv, Roles, NEW s \in NodeSets, ApplyResource(s)
  PROVE  Roles'
<1>1. /\ pc = "apply" /\ s \in Desired.sets /\ sset[s].exists
      /\ UNCHANGED <<pod, cSset, cPod>>
      /\ pc' \in {"apply", "zen1", "rolling", "status"}
      /\ sset' = sset \/ sset' = [sset EXCEPT ![s] = Applied(s)]
      /\ pc' # "status" =>
           \E c : /\ pass'.actual = [pass.actual EXCEPT ![s] = c]
                  /\ c = Applied(s) \/ c = cSset[s]
  BY ApplySteps DEF GoInv
<1>2. Desired \in Specs /\ s \in InitialSpec.sets
  BY <1>1, PassParts DEF GoInv, Shrinking
<1>3. Applied(s).exists /\ Applied(s).tmpl = Desired.tmpl[s] /\ Applied(s).upd = sset[s].upd
  BY <1>1, AppliedReplicas
<1>4. Desired.tmpl[s].master = MasterSet(s)
  BY <1>1, <1>2 DEF RolesStay
<1>5. HasRoles(Applied(s), s) /\ HasRole(cSset[s], s)
  BY <1>1, <1>3, <1>4 DEF Roles, HasRoles, HasRole
<1>6. sset \in [NodeSets -> StatefulSets] /\ pass.actual \in [NodeSets -> StatefulSets]
  BY PassParts DEF TypeOK, KubernetesTypeOK
<1>7. \A t \in NodeSets : HasRoles(sset'[t], t)
  BY <1>1, <1>5, <1>6 DEF Roles
<1>8. pc' # "status" => \A t \in NodeSets : HasRole(pass'.actual[t], t)
  BY <1>1, <1>5, <1>6 DEF Roles, HasRoles, PhaseLocations, Locations
<1> QED
  BY <1>1, <1>7, <1>8 DEF Roles, PhaseLocations

\* A write of the downscale keeps the template the pass knows.
LEMMA RolesWrite ==
  ASSUME TypeOK, PlanSound, Roles, UpdateReplicas \/ RemoveStatefulSet
  PROVE  Roles'
<1> DEFINE s == Head(down.plan).set
           written == WrittenStatefulSet(sset[s], down.target, pass.actual[s].tmpl, FALSE)
<1>1. /\ s \in NodeSets
      /\ UNCHANGED <<pod, cSset, cPod>>
      /\ pc \in PhaseLocations /\ SamePass(pass, pass')
      /\ UpdateReplicas =>
           sset' = sset \/ (sset' = [sset EXCEPT ![s] = written] /\ sset[s] = pass.actual[s])
      /\ RemoveStatefulSet =>
           sset' \in {sset, [sset EXCEPT ![s] = NoStatefulSet(sset[s].uid)]}
  BY WriteSteps DEF PhaseLocations, Locations
<1>2. sset \in [NodeSets -> StatefulSets] /\ pass.actual \in [NodeSets -> StatefulSets]
  BY PassParts DEF TypeOK, KubernetesTypeOK
<1>3. sset[s] = pass.actual[s] => HasRoles(written, s)
  <2>1. /\ written.exists = sset[s].exists /\ written.upd = sset[s].upd
        /\ written.tmpl = pass.actual[s].tmpl
    BY <1>1, <1>2 DEF WrittenStatefulSet, StatefulSets
  <2>2. HasRoles(sset[s], s)
    BY <1>1 DEF Roles
  <2> HIDE DEF s, written
  <2> QED
    BY <2>1, <2>2 DEF HasRoles, HasRole
<1>4. HasRoles(NoStatefulSet(sset[s].uid), s)
  BY DEF NoStatefulSet, HasRoles, HasRole
<1> HIDE DEF s, written
<1>5. \A t \in NodeSets : HasRoles(sset'[t], t)
  BY <1>1, <1>2, <1>3, <1>4 DEF Roles
<1> QED
  BY <1>1, <1>5 DEF Roles, SamePass

\* Every other step of the worker leaves the roles alone.
LEMMA RolesQuiet ==
  ASSUME Roles, UNCHANGED <<sset, cSset, cPod>>,
         \A p \in Pods : pod'[p].exists = pod[p].exists /\ pod'[p].tmpl = pod[p].tmpl,
         pc' \in {"expect"} \cup PhaseLocations =>
           \/ pc \in {"expect"} \cup PhaseLocations /\ SamePass(pass, pass')
           \/ pass'.actual = cSset
  PROVE  Roles'
<1>1. pc' \in {"expect"} \cup PhaseLocations => \A s \in NodeSets : HasRole(pass'.actual[s], s)
  BY DEF Roles, SamePass
<1> QED
  BY <1>1 DEF Roles, HasRole, HasRoles

\* Deletions change no template.
LEMMA RolesRemoval ==
  ASSUME TypeOK, PodsInv, FaultKinds \subseteq {"error"}, Removal, NEW p \in Pods
  PROVE  /\ pod'[p].exists = pod[p].exists /\ pod'[p].tmpl = pod[p].tmpl
<1>1. PICK q \in Pods : Delete(q) \/ ForceDelete(q)
  BY DEF Removal
<1>2. pod' = pod \/ pod' = [pod EXCEPT ![q].terminating = TRUE]
  BY <1>1, DeletionSteps
<1> QED
  BY <1>2 DEF TypeOK, KubernetesTypeOK, PodRecords

\* Every step keeps the roles.
LEMMA RolesStep ==
  ASSUME FaultKinds \subseteq {"error"}, RolesStay, ReadyInv, GoInv, PodsInv, Roles, [Next]_vars
  PROVE  Roles'
<1>1. /\ TypeOK /\ DownscaleInProgress /\ PlanSound /\ CacheCurrent
  BY DEF ReadyInv, TypeInv
<1>2. ASSUME Worker PROVE Roles'
  <2>1. CASE \/ StartReconcile \/ ReconcileClusterUUID \/ RetrieveActualStatefulSets
             \/ UpdateStatus
    <3>1. /\ Still
          /\ pc' \in {"expect"} \cup PhaseLocations => pass'.actual = cSset
      BY <1>1, <2>1, OutsideSteps, PassParts DEF Passes, PhaseLocations
    <3> QED
      BY <3>1, RolesQuiet DEF Still
  <2>2. CASE AwaitExpectations
    <3>1. UNCHANGED <<sset, cSset, cPod, pod>> /\ pc = "expect" /\ SamePass(pass, pass')
      BY <1>1, <2>2, PassParts, PassKept DEF AwaitExpectations, kubernetesVars
    <3> QED
      BY <3>1, RolesQuiet
  <2>3. CASE Decision
    <3>1. Still /\ pc \in PhaseLocations /\ SamePass(pass, pass')
      BY <1>1, <2>3, DecisionSteps DEF Scaling, Early, PhaseLocations, Locations
    <3> QED
      BY <3>1, RolesQuiet DEF Still
  <2>4. ASSUME NEW s \in NodeSets, ApplyResource(s) PROVE Roles'
    BY <1>1, <2>4, RolesApply
  <2>5. CASE UpdateReplicas \/ RemoveStatefulSet
    BY <1>1, <2>5, RolesWrite
  <2>6. CASE Rollout
    <3>1. UNCHANGED <<sset, cSset, cPod, pod>> /\ pc \in PhaseLocations /\ SamePass(pass, pass')
      BY <1>1, <2>6, RolloutSteps
    <3> QED
      BY <3>1, RolesQuiet
  <2>7. CASE Removal
    <3>1. UNCHANGED <<sset, cSset, cPod>> /\ pc \in PhaseLocations /\ SamePass(pass, pass')
      BY <1>1, <2>7, RolloutSteps
    <3>2. \A p \in Pods : pod'[p].exists = pod[p].exists /\ pod'[p].tmpl = pod[p].tmpl
      BY <1>1, <2>7, RolesRemoval
    <3> QED
      BY <3>1, <3>2, RolesQuiet
  <2>8. CASE RecoverFromPanic
    BY <2>8 DEF RecoverFromPanic, Restart, Roles, HasRoles, PhaseLocations
  <2> QED
    BY <1>2, <2>1, <2>2, <2>3, <2>4, <2>5, <2>6, <2>7, <2>8, WorkerSteps
<1>3. ~OperatorRestarts
  BY DEF OperatorRestarts
<1>4. CASE \/ Surroundings \/ Watches \/ Observer
           \/ \E spec \in Specs : ChangeSpec(spec)
           \/ UNCHANGED vars
  BY <1>1, <1>4, RolesAround
<1> QED
  BY <1>2, <1>3, <1>4 DEF Next

-----------------------------------------------------------------------------
(***************************************************************************)
(* One master leaves.                                                      *)
(***************************************************************************)
\* A step after which no other Pod leaves, and that keeps the plan or drops it.
LEMMA LeaveQuiet ==
  ASSUME OneRemoval, OneLeaves, \A p \in Pods : Leaving(p)' => Leaving(p),
         pc' \in PlanLocations => pc \in PlanLocations /\ SamePass(pass, pass')
                                  /\ down'.plan = down.plan /\ down'.leaving = down.leaving
  PROVE  OneRemoval' /\ OneLeaves'
<1>1. OneLeaves'
  BY DEF OneLeaves
<1>2. ASSUME pc' \in PlanLocations PROVE OneRemoval'
  <2>1. \A d : RemovesMaster(d)' <=> RemovesMaster(d)
    BY <1>2 DEF RemovesMaster, SamePass
  <2> QED
    BY <1>2, <2>1 DEF OneRemoval, SamePass
<1> QED
  BY <1>1, <1>2 DEF OneRemoval

\* What happens around the worker makes no other Pod leave.
LEMMA LeaveAround ==
  ASSUME TypeOK, OneRemoval, OneLeaves,
         \/ Surroundings \/ Watches \/ Observer
         \/ \E spec \in Specs : ChangeSpec(spec)
         \/ UNCHANGED vars
  PROVE  OneRemoval' /\ OneLeaves'
<1>1. \A p \in Pods : PodMove(p) /\ (Wanted(p)' <=> Wanted(p))
  BY AroundMoves
<1>2. \A p \in Pods : Leaving(p)' => Leaving(p)
  BY <1>1 DEF PodMove, Leaving
<1>3. UNCHANGED <<pc, pass, down>>
  BY AroundSteps
<1> QED
  BY <1>2, <1>3, LeaveQuiet DEF SamePass

\* When the downscale starts, no Pod is left of what is not wanted.
LEMMA NoneLeaves ==
  ASSUME TypeOK, GoInv, PodsInv, pc \in Early, NEW p \in Pods
  PROVE  ~Leaving(p)
<1>1. p[1] \in NodeSets /\ PodNamed(p) /\ Current(pass.actual[p[1]], sset[p[1]])
  BY DEF GoInv, EarlyCurrent, PodsInv, PodsNamed, Scaling, Pods
<1>2. sset[p[1]].exists => pass.actual[p[1]].exists
  BY <1>1 DEF GoInv, Shrinking, Early, PhaseLocations, Locations
<1>3. Wanted(p) <=> Named(p)
  BY <1>1, <1>2, WantedNamed
<1> QED
  BY <1>1, <1>3 DEF PodNamed, Leaving

\* The plan removes at most one master.
LEMMA LeaveDecision ==
  ASSUME TypeOK, DownscaleInProgress, PlanSound, GoInv, PodsInv, Roles, OneRemoval, OneLeaves,
         Decision
  PROVE  OneRemoval' /\ OneLeaves'
<1>1. Still /\ SamePass(pass, pass') /\ pc \in PhaseLocations
  BY DecisionSteps DEF Scaling, Early, PhaseLocations, Locations
<1>2. \A p \in Pods : Leaving(p)' <=> Leaving(p)
  BY <1>1 DEF Still, Leaving, Wanted
<1>3. OneLeaves'
  BY <1>2 DEF OneLeaves
<1>4. \A d : RemovesMaster(d)' <=> RemovesMaster(d)
  BY <1>1 DEF RemovesMaster, SamePass
<1>5. down \in Downscaling /\ down.plan \in Seq(Plans)
  BY DEF TypeOK, DriverTypeOK, Downscaling
<1> SUFFICES ASSUME pc' \in PlanLocations PROVE OneRemoval'
  BY <1>3 DEF OneRemoval
<1>6. CASE down'.plan = <<>>
  BY <1>6 DEF OneRemoval
<1>7. CASE /\ pc \in PlanLocations /\ down'.plan = down.plan /\ down'.leaving = down.leaving
  BY <1>1, <1>2, <1>7, LeaveQuiet
<1>8. ASSUME NEW s \in Downscales, CheckDownscaleInvariants(s), pc = "calculate",
             down' = RecordRemoval(s, ToRemove(s))
      PROVE  OneRemoval'
  <2> DEFINE n == ToRemove(s)
             d == [set |-> s, target |-> pass.actual[s].replicas - n]
  <2>1. /\ s \in NodeSets /\ pass.actual[s].exists
        /\ n \in Nat /\ n <= pass.actual[s].replicas - FinalReplicas(s)
        /\ pass.actual[s].tmpl.master => n <= 1
        /\ pass.actual[s].replicas \in 0 .. MaxReplicas /\ FinalReplicas(s) \in Nat
    BY <1>8, ToRemoveLimits, FinalReplicasType, PassParts DEF Downscales, StatefulSets
  <2>2. pass.actual[s].tmpl.master = MasterSet(s)
    BY <1>1, <2>1 DEF Roles, HasRole
  <2>3. d \in Plans
    BY <2>1, MaxReplicasAssumption DEF Plans
  <2>4. /\ down'.plan = Append(down.plan, d)
        /\ down.leaving \/ (n > 0 /\ pass.actual[s].tmpl.master) => down'.leaving
    BY <1>5, <1>8 DEF RecordRemoval, Downscaling
  <2>5. RemovesMaster(d) => /\ n = 1 /\ pass.actual[s].tmpl.master
                            /\ d.target + 1 = pass.actual[s].replicas
                            /\ d.set = s
    BY <2>1, <2>2 DEF RemovesMaster
  <2>6. pass.actual[s].tmpl.master => ~down.leaving
    BY <1>8 DEF CheckDownscaleInvariants
  <2> HIDE DEF d, n
  <2>7. \A i \in DOMAIN down'.plan :
          \/ i \in DOMAIN down.plan /\ down'.plan[i] = down.plan[i]
          \/ i = Len(down.plan) + 1 /\ i \notin DOMAIN down.plan /\ down'.plan[i] = d
    BY <1>5, <2>3, <2>4, PlanParts
  <2>8. \A i \in DOMAIN down.plan : RemovesMaster(down.plan[i]) =>
          /\ down.plan[i].target + 1 = pass.actual[down.plan[i].set].replicas
          /\ down.leaving
          /\ \A j \in DOMAIN down.plan : RemovesMaster(down.plan[j]) => i = j
    BY <1>8 DEF OneRemoval, PlanLocations
  <2>9. \A p \in Pods : ~Leaving(p)'
    BY <1>2, <1>8, NoneLeaves DEF Early
  <2>10. RemovesMaster(d) => down'.leaving /\ \A i \in DOMAIN down.plan : ~RemovesMaster(down.plan[i])
    <3> SUFFICES ASSUME RemovesMaster(d)
                 PROVE  down'.leaving /\ \A i \in DOMAIN down.plan : ~RemovesMaster(down.plan[i])
      OBVIOUS
    <3>1. n > 0 /\ pass.actual[s].tmpl.master
      BY <2>5
    <3>2. down'.leaving
      BY <2>4, <3>1
    <3>3. ~down.leaving
      BY <2>6, <3>1
    <3> QED
      BY <2>8, <3>2, <3>3
  <2>11. ASSUME NEW i \in DOMAIN down'.plan, RemovesMaster(down'.plan[i])
         PROVE  /\ down'.plan[i].target + 1 = pass.actual[down'.plan[i].set].replicas
                /\ down'.leaving
                /\ \A j \in DOMAIN down'.plan : RemovesMaster(down'.plan[j]) => i = j
    <3>1. CASE i \in DOMAIN down.plan /\ down'.plan[i] = down.plan[i]
      BY <2>4, <2>7, <2>8, <2>10, <2>11, <3>1
    <3>2. CASE i = Len(down.plan) + 1 /\ down'.plan[i] = d
      BY <2>5, <2>7, <2>10, <2>11, <3>2
    <3> QED
      BY <2>7, <3>1, <3>2
  <2> QED
    BY <1>1, <1>4, <2>9, <2>11 DEF OneRemoval, SamePass
<1>9. CASE pc = "attempt" /\ down.plan # <<>> /\ down' = Advance
  <2>1. down'.plan = Tail(down.plan) /\ down'.leaving = down.leaving
    BY <1>5, <1>9 DEF Advance, Downscaling
  <2>2. \A i \in DOMAIN down'.plan : /\ i \in Nat /\ i + 1 \in DOMAIN down.plan
                                     /\ down'.plan[i] = down.plan[i + 1]
    BY <1>5, <1>9, <2>1, PlanParts
  <2>3. ASSUME NEW i \in DOMAIN down'.plan, RemovesMaster(down'.plan[i])
        PROVE  /\ down'.plan[i].target + 1 = pass.actual[down'.plan[i].set].replicas
               /\ down'.leaving
               /\ \A p \in Pods : ~Leaving(p)'
               /\ \A j \in DOMAIN down'.plan : RemovesMaster(down'.plan[j]) => i = j
    <3>1. /\ i + 1 \in DOMAIN down.plan /\ RemovesMaster(down.plan[i + 1]) /\ i \in Nat
      BY <2>2, <2>3
    <3>2. /\ down.plan[i + 1].target + 1 = pass.actual[down.plan[i + 1].set].replicas
          /\ down.leaving /\ \A p \in Pods : ~Leaving(p)
          /\ \A j \in DOMAIN down.plan : RemovesMaster(down.plan[j]) => i + 1 = j
      BY <1>9, <3>1 DEF OneRemoval, PlanLocations
    <3>3. \A j \in DOMAIN down'.plan : RemovesMaster(down'.plan[j]) => i + 1 = j + 1
      BY <2>2, <3>2
    <3> QED
      BY <1>2, <2>1, <2>2, <3>1, <3>2, <3>3
  <2> QED
    BY <1>1, <1>4, <2>3 DEF OneRemoval, SamePass
<1>10. \/ down'.plan = <<>>
       \/ /\ pc \in PlanLocations /\ down'.plan = down.plan /\ down'.leaving = down.leaving
       \/ \E s \in Downscales : /\ CheckDownscaleInvariants(s) /\ pc = "calculate"
                                /\ down' = RecordRemoval(s, ToRemove(s))
       \/ pc = "attempt" /\ down.plan # <<>> /\ down' = Advance
  <2>1. NoDown \in [removals : Int, masters : Int, leaving : BOOLEAN, todo : SUBSET NodeSets,
                     plan : {<<>>}, nodes : {{}}, target : Nat]
    BY DEF NoDown
  <2>2. CASE pc = "downscale"
    <3>1. down' = [NoDown EXCEPT !.removals = RemovalsAllowed,
                                 !.masters = Cardinality(ReadyNodes \cap Masters),
                                 !.todo = Downscales]
      BY <2>2, PlanSteps
    <3> QED
      BY <2>1, <3>1
  <2>3. \A t : [down EXCEPT !.todo = t].plan = down.plan /\ [down EXCEPT !.todo = t].leaving = down.leaving
    BY <1>5 DEF Downscaling
  <2>4. \A t : [down EXCEPT !.target = t].plan = down.plan /\ [down EXCEPT !.target = t].leaving = down.leaving
    BY <1>5 DEF Downscaling
  <2>5. CASE \/ pc \in {"dsZen1", "dsZen2"}
             \/ pc = "calculate" /\ pc' = "attempt"
    BY <2>5, PlanSteps DEF PlanLocations
  <2>6. CASE pc = "calculate" /\ pc' = "calculate"
    <3>1. \E s \in Downscales :
             \/ down' = [down EXCEPT !.todo = @ \ {s}]
             \/ CheckDownscaleInvariants(s) /\ down' = RecordRemoval(s, ToRemove(s))
      BY <2>6, PlanSteps
    <3> QED
      BY <2>3, <2>6, <3>1 DEF PlanLocations
  <2>7. CASE pc = "attempt" /\ ~(down.plan # <<>> /\ down' = Advance)
    <3>1. down' = down \/ \E t : down' = [down EXCEPT !.target = t]
      BY <2>7, PlanSteps
    <3> QED
      BY <2>4, <2>7, <3>1 DEF PlanLocations
  <2>8. \/ pc = "downscale" \/ pc \in {"dsZen1", "dsZen2"}
        \/ pc = "calculate" /\ pc' = "attempt"
        \/ pc = "calculate" /\ pc' = "calculate"
        \/ pc = "attempt"
    BY PlanSteps
  <2> QED
    BY <2>2, <2>5, <2>6, <2>7, <2>8
<1> QED
  BY <1>6, <1>7, <1>8, <1>9, <1>10

\* The downscale of a nodeSet of masters makes one of them leave.
LEMMA LeaveWrite ==
  ASSUME TypeOK, DownscaleInProgress, PlanSound, PodsInv, Roles, OneRemoval, OneLeaves,
         UpdateReplicas \/ RemoveStatefulSet
  PROVE  OneRemoval' /\ OneLeaves'
<1> DEFINE d == Head(down.plan)
           s == d.set
<1>1. /\ s \in NodeSets /\ down.plan # <<>> /\ UNCHANGED pod
      /\ pc \in PlanLocations /\ pc' \in {"attempt", "status"}
      /\ SamePass(pass, pass') /\ down' = Advance /\ down'.plan = Tail(down.plan)
      /\ UpdateReplicas => pc = "dsUpdate"
  BY WriteSteps DEF PlanLocations
<1>2. /\ down \in Downscaling /\ down.plan \in Seq(Plans) /\ down.plan[1] = d
      /\ 1 \in DOMAIN down.plan /\ d \in Plans
  BY <1>1, PlanParts, PlanTypes DEF TypeOK, DriverTypeOK, Downscaling
<1>3. down'.leaving = down.leaving
  BY <1>1, <1>2 DEF Advance, Downscaling
<1>4. \A e : RemovesMaster(e)' <=> RemovesMaster(e)
  BY <1>1 DEF RemovesMaster, SamePass
<1>5. \A i \in DOMAIN down'.plan : /\ i \in Nat /\ i + 1 \in DOMAIN down.plan /\ i + 1 # 1
                                   /\ down'.plan[i] = down.plan[i + 1]
  BY <1>1, <1>2, PlanParts
<1>6. \A p \in Pods : Leaving(p)' /\ ~Leaving(p) =>
        UpdateReplicas /\ p[1] = s /\ p \in RemovedNodes /\ MasterSet(s)
  <2> SUFFICES ASSUME NEW p \in Pods, Leaving(p)', ~Leaving(p)
               PROVE  UpdateReplicas /\ p[1] = s /\ p \in RemovedNodes /\ MasterSet(s)
    OBVIOUS
  <2>1. Wanted(p) /\ ~Wanted(p)' /\ MasterSet(p[1])
    BY <1>1 DEF Leaving
  <2> QED
    BY <2>1, WritePod
<1>7. UpdateReplicas /\ MasterSet(s) =>
        /\ RemovesMaster(d) /\ down.target = d.target
        /\ \A p \in RemovedNodes : p[1] = s /\ p[2] = d.target
  <2> SUFFICES ASSUME UpdateReplicas, MasterSet(s)
               PROVE  /\ RemovesMaster(d) /\ down.target = d.target
                      /\ \A p \in RemovedNodes : p[1] = s /\ p[2] = d.target
    OBVIOUS
  <2>1. down.target >= d.target /\ down.target < pass.actual[s].replicas
    BY <1>1 DEF PodsInv, PlanBounded, PlanLocations
  <2>2. /\ down.target \in Nat /\ d.target \in Nat /\ pass.actual[s].replicas \in Nat
    BY <1>1, <1>2, PassParts DEF Downscaling, Plans, StatefulSets
  <2>3. RemovesMaster(d)
    BY <2>1, <2>2 DEF RemovesMaster
  <2>4. d.target + 1 = pass.actual[s].replicas
    BY <1>1, <1>2, <2>3 DEF OneRemoval
  <2>5. \A p \in RemovedNodes : /\ p[1] = s /\ p[2] \in Nat /\ p[2] >= down.target
                                /\ p[2] < pass.actual[s].replicas
    BY DEF RemovedNodes, PlannedNodes, Pods, Ordinals
  <2> QED
    BY <2>1, <2>2, <2>3, <2>4, <2>5
<1>8. UpdateReplicas /\ MasterSet(s) => \A p \in Pods : ~Leaving(p)
  BY <1>1, <1>2, <1>7 DEF OneRemoval
<1> HIDE DEF d, s
<1>9. OneLeaves'
  <2> SUFFICES ASSUME NEW p \in Pods, NEW q \in Pods, Leaving(p)', Leaving(q)' PROVE p = q
    BY DEF OneLeaves
  <2>1. CASE Leaving(p) /\ Leaving(q)
    BY <2>1 DEF OneLeaves
  <2>2. CASE ~Leaving(p) \/ ~Leaving(q)
    <3>1. UpdateReplicas /\ MasterSet(s)
      BY <1>6, <2>2
    <3>2. p \in RemovedNodes /\ q \in RemovedNodes
      BY <1>6, <1>8, <3>1
    <3>3. p[1] = q[1] /\ p[2] = q[2]
      BY <1>7, <3>1, <3>2
    <3> QED
      BY <3>3 DEF Pods
  <2> QED
    BY <2>1, <2>2
<1>10. ASSUME pc' = "attempt" PROVE OneRemoval'
  <2>1. ASSUME NEW i \in DOMAIN down'.plan, RemovesMaster(down'.plan[i])
        PROVE  /\ down'.plan[i].target + 1 = pass.actual[down'.plan[i].set].replicas
               /\ down'.leaving
               /\ \A p \in Pods : ~Leaving(p)'
               /\ \A j \in DOMAIN down'.plan : RemovesMaster(down'.plan[j]) => i = j
    <3>1. /\ i + 1 \in DOMAIN down.plan /\ RemovesMaster(down.plan[i + 1]) /\ i \in Nat
          /\ i + 1 # 1
      BY <1>5, <2>1
    <3>2. /\ down.plan[i + 1].target + 1 = pass.actual[down.plan[i + 1].set].replicas
          /\ down.leaving /\ \A p \in Pods : ~Leaving(p)
          /\ \A j \in DOMAIN down.plan : RemovesMaster(down.plan[j]) => i + 1 = j
      BY <1>1, <3>1 DEF OneRemoval
    <3>3. \A j \in DOMAIN down'.plan : RemovesMaster(down'.plan[j]) => i + 1 = j + 1
      BY <1>5, <3>2
    <3>4. ~RemovesMaster(d)
      BY <1>2, <3>1, <3>2
    <3>5. \A p \in Pods : ~Leaving(p)'
      BY <1>6, <1>7, <3>2, <3>4
    <3> QED
      BY <1>3, <1>5, <3>1, <3>2, <3>3, <3>5
  <2> QED
    BY <1>1, <1>4, <2>1 DEF OneRemoval, SamePass
<1> QED
  BY <1>1, <1>9, <1>10 DEF OneRemoval, PlanLocations

\* Every step keeps it.
LEMMA LeaveStep ==
  ASSUME FaultKinds \subseteq {"error"}, RolesStay, ReadyInv, GoInv, PodsInv, LeaveInv,
         [Next]_vars
  PROVE  LeaveInv'
<1>1. /\ TypeOK /\ DownscaleInProgress /\ PlanSound /\ CacheCurrent
      /\ Roles /\ OneRemoval /\ OneLeaves
  BY DEF ReadyInv, TypeInv, LeaveInv
<1>2. Roles'
  BY <1>1, RolesStep
<1>3. ASSUME Worker PROVE OneRemoval' /\ OneLeaves'
  <2>1. CASE \/ StartReconcile \/ ReconcileClusterUUID \/ RetrieveActualStatefulSets
             \/ UpdateStatus
    <3>1. Still /\ pc' \notin PlanLocations
      BY <1>1, <2>1, OutsideSteps DEF PlanLocations
    <3>2. \A p \in Pods : Leaving(p)' => Leaving(p)
      BY <3>1 DEF Still, Leaving, Wanted
    <3> QED
      BY <1>1, <3>1, <3>2, LeaveQuiet
  <2>2. CASE AwaitExpectations \/ RecoverFromPanic
    <3>1. UNCHANGED <<sset, pod>> /\ pc' \notin PlanLocations
      BY <2>2 DEF AwaitExpectations, RecoverFromPanic, Restart, kubernetesVars, PlanLocations
    <3>2. \A p \in Pods : Leaving(p)' => Leaving(p)
      BY <3>1 DEF Leaving, Wanted
    <3> QED
      BY <1>1, <3>1, <3>2, LeaveQuiet
  <2>3. CASE Decision
    BY <1>1, <2>3, LeaveDecision
  <2>4. ASSUME NEW s \in NodeSets, ApplyResource(s) PROVE OneRemoval' /\ OneLeaves'
    <3>1. UNCHANGED pod /\ pc = "apply" /\ pc' \notin PlanLocations
      BY <1>1, <2>4, ApplySteps DEF GoInv, PlanLocations
    <3>2. WantedPods \subseteq WantedPods'
      BY <3>1, UpscaleGrows
    <3>3. \A p \in Pods : Leaving(p)' => Leaving(p)
      BY <3>1, <3>2 DEF Leaving, WantedPods
    <3> QED
      BY <1>1, <3>1, <3>3, LeaveQuiet
  <2>5. CASE UpdateReplicas \/ RemoveStatefulSet
    BY <1>1, <2>5, LeaveWrite
  <2>6. CASE Rollout \/ Removal
    <3>1. UNCHANGED sset /\ pc' \notin PlanLocations
      BY <1>1, <2>6, RolloutSteps DEF Scaling, Early, PlanLocations, PhaseLocations
    <3>2. \A p \in Pods : pod'[p].exists = pod[p].exists
      BY <1>1, <2>6, RolloutSteps, RolesRemoval
    <3>3. \A p \in Pods : Leaving(p)' => Leaving(p)
      BY <3>1, <3>2 DEF Leaving, Wanted
    <3> QED
      BY <1>1, <3>1, <3>3, LeaveQuiet
  <2> QED
    BY <1>3, <2>1, <2>2, <2>3, <2>4, <2>5, <2>6, WorkerSteps
<1>4. ~OperatorRestarts
  BY DEF OperatorRestarts
<1>5. ASSUME \/ Surroundings \/ Watches \/ Observer
             \/ \E spec \in Specs : ChangeSpec(spec)
             \/ UNCHANGED vars
      PROVE  OneRemoval' /\ OneLeaves'
  BY <1>1, <1>5, LeaveAround
<1>6. \/ Worker
      \/ Surroundings \/ Watches \/ Observer
      \/ \E spec \in Specs : ChangeSpec(spec)
      \/ UNCHANGED vars
  BY <1>4 DEF Next
<1>7. OneRemoval' /\ OneLeaves'
  BY <1>3, <1>5, <1>6
<1> QED
  BY <1>2, <1>7 DEF LeaveInv

\* A running cluster has no Pod too many.
LEMMA NoneLeavesInit ==
  ASSUME Bootstrapped, Init, NEW p \in Pods
  PROVE  ~Leaving(p)
<1>0. InitRunning
  BY Zenon DEF Init
<1> SUFFICES ASSUME pod[p].exists PROVE Wanted(p)
  BY DEF Leaving
<1>1. PodKnown(p)
  BY PodsInit DEF PodsInv, PodsKnown
<1>2. /\ sset[p[1]] = IF p[1] \in InitialSpec.sets
                     THEN [NewStatefulSet(0, InitialSpec.count[p[1]], InitialSpec.tmpl[p[1]])
                             EXCEPT !.upd = InitialSpec.tmpl[p[1]]]
                     ELSE NoStatefulSet(0)
      /\ pod[p] = IF p \in InitialPods
                 THEN [NewPod(0, InitialSpec.tmpl[p[1]]) EXCEPT
                         !.phase = "Ready",
                         !.boot = IF p \in InitialMasters /\ MajorOf(InitialSpec) >= 7
                                    THEN InitialMasters ELSE {}]
                 ELSE NoPod(0)
  BY <1>0, Zenon DEF InitRunning, Pods
<1>3. p[1] \in InitialSpec.sets /\ p[2] < InitialSpec.count[p[1]]
  BY <1>2 DEF NoPod, InitialPods
<1>4. \A n, u, v : /\ [NewStatefulSet(0, n, u) EXCEPT !.upd = v].exists
                   /\ [NewStatefulSet(0, n, u) EXCEPT !.upd = v].replicas = n
  BY DEF NewStatefulSet
<1> QED
  BY <1>2, <1>3, <1>4 DEF Wanted

\* A running cluster has the roles it started with.
LEMMA LeaveInit ==
  ASSUME Bootstrapped, Init
  PROVE  LeaveInv
<1>1. /\ InitRunning /\ cPod = pod /\ cSset = sset /\ pc = "idle"
  BY Zenon DEF Init
<1>2. ASSUME NEW s \in NodeSets PROVE HasRoles(sset[s], s)
  <2>1. sset[s] = IF s \in InitialSpec.sets
                       THEN [NewStatefulSet(0, InitialSpec.count[s], InitialSpec.tmpl[s])
                               EXCEPT !.upd = InitialSpec.tmpl[s]]
                       ELSE NoStatefulSet(0)
    BY <1>1, Zenon DEF InitRunning
  <2>2. \A n, u : /\ [NewStatefulSet(0, n, u) EXCEPT !.upd = u].tmpl = u
                  /\ [NewStatefulSet(0, n, u) EXCEPT !.upd = u].upd = u
    BY DEF NewStatefulSet
  <2>3. ~NoStatefulSet(0).exists
    BY DEF NoStatefulSet
  <2>4. CASE s \in InitialSpec.sets
    BY <2>1, <2>2, <2>4 DEF HasRoles, HasRole, MasterSet
  <2>5. CASE s \notin InitialSpec.sets
    BY <2>1, <2>3, <2>5 DEF HasRoles, HasRole
  <2> QED
    BY <2>4, <2>5
<1>3. ASSUME NEW p \in Pods PROVE HasRole(pod[p], p[1])
  <2>1. pod[p] = IF p \in InitialPods
                   THEN [NewPod(0, InitialSpec.tmpl[p[1]]) EXCEPT
                           !.phase = "Ready",
                           !.boot = IF p \in InitialMasters /\ MajorOf(InitialSpec) >= 7
                                      THEN InitialMasters ELSE {}]
                   ELSE NoPod(0)
    BY <1>1, Zenon DEF InitRunning
  <2>2. \A u, v : [NewPod(0, u) EXCEPT !.phase = "Ready", !.boot = v].tmpl = u
    BY DEF NewPod
  <2>3. ~NoPod(0).exists
    BY DEF NoPod
  <2> QED
    BY <2>1, <2>2, <2>3 DEF HasRole, MasterSet
<1>4. Roles
  BY <1>1, <1>2, <1>3 DEF Roles, HasRoles, PhaseLocations
<1>5. \A p \in Pods : ~Leaving(p)
  BY NoneLeavesInit
<1> QED
  BY <1>1, <1>4, <1>5 DEF LeaveInv, OneRemoval, OneLeaves, PlanLocations

\* At most one of them, counted.
LEMMA OneLeavesCount ==
  ASSUME Roles, OneLeaves
  PROVE  OneMasterLeavesAtATime
<1> DEFINE L == {p \in Existing(pod) : IsMaster(p) /\ ~Wanted(p)}
<1>1. \A p \in L : p \in Pods /\ Leaving(p)
  BY DEF Existing, IsMaster, Roles, HasRole, Leaving
<1>2. \A p, q \in L : p = q
  BY <1>1 DEF OneLeaves
<1>3. CASE L = {}
  BY <1>3, FS_EmptySet DEF OneMasterLeavesAtATime
<1>4. CASE L # {}
  <2>1. PICK p \in L : TRUE
    BY <1>4
  <2>2. L = {p}
    BY <1>2, <2>1
  <2> HIDE DEF L
  <2>3. Cardinality(L) = 1
    BY <2>2, FS_Singleton
  <2> QED
    BY <2>3 DEF OneMasterLeavesAtATime, L
<1> QED
  BY <1>3, <1>4

\* From a running cluster, while the user only takes nodeSets away and changes the
\* roles of none, masters leave one at a time: not after failed calls, reads of a
\* stale cache, edits of the other fields of the specification or crashes of the
\* operator in the selection of Pods, as long as every call that fails has no effect
\* and the operator is not restarted otherwise (driver/downscale.go,
\* downscale_invariants.go).
THEOREM MastersLeaveOneByOne ==
  Bootstrapped /\ FaultKinds \subseteq {"error"} /\ RolesStay
    => (Spec /\ NodeSetsOnlyGo => []OneMasterLeavesAtATime)
<1> SUFFICES ASSUME Bootstrapped, FaultKinds \subseteq {"error"}, RolesStay
             PROVE  Spec /\ NodeSetsOnlyGo => []OneMasterLeavesAtATime
  OBVIOUS
<1> DEFINE Inv == ReadyInv /\ GoInv /\ PodsInv /\ LeaveInv
<1>1. Init => Inv
  BY ReadyInit, GoInit, PodsInit, LeaveInit
<1>2. Inv /\ [Next]_vars /\ [OnlyGo]_es => Inv'
  <2> SUFFICES ASSUME Inv, [Next]_vars, [OnlyGo]_es PROVE Inv'
    OBVIOUS
  <2>1. ReadyInv' /\ GoInv'
    BY ReadyStep, GoStep DEF OnlyGo
  <2> QED
    BY <2>1, PodsStep, LeaveStep
<1>3. Inv => OneMasterLeavesAtATime
  BY OneLeavesCount DEF LeaveInv
<1> QED
  BY <1>1, <1>2, <1>3, PTL DEF Spec, NodeSetsOnlyGo

-----------------------------------------------------------------------------
(***************************************************************************)
(* The voting configuration of a cluster that runs version 7 or above.     *)
(***************************************************************************)
NoZen1 == \A t \in Templates : t.major >= 7

\* A master that leaves is excluded, the ones a downscale is about to remove are,
\* and a node of the cluster has its Pod.
LeavingExcluded == \A p \in Pods : Leaving(p) => p \in voting
RemovedExcluded ==
  pc = "dsUpdate" /\ MasterSet(Head(down.plan).set) =>
    \A p \in RemovedNodes : Wanted(p) => p \in voting
JoinedExist == \A p \in joined : pod[p].exists

VotingInv == LeavingExcluded /\ RemovedExcluded /\ JoinedExist

-----------------------------------------------------------------------------
\* A step that excludes as many nodes as before, and makes no other Pod leave.
LEMMA VotingQuiet ==
  ASSUME LeavingExcluded, JoinedExist, voting \subseteq voting', joined' = joined,
         \A p \in Pods : /\ Leaving(p)' => Leaving(p)
                         /\ pod[p].exists => pod'[p].exists,
         joined \subseteq Pods, pc' # "dsUpdate"
  PROVE  VotingInv'
BY DEF VotingInv, LeavingExcluded, RemovedExcluded, JoinedExist

\* What happens around the worker: a node that joins has its Pod, one whose Pod is
\* gone has left.
LEMMA AroundJoined ==
  ASSUME TypeOK, JoinedExist,
         \/ Surroundings \/ Watches \/ Observer
         \/ \E spec \in Specs : ChangeSpec(spec)
         \/ UNCHANGED vars
  PROVE  JoinedExist' /\ voting' = voting
<1>1. pod \in [Pods -> PodRecords] /\ joined \subseteq Pods
  BY DEF TypeOK, KubernetesTypeOK, ElasticsearchTypeOK
<1>2. CASE Surroundings
  <2>1. CASE StatefulSetController
    <3>1. UNCHANGED <<joined, voting>>
      BY <2>1 DEF StatefulSetController, elasticsearchVars
    <3>2. \A p \in Pods : pod[p].exists => pod'[p].exists
      <4>1. ASSUME NEW q \in Pods, NEW t \in Templates, CreatePod(q, t) \/ CondemnPod(q)
            PROVE  \A p \in Pods : pod[p].exists => pod'[p].exists
        BY <1>1, <4>1 DEF CreatePod, CondemnPod, NewPod, PodRecords
      <4>2. (\E s \in NodeSets : PublishRevision(s)) => UNCHANGED pod
        BY DEF PublishRevision
      <4> QED
        BY <2>1, <4>1, <4>2, TemplatesAssumption DEF StatefulSetController
    <3> QED
      BY <1>1, <3>1, <3>2 DEF JoinedExist
  <2>2. CASE Kubelet
    <3>1. ASSUME NEW q \in Pods, StartPod(q) \/ ReadyPod(q) \/ CrashPod(q)
          PROVE  \A p \in Pods : pod[p].exists => pod'[p].exists
      BY <1>1, <3>1 DEF StartPod, ReadyPod, CrashPod, PodRecords
    <3>2. ASSUME NEW q \in Pods, NodeStops(q)
          PROVE  JoinedExist' /\ voting' = voting
      BY <1>1, <3>2 DEF NodeStops, RemovePod, Leave, JoinedExist, NoPod
    <3>3. ASSUME NEW q \in Pods, NodeCrashes(q)
          PROVE  joined' \subseteq joined /\ voting' = voting /\ CrashPod(q)
      BY <3>3 DEF NodeCrashes, Leave
    <3>4. ASSUME NEW q \in Pods, (StartPod(q) \/ ReadyPod(q)) /\ UNCHANGED elasticsearchVars
          PROVE  joined' \subseteq joined /\ voting' = voting
      BY <3>4 DEF elasticsearchVars
    <3> QED
      BY <1>1, <2>2, <3>1, <3>2, <3>3, <3>4 DEF Kubelet, JoinedExist
  <2>3. CASE Cluster
    <3>1. \A p \in joined' : p \in joined \/ pod[p].exists
      BY <2>3 DEF Cluster, JoinCluster, StartFromDisk, RecoverStale, AllocateReplica,
         StartRelocation, FinishRecovery, FinishRelocation
    <3>2. UNCHANGED <<pod, voting>>
      BY <2>3 DEF Cluster, JoinCluster, StartFromDisk, RecoverStale, AllocateReplica,
         StartRelocation, FinishRecovery, FinishRelocation, kubernetesVars, settingsVars
    <3> QED
      BY <3>1, <3>2 DEF JoinedExist
  <2> QED
    BY <1>2, <2>1, <2>2, <2>3 DEF Surroundings
<1>3. CASE \/ Watches \/ Observer
           \/ \E spec \in Specs : ChangeSpec(spec)
           \/ UNCHANGED vars
  <2>1. UNCHANGED <<pod, joined, voting>>
    BY <1>3 DEF Watches, SyncEs, SyncStatefulSetCache, SyncPodCache, SyncStatefulSets,
       SyncPods, Observer, Observe, StoreObservation, ChangeSpec, vars, kubernetesVars,
       elasticsearchVars
  <2> QED
    BY <2>1 DEF JoinedExist
<1> QED
  BY <1>2, <1>3

\* What happens around the worker keeps the exclusions.
LEMMA VotingAround ==
  ASSUME TypeOK, VotingInv,
         \/ Surroundings \/ Watches \/ Observer
         \/ \E spec \in Specs : ChangeSpec(spec)
         \/ UNCHANGED vars
  PROVE  VotingInv'
<1>1. JoinedExist' /\ voting' = voting
  BY AroundJoined DEF VotingInv
<1>2. \A p \in Pods : PodMove(p) /\ (Wanted(p)' <=> Wanted(p))
  BY AroundMoves
<1>3. \A p \in Pods : Leaving(p)' => Leaving(p)
  BY <1>2 DEF PodMove, Leaving
<1>4. UNCHANGED <<pc, pass, down>> /\ RemovedNodes' = RemovedNodes /\ RemovedNodes \subseteq Pods
  BY AroundSteps DEF RemovedNodes, PlannedNodes
<1> QED
  BY <1>1, <1>2, <1>3, <1>4 DEF VotingInv, LeavingExcluded, RemovedExcluded

\* Nodes are added to the exclusions when all masters run version 7 or above.
LEMMA AddSteps ==
  ASSUME NEW nodes, NEW next, next # "status", AddToVotingConfigExclusions(nodes, next)
  PROVE  /\ voting \subseteq voting' /\ down' = down
         /\ pass' = pass \/ pc' = "status"
         /\ AllMastersZen2 /\ pc' = next => voting' = voting \cup nodes
<1>1. CASE ~AllMastersZen2
  BY <1>1 DEF AddToVotingConfigExclusions, phaseVars
<1>2. CASE AllMastersZen2
  <2>1. PICK o \in EsOutcomes :
          /\ voting' = IF o = "error" THEN voting ELSE voting \cup nodes
          /\ pc' = IF o = "ok" THEN next ELSE "status"
          /\ pass' = IF o = "ok" THEN pass ELSE Requeue(pass)
    BY <1>2 DEF AddToVotingConfigExclusions
  <2>2. down' = down
    BY DEF AddToVotingConfigExclusions, phaseVars
  <2> QED
    BY <2>1, <2>2
<1> QED
  BY <1>1, <1>2

\* The steps of the worker that change the exclusions.
LEMMA VotingSteps ==
  ASSUME Decision \/ Rollout \/ Removal
  PROVE  \/ voting' = voting
         \/ pc = "zen2" /\ pc' # "dsUpdate"
         \/ DownscaleZen2
         \/ \E p \in Pods : RollZen2(p)
<1> USE DEF elasticsearchVars
<1>1. CASE Decision
  BY <1>1 DEF Decision, AdjustResources, UpdateMinimumMasterNodes, ClearVotingConfigExclusions,
     StartDownscale, CalculateDownscale, MigrateData, AttemptDownscale, DownscaleZen1,
     MaybeUpdateZen1, FinishDownscale
<1>2. CASE Rollout \/ Removal
  BY <1>2 DEF Rollout, Removal, HandleRollingUpgrades, ApplyPredicates, NoPodSelected,
     PrepareClusterForNodeRestart, RollZen1, MaybeUpdateZen1, Delete, ForceDelete,
     MaybeEnableShardsAllocation, FinishNodeSpecs
<1> QED
  BY <1>1, <1>2

\* A master that is about to be removed and is there is a master of the cache.
LEMMA RemovedMasters ==
  ASSUME TypeOK, DownscaleInProgress, PlanSound, PodsInv, Roles, NoZen1,
         pc \in {"dsZen2", "dsUpdate"}, down.plan # <<>>,
         MasterSet(Head(down.plan).set), NEW p \in RemovedNodes, Wanted(p)
  PROVE  AllMastersZen2
<1> DEFINE d == Head(down.plan)
<1>1. /\ d \in Plans /\ down.plan \in Seq(Plans) /\ down \in Downscaling
      /\ 1 \in DOMAIN down.plan /\ down.plan[1] = d
  BY PlanTypes, PlanParts DEF TypeOK, DriverTypeOK, Downscaling
<1>2. p \in Pods /\ p[1] = d.set /\ p[2] >= down.target /\ p[2] \in Nat
  BY DEF RemovedNodes, PlannedNodes, Pods, Ordinals
<1>3. d.target >= FinalReplicas(d.set) /\ down.target >= d.target
  BY <1>1 DEF PodsInv, PlanBounded, PlanLocations
<1>4. down.target \in Nat /\ d.target \in Nat /\ FinalReplicas(d.set) \in Nat
  BY <1>1, FinalReplicasType DEF Downscaling, Plans
<1>5. PodNamed(p)
  BY <1>2 DEF PodsInv, PodsNamed, Scaling
<1> HIDE DEF d
<1>6. cPod[p].exists
  BY <1>2, <1>3, <1>4, <1>5 DEF PodNamed
<1>7. p \in Masters
  BY <1>2, <1>6 DEF Masters, Existing, Roles, HasRole, d
<1>8. \A q \in Pods : cPod[q].tmpl.major >= 7
  BY DEF NoZen1, TypeOK, KubernetesTypeOK, PodRecords
<1> QED
  BY <1>7, <1>8 DEF AllMastersZen2, Masters, Existing

\* The decisions of the upscale and of the downscale.
LEMMA VotingDecision ==
  ASSUME TypeOK, DownscaleInProgress, PlanSound, GoInv, PodsInv, Roles, NoZen1, VotingInv,
         Decision
  PROVE  VotingInv'
<1>1. Still /\ joined' = joined /\ SamePass(pass, pass') /\ joined \subseteq Pods
  BY DecisionSteps DEF TypeOK, ElasticsearchTypeOK
<1>2. \A p \in Pods : /\ Leaving(p)' <=> Leaving(p)
                      /\ Wanted(p)' <=> Wanted(p)
  BY <1>1 DEF Still, Leaving, Wanted
<1>3. JoinedExist'
  BY <1>1 DEF VotingInv, JoinedExist, Still
<1>4. CASE pc' # "dsUpdate" /\ voting \subseteq voting'
  BY <1>1, <1>2, <1>4, VotingQuiet DEF VotingInv, Still
<1>5. CASE pc = "zen2" /\ pc' # "dsUpdate"
  <2>1. \A p \in Pods : ~Leaving(p)
    BY <1>5, NoneLeaves DEF Early
  <2> QED
    BY <1>2, <1>3, <1>5, <2>1 DEF VotingInv, LeavingExcluded, RemovedExcluded
<1>6. CASE DownscaleZen2 /\ pc' = "dsUpdate"
  <2>1. /\ AddToVotingConfigExclusions(RemovedNodes, "dsUpdate") /\ pc = "dsZen2"
    BY <1>6 DEF DownscaleZen2
  <2>2. /\ voting \subseteq voting' /\ down' = down /\ pass' = pass
        /\ AllMastersZen2 => voting' = voting \cup RemovedNodes
    BY <1>6, <2>1, AddSteps
  <2>3. RemovedNodes' = RemovedNodes /\ RemovedNodes \subseteq Pods /\ down.plan # <<>>
    BY <2>1, <2>2 DEF RemovedNodes, PlannedNodes, DownscaleInProgress
  <2>4. RemovedExcluded'
    <3> SUFFICES ASSUME MasterSet(Head(down.plan).set), NEW p \in RemovedNodes, Wanted(p)
                 PROVE  p \in voting'
      BY <1>2, <2>2, <2>3 DEF RemovedExcluded
    <3>1. AllMastersZen2
      BY <2>1, <2>3, RemovedMasters
    <3> QED
      BY <2>2, <3>1
  <2> QED
    BY <1>2, <1>3, <2>2, <2>4 DEF VotingInv, LeavingExcluded
<1>7. CASE pc' = "dsUpdate" /\ ~DownscaleZen2 /\ voting' = voting
  <2>1. /\ pc = "attempt" /\ down.plan # <<>> /\ ~pass.actual[Head(down.plan).set].tmpl.master
        /\ down' = [down EXCEPT !.target = PerformableTarget(Head(down.plan))]
    <3>1. pc # "dsZen2"
      BY <1>7 DEF Decision, AdjustResources, UpdateMinimumMasterNodes,
         ClearVotingConfigExclusions, StartDownscale, CalculateDownscale, MigrateData,
         AttemptDownscale, DownscaleZen1, FinishDownscale
    <3>2. pc' \in PlanLocations
      BY <1>7 DEF PlanLocations
    <3>3. /\ pc = "attempt" /\ down.plan # <<>>
          /\ pc' = IF pass.actual[Head(down.plan).set].tmpl.master THEN "dsZen1" ELSE "dsUpdate"
          /\ down' = [down EXCEPT !.target = PerformableTarget(Head(down.plan))]
      BY <1>7, <3>1, <3>2, PlanSteps
    <3> QED
      BY <1>7, <3>3
  <2>2. down'.plan = down.plan
    BY <2>1 DEF TypeOK, DriverTypeOK, Downscaling
  <2>3. Head(down.plan).set \in Downscales
    BY <2>1, PlanParts DEF PlanSound, TypeOK, DriverTypeOK, Downscaling
  <2>4. ~MasterSet(Head(down.plan).set)
    BY <2>1, <2>3 DEF Roles, HasRole, Downscales, PhaseLocations, Locations
  <2> QED
    BY <1>2, <1>3, <1>7, <2>2, <2>4 DEF VotingInv, LeavingExcluded, RemovedExcluded
<1>8. DownscaleZen2 => voting \subseteq voting' /\ ~ (\E p \in Pods : RollZen2(p))
  BY AddSteps DEF DownscaleZen2, RollZen2
<1>9. ~ (\E p \in Pods : RollZen2(p))
  BY DecisionSteps DEF RollZen2, Scaling, Early
<1> QED
  BY <1>4, <1>5, <1>6, <1>7, <1>8, <1>9, VotingSteps

\* Every step keeps the exclusions.
LEMMA VotingStep ==
  ASSUME FaultKinds \subseteq {"error"}, RolesStay, NoZen1, ReadyInv, GoInv, PodsInv, LeaveInv,
         VotingInv, [Next]_vars
  PROVE  VotingInv'
<1>1. /\ TypeOK /\ DownscaleInProgress /\ PlanSound /\ CacheCurrent
      /\ Roles /\ OneRemoval /\ OneLeaves /\ joined \subseteq Pods
      /\ LeavingExcluded /\ RemovedExcluded /\ JoinedExist
  BY DEF ReadyInv, TypeInv, LeaveInv, VotingInv, TypeOK, ElasticsearchTypeOK
<1>2. ASSUME Worker PROVE VotingInv'
  <2>1. CASE \/ StartReconcile \/ ReconcileClusterUUID \/ RetrieveActualStatefulSets
             \/ UpdateStatus
    <3>1. Still /\ pc' # "dsUpdate" /\ UNCHANGED <<joined, voting>>
      BY <1>1, <2>1, OutsideSteps
    <3>2. \A p \in Pods : Leaving(p)' => Leaving(p)
      BY <3>1 DEF Still, Leaving, Wanted
    <3> QED
      BY <1>1, <3>1, <3>2, VotingQuiet DEF Still
  <2>2. CASE AwaitExpectations \/ RecoverFromPanic
    <3>1. UNCHANGED <<sset, pod, joined, voting>> /\ pc' # "dsUpdate"
      BY <2>2 DEF AwaitExpectations, RecoverFromPanic, Restart, kubernetesVars, elasticsearchVars
    <3>2. \A p \in Pods : Leaving(p)' => Leaving(p)
      BY <3>1 DEF Leaving, Wanted
    <3> QED
      BY <1>1, <3>1, <3>2, VotingQuiet
  <2>3. CASE Decision
    BY <1>1, <2>3, VotingDecision
  <2>4. ASSUME NEW s \in NodeSets, ApplyResource(s) PROVE VotingInv'
    <3>1. UNCHANGED <<pod, joined, voting>> /\ pc = "apply" /\ pc' # "dsUpdate"
      BY <1>1, <2>4, ApplySteps DEF GoInv
    <3>2. WantedPods \subseteq WantedPods'
      BY <3>1, UpscaleGrows
    <3>3. \A p \in Pods : Leaving(p)' => Leaving(p)
      BY <3>1, <3>2 DEF Leaving, WantedPods
    <3> QED
      BY <1>1, <3>1, <3>3, VotingQuiet
  <2>5. CASE UpdateReplicas \/ RemoveStatefulSet
    <3>1. /\ UNCHANGED <<pod, joined, voting>> /\ pc' # "dsUpdate"
          /\ UpdateReplicas => pc = "dsUpdate"
      BY <1>1, <2>5, WriteSteps
    <3>2. ASSUME NEW p \in Pods, Leaving(p)' PROVE p \in voting'
      <4>1. CASE Leaving(p)
        BY <1>1, <3>1, <4>1 DEF LeavingExcluded
      <4>2. CASE ~Leaving(p)
        <5>1. Wanted(p) /\ ~Wanted(p)' /\ MasterSet(p[1])
          BY <3>1, <3>2, <4>2 DEF Leaving
        <5>2. p[1] = Head(down.plan).set /\ UpdateReplicas /\ p \in RemovedNodes
          BY <1>1, <2>5, <5>1, WritePod
        <5> QED
          BY <1>1, <3>1, <5>1, <5>2 DEF RemovedExcluded
      <4> QED
        BY <4>1, <4>2
    <3> QED
      BY <1>1, <3>1, <3>2 DEF VotingInv, LeavingExcluded, RemovedExcluded, JoinedExist
  <2>6. CASE Rollout \/ Removal
    <3>1. UNCHANGED <<sset, joined>> /\ pc' # "dsUpdate" /\ pc # "zen2" /\ pc # "dsZen2"
      BY <1>1, <2>6, RolloutSteps DEF Scaling, Early, PhaseLocations
    <3>2. \A p \in Pods : pod'[p].exists = pod[p].exists
      BY <1>1, <2>6, RolloutSteps, RolesRemoval
    <3>3. \A p \in Pods : Leaving(p)' => Leaving(p)
      BY <3>1, <3>2 DEF Leaving, Wanted
    <3>4. voting \subseteq voting'
      BY <2>6, <3>1, VotingSteps, AddSteps DEF DownscaleZen2, RollZen2
    <3> QED
      BY <1>1, <3>1, <3>2, <3>3, <3>4, VotingQuiet
  <2> QED
    BY <1>2, <2>1, <2>2, <2>3, <2>4, <2>5, <2>6, WorkerSteps
<1>3. ~OperatorRestarts
  BY DEF OperatorRestarts
<1>4. ASSUME \/ Surroundings \/ Watches \/ Observer
             \/ \E spec \in Specs : ChangeSpec(spec)
             \/ UNCHANGED vars
      PROVE  VotingInv'
  BY <1>1, <1>4, VotingAround
<1> QED
  BY <1>2, <1>3, <1>4 DEF Next

\* A running cluster whose nodes are all there.
LEMMA VotingInit ==
  ASSUME Bootstrapped, Init
  PROVE  VotingInv
<1>1. /\ InitRunning /\ pc = "idle"
  BY Zenon DEF Init
<1>2. LeaveInv /\ \A p \in Pods : ~Leaving(p)
  BY LeaveInit, NoneLeavesInit
<1>3. joined = InitialPods
  BY <1>1 DEF InitRunning
<1>4. ASSUME NEW p \in InitialPods PROVE pod[p].exists
  <2>1. p \in Pods
    BY DEF InitialPods
  <2>2. pod[p] = [NewPod(0, InitialSpec.tmpl[p[1]]) EXCEPT
                           !.phase = "Ready",
                           !.boot = IF p \in InitialMasters /\ MajorOf(InitialSpec) >= 7
                                      THEN InitialMasters ELSE {}]
    BY <1>1, <2>1, Zenon DEF InitRunning
  <2>3. \A u, v : [NewPod(0, u) EXCEPT !.phase = "Ready", !.boot = v].exists
    BY DEF NewPod
  <2> QED
    BY <2>2, <2>3
<1> QED
  BY <1>1, <1>2, <1>3, <1>4 DEF VotingInv, LeavingExcluded, RemovedExcluded, JoinedExist

\* From a running cluster of version 7 or above, while the user only takes nodeSets
\* away and changes the roles of none, a master that leaves is in the voting
\* configuration exclusions until it is gone: no later pass clears them too early
\* (version/zen2/voting_exclusions.go, driver/downscale.go).
THEOREM LeavingStayExcluded ==
  Bootstrapped /\ FaultKinds \subseteq {"error"} /\ RolesStay /\ NoZen1
    => (Spec /\ NodeSetsOnlyGo => []LeavingMastersExcluded)
<1> SUFFICES ASSUME Bootstrapped, FaultKinds \subseteq {"error"}, RolesStay, NoZen1
             PROVE  Spec /\ NodeSetsOnlyGo => []LeavingMastersExcluded
  OBVIOUS
<1> DEFINE Inv == ReadyInv /\ GoInv /\ PodsInv /\ LeaveInv /\ VotingInv
<1>1. Init => Inv
  BY ReadyInit, GoInit, PodsInit, LeaveInit, VotingInit
<1>2. Inv /\ [Next]_vars /\ [OnlyGo]_es => Inv'
  <2> SUFFICES ASSUME Inv, [Next]_vars, [OnlyGo]_es PROVE Inv'
    OBVIOUS
  <2>1. ReadyInv' /\ GoInv'
    BY ReadyStep, GoStep DEF OnlyGo
  <2> QED
    BY <2>1, PodsStep, LeaveStep, VotingStep
<1>3. Inv => LeavingMastersExcluded
  <2> SUFFICES ASSUME Inv, NEW p \in joined, IsMaster(p), ~Wanted(p) PROVE p \in voting
    BY DEF LeavingMastersExcluded
  <2>1. p \in Pods /\ pod[p].exists /\ Roles
    BY DEF ReadyInv, TypeInv, TypeOK, ElasticsearchTypeOK, VotingInv, JoinedExist, LeaveInv
  <2>2. Leaving(p)
    BY <2>1 DEF Roles, HasRole, IsMaster, Leaving
  <2> QED
    BY <2>1, <2>2 DEF VotingInv, LeavingExcluded
<1> QED
  BY <1>1, <1>2, <1>3, PTL DEF Spec, NodeSetsOnlyGo

-----------------------------------------------------------------------------
(***************************************************************************)
(* The masters that join.                                                  *)
(***************************************************************************)
\* The upscale creates masters of s; all masters there are have joined.
Grows(s) == MasterSet(s) /\ pass.actual[s].replicas < up.replicas[s]
MastersJoined == \A p \in WantedMasters : Stable(p) /\ (p \in joined \/ crashes > 0)

\* Before the upscale asks Elasticsearch for its nodes, all Pods are in the cache;
\* it then creates one master, of one nodeSet, and the others are in the cluster.
AsksLate == pc \in {"uuid", "retrieve", "expect", "adjust"} => pass.nodes = {}
PodsSeen == pc = "adjust" => \A p \in Pods : Wanted(p) => Stable(p)
OneGrows ==
  pc = "apply" /\ pass.mine.uuid => \A s \in up.todo : Grows(s) =>
    /\ up.replicas[s] = pass.actual[s].replicas + 1
    /\ \A t \in up.todo : Grows(t) => t = s
    /\ MastersJoined

JoinInv == AsksLate /\ PodsSeen /\ OneGrows

-----------------------------------------------------------------------------
\* A location that says nothing of masters that join.
LEMMA JoinElsewhere ==
  ASSUME pc' \notin {"uuid", "retrieve", "expect", "adjust", "apply"}
  PROVE  JoinInv'
BY DEF JoinInv, AsksLate, PodsSeen, OneGrows

\* A node leaves the cluster when its container crashes, or its Pod stops.
LEMMA AroundCluster ==
  ASSUME TypeOK,
         \/ Surroundings \/ Watches \/ Observer
         \/ \E spec \in Specs : ChangeSpec(spec)
         \/ UNCHANGED vars
  PROVE  /\ crashes > 0 => crashes' > 0
         /\ \A p \in joined : p \in joined' \/ pod[p].terminating \/ crashes' > 0
<1>0. crashes \in Nat
  BY MaxCrashesAssumption DEF TypeOK, ElasticsearchTypeOK
<1>1. CASE Surroundings
  <2>1. CASE StatefulSetController
    BY <2>1 DEF StatefulSetController, elasticsearchVars
  <2>2. CASE Kubelet
    <3>1. ASSUME NEW q \in Pods, NodeCrashes(q) PROVE crashes' > 0
      BY <1>0, <3>1 DEF NodeCrashes
    <3>2. ASSUME NEW q \in Pods, NodeStops(q)
          PROVE  crashes' = crashes /\ joined' = joined \ {q} /\ pod[q].terminating
      BY <3>2 DEF NodeStops, RemovePod, Leave
    <3>3. ASSUME NEW q \in Pods, (StartPod(q) \/ ReadyPod(q)) /\ UNCHANGED elasticsearchVars
          PROVE  crashes' = crashes /\ joined' = joined
      BY <3>3 DEF elasticsearchVars
    <3> QED
      BY <2>2, <3>1, <3>2, <3>3 DEF Kubelet
  <2>3. CASE Cluster
    BY <2>3 DEF Cluster, JoinCluster, StartFromDisk, RecoverStale, AllocateReplica,
       StartRelocation, FinishRecovery, FinishRelocation
  <2> QED
    BY <1>1, <2>1, <2>2, <2>3 DEF Surroundings
<1>2. CASE \/ Watches \/ Observer
           \/ \E spec \in Specs : ChangeSpec(spec)
           \/ UNCHANGED vars
  BY <1>2 DEF Watches, SyncEs, SyncStatefulSetCache, SyncPodCache, Observer, Observe,
     StoreObservation, ChangeSpec, vars, elasticsearchVars
<1> QED
  BY <1>1, <1>2

\* What happens around the worker keeps the masters there are.
LEMMA JoinAround ==
  ASSUME TypeOK, PodsInv, JoinInv,
         \/ Surroundings \/ Watches \/ Observer
         \/ \E spec \in Specs : ChangeSpec(spec)
         \/ UNCHANGED vars
  PROVE  JoinInv'
<1>1. /\ UNCHANGED <<pc, pass, up, deletions>>
      /\ \A s \in NodeSets : SameSpec(sset[s], sset'[s])
  BY AroundSteps
<1>2. /\ \A p \in Pods : PodMove(p) /\ (Wanted(p)' <=> Wanted(p))
      /\ cPod' = cPod \/ (cPod' = pod /\ pod' = pod)
  BY AroundMoves
<1>3. \A p \in Pods : Stable(p) /\ Wanted(p) => Stable(p)'
  BY <1>1, <1>2, AroundKnown DEF SameSpec, PodsInv, PodsKnown, Pods
<1>4. WantedMasters' = WantedMasters /\ WantedMasters \subseteq Pods
  BY <1>1, <1>2 DEF WantedMasters, WantedPods, SameSpec, Pods
<1>5. MastersJoined => MastersJoined'
  BY <1>3, <1>4, AroundCluster DEF MastersJoined, Stable, Fresh, WantedMasters, WantedPods
<1>6. \A s : Grows(s)' <=> Grows(s)
  BY <1>1 DEF Grows
<1> QED
  BY <1>1, <1>2, <1>3, <1>5, <1>6 DEF JoinInv, AsksLate, PodsSeen, OneGrows

\* A pass begins: it has asked nothing yet.
LEMMA JoinOutside ==
  ASSUME TypeOK, AsksLate,
         \/ StartReconcile \/ ReconcileClusterUUID \/ RetrieveActualStatefulSets
         \/ UpdateStatus
  PROVE  JoinInv'
<1>1. \/ pc = "idle" /\ pc' = "uuid" /\ pass' = NewPass(cEs)
      \/ pc = "uuid" /\ pc' \in {"retrieve", "status"} /\ pass'.nodes = pass.nodes
      \/ pc = "retrieve" /\ pc' = "expect" /\ pass' = [pass EXCEPT !.actual = cSset]
      \/ pc = "status" /\ pc' = "idle"
  BY OutsideSteps
<1>2. [pass EXCEPT !.actual = cSset].nodes = pass.nodes
  BY PassParts DEF Passes
<1> QED
  BY <1>1, <1>2, NewPassParts DEF JoinInv, AsksLate, PodsSeen, OneGrows

\* The expectations are met: every Pod that is wanted is there and in the cache.
LEMMA JoinAwait ==
  ASSUME TypeOK, GoInv, GoInv', PodsKnown, AsksLate, AwaitExpectations
  PROVE  JoinInv'
<1>1. /\ UNCHANGED <<sset, pod, cPod>> /\ pc = "expect"
      /\ pc' \in {"adjust", "status"}
      /\ pc' = "adjust" => pass' = pass
      /\ SamePass(pass, pass')
      /\ CheckExpectations(pass.actual)
      /\ pc' = "adjust" => ExpectationsMet(pass.actual)
  BY PassParts, PassKept DEF AwaitExpectations, kubernetesVars
<1>2. ASSUME pc' = "adjust", NEW p \in Pods, Wanted(p)' PROVE Stable(p)'
  <2>1. SatisfiedDeletions /\ DropSatisfiedDeletions /\ PodReconciliationDone(pass.actual)
    BY <1>1, <1>2 DEF ExpectationsMet, CheckExpectations
  <2>2. p[1] \in NodeSets /\ Wanted(p)
    BY <1>1, <1>2 DEF Pods, Wanted
  <2>3. Current(pass.actual[p[1]], sset[p[1]])
    BY <1>1, <1>2, <2>2 DEF GoInv, EarlyCurrent, Early
  <2>4. sset[p[1]].exists => pass.actual[p[1]].exists
    BY <1>1, <2>2 DEF GoInv, Shrinking
  <2>5. cPod[p].exists
    BY <2>1, <2>2, <2>3, <2>4, WantedNamed, ReconciledNamed
  <2> QED
    BY <1>1, <2>1, <2>2, <2>5, MetStable DEF PodsKnown
<1> QED
  BY <1>1, <1>2 DEF JoinInv, AsksLate, PodsSeen, OneGrows

\* The upscale grows no nodeSet of masters, or one, by one, with no master joining.
LEMMA AdjustedMaster ==
  ASSUME TypeOK, pass.mine.uuid, NEW s \in Desired.sets, Desired.tmpl[s].master,
         pass.actual[s].replicas < AdjustedReplicas(s)
  PROVE  /\ s = LeastOf(Upscales) /\ JoiningMasters = {}
         /\ AdjustedReplicas(s) = pass.actual[s].replicas + 1
<1>1. s \in NodeSets
  BY SpecSets
<1>2. pass.actual[s].replicas \in Nat /\ Desired.count[s] \in Nat
  BY <1>1, PassParts, SpecTypes DEF StatefulSets
<1>3. s \in Upscales /\ AdjustedReplicas(s) = pass.actual[s].replicas + NodesToCreate(s)
  BY <1>2 DEF AdjustedReplicas
<1>4. NodesToCreate(s) \in Nat
  BY <1>3, NodesToCreateBound
<1>5. NodesToCreate(s) > 0
  BY <1>2, <1>3, <1>4
<1> DEFINE n == Desired.count[s] - pass.actual[s].replicas
<1>6. MastersToCreate(s, n) > 0 /\ NodesToCreate(s) = MastersToCreate(s, n)
  BY <1>5 DEF NodesToCreate
<1>7. Built(s) /\ JoiningMasters = {} /\ MastersToCreate(s, n) = MaxNodesToCreate(s, 1)
  BY <1>6 DEF MastersToCreate
<1>8. MaxNodesToCreate(s, 1) = 1
  <2>1. RecordedCreates(s) = 0
    BY <1>7, FS_EmptySet DEF RecordedCreates
  <2>2. CreatesAllowed \in Int
    <3>1. DesiredNodeCount \in Nat /\ ActualNodeCount \in Nat
      BY CountTypes
    <3> QED
      BY <3>1, BudgetAssumption DEF CreatesAllowed
  <2> QED
    BY <1>6, <1>7, <2>1, <2>2, BudgetAssumption DEF MaxNodesToCreate
<1> QED
  BY <1>3, <1>6, <1>7, <1>8 DEF Built

\* The upscale decides: what it grows is a nodeSet of masters that are all there.
LEMMA JoinAdjust ==
  ASSUME TypeOK, DownscaleInProgress, PlanSound, RolesStay, GoInv, Roles, JoinInv,
         AdjustResources
  PROVE  JoinInv'
<1>1. /\ UNCHANGED <<sset, pod, cPod, deletions, joined, crashes>>
      /\ SamePass(pass, pass') /\ pc = "adjust" /\ pc' \in {"apply", "status"}
  BY DecisionSteps DEF Decision, Still, AdjustResources
<1>2. pass'.actual = pass.actual /\ pass'.mine.spec = pass.mine.spec
  BY <1>1 DEF SamePass
<1>3. CASE pc' = "status"
  BY <1>3, JoinElsewhere
<1>4. CASE pc' = "apply"
  <2>1. /\ pass' \in {pass, WithNodes(pass)} /\ up'.todo = Desired.sets
        /\ \A s \in NodeSets : up'.replicas[s] = AdjustedReplicas(s)
    BY <1>4 DEF AdjustResources
  <2>2. pass'.mine = pass.mine
    BY <2>1, PassParts DEF WithNodes, Passes
  <2>3. ASSUME pass.mine.uuid, NEW s \in Desired.sets, Grows(s)'
        PROVE  /\ s = LeastOf(Upscales) /\ JoiningMasters = {}
               /\ up'.replicas[s] = pass.actual[s].replicas + 1
    <3>1. s \in NodeSets /\ Desired \in Specs /\ s \in InitialSpec.sets
      BY <1>1, SpecSets, PassParts DEF GoInv, Shrinking
    <3>2. Desired.tmpl[s].master /\ pass.actual[s].replicas < AdjustedReplicas(s)
      BY <1>2, <2>1, <2>3, <3>1 DEF Grows, RolesStay, MasterSet
    <3> QED
      BY <2>1, <2>3, <3>1, <3>2, AdjustedMaster
  <2>4. ASSUME JoiningMasters = {} PROVE MastersJoined'
    <3> SUFFICES ASSUME NEW p \in WantedMasters' PROVE Stable(p)' /\ p \in joined'
      BY DEF MastersJoined
    <3>1. p \in Pods /\ p[1] \in NodeSets /\ Wanted(p) /\ sset[p[1]].tmpl.master
      BY <1>1 DEF WantedMasters, WantedPods, Wanted, Pods
    <3>2. Stable(p)
      BY <1>1, <3>1 DEF JoinInv, PodsSeen
    <3>3. p \in Masters
      BY <3>1, <3>2 DEF Stable, Roles, HasRoles, HasRole, Wanted, Masters, Existing
    <3>4. p \in joined
      BY <1>1, <2>4, <3>3 DEF JoiningMasters, IsMasterNodeJoining, KnownNodes, JoinInv, AsksLate
    <3> QED
      BY <1>1, <3>2, <3>4 DEF Stable, Fresh
  <2>5. OneGrows'
    <3> SUFFICES ASSUME pass.mine.uuid, NEW s \in Desired.sets, Grows(s)'
                 PROVE  /\ up'.replicas[s] = pass'.actual[s].replicas + 1
                        /\ \A t \in Desired.sets : Grows(t)' => t = s
                        /\ MastersJoined'
      BY <2>1, <2>2 DEF OneGrows
    <3> QED
      BY <1>2, <2>3, <2>4
  <2> QED
    BY <1>4, <2>5 DEF JoinInv, AsksLate, PodsSeen
<1> QED
  BY <1>1, <1>3, <1>4

\* A nodeSet is applied: it adds no master, or the one master it grows by.
LEMMA ApplyMasters ==
  ASSUME TypeOK, RolesStay, CacheCurrent, GoInv, Roles, OneGrows, pass.mine.uuid,
         NEW s \in NodeSets, ApplyResource(s), ~ (WantedMasters' \subseteq WantedMasters)
  PROVE  Grows(s) /\ WantedMasters' \ WantedMasters = {<<s, pass.actual[s].replicas>>}
<1>1. /\ pc = "apply" /\ s \in up.todo /\ s \in Desired.sets /\ sset[s].exists
      /\ sset' = sset \/ sset' = [sset EXCEPT ![s] = Applied(s)]
  BY ApplySteps DEF GoInv
<1>2. Desired \in Specs /\ s \in InitialSpec.sets
  BY <1>1, PassParts DEF GoInv, Shrinking
<1>3. /\ Applied(s).exists /\ Applied(s).replicas = up.replicas[s]
      /\ Applied(s).tmpl = Desired.tmpl[s] /\ Desired.tmpl[s].master = MasterSet(s)
  BY <1>1, <1>2, AppliedReplicas DEF RolesStay
<1>4. /\ sset \in [NodeSets -> StatefulSets]
      /\ up.replicas[s] \in Nat /\ pass.actual[s].replicas \in Nat
  BY PassParts DEF TypeOK, KubernetesTypeOK, DriverTypeOK, Upscaling, StatefulSets
<1>5. sset[s].replicas = pass.actual[s].replicas /\ sset[s].tmpl.master = MasterSet(s)
  BY <1>1 DEF GoInv, Shrinking, EarlyCurrent, Early, Current, Roles, HasRoles, HasRole,
     PhaseLocations, Locations
<1>6. sset' = [sset EXCEPT ![s] = Applied(s)]
  BY <1>1 DEF WantedMasters, WantedPods, Wanted
<1>7. /\ sset'[s].exists /\ sset'[s].replicas = up.replicas[s]
      /\ sset'[s].tmpl.master = MasterSet(s)
      /\ \A t \in NodeSets : t # s => sset'[t] = sset[t]
  BY <1>3, <1>4, <1>6
<1>8. ASSUME NEW p \in WantedMasters', p \notin WantedMasters
      PROVE  p = <<s, p[2]>> /\ p[2] >= pass.actual[s].replicas /\ p[2] < up.replicas[s]
             /\ MasterSet(s) /\ p[2] \in Nat
  <2>1. /\ p \in Pods /\ p = <<p[1], p[2]>> /\ p[1] \in NodeSets /\ p[2] \in Nat
        /\ sset'[p[1]].exists /\ p[2] < sset'[p[1]].replicas /\ sset'[p[1]].tmpl.master
    BY <1>8 DEF WantedMasters, WantedPods, Wanted, Pods, Ordinals
  <2>2. p[1] = s
    BY <1>7, <1>8, <2>1 DEF WantedMasters, WantedPods, Wanted
  <2>3. MasterSet(s) /\ p[2] < up.replicas[s] /\ ~(p[2] < sset[s].replicas)
    BY <1>1, <1>5, <1>7, <1>8, <2>1, <2>2 DEF WantedMasters, WantedPods, Wanted
  <2> QED
    BY <1>4, <1>5, <2>1, <2>2, <2>3
<1>9. PICK q \in WantedMasters' : q \notin WantedMasters
  OBVIOUS
<1>10. Grows(s)
  BY <1>4, <1>8, <1>9 DEF Grows
<1>11. up.replicas[s] = pass.actual[s].replicas + 1
  BY <1>1, <1>10 DEF OneGrows
<1>12. \A p \in WantedMasters' \ WantedMasters : p = <<s, pass.actual[s].replicas>>
  <2> SUFFICES ASSUME NEW p \in WantedMasters', p \notin WantedMasters
               PROVE  p = <<s, pass.actual[s].replicas>>
    OBVIOUS
  <2>1. p[2] = pass.actual[s].replicas
    BY <1>4, <1>8, <1>11
  <2> QED
    BY <1>8, <2>1
<1> QED
  BY <1>9, <1>10, <1>12

\* The nodeSets left to apply: none grows masters after the one that did.
LEMMA JoinApply ==
  ASSUME TypeOK, RolesStay, CacheCurrent, GoInv, Roles, JoinInv, NEW s \in NodeSets,
         ApplyResource(s)
  PROVE  JoinInv'
<1>1. /\ pc = "apply" /\ s \in up.todo
      /\ UNCHANGED <<pod, cPod, deletions, joined, crashes>>
      /\ pc' \in {"apply", "zen1", "rolling", "status"}
      /\ pc' = "apply" => up'.todo = up.todo \ {s} /\ up'.replicas = up.replicas
      /\ pc' # "status" => pass'.mine = pass.mine
      /\ pc' # "status" => \E c : pass'.actual = [pass.actual EXCEPT ![s] = c]
  BY ApplySteps DEF GoInv
<1>2. pass.actual \in [NodeSets -> StatefulSets] /\ up.todo \subseteq NodeSets
  BY PassParts DEF TypeOK, DriverTypeOK, Upscaling
<1>3. ASSUME pc' = "apply" PROVE OneGrows'
  <2>1. \A t \in up'.todo : t \in up.todo /\ t # s /\ (Grows(t)' <=> Grows(t))
    BY <1>1, <1>2, <1>3 DEF Grows
  <2> SUFFICES ASSUME pass.mine.uuid, NEW t \in up'.todo, Grows(t)'
               PROVE  /\ up'.replicas[t] = pass'.actual[t].replicas + 1
                      /\ \A u \in up'.todo : Grows(u)' => u = t
                      /\ MastersJoined'
    BY <1>1, <1>3 DEF OneGrows
  <2>2. /\ t \in up.todo /\ t # s /\ t \in NodeSets
        /\ up.replicas[t] = pass.actual[t].replicas + 1
        /\ \A u \in up.todo : Grows(u) => u = t
        /\ MastersJoined
    BY <1>1, <1>2, <2>1 DEF JoinInv, OneGrows
  <2>3. WantedMasters' \subseteq WantedMasters
    BY <1>1, <2>2, ApplyMasters DEF JoinInv
  <2>4. MastersJoined'
    BY <1>1, <2>2, <2>3 DEF MastersJoined, Stable, Fresh
  <2>5. up'.replicas[t] = pass'.actual[t].replicas + 1
    BY <1>1, <1>2, <1>3, <2>2
  <2> QED
    BY <2>1, <2>2, <2>4, <2>5
<1> QED
  BY <1>1, <1>3 DEF JoinInv, AsksLate, PodsSeen, OneGrows

\* Past the expectations comes the upscale's decision.
LEMMA OnlyAdjust ==
  ASSUME Decision, pc = "adjust"
  PROVE  AdjustResources
BY DEF Decision, UpdateMinimumMasterNodes, ClearVotingConfigExclusions, StartDownscale,
   CalculateDownscale, MigrateData, AttemptDownscale, DownscaleZen1, DownscaleZen2,
   FinishDownscale

\* Every step keeps it.
LEMMA JoinStep ==
  ASSUME FaultKinds \subseteq {"error"}, RolesStay, ReadyInv, GoInv, GoInv', PodsInv, Roles,
         JoinInv, [Next]_vars
  PROVE  JoinInv'
<1>1. /\ TypeOK /\ DownscaleInProgress /\ PlanSound /\ CacheCurrent
      /\ PodsKnown /\ AsksLate
  BY DEF ReadyInv, TypeInv, PodsInv, JoinInv
<1>2. ASSUME Worker PROVE JoinInv'
  <2>1. CASE \/ StartReconcile \/ ReconcileClusterUUID \/ RetrieveActualStatefulSets
             \/ UpdateStatus
    BY <1>1, <2>1, JoinOutside
  <2>2. CASE AwaitExpectations
    BY <1>1, <2>2, JoinAwait
  <2>3. CASE AdjustResources
    BY <1>1, <2>3, JoinAdjust
  <2>4. CASE Decision /\ ~AdjustResources
    <3>1. pc # "adjust"
      BY <2>4, OnlyAdjust
    <3>2. /\ pc' \in Scaling \cup {"rolling", "status"} /\ pc' # "adjust"
          /\ pc' = "apply" => pc = "adjust"
      BY <1>1, <2>4, DecisionSteps
    <3> QED
      BY <3>1, <3>2, JoinElsewhere DEF Scaling, Early
  <2>5. ASSUME NEW s \in NodeSets, ApplyResource(s) PROVE JoinInv'
    BY <1>1, <2>5, JoinApply
  <2>6. CASE UpdateReplicas \/ RemoveStatefulSet
    <3>1. pc' \in {"attempt", "status"}
      BY <1>1, <2>6, WriteSteps
    <3> QED
      BY <3>1, JoinElsewhere
  <2>7. CASE Rollout \/ Removal
    <3>1. pc' \in (PhaseLocations \ Scaling) \cup {"status", "panic"}
      BY <1>1, <2>7, RolloutSteps
    <3> QED
      BY <3>1, JoinElsewhere DEF PhaseLocations, Locations, Scaling, Early
  <2>8. CASE RecoverFromPanic
    <3>1. pc' = "idle"
      BY <2>8 DEF RecoverFromPanic, Restart
    <3> QED
      BY <3>1, JoinElsewhere
  <2> QED
    BY <1>2, <2>1, <2>2, <2>3, <2>4, <2>5, <2>6, <2>7, <2>8, WorkerSteps
<1>3. ~OperatorRestarts
  BY DEF OperatorRestarts
<1>4. ASSUME \/ Surroundings \/ Watches \/ Observer
             \/ \E spec \in Specs : ChangeSpec(spec)
             \/ UNCHANGED vars
      PROVE  JoinInv'
  BY <1>1, <1>4, JoinAround
<1> QED
  BY <1>2, <1>3, <1>4 DEF Next

\* Between two passes there is nothing to say.
LEMMA JoinInit ==
  ASSUME Init
  PROVE  JoinInv
<1>1. pc = "idle"
  BY Zenon DEF Init
<1> QED
  BY <1>1 DEF JoinInv, AsksLate, PodsSeen, OneGrows

\* A write of the upscale that adds masters adds one, to masters that are all there.
LEMMA OneJoins ==
  ASSUME RolesStay, ReadyInv, GoInv, Roles, JoinInv, [Next]_vars,
         pc = "apply", pass.mine.uuid, ~ (WantedMasters' \subseteq WantedMasters)
  PROVE  /\ Cardinality(WantedMasters' \ WantedMasters) = 1
         /\ \A p \in WantedMasters : p \in joined \/ crashes > 0
<1>1. TypeOK /\ CacheCurrent
  BY DEF ReadyInv, TypeInv
<1>2. CASE ~ (\E s \in NodeSets : ApplyResource(s))
  <2>1. \A s \in NodeSets : SameSpec(sset[s], sset'[s])
    BY <1>2, OnlyApply DEF ReadyInv
  <2>2. WantedMasters' \subseteq WantedMasters
    BY <2>1 DEF SameSpec, WantedMasters, WantedPods, Wanted, Pods
  <2> QED
    BY <2>2
<1>3. ASSUME NEW s \in NodeSets, ApplyResource(s)
      PROVE  /\ Cardinality(WantedMasters' \ WantedMasters) = 1
             /\ \A p \in WantedMasters : p \in joined \/ crashes > 0
  <2>1. Grows(s) /\ WantedMasters' \ WantedMasters = {<<s, pass.actual[s].replicas>>}
    BY <1>1, <1>3, ApplyMasters DEF JoinInv
  <2>2. s \in up.todo
    BY <1>1, <1>3, ApplySteps DEF GoInv
  <2>3. MastersJoined
    BY <2>1, <2>2 DEF JoinInv, OneGrows
  <2> QED
    BY <2>1, <2>3, FS_Singleton DEF MastersJoined
<1> QED
  BY <1>2, <1>3

\* From a running cluster, while the user only takes nodeSets away and changes the
\* roles of none, the upscale adds masters one at a time, and only when the ones
\* there are have joined: whatever the order of the nodeSets, however stale the
\* caches it has read, and after calls that fail without an effect
\* (driver/upscale.go, upscale_state.go).
THEOREM MastersJoinOneByOne ==
  Bootstrapped /\ FaultKinds \subseteq {"error"} /\ RolesStay
    => (Spec /\ NodeSetsOnlyGo => OneMasterJoinsAtATime)
<1> SUFFICES ASSUME Bootstrapped, FaultKinds \subseteq {"error"}, RolesStay
             PROVE  Spec /\ NodeSetsOnlyGo => OneMasterJoinsAtATime
  OBVIOUS
<1> DEFINE Inv == ReadyInv /\ GoInv /\ PodsInv /\ LeaveInv /\ JoinInv
<1>1. Init => Inv
  BY ReadyInit, GoInit, PodsInit, LeaveInit, JoinInit
<1>2. Inv /\ [Next]_vars /\ [OnlyGo]_es => Inv'
  <2> SUFFICES ASSUME Inv, [Next]_vars, [OnlyGo]_es PROVE Inv'
    OBVIOUS
  <2>1. ReadyInv' /\ GoInv'
    BY ReadyStep, GoStep DEF OnlyGo
  <2>2. JoinInv'
    BY <2>1, JoinStep DEF LeaveInv
  <2> QED
    BY <2>1, <2>2, PodsStep, LeaveStep
<1>3. Inv /\ [Next]_vars =>
        [pc = "apply" /\ pass.mine.uuid /\ ~(WantedMasters' \subseteq WantedMasters)
           => /\ Cardinality(WantedMasters' \ WantedMasters) = 1
              /\ \A p \in WantedMasters : p \in joined \/ crashes > 0]_vars
  BY OneJoins DEF LeaveInv
<1> QED
  BY <1>1, <1>2, <1>3, PTL DEF Spec, NodeSetsOnlyGo, OneMasterJoinsAtATime

-----------------------------------------------------------------------------
(***************************************************************************)
(* The Pods a downscale leaves.                                            *)
(***************************************************************************)
\* A Pod is up when it stays and was ready: its container may have crashed since.
Up(p) ==
  Wanted(p) /\ pod[p].exists /\ ~pod[p].terminating /\ pod[p].phase \in {"Ready", "Looping"}
UpPods == {p \in Pods : Up(p)}
Kept == UpPods \ LeavingNodes
LoopingPods == {p \in Pods : pod[p].phase = "Looping"}
Floor == DesiredNodeCount - MaxUnavailable

\* A Pod that is ready in the cache has been ready, unless it was replaced since;
\* the containers that crashed are counted; and what the downscale may still remove
\* is what the Pods it keeps have above the floor.
PhaseKnown(p) ==
  /\ cPod[p].uid <= pod[p].uid
  /\ cPod[p].exists /\ pod[p].exists /\ cPod[p].uid = pod[p].uid /\ cPod[p].phase = "Ready"
       => pod[p].phase \in {"Ready", "Looping"}
PhasesKnown == \A p \in Pods : PhaseKnown(p)
CrashesCounted == Cardinality(LoopingPods) <= crashes
FloorKept ==
  MaxUnavailable >= 0 /\ pc \in PlanLocations =>
    /\ LeavingNodes # {} => Cardinality(Kept) >= Floor
    /\ pc = "calculate" /\ down.removals > 0 => Cardinality(Kept) >= Floor + down.removals

BudgetInv == PhasesKnown /\ CrashesCounted /\ FloorKept

-----------------------------------------------------------------------------
\* Sets of Pods, counted.
LEMMA PodsCounted ==
  ASSUME NEW S, S \subseteq Pods
  PROVE  IsFiniteSet(S) /\ Cardinality(S) \in Nat
BY PodsFinite, FS_Subset, FS_CardinalityType

LEMMA AtMostBoth ==
  ASSUME NEW S, NEW T, NEW U, S \subseteq Pods, T \subseteq Pods, U \subseteq Pods,
         S \subseteq T \cup U
  PROVE  Cardinality(S) <= Cardinality(T) + Cardinality(U)
<1>1. /\ IsFiniteSet(T) /\ IsFiniteSet(U) /\ IsFiniteSet(T \cap U) /\ IsFiniteSet(S)
      /\ Cardinality(T) \in Nat /\ Cardinality(U) \in Nat /\ Cardinality(S) \in Nat
      /\ Cardinality(T \cap U) \in Nat
  <2>1. T \cap U \subseteq Pods
    OBVIOUS
  <2> QED
    BY <2>1, PodsCounted
<1>2. /\ IsFiniteSet(T \cup U)
      /\ Cardinality(T \cup U) = Cardinality(T) + Cardinality(U) - Cardinality(T \cap U)
  BY <1>1, FS_Union
<1>3. Cardinality(S) <= Cardinality(T \cup U)
  BY <1>2, FS_Subset
<1> QED
  BY <1>1, <1>2, <1>3

\* A downscale by n nodes is of at most n Pods.
LEMMA PlannedCount ==
  ASSUME TypeOK, NEW s \in NodeSets, NEW n \in Nat, n <= pass.actual[s].replicas,
         NEW d, d.set = s, d.target = pass.actual[s].replicas - n
  PROVE  PlannedNodes(d) \subseteq Pods /\ Cardinality(PlannedNodes(d)) <= n
<1> DEFINE P == PlannedNodes(d)
           r == pass.actual[s].replicas
           f == [p \in P |-> p[2]]
<1>1. r \in Nat
  BY PassParts DEF StatefulSets
<1>2. \A p \in P : p = <<s, p[2]>> /\ p[2] \in (r - n) .. (r - 1)
  BY <1>1 DEF PlannedNodes, Pods, Ordinals
<1>3. f \in Injection(P, (r - n) .. (r - 1))
  <2>1. f \in [P -> (r - n) .. (r - 1)]
    BY <1>2
  <2>2. \A a, b \in P : f[a] = f[b] => a = b
    <3> SUFFICES ASSUME NEW a \in P, NEW b \in P, f[a] = f[b] PROVE a = b
      OBVIOUS
    <3>1. a[2] = b[2]
      OBVIOUS
    <3> QED
      BY <1>2, <3>1
  <2> HIDE DEF f, P
  <2> QED
    BY <2>1, <2>2 DEF Injection, IsInjective
<1>4. /\ IsFiniteSet((r - n) .. (r - 1))
      /\ Cardinality((r - n) .. (r - 1)) = n
  <2>0. r - n \in Int /\ r - 1 \in Int
    BY <1>1
  <2>1. /\ IsFiniteSet((r - n) .. (r - 1))
        /\ Cardinality((r - n) .. (r - 1)) =
             IF r - n > r - 1 THEN 0 ELSE (r - 1) - (r - n) + 1
    BY <2>0, FS_Interval
  <2> QED
    BY <1>1, <2>1
<1>5. Cardinality(P) <= Cardinality((r - n) .. (r - 1))
  BY <1>3, <1>4, FS_Injection
<1> QED
  BY <1>4, <1>5 DEF PlannedNodes

-----------------------------------------------------------------------------
\* How one step around the worker changes a Pod and its container.
PhaseMove(p) ==
  \/ /\ pod'[p].exists = pod[p].exists /\ pod'[p].uid = pod[p].uid
     /\ pod[p].phase \in {"Ready", "Looping"} => pod'[p].phase \in {"Ready", "Looping"}
     /\ pod'[p].phase = "Looping" => pod[p].phase = "Looping"
  \/ ~pod'[p].exists /\ pod'[p].uid = pod[p].uid /\ pod'[p].phase # "Looping"
  \/ pod'[p].uid > pod[p].uid /\ pod'[p].phase # "Looping"
CrashMove(p) ==
  /\ pod'[p].exists = pod[p].exists /\ pod'[p].uid = pod[p].uid
  /\ pod'[p].phase = "Looping"

\* What Kubernetes, Elasticsearch and the caches do to the containers: one may crash.
LEMMA SurroundingsPhase ==
  ASSUME TypeOK, Surroundings
  PROVE  \/ crashes' = crashes /\ \A p \in Pods : PhaseMove(p)
         \/ crashes' = crashes + 1 /\ \E q \in Pods :
              CrashMove(q) /\ \A p \in Pods : p # q => PhaseMove(p)
<1> USE DEF TypeOK, KubernetesTypeOK, PodRecords
<1>1. pod \in [Pods -> PodRecords]
  OBVIOUS
<1>2. CASE StatefulSetController
  <2>1. ASSUME NEW s \in NodeSets, PublishRevision(s) PROVE pod' = pod
    BY <2>1 DEF PublishRevision
  <2>2. ASSUME NEW q \in Pods, NEW t \in Templates, CreatePod(q, t), NEW p \in Pods
        PROVE  PhaseMove(p)
    <3>1. pod[p].uid \in Nat
      BY <1>1 DEF Uids
    <3>2. CASE p = q
      <4>1. pod'[p] = NewPod(NextUid(pod[p].uid), t)
        BY <1>1, <2>2, <3>2 DEF CreatePod
      <4>2. pod'[p].uid = pod[p].uid + 1 /\ pod'[p].phase = "Pending"
        BY <4>1 DEF NewPod, NextUid
      <4> QED
        BY <3>1, <4>2 DEF PhaseMove
    <3>3. CASE p # q
      BY <1>1, <2>2, <3>3 DEF CreatePod, PhaseMove
    <3> QED
      BY <3>2, <3>3
  <2>3. ASSUME NEW q \in Pods, CondemnPod(q), NEW p \in Pods PROVE PhaseMove(p)
    BY <1>1, <2>3 DEF CondemnPod, PhaseMove
  <2>4. crashes' = crashes
    BY <1>2 DEF StatefulSetController, elasticsearchVars
  <2> QED
    BY <1>2, <2>1, <2>2, <2>3, <2>4 DEF StatefulSetController, PhaseMove
<1>3. CASE Kubelet
  <2>1. ASSUME NEW q \in Pods, (StartPod(q) \/ ReadyPod(q)) /\ UNCHANGED elasticsearchVars
        PROVE  crashes' = crashes /\ \A p \in Pods : PhaseMove(p)
    <3>1. crashes' = crashes
      BY <2>1 DEF elasticsearchVars
    <3>2. ASSUME NEW p \in Pods PROVE PhaseMove(p)
      <4>1. CASE p = q
        BY <1>1, <2>1, <4>1 DEF StartPod, ReadyPod, PhaseMove
      <4>2. CASE p # q
        <5>1. pod'[p] = pod[p]
          BY <1>1, <2>1, <4>2 DEF StartPod, ReadyPod
        <5> QED
          BY <5>1 DEF PhaseMove
      <4> QED
        BY <4>1, <4>2
    <3> QED
      BY <3>1, <3>2
  <2>2. ASSUME NEW q \in Pods, NodeStops(q)
        PROVE  crashes' = crashes /\ \A p \in Pods : PhaseMove(p)
    <3>1. crashes' = crashes /\ pod' = [pod EXCEPT ![q] = NoPod(pod[q].uid)]
      BY <2>2 DEF NodeStops, RemovePod
    <3>2. ~NoPod(pod[q].uid).exists /\ NoPod(pod[q].uid).uid = pod[q].uid
          /\ NoPod(pod[q].uid).phase = "Pending"
      BY DEF NoPod
    <3>3. ASSUME NEW p \in Pods PROVE PhaseMove(p)
      <4>1. CASE p = q
        BY <1>1, <3>1, <3>2, <4>1 DEF PhaseMove
      <4>2. CASE p # q
        BY <1>1, <3>1, <4>2 DEF PhaseMove
      <4> QED
        BY <4>1, <4>2
    <3> QED
      BY <3>1, <3>3
  <2>3. ASSUME NEW q \in Pods, NodeCrashes(q)
        PROVE  crashes' = crashes + 1 /\ CrashMove(q) /\ \A p \in Pods : p # q => PhaseMove(p)
    BY <1>1, <2>3 DEF NodeCrashes, CrashPod, PhaseMove, CrashMove
  <2> QED
    BY <1>3, <2>1, <2>2, <2>3 DEF Kubelet
<1>4. CASE Cluster
  BY <1>4 DEF Cluster, JoinCluster, StartFromDisk, RecoverStale, AllocateReplica,
     StartRelocation, FinishRecovery, FinishRelocation, kubernetesVars, PhaseMove
<1> QED
  BY <1>2, <1>3, <1>4 DEF Surroundings

\* Everything around the worker.
LEMMA AroundPhase ==
  ASSUME TypeOK,
         \/ Surroundings \/ Watches \/ Observer
         \/ \E spec \in Specs : ChangeSpec(spec)
         \/ UNCHANGED vars
  PROVE  \/ crashes' = crashes /\ \A p \in Pods : PhaseMove(p)
         \/ crashes' = crashes + 1 /\ \E q \in Pods :
              CrashMove(q) /\ \A p \in Pods : p # q => PhaseMove(p)
<1>1. CASE Surroundings
  BY <1>1, SurroundingsPhase
<1>2. CASE \/ Watches \/ Observer
           \/ \E spec \in Specs : ChangeSpec(spec)
           \/ UNCHANGED vars
  BY <1>2 DEF Watches, SyncEs, SyncStatefulSetCache, SyncPodCache, SyncPods, SyncStatefulSets,
     Observer, Observe, StoreObservation, ChangeSpec, vars, elasticsearchVars, kubernetesVars,
     PhaseMove
<1> QED
  BY <1>1, <1>2

\* They keep what the cache knows of the containers, and count the crashes.
LEMMA PhasesAround ==
  ASSUME TypeOK, TypeOK', PhasesKnown, CrashesCounted,
         \/ Surroundings \/ Watches \/ Observer
         \/ \E spec \in Specs : ChangeSpec(spec)
         \/ UNCHANGED vars
  PROVE  PhasesKnown' /\ CrashesCounted'
<1>1. /\ pod \in [Pods -> PodRecords] /\ cPod \in [Pods -> PodRecords] /\ crashes \in Nat
  BY MaxCrashesAssumption DEF TypeOK, KubernetesTypeOK, ElasticsearchTypeOK
<1>2. \A p \in Pods : pod[p].uid \in Nat /\ cPod[p].uid \in Nat /\ pod'[p].uid \in Nat
  BY <1>1 DEF PodRecords, Uids, TypeOK, KubernetesTypeOK
<1>3. cPod' = cPod \/ (cPod' = pod /\ pod' = pod)
  BY AroundMoves
<1>4. \/ crashes' = crashes /\ \A p \in Pods : PhaseMove(p)
      \/ crashes' = crashes + 1 /\ \E q \in Pods :
           CrashMove(q) /\ \A p \in Pods : p # q => PhaseMove(p)
  BY AroundPhase
<1>5. PhasesKnown'
  <2> SUFFICES ASSUME NEW p \in Pods PROVE PhaseKnown(p)'
    BY DEF PhasesKnown
  <2>1. PhaseMove(p) \/ CrashMove(p)
    BY <1>4
  <2>2. PhaseKnown(p)
    BY DEF PhasesKnown
  <2>3. CASE cPod' = pod /\ pod' = pod
    BY <1>2, <2>3 DEF PhaseKnown
  <2>4. CASE cPod' = cPod
    <3>1. CASE CrashMove(p)
      BY <1>2, <2>2, <2>4, <3>1 DEF PhaseKnown, CrashMove
    <3>2. CASE pod'[p].uid > pod[p].uid
      <4>1. cPod'[p].uid < pod'[p].uid
        BY <1>2, <2>2, <2>4, <3>2 DEF PhaseKnown
      <4> QED
        BY <1>2, <2>4, <4>1 DEF PhaseKnown
    <3>3. CASE PhaseMove(p) /\ ~(pod'[p].uid > pod[p].uid)
      BY <1>2, <2>2, <2>4, <3>3 DEF PhaseKnown, PhaseMove
    <3> QED
      BY <2>1, <3>1, <3>2, <3>3
  <2> QED
    BY <1>3, <2>3, <2>4
<1>6. CrashesCounted'
  <2>1. LoopingPods \subseteq Pods /\ LoopingPods' \subseteq Pods
    BY DEF LoopingPods
  <2>2. Cardinality(LoopingPods) \in Nat /\ Cardinality(LoopingPods') \in Nat
        /\ IsFiniteSet(LoopingPods)
    BY <2>1, PodsCounted
  <2>3. CASE crashes' = crashes /\ \A p \in Pods : PhaseMove(p)
    <3>1. LoopingPods' \subseteq LoopingPods
      BY <2>3 DEF LoopingPods, PhaseMove
    <3>2. Cardinality(LoopingPods') <= Cardinality(LoopingPods)
      BY <2>2, <3>1, FS_Subset
    <3> QED
      BY <1>1, <2>2, <2>3, <3>2 DEF CrashesCounted
  <2>4. ASSUME crashes' = crashes + 1, NEW q \in Pods,
               \A p \in Pods : p # q => PhaseMove(p)
        PROVE  CrashesCounted'
    <3>1. LoopingPods' \subseteq LoopingPods \cup {q}
      BY <2>4 DEF LoopingPods, PhaseMove
    <3>2. Cardinality(LoopingPods') <= Cardinality(LoopingPods) + Cardinality({q})
      BY <2>1, <3>1, AtMostBoth
    <3>3. Cardinality({q}) = 1
      BY FS_Singleton
    <3> QED
      BY <1>1, <2>2, <2>4, <3>2, <3>3 DEF CrashesCounted
  <2> QED
    BY <1>4, <2>3, <2>4
<1> QED
  BY <1>5, <1>6

\* What the worker does to the containers: nothing.
LEMMA PhasesWorker ==
  ASSUME TypeOK, DownscaleInProgress, PlanSound, CacheCurrent, GoInv, PodsInv, PhasesKnown,
         CrashesCounted, FaultKinds \subseteq {"error"}, Worker
  PROVE  PhasesKnown' /\ CrashesCounted'
<1>1. CASE UNCHANGED <<pod, cPod, crashes>>
  BY <1>1 DEF PhasesKnown, PhaseKnown, CrashesCounted, LoopingPods
<1>2. CASE \/ StartReconcile \/ ReconcileClusterUUID \/ RetrieveActualStatefulSets
           \/ UpdateStatus
  BY <1>1, <1>2, OutsideSteps DEF Still
<1>3. CASE AwaitExpectations
  BY <1>1, <1>3 DEF AwaitExpectations, kubernetesVars, elasticsearchVars
<1>4. CASE Decision
  BY <1>1, <1>4, DecisionSteps DEF Still
<1>5. ASSUME NEW s \in NodeSets, ApplyResource(s) PROVE UNCHANGED <<pod, cPod, crashes>>
  BY <1>5, ApplySteps DEF GoInv
<1>6. CASE UpdateReplicas \/ RemoveStatefulSet
  BY <1>1, <1>6, WriteSteps
<1>7. CASE Rollout
  BY <1>1, <1>7, RolloutSteps
<1>8. CASE Removal
  <2>1. UNCHANGED <<cPod, crashes>>
    BY <1>8, RolloutSteps
  <2>2. PICK p \in Pods : Delete(p) \/ ForceDelete(p)
    BY <1>8 DEF Removal
  <2>3. pod' = pod \/ pod' = [pod EXCEPT ![p].terminating = TRUE]
    BY <2>2, DeletionSteps
  <2>4. \A q \in Pods : /\ pod'[q].exists = pod[q].exists /\ pod'[q].uid = pod[q].uid
                        /\ pod'[q].phase = pod[q].phase
    BY <2>3 DEF TypeOK, KubernetesTypeOK, PodRecords
  <2>5. LoopingPods' = LoopingPods
    BY <2>4 DEF LoopingPods
  <2> QED
    BY <2>1, <2>4, <2>5 DEF PhasesKnown, PhaseKnown, CrashesCounted
<1>9. CASE RecoverFromPanic
  <2>1. pod' = pod /\ cPod' = pod /\ crashes' = crashes
    BY <1>9 DEF RecoverFromPanic, Restart, elasticsearchVars
  <2>2. \A q \in Pods : pod[q].uid \in Nat
    BY DEF TypeOK, KubernetesTypeOK, PodRecords, Uids
  <2> QED
    BY <2>1, <2>2 DEF PhasesKnown, PhaseKnown, CrashesCounted, LoopingPods
<1> QED
  BY <1>1, <1>2, <1>3, <1>4, <1>5, <1>6, <1>7, <1>8, <1>9, WorkerSteps

-----------------------------------------------------------------------------
(***************************************************************************)
(* The Pods that the plan of a downscale keeps.                            *)
(***************************************************************************)
\* A plan goes on, or one more downscale is planned.
LEMMA LeavingFewer ==
  ASSUME TypeOK, pass'.actual = pass.actual,
         \/ down'.plan = down.plan
         \/ down.plan # <<>> /\ down'.plan = Tail(down.plan)
  PROVE  LeavingNodes' \subseteq LeavingNodes
<1>1. down.plan \in Seq(Plans)
  BY DEF TypeOK, DriverTypeOK, Downscaling
<1>2. \A i \in DOMAIN down'.plan : \E j \in DOMAIN down.plan : down'.plan[i] = down.plan[j]
  <2>1. CASE down'.plan = down.plan
    BY <2>1
  <2>2. CASE down.plan # <<>> /\ down'.plan = Tail(down.plan)
    <3>1. \A i \in DOMAIN Tail(down.plan) :
            i + 1 \in DOMAIN down.plan /\ Tail(down.plan)[i] = down.plan[i + 1]
      BY <1>1, <2>2, PlanParts
    <3> QED
      BY <2>2, <3>1
  <2> QED
    BY <2>1, <2>2
<1>3. \A d : PlannedNodes(d)' = PlannedNodes(d)
  BY DEF PlannedNodes
<1> QED
  BY <1>2, <1>3 DEF LeavingNodes, PlannedNodes

LEMMA LeavingMore ==
  ASSUME TypeOK, pass'.actual = pass.actual, NEW d \in Plans,
         down'.plan = Append(down.plan, d)
  PROVE  LeavingNodes' \subseteq LeavingNodes \cup PlannedNodes(d)
<1>1. down.plan \in Seq(Plans)
  BY DEF TypeOK, DriverTypeOK, Downscaling
<1>2. \A i \in DOMAIN down'.plan :
        down'.plan[i] = d \/ \E j \in DOMAIN down.plan : down'.plan[i] = down.plan[j]
  BY <1>1, PlanParts
<1> QED
  BY <1>2 DEF LeavingNodes, PlannedNodes

\* The nodes that are removed are of the plan.
LEMMA RemovedLeave ==
  ASSUME TypeOK, DownscaleInProgress, PlanBounded, pc = "dsUpdate"
  PROVE  RemovedNodes \subseteq LeavingNodes
<1>1. down.plan # <<>> /\ down.plan \in Seq(Plans) /\ down.target \in Nat
  BY DEF DownscaleInProgress, TypeOK, DriverTypeOK, Downscaling
<1>2. 1 \in DOMAIN down.plan /\ Head(down.plan) = down.plan[1] /\ Head(down.plan).target \in Nat
  <2>1. Head(down.plan) \in Plans
    BY <1>1, PlanTypes
  <2> QED
    BY <1>1, <2>1, PlanParts DEF Plans
<1>3. down.target >= Head(down.plan).target
  BY DEF PlanBounded, PlanLocations
<1>4. \A p \in RemovedNodes : p \in PlannedNodes(down.plan[1])
  BY <1>1, <1>2, <1>3 DEF RemovedNodes, PlannedNodes, Pods, Ordinals
<1> QED
  BY <1>2, <1>4 DEF LeavingNodes

\* Pods are up or down, and counted; the floor is the same during a plan.
LEMMA KeptTypes ==
  ASSUME TypeOK
  PROVE  /\ Kept \subseteq Pods /\ UpPods \subseteq Pods /\ Floor \in Int
         /\ Cardinality(Kept) \in Nat /\ Cardinality(UpPods) \in Nat
         /\ down.removals \in Int
<1>1. Kept \subseteq Pods /\ UpPods \subseteq Pods
  BY DEF Kept, UpPods
<1>2. Floor \in Int
  BY CountTypes, BudgetAssumption DEF Floor
<1>3. down.removals \in Int
  BY DEF TypeOK, DriverTypeOK, Downscaling
<1> QED
  BY <1>1, <1>2, <1>3, PodsCounted

LEMMA FloorSame ==
  ASSUME SamePass(pass, pass')
  PROVE  Floor' = Floor
BY DEF SamePass, Floor, DesiredNodeCount, NodeCount, Desired

\* No more nodes leave, and no Pod that is kept goes down.
LEMMA FloorStays ==
  ASSUME TypeOK, FloorKept, SamePass(pass, pass'),
         pc' \in PlanLocations => /\ pc \in PlanLocations
                                  /\ Kept \subseteq Kept' /\ LeavingNodes' \subseteq LeavingNodes,
         pc' = "calculate" => pc = "calculate" /\ down'.removals = down.removals
  PROVE  FloorKept'
<1> SUFFICES ASSUME MaxUnavailable >= 0, pc' \in PlanLocations
             PROVE  /\ LeavingNodes' # {} => Cardinality(Kept') >= Floor'
                    /\ pc' = "calculate" /\ down'.removals > 0
                         => Cardinality(Kept') >= Floor' + down'.removals
  BY DEF FloorKept
<1>1. Kept' \subseteq Pods
  BY DEF Kept, UpPods
<1>2. Cardinality(Kept') \in Nat /\ IsFiniteSet(Kept')
  BY <1>1, PodsCounted
<1>3. Cardinality(Kept) <= Cardinality(Kept')
  BY <1>2, FS_Subset
<1> HIDE DEF Kept
<1> QED
  BY <1>2, <1>3, KeptTypes, FloorSame DEF FloorKept

\* What happens around the worker takes no Pod down that stays.
LEMMA FloorAround ==
  ASSUME TypeOK, FloorKept,
         \/ Surroundings \/ Watches \/ Observer
         \/ \E spec \in Specs : ChangeSpec(spec)
         \/ UNCHANGED vars
  PROVE  FloorKept'
<1>1. /\ \A p \in Pods : PodMove(p) /\ (Wanted(p)' <=> Wanted(p))
      /\ \A p \in Pods : PhaseMove(p) \/ CrashMove(p)
      /\ UNCHANGED <<pc, pass, down>>
  BY AroundMoves, AroundPhase, AroundSteps
<1>2. \A p \in Pods : pod[p].uid \in Nat
  BY DEF TypeOK, KubernetesTypeOK, PodRecords, Uids
<1>3. ASSUME NEW p \in Pods, Up(p) PROVE Up(p)'
  <2>1. /\ pod'[p].exists /\ pod'[p].uid = pod[p].uid /\ ~pod'[p].terminating
    BY <1>1, <1>3 DEF Up, PodMove
  <2>2. pod'[p].phase \in {"Ready", "Looping"}
    BY <1>1, <1>2, <1>3, <2>1 DEF Up, PhaseMove, CrashMove
  <2> QED
    BY <1>1, <1>3, <2>1, <2>2 DEF Up
<1>4. LeavingNodes' = LeavingNodes
  BY <1>1 DEF LeavingNodes, PlannedNodes
<1>5. Kept \subseteq Kept'
  BY <1>3, <1>4 DEF Kept, UpPods
<1> QED
  BY <1>1, <1>4, <1>5, FloorStays DEF SamePass

\* When a downscale begins, what is ready in the cache is up.
LEMMA ReadyUp ==
  ASSUME TypeOK, GoInv, PodsInv, PhasesKnown, pc = "downscale"
  PROVE  ReadyNodes \subseteq UpPods
<1> SUFFICES ASSUME NEW p \in Pods, cPod[p].exists, cPod[p].phase = "Ready" PROVE Up(p)
  BY DEF ReadyNodes, IsPodReady, UpPods
<1>1. p[1] \in NodeSets /\ PodNamed(p) /\ PodKnown(p) /\ PhaseKnown(p)
      /\ Current(pass.actual[p[1]], sset[p[1]])
  BY DEF GoInv, EarlyCurrent, Early, PodsInv, PodsNamed, PodsKnown, PhasesKnown, Scaling, Pods
<1>2. sset[p[1]].exists => pass.actual[p[1]].exists
  BY <1>1 DEF GoInv, Shrinking, PhaseLocations, Locations
<1>3. Wanted(p)
  BY <1>1, <1>2, WantedNamed DEF PodNamed
<1>4. Fresh(p)
  BY <1>1, <1>3 DEF PodNamed, PodKnown
<1> QED
  BY <1>1, <1>3, <1>4 DEF Fresh, PhaseKnown, Up

\* Every downscale that is planned takes its nodes from what is above the floor.
LEMMA FloorDecision ==
  ASSUME TypeOK, DownscaleInProgress, PlanSound, GoInv, PodsInv, PhasesKnown, FloorKept,
         Decision
  PROVE  FloorKept'
<1> SUFFICES ASSUME pc' \in PlanLocations, MaxUnavailable >= 0 PROVE FloorKept'
  BY DEF FloorKept
<1>1. SamePass(pass, pass') /\ UNCHANGED <<sset, pod>> /\ pass'.actual = pass.actual
  BY DecisionSteps DEF Still, SamePass
<1>2. UpPods' = UpPods /\ Floor' = Floor
  BY <1>1, FloorSame DEF UpPods, Up, Wanted
<1>3. down \in Downscaling /\ down.plan \in Seq(Plans)
  BY DEF TypeOK, DriverTypeOK, Downscaling
<1>4. CASE pc = "downscale" /\ pc' = "calculate"
           /\ down' = [NoDown EXCEPT !.removals = RemovalsAllowed,
                                     !.masters = Cardinality(ReadyNodes \cap Masters),
                                     !.todo = Downscales]
  <2>1. down'.plan = <<>> /\ down'.removals = RemovalsAllowed
    BY <1>4 DEF NoDown
  <2>2. LeavingNodes' = {}
    BY <2>1 DEF LeavingNodes
  <2>3. Kept' = UpPods
    BY <1>2, <2>2 DEF Kept
  <2>4. Cardinality(ReadyNodes) <= Cardinality(UpPods) /\ Cardinality(ReadyNodes) \in Nat
    <3>1. ReadyNodes \subseteq UpPods /\ UpPods \subseteq Pods
      BY <1>4, ReadyUp DEF UpPods
    <3>2. IsFiniteSet(UpPods) /\ Cardinality(ReadyNodes) \in Nat
      BY <3>1, PodsCounted
    <3> QED
      BY <3>1, <3>2, FS_Subset
  <2>5. RemovalsAllowed > 0 => Cardinality(ReadyNodes) = Floor + RemovalsAllowed
    BY <2>4, KeptTypes, CountTypes, BudgetAssumption DEF RemovalsAllowed, Floor
  <2>6. RemovalsAllowed \in Int
    BY <2>4, CountTypes, BudgetAssumption DEF RemovalsAllowed
  <2> HIDE DEF Kept
  <2> QED
    BY <1>2, <1>4, <2>1, <2>2, <2>3, <2>4, <2>5, <2>6, KeptTypes DEF FloorKept
<1>5. ASSUME pc = "calculate", pc' = "calculate", NEW s \in Downscales,
             CheckDownscaleInvariants(s), down' = RecordRemoval(s, ToRemove(s))
      PROVE  FloorKept'
  <2> DEFINE n == ToRemove(s)
             d == [set |-> s, target |-> pass.actual[s].replicas - n]
  <2>1. /\ n \in Nat /\ n <= down.removals /\ n <= pass.actual[s].replicas
        /\ pass.actual[s].replicas \in 0 .. MaxReplicas /\ s \in NodeSets
        /\ down.removals \in Int /\ down.removals > 0
    <3>1. /\ n \in Nat /\ n <= pass.actual[s].replicas - FinalReplicas(s)
          /\ n <= down.removals
      BY <1>5, ToRemoveLimits
    <3>2. /\ pass.actual[s].replicas \in 0 .. MaxReplicas /\ FinalReplicas(s) \in Nat
          /\ s \in NodeSets
      BY <1>5, FinalReplicasType, PassParts DEF Downscales, StatefulSets
    <3>3. down.removals \in Int /\ down.removals > 0
      BY <1>3, <1>5, BudgetAssumption DEF CheckDownscaleInvariants, Downscaling
    <3> HIDE DEF n
    <3> QED
      BY <3>1, <3>2, <3>3, MaxReplicasAssumption
  <2>2. down'.plan = Append(down.plan, d) /\ down'.removals = down.removals - n
    <3>1. ~(MaxUnavailable < 0)
      BY BudgetAssumption
    <3> QED
      BY <1>3, <1>5, <3>1 DEF RecordRemoval, Downscaling
  <2> HIDE DEF n
  <2>3. d \in Plans
    BY <2>1, MaxReplicasAssumption DEF Plans
  <2>4. PlannedNodes(d) \subseteq Pods /\ Cardinality(PlannedNodes(d)) <= n
    <3>1. d.set = s /\ d.target = pass.actual[s].replicas - n
      OBVIOUS
    <3> HIDE DEF d
    <3> QED
      BY <2>1, <3>1, PlannedCount
  <2> HIDE DEF d
  <2>5. LeavingNodes' \subseteq LeavingNodes \cup PlannedNodes(d)
    BY <1>1, <2>2, <2>3, LeavingMore
  <2>6. Kept \subseteq Kept' \cup PlannedNodes(d)
    BY <1>2, <2>5 DEF Kept
  <2>7. Cardinality(Kept) <= Cardinality(Kept') + Cardinality(PlannedNodes(d))
    <3>1. Kept \subseteq Pods /\ Kept' \subseteq Pods
      BY DEF Kept, UpPods
    <3> HIDE DEF Kept
    <3> QED
      BY <2>4, <2>6, <3>1, AtMostBoth
  <2>8. Cardinality(Kept') \in Nat /\ Cardinality(PlannedNodes(d)) \in Nat
    <3>1. Kept' \subseteq Pods
      BY DEF Kept, UpPods
    <3> HIDE DEF Kept
    <3> QED
      BY <2>4, <3>1, PodsCounted
  <2>9. Cardinality(Kept) >= Floor + down.removals
    BY <1>5, <2>1 DEF FloorKept, PlanLocations
  <2>10. Cardinality(Kept') >= Floor + down'.removals
    BY <2>1, <2>2, <2>4, <2>7, <2>8, <2>9, KeptTypes
  <2>11. down'.removals \in Nat
    BY <2>1, <2>2
  <2>12. Cardinality(Kept') >= Floor
    BY <2>8, <2>10, <2>11, KeptTypes
  <2> HIDE DEF Kept
  <2> QED
    BY <1>2, <2>10, <2>12 DEF FloorKept
<1>6. CASE /\ pc \in PlanLocations
           /\ down'.plan = down.plan \/ (down.plan # <<>> /\ down'.plan = Tail(down.plan))
           /\ pc' = "calculate" => pc = "calculate" /\ down'.removals = down.removals
  <2>1. LeavingNodes' \subseteq LeavingNodes
    BY <1>1, <1>6, LeavingFewer
  <2>2. Kept \subseteq Kept'
    BY <1>2, <2>1 DEF Kept
  <2> QED
    BY <1>1, <1>6, <2>1, <2>2, FloorStays
<1>7. down.plan # <<>> => Advance.plan = Tail(down.plan)
  BY <1>3 DEF Advance, Downscaling
<1>8. /\ \A s : [down EXCEPT !.todo = @ \ {s}].plan = down.plan
      /\ \A s : [down EXCEPT !.todo = @ \ {s}].removals = down.removals
      /\ \A t : [down EXCEPT !.target = t].plan = down.plan
  BY <1>3 DEF Downscaling
<1> QED
  BY <1>4, <1>5, <1>6, <1>7, <1>8, PlanSteps DEF PlanLocations

\* A downscale that is carried out takes down only nodes that leave.
LEMMA FloorWrite ==
  ASSUME TypeOK, DownscaleInProgress, PlanSound, PodsInv, FloorKept,
         UpdateReplicas \/ RemoveStatefulSet
  PROVE  FloorKept'
<1>1. /\ down.plan # <<>> /\ pod' = pod /\ SamePass(pass, pass')
      /\ pc \in PlanLocations /\ pc' \in {"attempt", "status"}
      /\ down'.plan = Tail(down.plan)
      /\ UpdateReplicas => pc = "dsUpdate"
  BY WriteSteps DEF PlanLocations
<1>2. LeavingNodes' \subseteq LeavingNodes
  BY <1>1, LeavingFewer DEF SamePass
<1>3. ASSUME NEW p \in Kept PROVE Wanted(p)'
  <2>1. p \in Pods /\ Wanted(p) /\ p \notin LeavingNodes
    BY DEF Kept, UpPods, Up
  <2> QED
    BY <1>1, <2>1, WritePod, RemovedLeave DEF PodsInv
<1>4. Kept \subseteq Kept'
  BY <1>1, <1>2, <1>3 DEF Kept, UpPods, Up
<1> QED
  BY <1>1, <1>2, <1>4, FloorStays

-----------------------------------------------------------------------------
\* Every step keeps it.
LEMMA BudgetStep ==
  ASSUME FaultKinds \subseteq {"error"}, ReadyInv, ReadyInv', GoInv, PodsInv, BudgetInv,
         [Next]_vars
  PROVE  BudgetInv'
<1>1. /\ TypeOK /\ TypeOK' /\ DownscaleInProgress /\ PlanSound /\ CacheCurrent
      /\ PhasesKnown /\ CrashesCounted /\ FloorKept
  BY DEF ReadyInv, TypeInv, BudgetInv
<1>2. ASSUME Worker PROVE BudgetInv'
  <2>1. PhasesKnown' /\ CrashesCounted'
    BY <1>1, <1>2, PhasesWorker
  <2>2. CASE pc' \notin PlanLocations
    BY <2>1, <2>2 DEF BudgetInv, FloorKept
  <2>3. CASE Decision
    BY <1>1, <2>1, <2>3, FloorDecision DEF BudgetInv
  <2>4. CASE UpdateReplicas \/ RemoveStatefulSet
    BY <1>1, <2>1, <2>4, FloorWrite DEF BudgetInv
  <2>5. ASSUME \/ StartReconcile \/ ReconcileClusterUUID \/ RetrieveActualStatefulSets
               \/ UpdateStatus \/ AwaitExpectations
               \/ \E s \in NodeSets : ApplyResource(s)
               \/ Rollout \/ Removal \/ RecoverFromPanic
        PROVE  pc' \notin PlanLocations
    <3>1. CASE \/ StartReconcile \/ ReconcileClusterUUID \/ RetrieveActualStatefulSets
               \/ UpdateStatus
      BY <1>1, <3>1, OutsideSteps DEF PlanLocations
    <3>2. CASE AwaitExpectations \/ RecoverFromPanic
      BY <3>2 DEF AwaitExpectations, RecoverFromPanic, Restart, PlanLocations
    <3>3. ASSUME NEW s \in NodeSets, ApplyResource(s) PROVE pc' \notin PlanLocations
      BY <1>1, <3>3, ApplySteps DEF GoInv, PlanLocations
    <3>4. CASE Rollout \/ Removal
      BY <1>1, <3>4, RolloutSteps DEF Scaling, Early, PlanLocations, PhaseLocations
    <3> QED
      BY <2>5, <3>1, <3>2, <3>3, <3>4
  <2> QED
    BY <1>2, <2>2, <2>3, <2>4, <2>5, WorkerSteps
<1>3. ~OperatorRestarts
  BY DEF OperatorRestarts
<1>4. ASSUME \/ Surroundings \/ Watches \/ Observer
             \/ \E spec \in Specs : ChangeSpec(spec)
             \/ UNCHANGED vars
      PROVE  BudgetInv'
  BY <1>1, <1>4, PhasesAround, FloorAround DEF BudgetInv
<1> QED
  BY <1>2, <1>3, <1>4 DEF Next

\* A running cluster, none of whose containers has crashed.
LEMMA BudgetInit ==
  ASSUME Bootstrapped, Init
  PROVE  BudgetInv
<1>1. InitRunning /\ cPod = pod /\ pc = "idle" /\ crashes = 0 /\ TypeOK
  BY Zenon, ReadyInit DEF Init, ReadyInv, TypeInv
<1>2. ASSUME NEW p \in Pods PROVE pod[p].phase # "Looping"
  <2>1. pod[p] = IF p \in InitialPods
                   THEN [NewPod(0, InitialSpec.tmpl[p[1]]) EXCEPT
                           !.phase = "Ready",
                           !.boot = IF p \in InitialMasters /\ MajorOf(InitialSpec) >= 7
                                      THEN InitialMasters ELSE {}]
                   ELSE NoPod(0)
    BY <1>1, Zenon DEF InitRunning
  <2>2. \A u, v : [NewPod(0, u) EXCEPT !.phase = "Ready", !.boot = v].phase = "Ready"
    BY DEF NewPod
  <2>3. NoPod(0).phase = "Pending"
    BY DEF NoPod
  <2> QED
    BY <2>1, <2>2, <2>3
<1>3. PhasesKnown
  BY <1>1 DEF PhasesKnown, PhaseKnown, TypeOK, KubernetesTypeOK, PodRecords, Uids
<1>4. CrashesCounted
  <2>1. LoopingPods = {}
    BY <1>2 DEF LoopingPods
  <2> QED
    BY <1>1, <2>1, FS_EmptySet DEF CrashesCounted
<1> QED
  BY <1>1, <1>3, <1>4 DEF BudgetInv, FloorKept, PlanLocations

\* Before a write of the downscale, nothing but that write takes Pods away.
LEMMA OnlyUpdate ==
  ASSUME TypeInv, PlanSound, CacheCurrent, GoInv, [Next]_vars, pc = "dsUpdate",
         ~UpdateReplicas
  PROVE  WantedPods' = WantedPods
<1>1. CASE Worker
  <2>1. ~ (StartReconcile \/ ReconcileClusterUUID \/ RetrieveActualStatefulSets
           \/ UpdateStatus \/ AwaitExpectations \/ RemoveStatefulSet
           \/ RecoverFromPanic \/ \E s \in NodeSets : ApplyResource(s))
    BY DEF StartReconcile, ReconcileClusterUUID, RetrieveActualStatefulSets, UpdateStatus,
           AwaitExpectations, RemoveStatefulSet, RecoverFromPanic, ApplyResource
  <2>2. CASE Decision
    BY <2>2, DecisionSteps DEF TypeInv, Still, WantedPods, Wanted
  <2>3. CASE Rollout \/ Removal
    BY <2>3, RolloutSteps DEF TypeInv, WantedPods, Wanted
  <2> QED
    BY <1>1, <2>1, <2>2, <2>3, WorkerSteps
<1>2. CASE OperatorRestarts
  BY <1>2 DEF OperatorRestarts, Restart, WantedPods, Wanted
<1>3. CASE \/ Surroundings \/ Watches \/ Observer
           \/ \E spec \in Specs : ChangeSpec(spec)
           \/ UNCHANGED vars
  BY <1>3, AroundMoves DEF TypeInv, WantedPods
<1> QED
  BY <1>1, <1>2, <1>3 DEF Next

\* The Pods that stay are enough of them ready, but for those that crashed.
LEMMA EnoughStay ==
  ASSUME ReadyInv, GoInv, PodsInv, BudgetInv, [Next]_vars,
         pc = "dsUpdate", MaxUnavailable >= 0, WantedPods' # WantedPods
  PROVE  Cardinality({p \in WantedPods' : IsReady(p)})
           >= DesiredNodeCount - MaxUnavailable - crashes
<1> DEFINE R == {p \in WantedPods' : IsReady(p)}
<1>1. /\ TypeOK /\ DownscaleInProgress /\ PlanSound /\ UpdateReplicas
      /\ RemovedNodes \subseteq LeavingNodes
  BY OnlyUpdate, RemovedLeave DEF ReadyInv, TypeInv, PodsInv
<1>2. \A p \in Pods : /\ Wanted(p)' => Wanted(p)
                      /\ Wanted(p) /\ ~Wanted(p)' => p \in LeavingNodes
  BY <1>1, WritePod
<1>3. LeavingNodes # {}
  <2>1. PICK p \in Pods : Wanted(p) /\ ~Wanted(p)'
    BY <1>2 DEF WantedPods
  <2> QED
    BY <1>2, <2>1
<1>4. Cardinality(Kept) >= Floor
  BY <1>3 DEF BudgetInv, FloorKept, PlanLocations
<1>5. Kept \subseteq R \cup LoopingPods
  BY <1>2 DEF Kept, UpPods, Up, WantedPods, IsReady, LoopingPods
<1>6. R \subseteq Pods /\ LoopingPods \subseteq Pods /\ Kept \subseteq Pods
  BY <1>1, KeptTypes DEF WantedPods, LoopingPods
<1> HIDE DEF R
<1>7. Cardinality(Kept) <= Cardinality(R) + Cardinality(LoopingPods)
  BY <1>5, <1>6, AtMostBoth
<1>8. /\ Cardinality(R) \in Nat /\ Cardinality(LoopingPods) \in Nat
      /\ Cardinality(LoopingPods) <= crashes /\ crashes \in Nat
  BY <1>1, <1>6, PodsCounted, MaxCrashesAssumption
     DEF BudgetInv, CrashesCounted, TypeOK, ElasticsearchTypeOK
<1>9. Cardinality(R) >= Floor - crashes
  BY <1>1, <1>4, <1>7, <1>8, KeptTypes
<1> QED
  BY <1>9 DEF Floor, R

\* From a running cluster, while the user only takes nodeSets away, a downscale
\* leaves the ready Pods that maxUnavailable asks for, besides those whose container
\* crashed: however stale the cache of Pods it counts them in, and whatever happens
\* between the count and the removal (driver/downscale.go, downscale_invariants.go).
THEOREM DownscaleKeepsBudget ==
  Bootstrapped /\ FaultKinds \subseteq {"error"}
    => (Spec /\ NodeSetsOnlyGo => DownscaleKeepsAvailable)
<1> SUFFICES ASSUME Bootstrapped, FaultKinds \subseteq {"error"}
             PROVE  Spec /\ NodeSetsOnlyGo => DownscaleKeepsAvailable
  OBVIOUS
<1> DEFINE Inv == ReadyInv /\ GoInv /\ PodsInv /\ BudgetInv
<1>1. Init => Inv
  BY ReadyInit, GoInit, PodsInit, BudgetInit
<1>2. Inv /\ [Next]_vars /\ [OnlyGo]_es => Inv'
  <2> SUFFICES ASSUME Inv, [Next]_vars, [OnlyGo]_es PROVE Inv'
    OBVIOUS
  <2>1. ReadyInv' /\ GoInv'
    BY ReadyStep, GoStep DEF OnlyGo
  <2> QED
    BY <2>1, PodsStep, BudgetStep
<1>3. Inv /\ [Next]_vars =>
        [pc = "dsUpdate" /\ MaxUnavailable >= 0 /\ WantedPods' # WantedPods
           => Cardinality({p \in WantedPods' : IsReady(p)})
                >= DesiredNodeCount - MaxUnavailable - crashes]_vars
  BY EnoughStay
<1> QED
  BY <1>1, <1>2, <1>3, PTL DEF Spec, NodeSetsOnlyGo, DownscaleKeepsAvailable

-----------------------------------------------------------------------------
(***************************************************************************)
(* The Pods a rolling upgrade restarts.                                    *)
(***************************************************************************)
\* The user removes nodeSets and nodes, and changes templates.
NoneGrows ==
  /\ es'.spec.sets \subseteq es.spec.sets
  /\ \A s \in es'.spec.sets : es'.spec.count[s] <= es.spec.count[s]
NodeSetsOnlyShrink == [][NoneGrows]_es

\* The later a copy of the specification, the fewer replicas it asks for, and none
\* asks for more than there are.
Descending ==
  /\ \A s \in es.spec.sets : es.spec.count[s] <= cEs.spec.count[s]
  /\ \A s \in cEs.spec.sets : cEs.spec.count[s] <= sset[s].replicas
  /\ pc # "idle" => /\ \A s \in cEs.spec.sets : cEs.spec.count[s] <= Desired.count[s]
                    /\ \A s \in Desired.sets : Desired.count[s] <= sset[s].replicas
  /\ pc = "apply" => \A s \in up.todo : up.replicas[s] <= sset[s].replicas

\* A step keeps it when it takes no replicas below the specification of the pass.
LEMMA DescendingKept ==
  ASSUME TypeOK, TypeOK', Shrinking, Descending, NoneGrows,
         cEs' = cEs \/ (cEs' = es /\ es' = es),
         pc' # "idle" => \/ pc # "idle" /\ Desired' = Desired
                         \/ cEs' = cEs /\ Desired' = cEs.spec,
         \/ \A s \in NodeSets : sset'[s].replicas = sset[s].replicas
         \/ /\ pc # "idle"
            /\ \A s \in NodeSets : \/ sset'[s].replicas = sset[s].replicas
                                   \/ s \notin Desired.sets
                                   \/ Desired.count[s] <= sset'[s].replicas,
         pc' = "apply" => \A s \in up'.todo : up'.replicas[s] <= sset'[s].replicas
  PROVE  Descending'
<1>1. /\ es.spec.sets \subseteq NodeSets /\ cEs.spec.sets \subseteq NodeSets
      /\ es'.spec.sets \subseteq NodeSets /\ es.spec.sets \subseteq cEs.spec.sets
      /\ es'.spec.sets \subseteq es.spec.sets
      /\ pc # "idle" => cEs.spec.sets \subseteq Desired.sets
      /\ Desired.sets \subseteq NodeSets
  BY SpecSets DEF Shrinking, NoneGrows
<1>2. ASSUME NEW s \in NodeSets
      PROVE  /\ es.spec.count[s] \in Nat /\ es'.spec.count[s] \in Nat
             /\ cEs.spec.count[s] \in Nat /\ Desired.count[s] \in Nat
             /\ sset[s].replicas \in Nat /\ sset'[s].replicas \in Nat
  <2>1. es.spec \in Specs /\ es'.spec \in Specs /\ cEs.spec \in Specs /\ Desired \in Specs
    BY PassParts DEF TypeOK, DriverTypeOK, Resources
  <2>2. sset \in [NodeSets -> StatefulSets] /\ sset' \in [NodeSets -> StatefulSets]
    BY DEF TypeOK, KubernetesTypeOK
  <2> QED
    BY <2>1, <2>2, SpecTypes, MaxReplicasAssumption DEF StatefulSets
<1>3. \A s \in cEs.spec.sets : cEs.spec.count[s] <= sset'[s].replicas
  BY <1>1, <1>2 DEF Descending
<1>4. \A s \in es'.spec.sets : es'.spec.count[s] <= cEs.spec.count[s]
  BY <1>1, <1>2 DEF Descending, NoneGrows
<1>5. \A s \in es'.spec.sets : es'.spec.count[s] <= cEs'.spec.count[s]
  BY <1>1, <1>2, <1>4
<1>6. \A s \in cEs'.spec.sets :
        s \in cEs.spec.sets /\ cEs'.spec.count[s] <= cEs.spec.count[s]
  <2>1. CASE cEs' = cEs
    BY <1>1, <1>2, <2>1
  <2>2. CASE cEs' = es /\ es' = es
    BY <1>1, <1>2, <1>4, <2>2
  <2> QED
    BY <2>1, <2>2
<1>7. \A s \in cEs'.spec.sets : cEs'.spec.count[s] <= sset'[s].replicas
  <2> SUFFICES ASSUME NEW s \in cEs'.spec.sets
               PROVE  cEs'.spec.count[s] <= sset'[s].replicas
    OBVIOUS
  <2>1. s \in NodeSets /\ cEs'.spec.count[s] \in Nat
    BY <1>1, <1>2, <1>6
  <2> QED
    BY <1>2, <1>3, <1>6, <2>1
<1>8. ASSUME pc' # "idle"
      PROVE  /\ \A s \in cEs'.spec.sets : cEs'.spec.count[s] <= Desired'.count[s]
             /\ \A s \in Desired'.sets : Desired'.count[s] <= sset'[s].replicas
  <2>1. CASE pc # "idle" /\ Desired' = Desired
    <3>1. \A s \in Desired.sets : Desired.count[s] <= sset'[s].replicas
      BY <1>1, <1>2, <2>1 DEF Descending
    <3>2. ASSUME NEW s \in cEs'.spec.sets PROVE cEs'.spec.count[s] <= Desired.count[s]
      <4>1. s \in NodeSets /\ cEs'.spec.count[s] \in Nat
        BY <1>1, <1>2, <1>6
      <4>2. cEs.spec.count[s] <= Desired.count[s]
        BY <1>6, <2>1 DEF Descending
      <4> QED
        BY <1>2, <1>6, <4>1, <4>2
    <3> QED
      BY <2>1, <3>1, <3>2
  <2>2. CASE cEs' = cEs /\ Desired' = cEs.spec
    BY <1>1, <1>2, <1>3, <2>2
  <2> QED
    BY <1>8, <2>1, <2>2
<1> QED
  BY <1>5, <1>7, <1>8 DEF Descending

\* The upscale changes no replicas then.
LEMMA ApplyReplicas ==
  ASSUME TypeOK, CacheCurrent, GoInv, Descending, NEW s \in NodeSets, ApplyResource(s)
  PROVE  \A t \in NodeSets : /\ sset'[t].replicas = sset[t].replicas
                             /\ sset'[t].exists = sset[t].exists
<1>1. /\ pc = "apply" /\ s \in up.todo /\ s \in Desired.sets /\ sset[s].exists
      /\ sset' = sset \/ sset' = [sset EXCEPT ![s] = Applied(s)]
  BY ApplySteps DEF GoInv
<1>2. pass.actual[s].replicas = sset[s].replicas
  BY <1>1
     DEF GoInv, EarlyCurrent, Early, Current, Shrinking, PhaseLocations, Locations
<1>3. up.replicas[s] \in Nat /\ sset[s].replicas \in Nat
  BY MaxReplicasAssumption
     DEF TypeOK, DriverTypeOK, Upscaling, KubernetesTypeOK, StatefulSets
<1>4. up.replicas[s] = sset[s].replicas
  BY <1>1, <1>2, <1>3 DEF GoInv, ApplyGrows, Descending
<1>5. Applied(s).replicas = sset[s].replicas /\ Applied(s).exists = sset[s].exists
  BY <1>1, <1>4, AppliedReplicas
<1> QED
  BY <1>1, <1>5 DEF TypeOK, KubernetesTypeOK

\* The steps of the worker keep it: a write of the downscale goes no further than the
\* specification.
LEMMA DescendingWorker ==
  ASSUME ReadyInv, ReadyInv', GoInv, PodsInv, Descending, NoneGrows, Worker
  PROVE  Descending'
<1>1. /\ TypeOK /\ TypeOK' /\ DownscaleInProgress /\ PlanSound /\ CacheCurrent /\ Shrinking
      /\ EarlyCurrent /\ ApplyGrows
  BY DEF ReadyInv, TypeInv, GoInv
<1>0. \A s \in NodeSets : /\ sset[s].replicas \in Nat /\ Desired.count[s] \in Nat
                          /\ pass.actual[s].replicas \in Nat
  BY <1>1, PassParts, SpecTypes, MaxReplicasAssumption DEF TypeOK, KubernetesTypeOK, StatefulSets
<1>2. Desired.sets \subseteq NodeSets /\ (pc # "idle" => \A s \in Desired.sets : sset[s].exists)
  BY <1>1, SpecSets DEF Shrinking
<1>3. CASE \/ StartReconcile \/ ReconcileClusterUUID \/ RetrieveActualStatefulSets
           \/ UpdateStatus
  <2>1. /\ UNCHANGED <<sset, cEs>> /\ pc' # "apply"
        /\ \/ pc = "idle" /\ pass' = NewPass(cEs)
           \/ pc # "idle" /\ Desired' = Desired
           \/ pc' = "idle"
    BY <1>1, <1>3, OutsideSteps, PassParts DEF Still, SamePass, Desired, Passes
  <2>2. pass' = NewPass(cEs) => Desired' = cEs.spec
    BY NewPassParts DEF Desired
  <2> QED
    BY <1>1, <2>1, <2>2, DescendingKept
<1>4. CASE AwaitExpectations
  <2>1. /\ UNCHANGED <<sset, cEs>> /\ pc' # "apply" /\ pc # "idle" /\ Desired' = Desired
    BY <1>1, <1>4, PassParts, PassKept
       DEF AwaitExpectations, kubernetesVars, resourceVars, SamePass, Desired
  <2> QED
    BY <1>1, <2>1, DescendingKept
<1>5. CASE Decision
  <2>1. /\ UNCHANGED <<sset, cEs>> /\ pc # "idle" /\ Desired' = Desired
        /\ pc' = "apply" => pc = "adjust"
    BY <1>1, <1>5, DecisionSteps DEF Still, SamePass, Desired, Scaling, Early
  <2>2. ASSUME pc' = "apply", NEW s \in up'.todo PROVE up'.replicas[s] <= sset[s].replicas
    <3>1. AdjustResources /\ s \in Desired.sets /\ s \in NodeSets
      BY <1>2, <1>5, <2>1, <2>2, OnlyAdjust DEF AdjustResources
    <3>2. pass.actual[s].replicas = sset[s].replicas \/ ~pass.actual[s].exists
      BY <1>1, <1>2, <2>1, <2>2, <3>1 DEF EarlyCurrent, Early, Current
    <3>3. pass.actual[s].exists
      BY <1>1, <1>2, <2>1, <2>2, <3>1 DEF Shrinking, PhaseLocations, Locations
    <3>4. \/ up'.replicas[s] <= pass.actual[s].replicas
          \/ up'.replicas[s] <= Desired.count[s]
      BY <1>1, <2>2, <3>1, AdjustedGrows
    <3>5. Desired.count[s] <= sset[s].replicas
      BY <2>1, <3>1 DEF Descending
    <3>6. up'.replicas[s] \in Nat
      BY <1>1, <3>1, MaxReplicasAssumption DEF TypeOK, DriverTypeOK, Upscaling
    <3> QED
      BY <1>0, <3>1, <3>2, <3>3, <3>4, <3>5, <3>6
  <2> QED
    BY <1>1, <2>1, <2>2, DescendingKept
<1>6. ASSUME NEW s \in NodeSets, ApplyResource(s) PROVE Descending'
  <2>1. /\ pc = "apply" /\ cEs' = cEs /\ Desired' = Desired
        /\ pc' = "apply" => up'.todo \subseteq up.todo /\ up'.replicas = up.replicas
    BY <1>1, <1>6, ApplySteps DEF Desired
  <2>2. \A t \in NodeSets : sset'[t].replicas = sset[t].replicas
    BY <1>1, <1>6, ApplyReplicas DEF GoInv
  <2>3. up.todo \subseteq NodeSets
    BY <1>1 DEF TypeOK, DriverTypeOK, Upscaling
  <2>4. pc' = "apply" => \A t \in up'.todo : up'.replicas[t] <= sset'[t].replicas
    BY <2>1, <2>2, <2>3 DEF Descending
  <2> QED
    BY <1>1, <2>1, <2>2, <2>4, DescendingKept
<1>7. CASE UpdateReplicas \/ RemoveStatefulSet
  <2> DEFINE s == Head(down.plan).set
  <2> DEFINE written == WrittenStatefulSet(sset[s], down.target, pass.actual[s].tmpl, FALSE)
  <2>1. /\ s \in NodeSets /\ cEs' = cEs /\ pc \in PlanLocations /\ pc' # "apply"
        /\ Desired' = Desired /\ down.plan # <<>>
        /\ \/ sset' = sset
           \/ pc = "dsUpdate" /\ sset' = [sset EXCEPT ![s] = written]
           \/ s \notin Desired.sets /\ sset' = [sset EXCEPT ![s] = NoStatefulSet(sset[s].uid)]
    BY <1>1, <1>7, WriteSteps DEF SamePass, Desired, PlanLocations
  <2>2. pc = "dsUpdate" /\ s \in Desired.sets => Desired.count[s] <= written.replicas
    <3>1. ASSUME pc = "dsUpdate", s \in Desired.sets
          PROVE  Desired.count[s] <= down.target
      <4>1. down.plan \in Seq(Plans) /\ down.target \in Nat
        BY <1>1, MaxReplicasAssumption DEF TypeOK, DriverTypeOK, Downscaling
      <4>2. 1 \in DOMAIN down.plan /\ Head(down.plan) = down.plan[1] /\ down.plan[1] \in Plans
        BY <2>1, <4>1, PlanParts
      <4>3. Head(down.plan).target >= FinalReplicas(s) /\ down.target >= Head(down.plan).target
        BY <3>1, <4>2 DEF PodsInv, PlanBounded, PlanLocations
      <4>4. FinalReplicas(s) = Desired.count[s] /\ Head(down.plan).target \in Nat
        BY <3>1, <4>2, MaxReplicasAssumption DEF FinalReplicas, Plans
      <4> QED
        BY <1>0, <2>1, <4>1, <4>3, <4>4
    <3>2. written.replicas = down.target
      BY <1>1, <2>1 DEF WrittenStatefulSet, TypeOK, KubernetesTypeOK, StatefulSets
    <3> QED
      BY <3>1, <3>2
  <2> HIDE DEF s, written
  <2>3. \A t \in NodeSets : \/ sset'[t].replicas = sset[t].replicas
                            \/ t \notin Desired.sets
                            \/ Desired.count[t] <= sset'[t].replicas
    BY <1>1, <2>1, <2>2 DEF TypeOK, KubernetesTypeOK
  <2>4. pc # "idle"
    BY <2>1 DEF PlanLocations
  <2> QED
    BY <1>1, <2>1, <2>3, <2>4, DescendingKept
<1>8. CASE Rollout \/ Removal
  <2>1. /\ UNCHANGED <<sset, cEs>> /\ pc' # "apply" /\ pc # "idle" /\ Desired' = Desired
    BY <1>1, <1>8, RolloutSteps
       DEF SamePass, Desired, PhaseLocations, Locations, Scaling, Early
  <2> QED
    BY <1>1, <2>1, DescendingKept
<1>9. CASE RecoverFromPanic
  <2>1. /\ sset' = sset /\ cEs' = es /\ es' = es /\ pc' = "idle"
    BY <1>9 DEF RecoverFromPanic, Restart
  <2> QED
    BY <1>1, <2>1, DescendingKept
<1> QED
  BY <1>3, <1>4, <1>5, <1>6, <1>7, <1>8, <1>9, WorkerSteps

\* Every step keeps it: the steps around the worker take no replicas.
LEMMA DescendingStep ==
  ASSUME FaultKinds \subseteq {"error"}, ReadyInv, ReadyInv', GoInv, PodsInv, Descending,
         NoneGrows, [Next]_vars
  PROVE  Descending'
<1>1. TypeOK /\ TypeOK' /\ Shrinking
  BY DEF ReadyInv, TypeInv, GoInv
<1>2. ~OperatorRestarts
  BY DEF OperatorRestarts
<1>3. CASE \/ Surroundings \/ Watches \/ Observer
           \/ \E spec \in Specs : ChangeSpec(spec)
           \/ UNCHANGED vars
  <2>1. /\ UNCHANGED <<pc, pass, up>>
        /\ cEs' = cEs \/ (cEs' = es /\ es' = es)
        /\ \A s \in NodeSets : sset'[s].replicas = sset[s].replicas
    BY <1>1, <1>3, AroundSteps DEF SameSpec
  <2>2. Desired' = Desired
    BY <2>1 DEF Desired
  <2>3. pc' = "apply" => \A s \in up'.todo : up'.replicas[s] <= sset'[s].replicas
    <3>1. up.todo \subseteq NodeSets
      BY <1>1 DEF TypeOK, DriverTypeOK, Upscaling
    <3> QED
      BY <2>1, <3>1 DEF Descending
  <2> QED
    BY <1>1, <2>1, <2>2, <2>3, DescendingKept
<1> QED
  BY <1>2, <1>3, DescendingWorker DEF Next

-----------------------------------------------------------------------------
(***************************************************************************)
(* The nodes a pass knows of.                                              *)
(***************************************************************************)
\* Of the updates of a pass, only WithNodes changes the nodes it knows.
LEMMA SameNodes ==
  ASSUME TypeOK
  PROVE  /\ Requeue(pass).nodes = pass.nodes
         /\ WithNodes(pass).nodes = {KnownNodes}
         /\ \A n : /\ [pass EXCEPT !.mine.mmn = n].nodes = pass.nodes
                   /\ Requeue([pass EXCEPT !.mine.mmn = n]).nodes = pass.nodes
BY PassParts DEF Passes, Requeue, WithNodes

\* They are asked for once: until then the pass takes them to be the nodes there are,
\* as it would if it asked now.
LEMMA NodesAsked ==
  ASSUME TypeOK, Worker
  PROVE  pass'.nodes \in {{}, pass.nodes, {KnownNodes}}
<1> DEFINE Kept1 == pass'.nodes \in {{}, pass.nodes, {KnownNodes}}
<1>0. pass \in Passes
  BY PassParts
<1>1. CASE StartReconcile \/ UpdateStatus \/ RecoverFromPanic
  BY <1>1 DEF StartReconcile, UpdateStatus, RecoverFromPanic, Restart, IdlePass, NewPass
<1>2. CASE ReconcileClusterUUID
  <2>1. pass'.nodes = pass.nodes
    BY <1>2, OutsideSteps DEF ReconcileClusterUUID
  <2> QED
    BY <2>1
<1>3. CASE RetrieveActualStatefulSets \/ AwaitExpectations \/ FinishNodeSpecs
  BY <1>0, <1>3, SameNodes
     DEF RetrieveActualStatefulSets, AwaitExpectations, FinishNodeSpecs, Passes
<1>4. CASE AdjustResources \/ HandleRollingUpgrades
  BY <1>4, SameNodes DEF AdjustResources, HandleRollingUpgrades
<1>5. ASSUME NEW s \in NodeSets, ApplyResource(s) PROVE Kept1
  BY <1>0, <1>5, SameNodes DEF ApplyResource, SkipUnlessReachable, Passes
<1>6. CASE \/ UpdateMinimumMasterNodes \/ DownscaleZen1 \/ \E p \in Pods : RollZen1(p)
  BY <1>6, SameNodes
     DEF UpdateMinimumMasterNodes, DownscaleZen1, RollZen1, MaybeUpdateZen1,
         UpdateMinimumMasterNodesTo
<1>7. CASE ClearVotingConfigExclusions \/ DownscaleZen2 \/ \E p \in Pods : RollZen2(p)
  BY <1>7, SameNodes
     DEF ClearVotingConfigExclusions, DownscaleZen2, RollZen2, AddToVotingConfigExclusions
<1>8. CASE \/ StartDownscale \/ (\E s \in NodeSets : CalculateDownscale(s)) \/ MigrateData
           \/ FinishDownscale \/ RemoveStatefulSet \/ UpdateReplicas
  BY <1>8, SameNodes
     DEF StartDownscale, CalculateDownscale, MigrateData, FinishDownscale,
         RemoveStatefulSet, UpdateReplicas
<1>9. ASSUME NEW target \in 0 .. MaxReplicas, AttemptDownscale(target) PROVE Kept1
  BY <1>0, <1>9, SameNodes DEF AttemptDownscale, Passes
<1>10. ASSUME NEW p \in Pods, ApplyPredicates(p) \/ Delete(p) \/ ForceDelete(p) PROVE Kept1
  BY <1>10, SameNodes DEF ApplyPredicates, Delete, ForceDelete
<1>11. CASE NoPodSelected \/ PrepareClusterForNodeRestart
  BY <1>0, <1>11, SameNodes
     DEF NoPodSelected, PrepareClusterForNodeRestart, Passes, Requeue
<1>12. CASE MaybeEnableShardsAllocation
  BY <1>12, SameNodes DEF MaybeEnableShardsAllocation
<1> QED
  BY <1>1, <1>2, <1>3, <1>4, <1>5, <1>6, <1>7, <1>8, <1>9, <1>10, <1>11, <1>12 DEF Worker

\* Nodes leave when their Pod stops; or one container crashes, and its node leaves.
OneCrash(q) ==
  /\ crashes' = crashes + 1
  /\ pod' = [pod EXCEPT ![q].phase = "Looping"]
  /\ joined' = joined \ {q}
NoCrash ==
  /\ crashes' = crashes
  /\ \A p \in joined : p \in joined' \/ pod[p].terminating

\* Around the worker, these are the only ways to leave the cluster.
LEMMA AroundFall ==
  ASSUME TypeOK,
         \/ Surroundings \/ Watches \/ Observer
         \/ \E spec \in Specs : ChangeSpec(spec)
         \/ UNCHANGED vars
  PROVE  NoCrash \/ \E q \in Pods : OneCrash(q)
<1>1. CASE Surroundings
  <2>1. CASE StatefulSetController
    BY <2>1 DEF StatefulSetController, elasticsearchVars, NoCrash
  <2>2. CASE Kubelet
    <3>1. ASSUME NEW q \in Pods, NodeCrashes(q) PROVE OneCrash(q)
      BY <3>1 DEF NodeCrashes, CrashPod, Leave, OneCrash
    <3>2. ASSUME NEW q \in Pods, NodeStops(q) PROVE NoCrash
      BY <3>2 DEF NodeStops, RemovePod, Leave, NoCrash
    <3>3. ASSUME NEW q \in Pods, (StartPod(q) \/ ReadyPod(q)) /\ UNCHANGED elasticsearchVars
          PROVE  NoCrash
      BY <3>3 DEF elasticsearchVars, NoCrash
    <3> QED
      BY <2>2, <3>1, <3>2, <3>3 DEF Kubelet
  <2>3. CASE Cluster
    BY <2>3 DEF Cluster, JoinCluster, StartFromDisk, RecoverStale, AllocateReplica,
       StartRelocation, FinishRecovery, FinishRelocation, NoCrash
  <2> QED
    BY <1>1, <2>1, <2>2, <2>3 DEF Surroundings
<1>2. CASE \/ Watches \/ Observer
           \/ \E spec \in Specs : ChangeSpec(spec)
           \/ UNCHANGED vars
  BY <1>2 DEF Watches, SyncEs, SyncStatefulSetCache, SyncPodCache, Observer, Observe,
     StoreObservation, ChangeSpec, vars, elasticsearchVars, NoCrash
<1> QED
  BY <1>1, <1>2

-----------------------------------------------------------------------------
(***************************************************************************)
(* The Pods that are unavailable, or seem to be.                           *)
(***************************************************************************)
\* A Pod is sound when it is available, and the operator sees that it is.
SeenAvailable(p) ==
  /\ cPod[p].exists /\ cPod[p].phase = "Ready" /\ ~cPod[p].terminating
  /\ p \in KnownNodes
Sound(p) == IsAvailable(p) /\ SeenAvailable(p)
Doubtful == {p \in WantedPods : ~Sound(p)}

\* A step of the worker that deletes no Pod makes none doubtful.
LEMMA SoundWorker ==
  ASSUME TypeOK, Worker, NEW p \in Pods, Sound(p),
         pod'[p] = pod[p], cPod' = cPod \/ cPod' = pod, joined' = joined
  PROVE  Sound(p)'
<1>1. KnownNodes' \in {KnownNodes, joined}
  BY NodesAsked DEF KnownNodes
<1> QED
  BY <1>1 DEF Sound, SeenAvailable, IsAvailable, IsReady

\* Around the worker, only a crash does.
LEMMA SoundAround ==
  ASSUME TypeOK, NEW p \in Pods, Wanted(p), Sound(p),
         \/ Surroundings \/ Watches \/ Observer
         \/ \E spec \in Specs : ChangeSpec(spec)
         \/ UNCHANGED vars
  PROVE  Sound(p)' \/ OneCrash(p)
<1>1. pass' = pass
  BY AroundSteps
<1>2. PodMove(p) /\ (cPod' = cPod \/ (cPod' = pod /\ pod' = pod))
  BY AroundMoves
<1>3. p \in joined /\ p \in KnownNodes /\ IsReady(p)
  BY DEF Sound, SeenAvailable, IsAvailable
<1>4. CASE NoCrash
  <2>1. p \in joined'
    BY <1>3, <1>4 DEF NoCrash, IsReady
  <2>2. p \in KnownNodes'
    BY <1>1, <1>3, <2>1 DEF KnownNodes
  <2>3. PhaseMove(p)
    <3>1. crashes \in Nat
      BY MaxCrashesAssumption DEF TypeOK, ElasticsearchTypeOK
    <3> QED
      BY <1>4, <3>1, AroundPhase DEF NoCrash
  <2>4. IsReady(p)'
    <3>1. /\ pod'[p].exists = pod[p].exists /\ pod'[p].uid = pod[p].uid
          /\ pod'[p].terminating = pod[p].terminating
      BY <1>2, <1>3 DEF PodMove, IsReady
    <3>2. pod[p].uid \in Nat
      BY DEF TypeOK, KubernetesTypeOK, PodRecords, Uids
    <3>3. pod'[p].phase = "Ready"
      BY <1>3, <2>3, <3>1, <3>2 DEF PhaseMove, IsReady
    <3> QED
      BY <1>3, <3>1, <3>3 DEF IsReady
  <2> QED
    BY <1>2, <2>1, <2>2, <2>4 DEF Sound, SeenAvailable, IsAvailable, IsReady
<1>5. ASSUME NEW q \in Pods, OneCrash(q), q # p
      PROVE  Sound(p)'
  <2>1. pod'[p] = pod[p] /\ p \in joined'
    BY <1>3, <1>5 DEF OneCrash, TypeOK, KubernetesTypeOK
  <2>2. p \in KnownNodes'
    BY <1>1, <1>3, <2>1 DEF KnownNodes
  <2> QED
    BY <1>2, <2>1, <2>2 DEF Sound, SeenAvailable, IsAvailable, IsReady
<1> QED
  BY <1>4, <1>5, AroundFall

\* No step of the worker asks for a Pod that was not there to be.
LEMMA WantedFewer ==
  ASSUME ReadyInv, GoInv, PodsInv, Descending, Worker, NEW p \in Pods, Wanted(p)'
  PROVE  Wanted(p)
<1>1. /\ TypeOK /\ DownscaleInProgress /\ PlanSound /\ CacheCurrent
  BY DEF ReadyInv, TypeInv
<1>2. CASE sset' = sset
  BY <1>2 DEF Wanted
<1>3. CASE \/ StartReconcile \/ ReconcileClusterUUID \/ RetrieveActualStatefulSets
           \/ UpdateStatus
  BY <1>1, <1>2, <1>3, OutsideSteps DEF Still
<1>4. CASE Decision
  BY <1>1, <1>2, <1>4, DecisionSteps DEF Still
<1>5. ASSUME NEW s \in NodeSets, ApplyResource(s) PROVE Wanted(p)
  <2>1. p[1] \in NodeSets
    BY DEF Pods
  <2> QED
    BY <1>1, <1>5, <2>1, ApplyReplicas DEF Wanted
<1>6. CASE UpdateReplicas \/ RemoveStatefulSet
  BY <1>1, <1>6, WritePod
<1>7. CASE Rollout \/ Removal
  BY <1>1, <1>2, <1>7, RolloutSteps
<1>8. CASE AwaitExpectations \/ RecoverFromPanic
  BY <1>2, <1>8 DEF AwaitExpectations, RecoverFromPanic, Restart, kubernetesVars
<1> QED
  BY <1>3, <1>4, <1>5, <1>6, <1>7, <1>8, WorkerSteps

-----------------------------------------------------------------------------
(***************************************************************************)
(* What a pass has seen when it comes to its rolling upgrade, and until it *)
(* deletes a Pod.                                                          *)
(***************************************************************************)
\* The Pods that should be there are in the cache, as they are; and the containers
\* that crashed are those that loop, and those whose node the pass takes to be in the
\* cluster while it has left.
Seeing ==
  \/ pc \in Scaling \cup {"rolling", "select", "enable"}
  \/ pc \in {"rollZen1", "rollZen2", "delete"} /\ ~roll.deleted
PodsThere == Seeing => \A p \in Pods : Wanted(p) => Stable(p)
Missed == {p \in WantedPods : p \in KnownNodes /\ p \notin joined}
CrashesMissed == Seeing => Cardinality(LoopingPods \cup Missed) <= crashes

SeenInv == AsksLate /\ PodsThere /\ CrashesMissed

\* The pass waits for the Pods before it scales, and no step from there on adds one.
LEMMA SeenWorker ==
  ASSUME FaultKinds \subseteq {"error"}, ReadyInv, GoInv, GoInv', PodsInv, BudgetInv,
         Descending, SeenInv, Worker
  PROVE  SeenInv'
<1>1. /\ TypeOK /\ DownscaleInProgress /\ PlanSound /\ CacheCurrent
      /\ PodsKnown /\ AsksLate
  BY DEF ReadyInv, TypeInv, PodsInv, SeenInv
<1>2. \A p \in Pods : Wanted(p)' => Wanted(p)
  BY WantedFewer
<1>3. CASE \/ StartReconcile \/ ReconcileClusterUUID \/ RetrieveActualStatefulSets
           \/ UpdateStatus
  <2>1. AsksLate'
    BY <1>1, <1>3, JoinOutside DEF JoinInv
  <2>2. pc' \in {"uuid", "retrieve", "expect", "status", "idle"}
    BY <1>1, <1>3, OutsideSteps
  <2> QED
    BY <2>1, <2>2 DEF SeenInv, PodsThere, CrashesMissed, Seeing, Scaling, Early
<1>4. CASE AwaitExpectations
  <2>1. AsksLate' /\ PodsSeen'
    BY <1>1, <1>4, JoinAwait DEF JoinInv
  <2>2. pc' \in {"adjust", "status"} /\ UNCHANGED <<pod, crashes, joined>>
    BY <1>4 DEF AwaitExpectations, kubernetesVars, elasticsearchVars
  <2>3. pc' = "adjust" => Missed' = {}
    BY <2>1 DEF Missed, KnownNodes, AsksLate
  <2>4. pc' = "adjust" => (LoopingPods \cup Missed)' = LoopingPods
    BY <2>2, <2>3 DEF LoopingPods
  <2> QED
    BY <2>1, <2>2, <2>4
       DEF SeenInv, PodsThere, PodsSeen, CrashesMissed, Seeing, Scaling, Early, BudgetInv,
           CrashesCounted
<1>5. ASSUME UNCHANGED <<pod, cPod, joined, crashes>>,
             deletions' = deletions \/ DropSatisfiedDeletions,
             Seeing' => Seeing, pc' \notin {"uuid", "retrieve", "expect", "adjust"}
      PROVE  SeenInv'
  <2>1. AsksLate'
    BY <1>5 DEF AsksLate
  <2>2. PodsThere'
    <3>1. \A p \in Pods : Stable(p) => Stable(p)'
      BY <1>5 DEF Stable, Fresh, DropSatisfiedDeletions
    <3> QED
      BY <1>2, <1>5, <3>1 DEF SeenInv, PodsThere
  <2>3. CrashesMissed'
    <3>1. KnownNodes' \in {KnownNodes, joined}
      BY <1>1, <1>5, NodesAsked DEF KnownNodes
    <3>2. (LoopingPods \cup Missed)' \subseteq LoopingPods \cup Missed
      BY <1>2, <1>5, <3>1 DEF LoopingPods, Missed, WantedPods
    <3>3. LoopingPods \cup Missed \subseteq Pods
      BY DEF LoopingPods, Missed, WantedPods
    <3>4. Cardinality((LoopingPods \cup Missed)') <= Cardinality(LoopingPods \cup Missed)
      BY <3>2, <3>3, PodsCounted, FS_Subset
    <3>5. /\ Cardinality((LoopingPods \cup Missed)') \in Nat /\ crashes \in Nat
          /\ Cardinality(LoopingPods \cup Missed) \in Nat
      BY <1>1, <3>2, <3>3, PodsCounted, MaxCrashesAssumption DEF TypeOK, ElasticsearchTypeOK
    <3> QED
      BY <1>5, <3>4, <3>5 DEF SeenInv, CrashesMissed
  <2> QED
    BY <2>1, <2>2, <2>3 DEF SeenInv
<1>6. CASE Decision
  <2>1. /\ UNCHANGED <<pod, cPod, deletions, joined, crashes>> /\ pc \in Scaling
        /\ pc' \in Scaling \cup {"rolling", "status"} /\ pc' # "adjust"
    BY <1>1, <1>6, DecisionSteps DEF Still, Scaling, Early
  <2> QED
    BY <1>5, <2>1 DEF Seeing, Scaling, Early
<1>7. ASSUME NEW s \in NodeSets, ApplyResource(s) PROVE SeenInv'
  BY <1>1, <1>5, <1>7, ApplySteps DEF GoInv, Seeing, Scaling, Early
<1>8. CASE UpdateReplicas \/ RemoveStatefulSet
  BY <1>1, <1>5, <1>8, WriteSteps DEF Seeing, Scaling, Early
<1>9. CASE Rollout
  <2>1. /\ UNCHANGED <<pod, cPod, joined, crashes>>
        /\ pc' \notin {"uuid", "retrieve", "expect", "adjust"} \cup Scaling \cup {"rolling"}
    BY <1>1, <1>9, RolloutSteps DEF Scaling, Early, PhaseLocations, Locations
  <2>2. CASE HandleRollingUpgrades
    <3>1. pc = "rolling" /\ (deletions' = deletions \/ DropSatisfiedDeletions)
      BY <2>2 DEF HandleRollingUpgrades, CheckExpectations
    <3> QED
      BY <1>5, <2>1, <3>1 DEF Seeing, Scaling, Early
  <2>3. CASE ~HandleRollingUpgrades
    <3>1. /\ deletions' = deletions \/ DropSatisfiedDeletions
          /\ \/ pc = "select"
             \/ /\ pc \in {"rollZen1", "rollZen2"} /\ roll' = roll
                /\ pc' \in {"rollZen2", "delete", "status"}
             \/ pc' \in {"enable", "ready", "status"}
      BY <1>1, <1>9, <2>3, SelectionSteps
    <3>2. pc' = "enable" => pc = "select" \/ (pc = "rollZen1" /\ ~roll.deleted)
      <4>1. ASSUME NEW p \in Pods, RollZen1(p) \/ RollZen2(p)
            PROVE  pc' = "enable" => pc = "rollZen1" /\ ~roll.deleted
        <5>1. RollZen1(p) => pc = "rollZen1" /\ (pc' = "enable" => ~roll.deleted)
          BY <1>1, RollZen1Leads DEF RollZen1
        <5>2. RollZen2(p) => pc' # "enable"
          BY <1>1, AddToVotingConfigExclusionsQuiet DEF RollZen2
        <5> QED
          BY <4>1, <5>1, <5>2
      <4> QED
        BY <1>9, <2>3, <4>1
           DEF Rollout, ApplyPredicates, NoPodSelected, PrepareClusterForNodeRestart,
               MaybeEnableShardsAllocation, FinishNodeSpecs
    <3>3. Seeing' => Seeing
      BY <2>1, <3>1, <3>2 DEF Seeing, Scaling, Early
    <3> QED
      BY <1>5, <2>1, <3>1, <3>3
  <2> QED
    BY <2>2, <2>3
<1>10. CASE Removal \/ RecoverFromPanic
  <2>1. pc' \notin {"uuid", "retrieve", "expect", "adjust"} /\ ~Seeing'
    <3>1. CASE Removal
      <4>1. PICK p \in Pods : Delete(p) \/ ForceDelete(p)
        BY <3>1 DEF Removal
      <4>2. Deletable(p) /\ roll \in Rolling
        <5>1. Stable(p) /\ p \in roll.selected /\ pc \in Deleting
          BY <1>1, <4>1, DeletionSteps DEF Delete, ForceDelete, Deleting
        <5>2. roll.seen[p].uid = pod[p].uid
          BY <5>1 DEF PodsInv, PodsSelected, Candidates
        <5> QED
          BY <1>1, <5>1, <5>2 DEF Deletable, Stable, Fresh, TypeOK, DriverTypeOK
      <4>3. Delete(p) => \/ pc' \in {"status", "ready"}
                         \/ pc' = "rollZen1" /\ roll'.deleted
        BY <4>2 DEF Delete, Rolling
      <4>4. ForceDelete(p) => pc' \in {"status", "ready", "force"}
        BY DEF ForceDelete
      <4> QED
        BY <4>1, <4>3, <4>4 DEF Seeing, Scaling, Early
    <3>2. CASE RecoverFromPanic
      BY <3>2 DEF RecoverFromPanic, Restart, Seeing, Scaling, Early
    <3> QED
      BY <1>10, <3>1, <3>2
  <2> QED
    BY <2>1 DEF SeenInv, AsksLate, PodsThere, CrashesMissed
<1> QED
  BY <1>3, <1>4, <1>6, <1>7, <1>8, <1>9, <1>10, WorkerSteps

\* One more element.
LEMMA OneMore ==
  ASSUME NEW S, NEW T, NEW q, S \subseteq Pods, T \subseteq Pods, q \in Pods,
         S \subseteq T \cup {q}
  PROVE  Cardinality(S) <= Cardinality(T) + 1
<1>1. Cardinality(S) <= Cardinality(T) + Cardinality({q})
  BY AtMostBoth
<1> QED
  BY <1>1, FS_Singleton

\* A crash adds at most one container to those that were missed.
LEMMA SeenAround ==
  ASSUME TypeOK, PodsInv, SeenInv,
         \/ Surroundings \/ Watches \/ Observer
         \/ \E spec \in Specs : ChangeSpec(spec)
         \/ UNCHANGED vars
  PROVE  SeenInv'
<1>1. /\ UNCHANGED <<pc, pass, deletions, roll>> /\ Seeing' = Seeing
      /\ \A s \in NodeSets : SameSpec(sset[s], sset'[s])
  BY AroundSteps DEF Seeing
<1>2. /\ \A p \in Pods : PodMove(p) /\ (Wanted(p)' <=> Wanted(p))
      /\ cPod' = cPod \/ (cPod' = pod /\ pod' = pod)
  BY AroundMoves
<1>3. \A p \in Pods : Stable(p) /\ Wanted(p) => Stable(p)'
  BY <1>1, <1>2, AroundKnown DEF SameSpec, PodsInv, PodsKnown, Pods
<1>4. AsksLate' /\ PodsThere'
  BY <1>1, <1>2, <1>3 DEF SeenInv, AsksLate, PodsThere
<1>5. ASSUME Seeing PROVE Cardinality((LoopingPods \cup Missed)') <= crashes'
  <2> DEFINE N == LoopingPods \cup Missed
  <2>1. N \subseteq Pods /\ N' \subseteq Pods
    BY DEF LoopingPods, Missed, WantedPods
  <2>2. /\ Cardinality(N) \in Nat /\ Cardinality(N') \in Nat /\ crashes \in Nat
        /\ Cardinality(N) <= crashes
    BY <1>5, <2>1, PodsCounted, MaxCrashesAssumption
       DEF SeenInv, CrashesMissed, TypeOK, ElasticsearchTypeOK
  <2>3. ASSUME NEW p \in Missed', p \notin Missed
        PROVE  p \in joined /\ p \notin joined' /\ ~pod[p].terminating /\ p \in Pods
    <3>1. p \in Pods /\ Wanted(p) /\ p \in KnownNodes' /\ p \notin joined'
      BY <1>2, <2>3 DEF Missed, WantedPods
    <3>2. p \in KnownNodes
      BY <1>1, <3>1 DEF KnownNodes
    <3>3. p \in joined
      BY <2>3, <3>1, <3>2 DEF Missed, WantedPods
    <3> QED
      BY <1>5, <3>1, <3>3 DEF SeenInv, PodsThere, Stable, Fresh
  <2>4. CASE NoCrash
    <3>1. Missed' \subseteq Missed
      BY <2>3, <2>4 DEF NoCrash
    <3>2. LoopingPods' \subseteq LoopingPods
      BY <2>2, <2>4, AroundPhase DEF NoCrash, LoopingPods, PhaseMove
    <3>3. Cardinality(N') <= Cardinality(N)
      BY <2>1, <3>1, <3>2, PodsCounted, FS_Subset
    <3> QED
      BY <2>2, <2>4, <3>3 DEF NoCrash
  <2>5. ASSUME NEW q \in Pods, OneCrash(q) PROVE Cardinality(N') <= crashes'
    <3>1. Missed' \subseteq Missed \cup {q}
      BY <2>3, <2>5 DEF OneCrash
    <3>2. LoopingPods' \subseteq LoopingPods \cup {q}
      BY <2>5 DEF OneCrash, LoopingPods, TypeOK, KubernetesTypeOK
    <3>3. N' \subseteq N \cup {q}
      BY <3>1, <3>2
    <3> HIDE DEF N
    <3>4. Cardinality(N') <= Cardinality(N) + 1
      BY <2>1, <3>3, OneMore
    <3> QED
      BY <2>2, <2>5, <3>4 DEF OneCrash
  <2> QED
    BY <2>4, <2>5, AroundFall
<1> QED
  BY <1>1, <1>4, <1>5 DEF SeenInv, CrashesMissed

\* Every step keeps what the pass has seen.
LEMMA SeenStep ==
  ASSUME FaultKinds \subseteq {"error"}, ReadyInv, GoInv, GoInv', PodsInv, BudgetInv,
         Descending, SeenInv, [Next]_vars
  PROVE  SeenInv'
<1>1. ~OperatorRestarts
  BY DEF OperatorRestarts
<1>2. CASE \/ Surroundings \/ Watches \/ Observer
           \/ \E spec \in Specs : ChangeSpec(spec)
           \/ UNCHANGED vars
  BY <1>2, SeenAround DEF ReadyInv, TypeInv
<1> QED
  BY <1>1, <1>2, SeenWorker DEF Next

-----------------------------------------------------------------------------
(***************************************************************************)
(* The Pods that are doubtful, or chosen to be restarted.                  *)
(***************************************************************************)
\* While Pods are selected, the ones that are not healthy for the selection, with those
\* selected already; then, the ones selected.  Of the healthy ones, one may be selected
\* as long as none is and the budget is not reached.
Held == {p \in WantedPods : pc = "select" /\ p \notin roll.healthy}
          \cup {p \in roll.selected : pc \in Deleting \ {"select"}}
Spare == IF pc = "select" /\ roll.selected = {} /\ ~roll.reached THEN 1 ELSE 0
HealthyLeft == pc = "select" => roll.selected \cap roll.healthy = {}
DoubtCounted ==
  MaxUnavailable >= 0 => Cardinality(Doubtful \cup Held) + Spare <= MaxUnavailable + crashes

DoubtInv == HealthyLeft /\ DoubtCounted

\* These are sets of Pods, and their number is one.
LEMMA DoubtTypes ==
  ASSUME TypeOK
  PROVE  /\ Doubtful \subseteq Pods /\ Held \subseteq Pods
         /\ Cardinality(Doubtful \cup Held) \in Nat
         /\ Spare \in {0, 1} /\ crashes \in Nat /\ MaxUnavailable \in Int
<1>1. Doubtful \subseteq Pods /\ Held \subseteq Pods
  BY DEF Doubtful, Held, WantedPods, TypeOK, DriverTypeOK, Rolling
<1> QED
  BY <1>1, PodsCounted, MaxCrashesAssumption, BudgetAssumption
     DEF Spare, TypeOK, ElasticsearchTypeOK

\* Fewer of them, and no more room, is within the budget still.
LEMMA DoubtShrinks ==
  ASSUME TypeOK, TypeOK', DoubtCounted, crashes <= crashes',
         Doubtful' \cup Held' \subseteq Doubtful \cup Held, Spare' <= Spare
  PROVE  DoubtCounted'
<1>1. Cardinality(Doubtful' \cup Held') <= Cardinality(Doubtful \cup Held)
  BY DoubtTypes, PodsCounted, FS_Subset
<1>2. /\ Cardinality(Doubtful' \cup Held') \in Nat /\ crashes' \in Nat /\ Spare' \in {0, 1}
      /\ MaxUnavailable \in Int
  <2>1. Doubtful' \cup Held' \subseteq Pods
    BY DoubtTypes
  <2> QED
    BY <2>1, PodsCounted, MaxCrashesAssumption, BudgetAssumption
       DEF Spare, TypeOK, ElasticsearchTypeOK
<1>3. /\ Cardinality(Doubtful \cup Held) \in Nat /\ crashes \in Nat /\ Spare \in {0, 1}
  BY DoubtTypes
<1> QED
  BY <1>1, <1>2, <1>3 DEF DoubtCounted

\* Around the worker only a crash adds to the Pods that are doubtful.
LEMMA HeldAround ==
  ASSUME TypeOK,
         \/ Surroundings \/ Watches \/ Observer
         \/ \E spec \in Specs : ChangeSpec(spec)
         \/ UNCHANGED vars
  PROVE  /\ UNCHANGED <<pc, roll>> /\ WantedPods' = WantedPods /\ Held' = Held
         /\ \/ Doubtful' \subseteq Doubtful /\ crashes <= crashes'
            \/ \E q \in Pods : Doubtful' \subseteq Doubtful \cup {q} /\ crashes' = crashes + 1
<1>1. UNCHANGED <<pc, roll>> /\ WantedPods' = WantedPods
  BY AroundSteps, AroundMoves DEF WantedPods
<1>2. Held' = Held
  BY <1>1 DEF Held
<1>3. \A p \in Doubtful' \ Doubtful : p \in joined /\ OneCrash(p) /\ p \in Pods
  <2> SUFFICES ASSUME NEW p \in Doubtful', p \notin Doubtful
               PROVE  p \in joined /\ OneCrash(p) /\ p \in Pods
    OBVIOUS
  <2>1. p \in Pods /\ Wanted(p) /\ Sound(p) /\ ~Sound(p)'
    BY <1>1 DEF Doubtful, WantedPods
  <2> QED
    BY <2>1, SoundAround DEF Sound, IsAvailable
<1>4. CASE Doubtful' \subseteq Doubtful
  BY <1>1, <1>2, <1>4, DoubtTypes, AroundFall DEF NoCrash, OneCrash
<1>5. ASSUME NEW q \in Doubtful', q \notin Doubtful
      PROVE  q \in Pods /\ Doubtful' \subseteq Doubtful \cup {q} /\ crashes' = crashes + 1
  <2>1. q \in Pods /\ q \in joined /\ crashes' = crashes + 1 /\ joined' = joined \ {q}
    BY <1>3, <1>5 DEF OneCrash
  <2> QED
    BY <1>3, <2>1 DEF OneCrash
<1> QED
  BY <1>1, <1>2, <1>4, <1>5

\* The crash is counted.
LEMMA DoubtAround ==
  ASSUME TypeOK, TypeOK', DoubtInv,
         \/ Surroundings \/ Watches \/ Observer
         \/ \E spec \in Specs : ChangeSpec(spec)
         \/ UNCHANGED vars
  PROVE  DoubtInv'
<1>1. UNCHANGED <<pc, roll>> /\ Held' = Held /\ Spare' = Spare /\ HealthyLeft'
  BY HeldAround DEF Spare, HealthyLeft, DoubtInv
<1>2. CASE Doubtful' \subseteq Doubtful /\ crashes <= crashes'
  <2>1. Spare' <= Spare
    BY <1>1, DoubtTypes
  <2> QED
    BY <1>1, <1>2, <2>1, DoubtShrinks DEF DoubtInv
<1>3. ASSUME NEW q \in Pods, Doubtful' \subseteq Doubtful \cup {q}, crashes' = crashes + 1
      PROVE  DoubtCounted'
  <2>1. Doubtful' \cup Held' \subseteq (Doubtful \cup Held) \cup {q}
    BY <1>1, <1>3
  <2>2. Cardinality(Doubtful' \cup Held') <= Cardinality(Doubtful \cup Held) + 1
    BY <2>1, DoubtTypes, OneMore
  <2>3. Cardinality(Doubtful' \cup Held') \in Nat
    BY <2>1, DoubtTypes, PodsCounted
  <2> QED
    BY <1>1, <1>3, <2>2, <2>3, DoubtTypes DEF DoubtInv, DoubtCounted
<1> QED
  BY <1>1, <1>2, <1>3, HeldAround DEF DoubtInv

\* The steps of the worker that neither choose nor delete Pods.
Choosing == HandleRollingUpgrades \/ \E p \in Pods : ApplyPredicates(p)

\* They change no Pod and no node.
LEMMA QuietWorker ==
  ASSUME ReadyInv, GoInv, Worker, ~Removal
  PROVE  /\ UNCHANGED <<pod, joined, crashes>>
         /\ cPod' = cPod \/ cPod' = pod
<1>1. TypeOK /\ DownscaleInProgress /\ PlanSound /\ CacheCurrent
  BY DEF ReadyInv, TypeInv
<1>2. CASE \/ StartReconcile \/ ReconcileClusterUUID \/ RetrieveActualStatefulSets
           \/ UpdateStatus
  BY <1>1, <1>2, OutsideSteps DEF Still
<1>3. CASE Decision
  BY <1>1, <1>3, DecisionSteps DEF Still
<1>4. ASSUME NEW s \in NodeSets, ApplyResource(s)
      PROVE  UNCHANGED <<pod, joined, crashes, cPod>>
  BY <1>1, <1>4, ApplySteps DEF GoInv
<1>5. CASE UpdateReplicas \/ RemoveStatefulSet
  BY <1>1, <1>5, WriteSteps
<1>6. CASE Rollout
  BY <1>1, <1>6, RolloutSteps
<1>7. CASE AwaitExpectations \/ RecoverFromPanic
  BY <1>7 DEF AwaitExpectations, RecoverFromPanic, Restart, kubernetesVars, elasticsearchVars
<1> QED
  BY <1>2, <1>3, <1>4, <1>5, <1>6, <1>7, WorkerSteps

\* They make no Pod doubtful.
LEMMA DoubtfulFewer ==
  ASSUME ReadyInv, GoInv, PodsInv, Descending, Worker, ~Removal
  PROVE  Doubtful' \subseteq Doubtful
<1> SUFFICES ASSUME NEW p \in Pods, Wanted(p)', ~Sound(p)' PROVE Wanted(p) /\ ~Sound(p)
  BY DEF Doubtful, WantedPods
<1>1. TypeOK /\ UNCHANGED <<pod, joined>> /\ (cPod' = cPod \/ cPod' = pod)
  BY QuietWorker DEF ReadyInv, TypeInv
<1> QED
  BY <1>1, WantedFewer, SoundWorker

\* Where the worker goes with what it has selected.
LEMMA QuietLocations ==
  ASSUME ReadyInv, GoInv, Worker, ~Removal, ~Choosing, pc' \in Deleting
  PROVE  /\ roll' = roll /\ pc' # "select"
         /\ pc \in Deleting /\ pc' # "force" /\ UNCHANGED sset
<1>1. TypeOK /\ DownscaleInProgress /\ PlanSound /\ CacheCurrent
  BY DEF ReadyInv, TypeInv
<1>2. CASE \/ StartReconcile \/ ReconcileClusterUUID \/ RetrieveActualStatefulSets
           \/ UpdateStatus
  BY <1>1, <1>2, OutsideSteps DEF Deleting
<1>3. CASE Decision
  BY <1>1, <1>3, DecisionSteps DEF Deleting, Scaling, Early
<1>4. ASSUME NEW s \in NodeSets, ApplyResource(s) PROVE FALSE
  BY <1>1, <1>4, ApplySteps DEF GoInv, Deleting
<1>5. CASE UpdateReplicas \/ RemoveStatefulSet
  BY <1>1, <1>5, WriteSteps DEF Deleting
<1>6. CASE Rollout
  <2>1. CASE NoPodSelected \/ PrepareClusterForNodeRestart
    BY <2>1 DEF NoPodSelected, PrepareClusterForNodeRestart, Deleting, phaseVars,
       kubernetesVars
  <2>2. ASSUME NEW p \in Pods, RollZen1(p) \/ RollZen2(p)
        PROVE  /\ UNCHANGED <<sset, roll>> /\ pc \in Deleting
               /\ pc' \notin {"select", "force"}
    BY <1>1, <2>2, RollZen1Leads, AddToVotingConfigExclusionsQuiet
       DEF RollZen1, RollZen2, MaybeUpdateZen1, AddToVotingConfigExclusions, phaseVars,
           kubernetesVars, Deleting
  <2>3. CASE MaybeEnableShardsAllocation \/ FinishNodeSpecs
    BY <2>3 DEF MaybeEnableShardsAllocation, FinishNodeSpecs, Deleting
  <2> QED
    BY <1>6, <2>1, <2>2, <2>3 DEF Rollout, Choosing
<1>7. CASE AwaitExpectations \/ RecoverFromPanic
  BY <1>7 DEF AwaitExpectations, RecoverFromPanic, Restart, Deleting
<1> QED
  BY <1>2, <1>3, <1>4, <1>5, <1>6, <1>7, WorkerSteps

\* They hold no Pod that was not held.
LEMMA HeldQuiet ==
  ASSUME ReadyInv, GoInv, PodsInv, Descending, HealthyLeft, Worker, ~Removal, ~Choosing
  PROVE  /\ crashes' = crashes /\ pc' # "select"
         /\ Doubtful' \subseteq Doubtful /\ Held' \subseteq Held
<1>1. crashes' = crashes /\ Doubtful' \subseteq Doubtful
  BY QuietWorker, DoubtfulFewer
<1>2. CASE pc' \notin Deleting
  BY <1>1, <1>2 DEF Held, Deleting
<1>3. CASE pc' \in Deleting
  <2>1. roll' = roll /\ pc' # "select" /\ pc \in Deleting
    BY <1>3, QuietLocations
  <2>2. \A p \in roll.selected : p \in Pods /\ Wanted(p)
    BY <2>1 DEF PodsInv, PodsSelected, Candidates
  <2> QED
    BY <1>1, <2>1, <2>2 DEF Held, HealthyLeft, WantedPods
<1> QED
  BY <1>2, <1>3

\* A Pod that is healthy in the cache, and not available, has crashed.
LEMMA HealthyDoubtful ==
  ASSUME ReadyInv, PhasesKnown, SeenInv, pc = "rolling", NEW p \in Doubtful,
         p \in HealthyPods
  PROVE  p \in LoopingPods \cup Missed
<1>1. p \in Pods /\ Wanted(p) /\ ~Sound(p)
  BY DEF Doubtful, WantedPods
<1>2. Stable(p)
  BY <1>1 DEF SeenInv, PodsThere, Seeing
<1>3. SeenAvailable(p) /\ ~IsAvailable(p)
  BY <1>1 DEF Sound, SeenAvailable, HealthyPods, ReadyPods, ActualPods, Existing
<1>4. pod[p].phase \in {"Ready", "Looping"}
  BY <1>1, <1>2, <1>3 DEF PhasesKnown, PhaseKnown, Stable, Fresh, SeenAvailable
<1>5. CASE pod[p].phase = "Looping"
  BY <1>1, <1>5 DEF LoopingPods
<1>6. CASE pod[p].phase = "Ready"
  BY <1>1, <1>2, <1>3, <1>6
     DEF Stable, Fresh, IsAvailable, IsReady, Missed, WantedPods, SeenAvailable
<1> QED
  BY <1>4, <1>5, <1>6

\* A selection starts with fewer healthy Pods out of sight than the budget allows, or
\* takes no healthy Pod.
LEMMA DoubtfulCount ==
  ASSUME ReadyInv, GoInv, PhasesKnown, SeenInv, pc = "rolling",
         PodReconciliationDone(pass.actual), MaxUnavailable >= 0, AllowedDeletions > 0
  PROVE  Cardinality(Doubtful) + 1 <= MaxUnavailable + crashes
<1> DEFINE Unseen == ActualNames \ HealthyPods
           Crashed == LoopingPods \cup Missed
<1>1. /\ TypeOK /\ ActualNames \subseteq Pods /\ HealthyPods \subseteq Pods
      /\ Crashed \subseteq Pods /\ Doubtful \subseteq Pods
  BY DEF ReadyInv, TypeInv, ActualNames, PodNames, HealthyPods, ReadyPods, ActualPods,
         Existing, LoopingPods, Missed, WantedPods, Doubtful
<1>2. ASSUME NEW p \in Pods, cPod[p].exists, pass.actual[p[1]].exists
      PROVE  p \in ActualNames
  <2>1. p[1] \in NodeSets /\ Named(p)
    BY <1>1, <1>2, ReconciledNamed DEF Pods
  <2> QED
    BY <2>1 DEF Named, ActualNames
<1>3. HealthyPods \subseteq ActualNames
  BY <1>2 DEF HealthyPods, ReadyPods, ActualPods, Existing
<1>4. Doubtful \subseteq Unseen \cup Crashed
  <2> SUFFICES ASSUME NEW p \in Pods, Wanted(p), p \in Doubtful, p \notin HealthyPods
               PROVE  p \in ActualNames
    BY HealthyDoubtful DEF Doubtful, WantedPods
  <2>1. Stable(p)
    BY DEF SeenInv, PodsThere, Seeing
  <2>2. p[1] \in NodeSets /\ pass.actual[p[1]].exists
    BY DEF Pods, Wanted, GoInv, Shrinking, PhaseLocations, Locations
  <2> QED
    BY <1>2, <2>1, <2>2 DEF Stable
<1>5. /\ Cardinality(Unseen) = Cardinality(ActualNames) - Cardinality(HealthyPods)
      /\ Unseen \subseteq Pods
  <2>1. ActualNames \cap HealthyPods = HealthyPods
    BY <1>3
  <2> QED
    BY <1>1, <2>1, PodsCounted, FS_Difference
<1>6. Cardinality(Crashed) <= crashes
  BY DEF SeenInv, CrashesMissed, Seeing
<1>7. Cardinality(Unseen) + 1 <= MaxUnavailable
  <2>1. Cardinality(ActualNames) \in Nat /\ Cardinality(HealthyPods) \in Nat
    BY <1>1, PodsCounted
  <2> QED
    BY <1>5, <2>1, BudgetAssumption DEF AllowedDeletions
<1>8. /\ Cardinality(Unseen) \in Nat /\ Cardinality(Crashed) \in Nat
      /\ Cardinality(Doubtful) \in Nat /\ crashes \in Nat /\ MaxUnavailable \in Int
  BY <1>1, <1>5, PodsCounted, DoubtTypes
<1> HIDE DEF Unseen, Crashed
<1>9. Cardinality(Doubtful) <= Cardinality(Unseen) + Cardinality(Crashed)
  BY <1>1, <1>4, <1>5, AtMostBoth
<1> QED
  BY <1>6, <1>7, <1>8, <1>9

\* A rolling upgrade starts: it holds the Pods that are not healthy, or the ones it
\* forces, none of which is available.
LEMMA HeldUpgrade ==
  ASSUME ReadyInv, GoInv, PodsInv, PodsInv', Descending, HandleRollingUpgrades
  PROVE  /\ pc = "rolling" /\ crashes' = crashes
         /\ Doubtful' \subseteq Doubtful /\ WantedPods' = WantedPods
         /\ Held' \subseteq Doubtful
         /\ pc' = "select" =>
              /\ ExpectationsMet(pass.actual)
              /\ roll'.healthy = HealthyPods /\ roll'.selected = {}
              /\ roll'.seen = cPod /\ roll'.todo = PodsToUpgrade(pass.actual)
              /\ roll'.reached <=> (MaxUnavailable >= 0 /\ AllowedDeletions <= 0)
<1>1. /\ TypeOK /\ pc = "rolling" /\ UNCHANGED <<pod, cPod, sset, joined, crashes>>
  BY DEF ReadyInv, TypeInv, HandleRollingUpgrades, kubernetesVars, elasticsearchVars
<1>2. Worker /\ ~Removal
  BY <1>1 DEF Worker, Removal, Delete, ForceDelete
<1>3. Doubtful' \subseteq Doubtful /\ WantedPods' = WantedPods
  BY <1>1, <1>2, DoubtfulFewer DEF WantedPods, Wanted
<1>4. /\ pc' \in {"ready", "force", "status", "enable", "select"}
      /\ pc' = "force" => roll'.selected = ForcedPods
      /\ pc' = "select" =>
           /\ ExpectationsMet(pass.actual)
           /\ roll'.healthy = HealthyPods /\ roll'.selected = {}
           /\ roll'.seen = cPod /\ roll'.todo = PodsToUpgrade(pass.actual)
           /\ roll'.reached <=> (MaxUnavailable >= 0 /\ AllowedDeletions <= 0)
  BY DEF HandleRollingUpgrades, NoRoll
<1>5. ASSUME NEW p \in Pods, Wanted(p), Sound(p)
      PROVE  p \in HealthyPods /\ p \notin ForcedPods
  <2>1. p[1] \in NodeSets /\ pass.actual[p[1]].exists
    BY <1>1, <1>5 DEF Pods, Wanted, GoInv, Shrinking, PhaseLocations, Locations
  <2>2. /\ cPod[p].exists /\ cPod[p].phase = "Ready" /\ ~cPod[p].terminating
        /\ p \in KnownNodes
    BY <1>5 DEF Sound, SeenAvailable
  <2>3. p \in PodsOf(p[1])
    BY <2>1, <2>2 DEF PodsOf, ActualPods, Existing
  <2> QED
    BY <2>1, <2>2, <2>3
       DEF HealthyPods, ReadyPods, ActualPods, Existing, ForcedPods, ShouldForceUpgrade
<1>6. Held' \subseteq Doubtful
  <2>1. CASE pc' \notin {"force", "select"}
    BY <1>4, <2>1 DEF Held, Deleting
  <2>2. CASE pc' = "force"
    <3>1. \A p \in roll'.selected : p \in Pods /\ Wanted(p)'
      BY <2>2 DEF PodsInv, PodsSelected, Candidates, Deleting
    <3>2. \A p \in ForcedPods : p \in Pods /\ Wanted(p)
      BY <1>1, <1>4, <2>2, <3>1 DEF Wanted
    <3>3. ForcedPods \subseteq Doubtful
      BY <1>5, <3>2 DEF Doubtful, WantedPods
    <3> QED
      BY <1>4, <2>2, <3>3 DEF Held
  <2>3. CASE pc' = "select"
    <3>1. Held' = {p \in WantedPods : p \notin HealthyPods}
      BY <1>3, <1>4, <2>3 DEF Held
    <3> QED
      BY <1>5, <3>1 DEF Doubtful, WantedPods
  <2> QED
    BY <2>1, <2>2, <2>3
<1> QED
  BY <1>1, <1>3, <1>4, <1>6

\* There is room for a healthy Pod when the budget is not reached.
LEMMA DoubtUpgrade ==
  ASSUME ReadyInv, ReadyInv', GoInv, PodsInv, PodsInv', PhasesKnown, Descending, SeenInv,
         DoubtInv, HandleRollingUpgrades
  PROVE  DoubtInv'
<1>1. /\ TypeOK /\ TypeOK' /\ pc = "rolling" /\ crashes' = crashes /\ crashes \in Nat
      /\ Doubtful' \subseteq Doubtful /\ Held' \subseteq Doubtful
  BY HeldUpgrade, DoubtTypes DEF ReadyInv, TypeInv
<1>2. Spare = 0 /\ HealthyLeft'
  BY <1>1, HeldUpgrade DEF Spare, HealthyLeft
<1>3. CASE Spare' = 0
  BY <1>1, <1>2, <1>3, DoubtShrinks DEF DoubtInv
<1>4. CASE Spare' # 0
  <2> SUFFICES ASSUME MaxUnavailable >= 0
               PROVE  Cardinality(Doubtful' \cup Held') + Spare' <= MaxUnavailable + crashes'
    BY <1>2 DEF DoubtInv, DoubtCounted
  <2>1. pc' = "select" /\ ~roll'.reached /\ Spare' = 1
    BY <1>4 DEF Spare
  <2>2. AllowedDeletions \in Int
    <3>1. ActualNames \subseteq Pods /\ HealthyPods \subseteq Pods
      BY DEF ActualNames, PodNames, HealthyPods, ReadyPods, ActualPods, Existing
    <3>2. Cardinality(ActualNames) \in Nat /\ Cardinality(HealthyPods) \in Nat
      BY <3>1, PodsCounted
    <3> QED
      BY <3>2, BudgetAssumption DEF AllowedDeletions
  <2>3. AllowedDeletions > 0 /\ ExpectationsMet(pass.actual)
    BY <2>1, <2>2, HeldUpgrade
  <2>4. Cardinality(Doubtful) + 1 <= MaxUnavailable + crashes
    BY <1>1, <2>3, DoubtfulCount DEF ExpectationsMet
  <2>5. Doubtful' \cup Held' \subseteq Doubtful /\ Doubtful \subseteq Pods
    BY <1>1, DoubtTypes
  <2>6. /\ Cardinality(Doubtful' \cup Held') <= Cardinality(Doubtful)
        /\ Cardinality(Doubtful' \cup Held') \in Nat /\ Cardinality(Doubtful) \in Nat
    BY <2>5, PodsCounted, FS_Subset
  <2> QED
    BY <1>1, <2>1, <2>4, <2>6, BudgetAssumption
<1> QED
  BY <1>3, <1>4

\* The next Pod is skipped, or taken: only the first that is taken may be healthy.
LEMMA HeldSelect ==
  ASSUME ReadyInv, GoInv, PodsInv, Descending, NEW p \in Pods, ApplyPredicates(p)
  PROVE  /\ crashes' = crashes /\ Doubtful' \subseteq Doubtful /\ WantedPods' = WantedPods
         /\ p \in roll.todo /\ p \in WantedPods /\ pc = "select"
         /\ \/ pc' # "select" /\ Held' = {}
            \/ /\ pc' = "select" /\ Held' = Held
               /\ roll'.healthy = roll.healthy /\ roll'.selected = roll.selected
               /\ roll'.reached = roll.reached /\ roll'.seen = roll.seen
               /\ roll'.todo \subseteq roll.todo
            \/ /\ pc' = "select" /\ Held' \subseteq Held \cup {p}
               /\ p \in roll.healthy \/ p \in Held
               /\ PassesButForShards(p) /\ roll.selected = {}
               /\ roll'.healthy = roll.healthy \ {p} /\ roll'.selected = {p}
               /\ roll'.seen = roll.seen /\ roll'.todo \subseteq roll.todo
<1>1. /\ TypeOK /\ pc = "select" /\ UNCHANGED <<pod, cPod, sset, joined, crashes>>
      /\ roll.todo # {} /\ p = FirstOf(roll.todo) /\ roll.todo \subseteq Pods /\ roll \in Rolling
  BY DEF ReadyInv, TypeInv, ApplyPredicates, kubernetesVars, elasticsearchVars, TypeOK,
         DriverTypeOK, Rolling
<1>2. Worker /\ ~Removal
  BY <1>1 DEF Worker, Removal, Delete, ForceDelete
<1>3. Doubtful' \subseteq Doubtful /\ WantedPods' = WantedPods
  BY <1>1, <1>2, DoubtfulFewer DEF WantedPods, Wanted
<1>4. p \in roll.todo /\ p \in WantedPods
  <2>1. p \in roll.todo
    BY <1>1, FirstOfBelongs
  <2> QED
    BY <1>1, <2>1 DEF PodsInv, PodsSelected, Candidates, Deleting, WantedPods
<1> DEFINE skipped == [roll EXCEPT !.todo = @ \ {p},
                         !.green = IF AsksForGreen(p) THEN {KnownGreen} ELSE @]
<1>5. \/ pc' \in {"status", "panic"}
      \/ pc' = "select" /\ roll' = skipped
      \/ /\ pc' = "select" /\ roll' = SelectPod(p)
         /\ PassesButForShards(p) /\ roll.selected = {}
  BY <1>1 DEF ApplyPredicates, AsksShardLister
<1>6. CASE pc' \in {"status", "panic"}
  BY <1>1, <1>3, <1>4, <1>6 DEF Held, Deleting
<1>7. CASE pc' = "select" /\ roll' = skipped
  <2>1. /\ roll'.healthy = roll.healthy /\ roll'.selected = roll.selected
        /\ roll'.reached = roll.reached /\ roll'.seen = roll.seen
        /\ roll'.todo \subseteq roll.todo
    BY <1>1, <1>7 DEF Rolling
  <2>2. Held' = Held
    BY <1>1, <1>3, <1>7, <2>1 DEF Held
  <2> QED
    BY <1>1, <1>3, <1>4, <1>7, <2>1, <2>2
<1>8. CASE /\ pc' = "select" /\ roll' = SelectPod(p)
           /\ PassesButForShards(p) /\ roll.selected = {}
  <2>1. /\ roll'.healthy = roll.healthy \ {p} /\ roll'.selected = {p}
        /\ roll'.seen = roll.seen /\ roll'.todo \subseteq roll.todo
    BY <1>1, <1>8 DEF SelectPod, Rolling
  <2>2. Held' \subseteq Held \cup {p} /\ (p \in roll.healthy \/ p \in Held)
    BY <1>1, <1>3, <1>4, <1>8, <2>1 DEF Held
  <2> QED
    BY <1>1, <1>3, <1>4, <1>8, <2>1, <2>2
<1> QED
  BY <1>5, <1>6, <1>7, <1>8

\* There is room for a healthy Pod that is taken.
LEMMA DoubtSelect ==
  ASSUME ReadyInv, ReadyInv', GoInv, PodsInv, Descending, DoubtInv, NEW p \in Pods,
         ApplyPredicates(p)
  PROVE  DoubtInv'
<1>1. /\ TypeOK /\ TypeOK' /\ crashes' = crashes /\ Doubtful' \subseteq Doubtful
      /\ pc = "select"
  BY HeldSelect DEF ReadyInv, TypeInv
<1>2. CASE pc' # "select" /\ Held' = {}
  <2>1. Spare' = 0 /\ HealthyLeft'
    BY <1>2 DEF Spare, HealthyLeft
  <2> QED
    BY <1>1, <1>2, <2>1, DoubtTypes, DoubtShrinks DEF DoubtInv
<1>3. CASE /\ pc' = "select" /\ Held' = Held
           /\ roll'.healthy = roll.healthy /\ roll'.selected = roll.selected
           /\ roll'.reached = roll.reached
  <2>1. Spare' = Spare /\ HealthyLeft'
    BY <1>1, <1>3 DEF Spare, HealthyLeft, DoubtInv
  <2> QED
    BY <1>1, <1>3, <2>1, DoubtTypes, DoubtShrinks DEF DoubtInv
<1>4. CASE /\ pc' = "select" /\ Held' \subseteq Held \cup {p}
           /\ p \in roll.healthy \/ p \in Held
           /\ PassesButForShards(p) /\ roll.selected = {}
           /\ roll'.healthy = roll.healthy \ {p} /\ roll'.selected = {p}
  <2>1. HealthyLeft' /\ Spare' = 0
    BY <1>4 DEF HealthyLeft, Spare
  <2>2. CASE p \in Held
    BY <1>1, <1>4, <2>1, <2>2, DoubtTypes, DoubtShrinks DEF DoubtInv
  <2>3. CASE p \in roll.healthy
    <3>1. Spare = 1
      BY <1>1, <1>4, <2>3 DEF PassesButForShards, RespectsMaxUnavailable, IsHealthy, Spare
    <3>2. Doubtful' \cup Held' \subseteq (Doubtful \cup Held) \cup {p}
      BY <1>1, <1>4
    <3>3. Cardinality(Doubtful' \cup Held') <= Cardinality(Doubtful \cup Held) + 1
      BY <1>1, <3>2, DoubtTypes, OneMore
    <3>4. Cardinality(Doubtful' \cup Held') \in Nat
      BY <1>1, <3>2, DoubtTypes, PodsCounted
    <3> QED
      BY <1>1, <2>1, <3>1, <3>3, <3>4, DoubtTypes DEF DoubtInv, DoubtCounted
  <2> QED
    BY <1>4, <2>2, <2>3
<1> QED
  BY <1>2, <1>3, <1>4, HeldSelect

\* A Pod that is deleted was held.
LEMMA HeldRemoval ==
  ASSUME FaultKinds \subseteq {"error"}, ReadyInv, GoInv, PodsInv, Worker, Removal
  PROVE  /\ crashes' = crashes /\ pc' # "select"
         /\ Doubtful' \subseteq Doubtful \cup Held /\ Held' \subseteq Held
<1>1. /\ TypeOK /\ UNCHANGED <<joined, crashes, sset, cPod>>
  BY RolloutSteps DEF ReadyInv, TypeInv
<1>2. PICK p \in Pods : Delete(p) \/ ForceDelete(p)
  BY DEF Removal
<1>3. /\ pc \in {"delete", "force"} /\ p \in roll.selected
      /\ pc' \in {"status", "ready", "rollZen1", "enable", "force"}
  BY <1>1, <1>2, DeletionSteps DEF Delete, ForceDelete
<1>4. /\ pod' = pod \/ pod' = [pod EXCEPT ![p].terminating = TRUE]
      /\ \/ pc' = "status"
         \/ roll'.selected = roll.selected \ {p}
  BY <1>1, <1>2, DeletionSteps
<1>5. p \in Held
  BY <1>3 DEF Held, Deleting
<1>6. Doubtful' \subseteq Doubtful \cup {p}
  <2> SUFFICES ASSUME NEW q \in Pods, Wanted(q), q # p, Sound(q)
               PROVE  Sound(q)'
    BY <1>1 DEF Doubtful, WantedPods, Wanted
  <2>1. pod'[q] = pod[q]
    BY <1>1, <1>4 DEF TypeOK, KubernetesTypeOK
  <2> QED
    BY <1>1, <2>1, SoundWorker
<1>7. Held' \subseteq Held
  BY <1>3, <1>4 DEF Held, Deleting
<1> QED
  BY <1>1, <1>3, <1>5, <1>6, <1>7

\* Neither adds to what is counted.
LEMMA DoubtWorker ==
  ASSUME FaultKinds \subseteq {"error"}, ReadyInv, ReadyInv', GoInv, PodsInv, Descending,
         DoubtInv, Worker, ~Choosing
  PROVE  DoubtInv'
<1>1. /\ TypeOK /\ TypeOK' /\ crashes' = crashes /\ pc' # "select"
      /\ Doubtful' \cup Held' \subseteq Doubtful \cup Held
  BY HeldQuiet, HeldRemoval DEF ReadyInv, TypeInv, DoubtInv
<1>2. Spare' = 0 /\ HealthyLeft'
  BY <1>1 DEF Spare, HealthyLeft
<1> QED
  BY <1>1, <1>2, DoubtTypes, DoubtShrinks DEF DoubtInv

\* Every step keeps the Pods that are doubtful or held within the budget.
LEMMA DoubtStep ==
  ASSUME FaultKinds \subseteq {"error"}, ReadyInv, ReadyInv', GoInv, PodsInv, PodsInv',
         BudgetInv, Descending, SeenInv, DoubtInv, [Next]_vars
  PROVE  DoubtInv'
<1>1. ~OperatorRestarts /\ TypeOK /\ TypeOK' /\ PhasesKnown
  BY DEF OperatorRestarts, ReadyInv, TypeInv, BudgetInv
<1>2. CASE \/ Surroundings \/ Watches \/ Observer
           \/ \E spec \in Specs : ChangeSpec(spec)
           \/ UNCHANGED vars
  BY <1>1, <1>2, DoubtAround
<1>3. CASE Worker
  BY <1>1, <1>3, DoubtWorker, DoubtUpgrade, DoubtSelect DEF Choosing
<1> QED
  BY <1>1, <1>2, <1>3 DEF Next

-----------------------------------------------------------------------------
(***************************************************************************)
(* From a running cluster to the Pods it restarts.                         *)
(***************************************************************************)
\* A running cluster starts with every Pod available.
LEMMA RestartSound ==
  ASSUME Bootstrapped, Init
  PROVE  Doubtful = {}
<1>1. /\ InitRunning /\ cPod = pod /\ pc = "idle" /\ crashes = 0 /\ cEs = es
      /\ pass = IdlePass /\ TypeOK /\ PodsInv
  BY Zenon, ReadyInit, PodsInit DEF Init, ReadyInv, TypeInv
<1>2. ASSUME NEW p \in Pods
      PROVE  /\ sset[p[1]].exists <=> p[1] \in InitialSpec.sets
             /\ p[1] \in InitialSpec.sets => sset[p[1]].replicas = InitialSpec.count[p[1]]
  <2>1. sset[p[1]] = IF p[1] \in InitialSpec.sets
                       THEN [NewStatefulSet(0, InitialSpec.count[p[1]], InitialSpec.tmpl[p[1]])
                               EXCEPT !.upd = InitialSpec.tmpl[p[1]]]
                       ELSE NoStatefulSet(0)
    BY <1>1, Zenon DEF InitRunning, Pods
  <2>2. \A n, u, v : /\ [NewStatefulSet(0, n, u) EXCEPT !.upd = v].exists
                     /\ [NewStatefulSet(0, n, u) EXCEPT !.upd = v].replicas = n
    BY DEF NewStatefulSet
  <2>3. ~NoStatefulSet(0).exists
    BY DEF NoStatefulSet
  <2> QED
    BY <2>1, <2>2, <2>3
<1>3. KnownNodes = joined
  BY <1>1 DEF KnownNodes, IdlePass, NewPass
<1>4. ASSUME NEW p \in Pods, Wanted(p) PROVE Sound(p)
  <2>1. p \in InitialPods
    BY <1>2, <1>4 DEF Wanted, InitialPods
  <2>2. p \in joined
    BY <1>1, <2>1, Zenon DEF InitRunning
  <2>3. pod[p] = [NewPod(0, InitialSpec.tmpl[p[1]]) EXCEPT
                    !.phase = "Ready",
                    !.boot = IF p \in InitialMasters /\ MajorOf(InitialSpec) >= 7
                               THEN InitialMasters ELSE {}]
    BY <1>1, <2>1, Zenon DEF InitRunning
  <2>4. \A u, v : /\ [NewPod(0, u) EXCEPT !.phase = "Ready", !.boot = v].exists
                  /\ [NewPod(0, u) EXCEPT !.phase = "Ready", !.boot = v].phase = "Ready"
                  /\ ~[NewPod(0, u) EXCEPT !.phase = "Ready", !.boot = v].terminating
    BY DEF NewPod
  <2>5. pod[p].exists /\ pod[p].phase = "Ready" /\ ~pod[p].terminating
    BY <2>3, <2>4
  <2> QED
    BY <1>1, <1>3, <2>2, <2>5 DEF Sound, SeenAvailable, IsAvailable, IsReady
<1> QED
  BY <1>4 DEF Doubtful, WantedPods

\* A running cluster starts with no Pod in doubt and none in hand.
LEMMA RestartInit ==
  ASSUME Bootstrapped, Init
  PROVE  Descending /\ SeenInv /\ DoubtInv
<1>1. /\ InitRunning /\ cPod = pod /\ pc = "idle" /\ crashes = 0 /\ cEs = es
      /\ pass = IdlePass /\ TypeOK /\ PodsInv
  BY Zenon, ReadyInit, PodsInit DEF Init, ReadyInv, TypeInv
<1>2. /\ InitialSpec.sets \subseteq NodeSets /\ es.spec = InitialSpec
      /\ \A s \in NodeSets : InitialSpec.count[s] \in Nat
  <2>1. es.spec = InitialSpec
    BY <1>1 DEF InitRunning
  <2>2. InitialSpec \in Specs
    BY SpecsAssumption
  <2> QED
    BY <2>1, <2>2, SpecTypes, MaxReplicasAssumption
<1>3. \A s \in InitialSpec.sets : sset[s].replicas = InitialSpec.count[s]
  <2> SUFFICES ASSUME NEW s \in NodeSets, s \in InitialSpec.sets
               PROVE  sset[s].replicas = InitialSpec.count[s]
    BY <1>2
  <2>1. sset[s] = [NewStatefulSet(0, InitialSpec.count[s], InitialSpec.tmpl[s])
                     EXCEPT !.upd = InitialSpec.tmpl[s]]
    BY <1>1, Zenon DEF InitRunning
  <2>2. \A n, u, v : [NewStatefulSet(0, n, u) EXCEPT !.upd = v].replicas = n
    BY DEF NewStatefulSet
  <2> QED
    BY <2>1, <2>2
<1>4. Descending
  <2>1. cEs.spec = InitialSpec /\ es.spec = InitialSpec
    BY <1>1, <1>2
  <2> QED
    BY <1>1, <1>2, <1>3, <2>1 DEF Descending
<1>5. SeenInv
  BY <1>1 DEF SeenInv, AsksLate, PodsThere, CrashesMissed, Seeing, Scaling, Early
<1>6. DoubtInv
  <2>1. Doubtful = {} /\ Held = {} /\ Spare = 0
    BY <1>1, RestartSound DEF Held, Spare, Deleting
  <2>2. Cardinality(Doubtful \cup Held) = 0
    BY <2>1, FS_EmptySet
  <2> QED
    BY <1>1, <2>1, <2>2, BudgetAssumption DEF DoubtInv, DoubtCounted, HealthyLeft
<1> QED
  BY <1>4, <1>5, <1>6

\* The Pod a step restarts is one of those that were selected.
LEMMA OnlySelected ==
  ASSUME FaultKinds \subseteq {"error"}, ReadyInv, GoInv, PodsInv, NEW p \in Pods,
         Restarts(p), [Next]_vars
  PROVE  p \in roll.selected
<1>1. /\ TypeOK /\ ~OperatorRestarts
      /\ pc = "delete" /\ pc' # pc /\ ~pod[p].terminating /\ pod'[p].terminating
  BY DEF ReadyInv, TypeInv, OperatorRestarts, Restarts
<1>2. Worker
  BY <1>1, AroundSteps DEF Next
<1>3. PICK q \in Pods : Delete(q) \/ ForceDelete(q)
  BY <1>1, <1>2, QuietWorker DEF Removal
<1>4. q \in roll.selected /\ (pod' = pod \/ pod' = [pod EXCEPT ![q].terminating = TRUE])
  BY <1>1, <1>3, DeletionSteps
<1>5. p = q
  BY <1>1, <1>4 DEF TypeOK, KubernetesTypeOK
<1> QED
  BY <1>4, <1>5

\* It was counted with the Pods that are unavailable.
LEMMA FewUnavailable ==
  ASSUME FaultKinds \subseteq {"error"}, ReadyInv, GoInv, PodsInv, DoubtInv, NEW p \in Pods,
         Restarts(p), MaxUnavailable >= 0, [Next]_vars
  PROVE  Cardinality(Unavailable(WantedPods) \cup {p}) <= MaxUnavailable + crashes
<1>1. TypeOK /\ p \in roll.selected /\ pc = "delete"
  BY OnlySelected DEF ReadyInv, TypeInv, Restarts
<1>2. p \in Held /\ Spare = 0
  BY <1>1 DEF Held, Spare, Deleting
<1>3. Unavailable(WantedPods) \cup {p} \subseteq Doubtful \cup Held
  BY <1>2 DEF Unavailable, Doubtful, Sound
<1>4. /\ Cardinality(Unavailable(WantedPods) \cup {p}) <= Cardinality(Doubtful \cup Held)
      /\ Cardinality(Unavailable(WantedPods) \cup {p}) \in Nat
  <2>1. Doubtful \cup Held \subseteq Pods /\ Unavailable(WantedPods) \cup {p} \subseteq Pods
    BY <1>1, <1>3, DoubtTypes
  <2> QED
    BY <1>3, <2>1, PodsCounted, FS_Subset
<1> QED
  BY <1>1, <1>2, <1>4, DoubtTypes DEF DoubtInv, DoubtCounted

-----------------------------------------------------------------------------
(***************************************************************************)
(* The nodes that are back when allocation is enabled.                     *)
(***************************************************************************)
\* Allocation changes at the end of a rolling upgrade when the nodes are back.
LEMMA EnabledWhenBack ==
  ASSUME ReadyInv, GoInv, [Next]_vars, FaultKinds \subseteq {"error"},
         pc = "enable", pc' # pc, allocation' # allocation
  PROVE  ScheduledNodesBack
<1>1. TypeOK /\ ~OperatorRestarts
  BY DEF OperatorRestarts, ReadyInv, TypeInv
<1>2. Worker
  BY <1>1, AroundSteps DEF Next
<1>3. MaybeEnableShardsAllocation
  <2>1. \/ Rollout
        \/ Removal
        \/ RecoverFromPanic
    BY <1>1, <1>2, OutsideSteps, DecisionSteps, ApplySteps, WriteSteps, WorkerSteps
       DEF ReadyInv, TypeInv, GoInv, AwaitExpectations, Scaling, Early
  <2>2. ~Removal /\ ~RecoverFromPanic
    BY DEF Removal, Delete, ForceDelete, RecoverFromPanic
  <2> QED
    BY <2>1, <2>2
       DEF Rollout, HandleRollingUpgrades, ApplyPredicates, NoPodSelected,
           PrepareClusterForNodeRestart, RollZen1, RollZen2, FinishNodeSpecs
<1> QED
  BY <1>3 DEF MaybeEnableShardsAllocation

\* Those are the nodes of every Pod that should be there.
LEMMA NodesBack ==
  ASSUME ReadyInv, GoInv, SeenInv, pc = "enable", ScheduledNodesBack, crashes = 0,
         NEW p \in Pods, Wanted(p)
  PROVE  p \in joined /\ ~pod[p].terminating
<1>1. TypeOK /\ p[1] \in NodeSets
  BY DEF ReadyInv, TypeInv, Pods
<1>2. Stable(p)
  BY DEF SeenInv, PodsThere, Seeing
<1>3. pass.actual[p[1]].exists
  BY <1>1 DEF Wanted, GoInv, Shrinking, PhaseLocations, Locations
<1>4. p \in ActualNames
  <2>1. Named(p)
    BY <1>1, <1>2, <1>3, ReconciledNamed DEF Stable, ScheduledNodesBack
  <2> QED
    BY <1>1, <2>1 DEF Named, ActualNames
<1>5. p \in KnownNodes
  BY <1>4 DEF ScheduledNodesBack
<1>6. Missed = {}
  <2>1. Cardinality(LoopingPods \cup Missed) <= 0
    BY DEF SeenInv, CrashesMissed, Seeing
  <2>2. LoopingPods \cup Missed \subseteq Pods
    BY DEF LoopingPods, Missed, WantedPods
  <2>3. /\ IsFiniteSet(LoopingPods \cup Missed)
        /\ Cardinality(LoopingPods \cup Missed) \in Nat
    BY <2>2, PodsCounted
  <2>4. Cardinality(LoopingPods \cup Missed) = 0
    BY <2>1, <2>3
  <2> QED
    BY <2>3, <2>4, FS_EmptySet
<1> QED
  BY <1>2, <1>5, <1>6 DEF Missed, WantedPods, Stable, Fresh

-----------------------------------------------------------------------------
(***************************************************************************)
(* The two properties of a rolling upgrade.                                *)
(***************************************************************************)
\* What a running cluster keeps while nodeSets only shrink.
RollInv ==
  /\ ReadyInv /\ GoInv /\ PodsInv /\ BudgetInv
  /\ Descending /\ SeenInv /\ DoubtInv

\* It holds at the start.
LEMMA RollInit == Bootstrapped /\ Init => RollInv
BY ReadyInit, GoInit, PodsInit, BudgetInit, RestartInit DEF RollInv

\* Every step keeps it.
LEMMA RollStep ==
  FaultKinds \subseteq {"error"} /\ RollInv /\ [Next]_vars /\ [NoneGrows]_es => RollInv'
<1> SUFFICES ASSUME FaultKinds \subseteq {"error"}, RollInv, [Next]_vars, [NoneGrows]_es
             PROVE  RollInv'
  OBVIOUS
<1> USE DEF RollInv
<1>1. NoneGrows
  <2>1. es.spec \in Specs
    BY DEF ReadyInv, TypeInv, TypeOK, DriverTypeOK, KubernetesTypeOK, Resources
  <2>2. es.spec.sets \subseteq NodeSets /\ \A s \in NodeSets : es.spec.count[s] \in Nat
    BY <2>1, SpecTypes, MaxReplicasAssumption
  <2> QED
    BY <2>2 DEF NoneGrows
<1>2. ReadyInv' /\ GoInv'
  BY <1>1, ReadyStep, GoStep DEF NoneGrows, OnlyGo
<1>3. PodsInv' /\ BudgetInv'
  BY <1>2, PodsStep, BudgetStep
<1> QED
  BY <1>1, <1>2, <1>3, DescendingStep, SeenStep, DoubtStep

\* The available Pods a rolling upgrade restarts (driver/upgrade.go,
\* driver/upgrade_predicates.go): for every cluster that is running, when failed calls
\* are the only faults and the user removes nodeSets and nodes and changes templates,
\* a restart leaves at most maxUnavailable Pods unavailable, besides those that crashed.
THEOREM RestartKeepsBudget ==
  Bootstrapped /\ FaultKinds \subseteq {"error"}
    => (Spec /\ NodeSetsOnlyShrink => RestartKeepsAvailable)
<1> SUFFICES ASSUME Bootstrapped, FaultKinds \subseteq {"error"}
             PROVE  Spec /\ NodeSetsOnlyShrink => RestartKeepsAvailable
  OBVIOUS
<1>1. Init => RollInv
  BY RollInit
<1>2. RollInv /\ [Next]_vars /\ [NoneGrows]_es => RollInv'
  BY RollStep
<1>3. RollInv /\ [Next]_vars =>
        [\A p \in Pods :
           Restarts(p) /\ IsAvailable(p) /\ MaxUnavailable >= 0
             => Cardinality(Unavailable(WantedPods) \cup {p})
                  <= MaxUnavailable + crashes]_vars
  BY FewUnavailable DEF RollInv
<1> QED
  BY <1>1, <1>2, <1>3, PTL DEF Spec, NodeSetsOnlyShrink, RestartKeepsAvailable

\* Allocation after restarts (MaybeEnableShardsAllocation, driver/upgrade.go): under the
\* same hypotheses, and unless a container crashed, the shards may be allocated again
\* only when every Pod that should be there is in the cluster and stays.
THEOREM AllocationWaitsForNodes ==
  Bootstrapped /\ FaultKinds \subseteq {"error"}
    => (Spec /\ NodeSetsOnlyShrink => AllocationEnabledWhenBack)
<1> SUFFICES ASSUME Bootstrapped, FaultKinds \subseteq {"error"}
             PROVE  Spec /\ NodeSetsOnlyShrink => AllocationEnabledWhenBack
  OBVIOUS
<1>1. Init => RollInv
  BY RollInit
<1>2. RollInv /\ [Next]_vars /\ [NoneGrows]_es => RollInv'
  BY RollStep
<1>3. RollInv /\ [Next]_vars =>
        [pc = "enable" /\ pc' # pc /\ allocation # allocation'
           => \A p \in WantedPods :
                crashes = 0 => p \in joined /\ ~pod[p].terminating]_vars
  BY EnabledWhenBack, NodesBack DEF RollInv, WantedPods
<1> QED
  BY <1>1, <1>2, <1>3, PTL DEF Spec, NodeSetsOnlyShrink, AllocationEnabledWhenBack

-----------------------------------------------------------------------------
(***************************************************************************)
(* The masters that a rolling upgrade restarts, when all of them stay.     *)
(***************************************************************************)
\* The user removes no master, and adds no node.
MastersKeep ==
  /\ NoneGrows
  /\ \A s \in es.spec.sets : MasterSet(s) =>
       s \in es'.spec.sets /\ es'.spec.count[s] = es.spec.count[s]
MastersOnlyStay == [][MastersKeep]_es

MasterPods == {p \in Pods : MasterSet(p[1])}
StayingMasters == MasterPods \cap WantedPods
Asked(p) == p[1] \in es.spec.sets /\ p[2] < es.spec.count[p[1]]

\* Every master there is, in Kubernetes or in the cache, is asked for.
MastersAsked ==
  \A p \in MasterPods : Wanted(p) \/ pod[p].exists \/ cPod[p].exists => Asked(p)

\* The masters among the Pods a selection looks at are those that stay.
SelectedRoles ==
  pc = "select" => \A p \in roll.healthy \cup roll.todo :
    /\ SeenMaster(p) = MasterSet(p[1])
    /\ MasterSet(p[1]) => Wanted(p)

\* The masters that are doubtful, or chosen to be restarted, are one, and those that
\* crashed; there is room for a healthy one when all of them are.
Room ==
  IF pc = "select" /\ roll.selected = {} /\ StayingMasters \subseteq roll.healthy THEN 1 ELSE 0
AtRisk == (Doubtful \cup Held) \cap MasterPods
MastersCounted == Cardinality(AtRisk) + Room <= 1 + crashes

MastersInv == MastersAsked /\ SelectedRoles /\ MastersCounted

\* What is asked for is there to be, and the pass asks for it.
LEMMA AskedWanted ==
  ASSUME TypeOK, GoInv, Descending, NEW p \in Pods, Asked(p)
  PROVE  /\ Wanted(p)
         /\ pc # "idle" => p[1] \in Desired.sets /\ p[2] < Desired.count[p[1]]
<1>1. /\ p[1] \in NodeSets /\ p[2] \in Nat /\ p[1] \in cEs.spec.sets /\ sset[p[1]].exists
      /\ pc # "idle" => p[1] \in Desired.sets
  BY MaxReplicasAssumption DEF Asked, GoInv, Shrinking, Pods, Ordinals
<1>2. /\ es.spec.count[p[1]] \in Nat /\ cEs.spec.count[p[1]] \in Nat
      /\ Desired.count[p[1]] \in Nat /\ sset[p[1]].replicas \in Nat
  <2>1. es.spec \in Specs /\ cEs.spec \in Specs /\ Desired \in Specs
    BY PassParts DEF TypeOK, DriverTypeOK, Resources
  <2>2. sset[p[1]] \in StatefulSets
    BY <1>1 DEF TypeOK, KubernetesTypeOK
  <2> QED
    BY <1>1, <2>1, <2>2, SpecTypes, MaxReplicasAssumption DEF StatefulSets
<1> QED
  BY <1>1, <1>2 DEF Asked, Descending, Wanted

\* The masters the operator expects are the ones that stay.
LEMMA ExpectedStay ==
  ASSUME TypeOK, RolesStay, GoInv, Descending, MastersAsked, pc # "idle"
  PROVE  ExpectedMasters = StayingMasters
<1>1. \A s \in Desired.sets : Desired.tmpl[s].master = MasterSet(s) /\ sset[s].exists
  <2>1. Desired \in Specs /\ \A s \in Desired.sets : s \in InitialSpec.sets /\ sset[s].exists
    BY PassParts, SpecSets DEF GoInv, Shrinking
  <2> QED
    BY <2>1 DEF RolesStay
<1>2. ASSUME NEW p \in ExpectedMasters PROVE p \in StayingMasters
  <2>1. /\ p \in Pods /\ p[1] \in NodeSets /\ p[2] \in Nat /\ p[1] \in Desired.sets
        /\ p[2] < Desired.count[p[1]] /\ MasterSet(p[1])
    BY <1>1, <1>2, MaxReplicasAssumption DEF ExpectedMasters, Pods, Ordinals
  <2>2. Desired.count[p[1]] \in Nat /\ sset[p[1]].replicas \in Nat
    BY <2>1, PassParts, SpecTypes, MaxReplicasAssumption
       DEF TypeOK, KubernetesTypeOK, StatefulSets
  <2> QED
    BY <1>1, <2>1, <2>2 DEF Descending, StayingMasters, MasterPods, WantedPods, Wanted
<1>3. ASSUME NEW p \in StayingMasters PROVE p \in ExpectedMasters
  <2>1. p \in Pods /\ MasterSet(p[1]) /\ Wanted(p) /\ Asked(p)
    BY <1>3 DEF StayingMasters, MasterPods, WantedPods, MastersAsked
  <2> QED
    BY <1>1, <2>1, AskedWanted DEF ExpectedMasters
<1> QED
  BY <1>2, <1>3

\* No step adds a master that is not asked for, and none that is asked for goes.
LEMMA AskedStep ==
  ASSUME FaultKinds \subseteq {"error"}, ReadyInv, ReadyInv', GoInv, PodsInv, Descending,
         MastersKeep, MastersAsked, [Next]_vars
  PROVE  MastersAsked'
<1>1. TypeOK /\ TypeOK' /\ ~OperatorRestarts
  BY DEF ReadyInv, TypeInv, OperatorRestarts
<1>2. ASSUME NEW p \in MasterPods, Wanted(p)' \/ pod'[p].exists \/ cPod'[p].exists
      PROVE  Wanted(p) \/ pod[p].exists \/ cPod[p].exists
  <2>1. p \in Pods
    BY DEF MasterPods
  <2>2. CASE Worker
    <3>1. Wanted(p)' => Wanted(p)
      BY <2>1, <2>2, WantedFewer
    <3>2. CASE Removal
      <4>1. pod'[p].exists = pod[p].exists /\ cPod' = cPod
        BY <1>1, <2>1, <3>2, RolesRemoval, RolloutSteps
      <4> QED
        BY <1>2, <3>1, <4>1
    <3>3. CASE ~Removal
      <4>1. pod' = pod /\ (cPod' = cPod \/ cPod' = pod)
        BY <2>2, <3>3, QuietWorker
      <4> QED
        BY <1>2, <3>1, <4>1
    <3> QED
      BY <3>2, <3>3
  <2>3. CASE \/ Surroundings \/ Watches \/ Observer
             \/ \E spec \in Specs : ChangeSpec(spec)
             \/ UNCHANGED vars
    <3>1. /\ PodMove(p) /\ (Wanted(p)' <=> Wanted(p))
          /\ cPod' = cPod \/ (cPod' = pod /\ pod' = pod)
      BY <1>1, <2>1, <2>3, AroundMoves
    <3> QED
      BY <1>2, <3>1 DEF PodMove
  <2> QED
    BY <1>1, <2>2, <2>3 DEF Next
<1>3. ASSUME NEW p \in MasterPods, Asked(p) PROVE Asked(p)'
  BY <1>3 DEF Asked, MastersKeep, MasterPods
<1> QED
  BY <1>2, <1>3 DEF MastersAsked, MasterPods

\* The masters at risk are Pods.
LEMMA RiskTypes ==
  ASSUME TypeOK
  PROVE  /\ AtRisk \subseteq Pods /\ Cardinality(AtRisk) \in Nat
         /\ Room \in {0, 1} /\ crashes \in Nat
<1>1. AtRisk \subseteq Pods
  BY DEF AtRisk, MasterPods
<1> QED
  BY <1>1, PodsCounted, DoubtTypes DEF Room

\* Fewer of them, and no more room, is no more than there may be.
LEMMA RiskShrinks ==
  ASSUME TypeOK, TypeOK', MastersCounted, crashes <= crashes', Room' <= Room,
         Doubtful' \cup Held' \subseteq Doubtful \cup Held
  PROVE  MastersCounted'
<1>1. AtRisk' \subseteq AtRisk /\ AtRisk' \subseteq Pods
  BY DEF AtRisk, MasterPods
<1>2. Cardinality(AtRisk') <= Cardinality(AtRisk) /\ Cardinality(AtRisk') \in Nat
  BY <1>1, RiskTypes, PodsCounted, FS_Subset
<1>3. crashes' \in Nat /\ Room' \in {0, 1}
  BY MaxCrashesAssumption DEF Room, TypeOK, ElasticsearchTypeOK
<1> QED
  BY <1>2, <1>3, RiskTypes DEF MastersCounted

\* One more is within what there may be when it is a crash, or takes the room.
LEMMA RiskGrows ==
  ASSUME TypeOK, TypeOK', MastersCounted, NEW q \in Pods,
         Doubtful' \cup Held' \subseteq (Doubtful \cup Held) \cup {q},
         \/ crashes' = crashes + 1 /\ Room' = Room
         \/ crashes' = crashes /\ Room' = 0 /\ Room = 1
  PROVE  MastersCounted'
<1>1. AtRisk' \subseteq AtRisk \cup {q} /\ AtRisk' \subseteq Pods
  BY DEF AtRisk, MasterPods
<1>2. Cardinality(AtRisk') <= Cardinality(AtRisk) + 1 /\ Cardinality(AtRisk') \in Nat
  BY <1>1, RiskTypes, PodsCounted, OneMore
<1> QED
  BY <1>2, RiskTypes DEF MastersCounted

\* Around the worker.
LEMMA MastersAround ==
  ASSUME TypeOK, TypeOK', SelectedRoles, MastersCounted,
         \/ Surroundings \/ Watches \/ Observer
         \/ \E spec \in Specs : ChangeSpec(spec)
         \/ UNCHANGED vars
  PROVE  SelectedRoles' /\ MastersCounted'
<1>1. /\ UNCHANGED <<pc, roll>> /\ WantedPods' = WantedPods /\ Held' = Held
      /\ \/ Doubtful' \subseteq Doubtful /\ crashes <= crashes'
         \/ \E q \in Pods : Doubtful' \subseteq Doubtful \cup {q} /\ crashes' = crashes + 1
  BY HeldAround
<1>2. Room' = Room
  BY <1>1 DEF Room, StayingMasters, MasterPods
<1>3. SelectedRoles'
  BY <1>1, AroundMoves DEF SelectedRoles, SeenMaster, TypeOK, DriverTypeOK, Rolling
<1>4. CASE Doubtful' \subseteq Doubtful /\ crashes <= crashes'
  BY <1>1, <1>2, <1>3, <1>4, RiskTypes, RiskShrinks
<1>5. ASSUME NEW q \in Pods, Doubtful' \subseteq Doubtful \cup {q}, crashes' = crashes + 1
      PROVE  MastersCounted'
  BY <1>1, <1>2, <1>5, RiskGrows
<1> QED
  BY <1>1, <1>3, <1>4, <1>5

\* A master that is healthy is taken when all of them are.
LEMMA MastersSelect ==
  ASSUME RolesStay, ReadyInv, ReadyInv', GoInv, PodsInv, Descending, MastersInv,
         NEW p \in Pods, ApplyPredicates(p)
  PROVE  SelectedRoles' /\ MastersCounted'
<1>1. /\ TypeOK /\ TypeOK' /\ crashes' = crashes /\ Doubtful' \subseteq Doubtful
      /\ WantedPods' = WantedPods /\ p \in roll.todo /\ p \in WantedPods /\ pc = "select"
  BY HeldSelect DEF ReadyInv, TypeInv
<1>2. CASE pc' # "select" /\ Held' = {}
  <2>1. Room' = 0 /\ SelectedRoles'
    BY <1>2 DEF Room, SelectedRoles
  <2> QED
    BY <1>1, <1>2, <2>1, RiskTypes, RiskShrinks DEF MastersInv
<1>3. ASSUME pc' = "select", roll'.healthy \subseteq roll.healthy,
             roll'.seen = roll.seen, roll'.todo \subseteq roll.todo
      PROVE  SelectedRoles'
  <2>1. \A q \in roll'.healthy \cup roll'.todo : /\ SeenMaster(q) = MasterSet(q[1])
                                                 /\ MasterSet(q[1]) => Wanted(q)
    BY <1>1, <1>3 DEF MastersInv, SelectedRoles
  <2>2. \A q : SeenMaster(q)' = SeenMaster(q)
    BY <1>3 DEF SeenMaster
  <2>3. \A q \in Pods : Wanted(q)' <=> Wanted(q)
    BY <1>1 DEF WantedPods
  <2>4. roll'.healthy \cup roll'.todo \subseteq Pods
    BY <1>1, <1>3 DEF TypeOK, DriverTypeOK, Rolling
  <2> QED
    BY <2>1, <2>2, <2>3, <2>4 DEF SelectedRoles
<1>4. CASE /\ pc' = "select" /\ Held' = Held
           /\ roll'.healthy = roll.healthy /\ roll'.selected = roll.selected
           /\ roll'.reached = roll.reached /\ roll'.seen = roll.seen
           /\ roll'.todo \subseteq roll.todo
  <2>1. Room' = Room
    BY <1>1, <1>4 DEF Room, StayingMasters, MasterPods
  <2> QED
    BY <1>1, <1>3, <1>4, <2>1, RiskTypes, RiskShrinks DEF MastersInv
<1>5. CASE /\ pc' = "select" /\ Held' \subseteq Held \cup {p}
           /\ p \in roll.healthy \/ p \in Held
           /\ PassesButForShards(p) /\ roll.selected = {}
           /\ roll'.healthy = roll.healthy \ {p} /\ roll'.selected = {p}
           /\ roll'.seen = roll.seen /\ roll'.todo \subseteq roll.todo
  <2>1. Room' = 0
    BY <1>5 DEF Room
  <2>2. CASE p \in Held
    BY <1>1, <1>3, <1>5, <2>1, <2>2, RiskTypes, RiskShrinks DEF MastersInv
  <2>3. CASE p \notin MasterPods
    <3>1. AtRisk' \subseteq AtRisk
      BY <1>1, <1>5, <2>3 DEF AtRisk
    <3>2. Cardinality(AtRisk') <= Cardinality(AtRisk) /\ Cardinality(AtRisk') \in Nat
      BY <1>1, <3>1, RiskTypes, PodsCounted, FS_Subset
    <3> QED
      BY <1>1, <1>3, <1>5, <2>1, <3>2, RiskTypes DEF MastersCounted, MastersInv
  <2>4. CASE p \in roll.healthy /\ p \in MasterPods
    <3> DEFINE seen == {q \in roll.healthy : SeenMaster(q)}
    <3>1. ExpectedMasters = StayingMasters /\ StayingMasters \subseteq Pods
      BY <1>1, ExpectedStay DEF MastersInv, StayingMasters, MasterPods
    <3>2. p \in ExpectedMasters /\ SeenMaster(p)
      BY <1>1, <2>4, <3>1 DEF MastersInv, SelectedRoles, StayingMasters, MasterPods
    <3>3. Cardinality(seen) = Cardinality(StayingMasters)
      BY <1>5, <2>4, <3>1, <3>2 DEF PassesButForShards, OneMasterAtATime, IsHealthy
    <3>4. seen \subseteq StayingMasters
      <4>1. roll.healthy \subseteq Pods
        BY <1>1 DEF TypeOK, DriverTypeOK, Rolling
      <4> QED
        BY <1>1, <4>1 DEF MastersInv, SelectedRoles, StayingMasters, MasterPods, WantedPods
    <3>5. seen = StayingMasters
      BY <3>1, <3>3, <3>4, PodsCounted, FS_Subset
    <3>6. Room = 1
      BY <1>1, <1>5, <3>5 DEF Room
    <3>7. Doubtful' \cup Held' \subseteq (Doubtful \cup Held) \cup {p}
      BY <1>1, <1>5
    <3> QED
      BY <1>1, <1>3, <1>5, <2>1, <3>6, <3>7, RiskGrows DEF MastersInv
  <2> QED
    BY <1>5, <2>2, <2>3, <2>4
<1> QED
  BY <1>2, <1>4, <1>5, HeldSelect

\* A selection starts with the masters there are.
LEMMA MastersUpgrade ==
  ASSUME ReadyInv, ReadyInv', GoInv, PodsInv, PodsInv', PhasesKnown, Descending, SeenInv,
         Roles, MastersInv, HandleRollingUpgrades
  PROVE  SelectedRoles' /\ MastersCounted'
<1>1. /\ TypeOK /\ TypeOK' /\ pc = "rolling" /\ crashes' = crashes /\ crashes \in Nat
      /\ Doubtful' \subseteq Doubtful /\ Held' \subseteq Doubtful /\ WantedPods' = WantedPods
  BY HeldUpgrade, DoubtTypes DEF ReadyInv, TypeInv
<1>2. SelectedRoles'
  <2> SUFFICES ASSUME pc' = "select", NEW p \in roll'.healthy \cup roll'.todo
               PROVE  /\ SeenMaster(p)' = MasterSet(p[1])
                      /\ MasterSet(p[1]) => Wanted(p)'
    BY DEF SelectedRoles
  <2>1. p \in Pods /\ cPod[p].exists /\ roll'.seen = cPod
    BY HeldUpgrade
       DEF HealthyPods, ReadyPods, ActualPods, Existing, PodsToUpgrade
  <2>2. SeenMaster(p)' = MasterSet(p[1])
    BY <2>1 DEF SeenMaster, Roles, HasRole
  <2>3. MasterSet(p[1]) => Wanted(p)
    BY <1>1, <2>1, AskedWanted DEF MastersInv, MastersAsked, MasterPods
  <2> QED
    BY <1>1, <2>1, <2>2, <2>3 DEF WantedPods
<1>3. Room = 0
  BY <1>1 DEF Room
<1>4. CASE Room' = 0
  BY <1>1, <1>2, <1>3, <1>4, RiskShrinks DEF MastersInv
<1>5. CASE Room' # 0
  <2>1. pc' = "select" /\ Room' = 1 /\ StayingMasters \subseteq HealthyPods
    <3>1. pc' = "select" /\ Room' = 1 /\ StayingMasters' \subseteq roll'.healthy
      BY <1>5 DEF Room
    <3> QED
      BY <1>1, <3>1, HeldUpgrade DEF StayingMasters, MasterPods
  <2>2. AtRisk' \subseteq LoopingPods \cup Missed
    <3> SUFFICES ASSUME NEW p \in Doubtful, p \in MasterPods
                 PROVE  p \in LoopingPods \cup Missed
      BY <1>1 DEF AtRisk, MasterPods
    <3>1. p \in HealthyPods
      BY <2>1 DEF Doubtful, StayingMasters
    <3> QED
      BY <1>1, <3>1, HealthyDoubtful
  <2>3. Cardinality(LoopingPods \cup Missed) <= crashes
    BY <1>1 DEF SeenInv, CrashesMissed, Seeing
  <2>4. LoopingPods \cup Missed \subseteq Pods
    BY DEF LoopingPods, Missed, WantedPods
  <2>5. /\ Cardinality(AtRisk') <= Cardinality(LoopingPods \cup Missed)
        /\ Cardinality(AtRisk') \in Nat /\ Cardinality(LoopingPods \cup Missed) \in Nat
    BY <2>2, <2>4, PodsCounted, FS_Subset
  <2> QED
    BY <1>1, <1>2, <2>1, <2>3, <2>5 DEF MastersCounted
<1> QED
  BY <1>4, <1>5

\* Every step keeps this.
LEMMA MastersStep ==
  ASSUME FaultKinds \subseteq {"error"}, RolesStay, RollInv, RollInv', Roles, MastersInv,
         MastersKeep, [Next]_vars
  PROVE  MastersInv'
<1>1. /\ TypeOK /\ TypeOK' /\ ~OperatorRestarts /\ ReadyInv /\ ReadyInv' /\ GoInv
      /\ PodsInv /\ PodsInv' /\ PhasesKnown /\ Descending /\ SeenInv /\ HealthyLeft
  BY DEF OperatorRestarts, RollInv, ReadyInv, TypeInv, BudgetInv, DoubtInv
<1>2. MastersAsked'
  BY <1>1, AskedStep DEF MastersInv
<1>3. CASE \/ Surroundings \/ Watches \/ Observer
           \/ \E spec \in Specs : ChangeSpec(spec)
           \/ UNCHANGED vars
  BY <1>1, <1>2, <1>3, MastersAround DEF MastersInv
<1>4. CASE HandleRollingUpgrades
  BY <1>1, <1>2, <1>4, MastersUpgrade DEF MastersInv
<1>5. ASSUME NEW p \in Pods, ApplyPredicates(p) PROVE MastersInv'
  BY <1>1, <1>2, <1>5, MastersSelect DEF MastersInv
<1>6. CASE Worker /\ ~Choosing
  <2>1. /\ crashes' = crashes /\ pc' # "select"
        /\ Doubtful' \cup Held' \subseteq Doubtful \cup Held
    BY <1>1, <1>6, HeldQuiet, HeldRemoval
  <2>2. Room' = 0 /\ SelectedRoles'
    BY <2>1 DEF Room, SelectedRoles
  <2> QED
    BY <1>1, <1>2, <2>1, <2>2, RiskTypes, RiskShrinks DEF MastersInv
<1> QED
  BY <1>1, <1>3, <1>4, <1>5, <1>6 DEF Next, Choosing

\* A running cluster starts with the masters it asks for, all of them available.
LEMMA MastersInit ==
  ASSUME Bootstrapped, Init
  PROVE  MastersInv
<1>1. /\ InitRunning /\ cPod = pod /\ pc = "idle" /\ TypeOK /\ PodsInv /\ DoubtInv
  BY Zenon, ReadyInit, PodsInit, RestartInit DEF Init, ReadyInv, TypeInv
<1>2. ASSUME NEW p \in Pods, Wanted(p) \/ pod[p].exists PROVE Asked(p)
  <2>1. es.spec = InitialSpec
    BY <1>1 DEF InitRunning
  <2>2. sset[p[1]] = IF p[1] \in InitialSpec.sets
                       THEN [NewStatefulSet(0, InitialSpec.count[p[1]], InitialSpec.tmpl[p[1]])
                               EXCEPT !.upd = InitialSpec.tmpl[p[1]]]
                       ELSE NoStatefulSet(0)
    BY <1>1, Zenon DEF InitRunning, Pods
  <2>3. pod[p].exists => p \in InitialPods
    <3>1. ASSUME p \notin InitialPods PROVE ~pod[p].exists
      <4>1. pod[p] = NoPod(0)
        BY <1>1, <3>1, Zenon DEF InitRunning
      <4> QED
        BY <4>1 DEF NoPod
    <3> QED
      BY <3>1
  <2>4. Wanted(p) => p \in InitialPods
    <3>1. \A n, u, v : [NewStatefulSet(0, n, u) EXCEPT !.upd = v].replicas = n
      BY DEF NewStatefulSet
    <3>2. ~NoStatefulSet(0).exists
      BY DEF NoStatefulSet
    <3> QED
      BY <2>2, <3>1, <3>2 DEF Wanted, InitialPods
  <2> QED
    BY <1>2, <2>1, <2>3, <2>4 DEF Asked, InitialPods
<1>3. MastersAsked /\ SelectedRoles
  BY <1>1, <1>2 DEF MastersAsked, MasterPods, SelectedRoles
<1>4. MastersCounted
  <2>1. Doubtful \cup Held = {} /\ Room = 0 /\ crashes \in Nat
    BY <1>1, RestartSound, RiskTypes DEF Held, Room, Deleting
  <2>2. AtRisk = {} /\ Cardinality(AtRisk) = 0
    BY <2>1, FS_EmptySet DEF AtRisk
  <2> QED
    BY <2>1, <2>2 DEF MastersCounted
<1> QED
  BY <1>3, <1>4 DEF MastersInv

\* The masters the property speaks of are those that stay.
LEMMA VotersStay ==
  ASSUME Roles
  PROVE  Voters = StayingMasters
<1>1. ASSUME NEW p \in WantedPods
      PROVE  (IF pod[p].exists THEN IsMaster(p) ELSE p \in WantedMasters) <=> MasterSet(p[1])
  <2>1. p \in Pods /\ p[1] \in NodeSets /\ sset[p[1]].exists
    BY DEF WantedPods, Wanted, Pods
  <2> QED
    BY <2>1 DEF Roles, HasRoles, HasRole, IsMaster, WantedMasters
<1> QED
  BY <1>1 DEF Voters, StayingMasters, MasterPods, WantedPods

\* The others are available when an available master is restarted.
LEMMA OthersAvailable ==
  ASSUME FaultKinds \subseteq {"error"}, RollInv, Roles, MastersInv, [Next]_vars,
         NEW p \in Pods, Restarts(p), IsAvailable(p), IsMaster(p)
  PROVE  Cardinality(Unavailable(Voters)) <= crashes
<1> DEFINE U == Unavailable(Voters)
<1>1. TypeOK /\ p \in roll.selected /\ pc = "delete"
  BY OnlySelected DEF RollInv, ReadyInv, TypeInv, Restarts
<1>2. p \in Held /\ p \in MasterPods /\ p \notin U
  BY <1>1 DEF Held, Deleting, Unavailable, MasterPods, IsMaster, IsAvailable, IsReady, Roles,
              HasRole
<1>3. U \cup {p} \subseteq AtRisk
  BY <1>2, VotersStay DEF Unavailable, StayingMasters, AtRisk, Doubtful, Sound
<1>4. U \subseteq Pods /\ AtRisk \subseteq Pods
  BY <1>1, <1>3, RiskTypes
<1>5. /\ Cardinality(U \cup {p}) = Cardinality(U) + 1 /\ Cardinality(U) \in Nat
      /\ Cardinality(U \cup {p}) <= Cardinality(AtRisk)
  <2>1. IsFiniteSet(U) /\ Cardinality(U) \in Nat /\ IsFiniteSet(AtRisk)
    BY <1>4, PodsCounted
  <2> HIDE DEF U
  <2> QED
    BY <1>2, <1>3, <2>1, FS_AddElement, FS_Subset
<1> HIDE DEF U
<1>6. Cardinality(U) <= crashes
  BY <1>1, <1>5, RiskTypes DEF MastersInv, MastersCounted
<1> QED
  BY <1>6 DEF U

\* The masters a rolling upgrade restarts (oneMasterAtATime, driver/upgrade_predicates.go):
\* for every cluster that is running, when failed calls are the only faults and the user
\* keeps the masters and adds no node, whatever templates change and whichever other nodes
\* go, an available master is restarted only when the other masters are available, but for
\* those that crashed.
THEOREM MastersRestartOneByOne ==
  Bootstrapped /\ FaultKinds \subseteq {"error"} /\ RolesStay
    => (Spec /\ MastersOnlyStay => OneMasterRestartsAtATime)
<1> SUFFICES ASSUME Bootstrapped, FaultKinds \subseteq {"error"}, RolesStay
             PROVE  Spec /\ MastersOnlyStay => OneMasterRestartsAtATime
  OBVIOUS
<1> DEFINE Inv == RollInv /\ Roles /\ MastersInv
<1>1. Init => Inv
  BY RollInit, LeaveInit, MastersInit DEF LeaveInv
<1>2. Inv /\ [Next]_vars /\ [MastersKeep]_es => Inv'
  <2> SUFFICES ASSUME Inv, [Next]_vars, [MastersKeep]_es PROVE Inv'
    OBVIOUS
  <2>1. MastersKeep
    <3>1. CASE es' = es
      <4>1. es.spec \in Specs
        BY DEF RollInv, ReadyInv, TypeInv, TypeOK, DriverTypeOK, KubernetesTypeOK, Resources
      <4>2. es.spec.sets \subseteq NodeSets /\ \A s \in NodeSets : es.spec.count[s] \in Nat
        BY <4>1, SpecTypes, MaxReplicasAssumption
      <4> QED
        BY <3>1, <4>2 DEF NoneGrows, MastersKeep
    <3> QED
      BY <3>1
  <2>2. RollInv'
    BY <2>1, RollStep DEF MastersKeep
  <2>3. Roles'
    BY RolesStep DEF RollInv
  <2> QED
    BY <2>1, <2>2, <2>3, MastersStep
<1>3. Inv /\ [Next]_vars =>
        [\A p \in Pods :
           Restarts(p) /\ IsAvailable(p) /\ IsMaster(p)
             => Cardinality(Unavailable(Voters)) <= crashes]_vars
  BY OthersAvailable
<1> QED
  BY <1>1, <1>2, <1>3, PTL DEF Spec, MastersOnlyStay, OneMasterRestartsAtATime

-----------------------------------------------------------------------------
(***************************************************************************)
(* The data of a cluster whose nodeSets only shrink, when no edit changes  *)
(* a template and no container crashes.                                    *)
(***************************************************************************)
TemplatesStay ==
  \A spec \in Specs : \A s \in spec.sets \cap InitialSpec.sets :
    spec.tmpl[s] = InitialSpec.tmpl[s]

\* A StatefulSet, with its revision, or a Pod, of the nodeSet s has the template s
\* started with: a rolling upgrade never finds a Pod to restart.
HasTemplate(r, s) == r.exists => r.tmpl = InitialSpec.tmpl[s]
HasTemplates(r, s) ==
  r.exists => r.tmpl = InitialSpec.tmpl[s] /\ r.upd = InitialSpec.tmpl[s]
Uniform ==
  /\ \A s \in NodeSets : HasTemplates(sset[s], s) /\ HasTemplates(cSset[s], s)
  /\ \A p \in Pods : HasTemplate(pod[p], p[1]) /\ HasTemplate(cPod[p], p[1])
  /\ pc \in {"expect"} \cup PhaseLocations =>
       \A s \in NodeSets : HasTemplates(pass.actual[s], s)
NoUpgrade == pc \notin Deleting \cup {"panic"}

-----------------------------------------------------------------------------
\* What happens around the worker changes no template.
LEMMA UniformAround ==
  ASSUME TypeOK, Uniform,
         \/ Surroundings \/ Watches \/ Observer
         \/ \E spec \in Specs : ChangeSpec(spec)
         \/ UNCHANGED vars
  PROVE  Uniform'
<1>1. /\ UNCHANGED <<pc, pass>>
      /\ \A s \in NodeSets : SameSpec(sset[s], sset'[s])
      /\ cSset' = cSset \/ (cSset' = sset /\ sset' = sset)
  BY AroundSteps
<1>2. /\ \A p \in Pods : PodMove(p)
      /\ cPod' = cPod \/ (cPod' = pod /\ pod' = pod)
  BY AroundMoves
<1>3. \A s \in NodeSets : HasTemplates(sset'[s], s) /\ HasTemplates(cSset'[s], s)
  <2> SUFFICES ASSUME NEW s \in NodeSets
               PROVE  HasTemplates(sset'[s], s) /\ HasTemplates(cSset'[s], s)
    OBVIOUS
  <2>1. HasTemplates(sset[s], s) /\ HasTemplates(cSset[s], s)
    BY DEF Uniform
  <2>2. sset'[s].upd \in {sset[s].upd, sset[s].tmpl} /\ SameSpec(sset[s], sset'[s])
    BY <1>1, AroundRevision
  <2>3. HasTemplates(sset'[s], s)
    BY <2>1, <2>2 DEF HasTemplates, SameSpec
  <2> QED
    BY <1>1, <2>1, <2>3
<1>4. ASSUME NEW p \in Pods PROVE HasTemplate(pod'[p], p[1]) /\ HasTemplate(cPod'[p], p[1])
  <2>1. /\ HasTemplate(pod[p], p[1]) /\ HasTemplate(cPod[p], p[1])
        /\ HasTemplates(sset[p[1]], p[1]) /\ PodMove(p)
    BY <1>2 DEF Uniform, Pods
  <2>2. HasTemplate(pod'[p], p[1])
    BY <2>1 DEF PodMove, HasTemplates, HasTemplate, Wanted
  <2> QED
    BY <1>2, <2>1, <2>2
<1>5. pc' \in {"expect"} \cup PhaseLocations =>
        \A s \in NodeSets : HasTemplates(pass'.actual[s], s)
  BY <1>1 DEF Uniform
<1> QED
  BY <1>3, <1>4, <1>5 DEF Uniform

\* What the operator applies has the template there is.
LEMMA UniformApply ==
  ASSUME TypeOK, TemplatesStay, CacheCurrent, GoInv, Uniform, NEW s \in NodeSets,
         ApplyResource(s)
  PROVE  Uniform'
<1>1. /\ pc = "apply" /\ s \in Desired.sets /\ sset[s].exists
      /\ UNCHANGED <<pod, cSset, cPod>>
      /\ pc' \in {"apply", "zen1", "rolling", "status"}
      /\ sset' = sset \/ sset' = [sset EXCEPT ![s] = Applied(s)]
      /\ pc' # "status" =>
           \E c : /\ pass'.actual = [pass.actual EXCEPT ![s] = c]
                  /\ c = Applied(s) \/ c = cSset[s]
  BY ApplySteps DEF GoInv
<1>2. Desired \in Specs /\ s \in InitialSpec.sets
  BY <1>1, PassParts DEF GoInv, Shrinking
<1>3. Applied(s).exists /\ Applied(s).tmpl = Desired.tmpl[s] /\ Applied(s).upd = sset[s].upd
  BY <1>1, AppliedReplicas
<1>4. Desired.tmpl[s] = InitialSpec.tmpl[s]
  BY <1>1, <1>2 DEF TemplatesStay
<1>5. HasTemplates(Applied(s), s) /\ HasTemplates(cSset[s], s)
  BY <1>1, <1>3, <1>4 DEF Uniform, HasTemplates
<1>6. sset \in [NodeSets -> StatefulSets] /\ pass.actual \in [NodeSets -> StatefulSets]
  BY PassParts DEF TypeOK, KubernetesTypeOK
<1>7. \A t \in NodeSets : HasTemplates(sset'[t], t)
  BY <1>1, <1>5, <1>6 DEF Uniform
<1>8. pc' # "status" => \A t \in NodeSets : HasTemplates(pass'.actual[t], t)
  BY <1>1, <1>5, <1>6 DEF Uniform, PhaseLocations, Locations
<1> QED
  BY <1>1, <1>7, <1>8 DEF Uniform, PhaseLocations

\* A write of the downscale keeps the template the pass knows.
LEMMA UniformWrite ==
  ASSUME TypeOK, PlanSound, Uniform, UpdateReplicas \/ RemoveStatefulSet
  PROVE  Uniform'
<1> DEFINE s == Head(down.plan).set
           written == WrittenStatefulSet(sset[s], down.target, pass.actual[s].tmpl, FALSE)
<1>1. /\ s \in NodeSets
      /\ UNCHANGED <<pod, cSset, cPod>>
      /\ pc \in PhaseLocations /\ SamePass(pass, pass')
      /\ UpdateReplicas =>
           sset' = sset \/ (sset' = [sset EXCEPT ![s] = written] /\ sset[s] = pass.actual[s])
      /\ RemoveStatefulSet =>
           sset' \in {sset, [sset EXCEPT ![s] = NoStatefulSet(sset[s].uid)]}
  BY WriteSteps DEF PhaseLocations, Locations
<1>2. sset \in [NodeSets -> StatefulSets] /\ pass.actual \in [NodeSets -> StatefulSets]
  BY PassParts DEF TypeOK, KubernetesTypeOK
<1>3. sset[s] = pass.actual[s] => HasTemplates(written, s)
  <2>1. /\ written.exists = sset[s].exists /\ written.upd = sset[s].upd
        /\ written.tmpl = pass.actual[s].tmpl
    BY <1>1, <1>2 DEF WrittenStatefulSet, StatefulSets
  <2>2. HasTemplates(sset[s], s)
    BY <1>1 DEF Uniform
  <2> HIDE DEF s, written
  <2> QED
    BY <2>1, <2>2 DEF HasTemplates
<1>4. HasTemplates(NoStatefulSet(sset[s].uid), s)
  BY DEF NoStatefulSet, HasTemplates
<1> HIDE DEF s, written
<1>5. \A t \in NodeSets : HasTemplates(sset'[t], t)
  BY <1>1, <1>2, <1>3, <1>4 DEF Uniform
<1> QED
  BY <1>1, <1>5 DEF Uniform, SamePass

\* The other steps of the worker leave the templates alone.
LEMMA UniformQuiet ==
  ASSUME Uniform, UNCHANGED <<sset, cSset, pod, cPod>>,
         pc' \in {"expect"} \cup PhaseLocations =>
           \/ pc \in {"expect"} \cup PhaseLocations /\ SamePass(pass, pass')
           \/ pass'.actual = cSset
  PROVE  Uniform'
<1>1. pc' \in {"expect"} \cup PhaseLocations =>
        \A s \in NodeSets : HasTemplates(pass'.actual[s], s)
  BY DEF Uniform, SamePass
<1> QED
  BY <1>1 DEF Uniform

\* There is no Pod to upgrade.
LEMMA NothingToUpgrade ==
  ASSUME TypeOK, Uniform, pc \in PhaseLocations
  PROVE  PodsToUpgrade(pass.actual) = {}
<1> SUFFICES ASSUME NEW p \in PodsToUpgrade(pass.actual) PROVE FALSE
  OBVIOUS
<1>1. /\ p \in Pods /\ cPod[p].exists /\ pass.actual[p[1]].exists /\ p[1] \in NodeSets
      /\ cPod[p].tmpl # pass.actual[p[1]].upd
  BY DEF PodsToUpgrade, Existing, PodNames, Pods
<1> QED
  BY <1>1 DEF Uniform, HasTemplate, HasTemplates

\* So no rolling upgrade selects one.
LEMMA NoUpgradeRollout ==
  ASSUME TypeOK, Uniform, NoUpgrade, Rollout
  PROVE  NoUpgrade'
<1> USE DEF NoUpgrade, Deleting
<1>1. CASE HandleRollingUpgrades
  <2>1. PodsToUpgrade(pass.actual) = {} /\ ForcedPods = {}
    BY <1>1, NothingToUpgrade DEF HandleRollingUpgrades, PhaseLocations, Locations, ForcedPods
  <2> QED
    BY <1>1, <2>1 DEF HandleRollingUpgrades
<1>2. CASE MaybeEnableShardsAllocation \/ FinishNodeSpecs
  BY <1>2 DEF MaybeEnableShardsAllocation, FinishNodeSpecs
<1>3. ASSUME \/ \E p \in Pods : ApplyPredicates(p) \/ RollZen1(p) \/ RollZen2(p)
             \/ NoPodSelected \/ PrepareClusterForNodeRestart
      PROVE  FALSE
  BY <1>3 DEF ApplyPredicates, RollZen1, RollZen2, AddToVotingConfigExclusions, NoPodSelected,
     PrepareClusterForNodeRestart
<1> QED
  BY <1>1, <1>2, <1>3 DEF Rollout

\* Every step keeps the templates.
LEMMA UniformStep ==
  ASSUME FaultKinds \subseteq {"error"}, TemplatesStay, ReadyInv, GoInv, PodsInv, Uniform,
         NoUpgrade, [Next]_vars
  PROVE  Uniform' /\ NoUpgrade'
<1>1. /\ TypeOK /\ DownscaleInProgress /\ PlanSound /\ CacheCurrent
  BY DEF ReadyInv, TypeInv
<1>2. ASSUME Worker PROVE Uniform' /\ NoUpgrade'
  <2>1. CASE \/ StartReconcile \/ ReconcileClusterUUID \/ RetrieveActualStatefulSets
             \/ UpdateStatus
    <3>1. /\ Still
          /\ pc' \in {"uuid", "retrieve", "status", "expect", "idle"}
          /\ pc' \in {"expect"} \cup PhaseLocations => pass'.actual = cSset
      BY <1>1, <2>1, OutsideSteps, PassParts DEF Passes, PhaseLocations
    <3> QED
      BY <3>1, UniformQuiet DEF Still, NoUpgrade, Deleting
  <2>2. CASE AwaitExpectations
    <3>1. /\ UNCHANGED <<sset, cSset, cPod, pod>> /\ pc = "expect" /\ SamePass(pass, pass')
          /\ pc' \in {"adjust", "status"}
      BY <1>1, <2>2, PassParts, PassKept DEF AwaitExpectations, kubernetesVars
    <3> QED
      BY <3>1, UniformQuiet DEF NoUpgrade, Deleting
  <2>3. CASE Decision
    <3>1. /\ Still /\ pc \in PhaseLocations /\ SamePass(pass, pass')
          /\ pc' \in Scaling \cup {"rolling", "status"}
      BY <1>1, <2>3, DecisionSteps DEF Scaling, Early, PhaseLocations, Locations
    <3> QED
      BY <3>1, UniformQuiet DEF Still, NoUpgrade, Deleting, Scaling, Early
  <2>4. ASSUME NEW s \in NodeSets, ApplyResource(s) PROVE Uniform' /\ NoUpgrade'
    <3>1. pc' \in {"apply", "zen1", "rolling", "status"}
      BY <1>1, <2>4, ApplySteps DEF GoInv
    <3> QED
      BY <1>1, <2>4, <3>1, UniformApply DEF NoUpgrade, Deleting
  <2>5. CASE UpdateReplicas \/ RemoveStatefulSet
    <3>1. pc' \in {"attempt", "status"}
      BY <1>1, <2>5, WriteSteps
    <3> QED
      BY <1>1, <2>5, <3>1, UniformWrite DEF NoUpgrade, Deleting
  <2>6. CASE Rollout
    <3>1. UNCHANGED <<sset, cSset, cPod, pod>> /\ pc \in PhaseLocations /\ SamePass(pass, pass')
      BY <1>1, <2>6, RolloutSteps
    <3> QED
      BY <1>1, <2>6, <3>1, UniformQuiet, NoUpgradeRollout
  <2>7. ~Removal /\ ~RecoverFromPanic
    BY DEF Removal, Delete, ForceDelete, RecoverFromPanic, NoUpgrade, Deleting
  <2> QED
    BY <1>2, <2>1, <2>2, <2>3, <2>4, <2>5, <2>6, <2>7, WorkerSteps
<1>3. ~OperatorRestarts
  BY DEF OperatorRestarts
<1>4. CASE \/ Surroundings \/ Watches \/ Observer
           \/ \E spec \in Specs : ChangeSpec(spec)
           \/ UNCHANGED vars
  <2>1. pc' = pc
    BY <1>1, <1>4, AroundSteps
  <2> QED
    BY <1>1, <1>4, <2>1, UniformAround DEF NoUpgrade
<1> QED
  BY <1>2, <1>3, <1>4 DEF Next

\* A running cluster has the templates it started with.
LEMMA UniformInit ==
  ASSUME Bootstrapped, Init
  PROVE  Uniform /\ NoUpgrade
<1>1. /\ InitRunning /\ cPod = pod /\ cSset = sset /\ pc = "idle"
  BY Zenon DEF Init
<1>2. ASSUME NEW s \in NodeSets PROVE HasTemplates(sset[s], s)
  <2>1. sset[s] = IF s \in InitialSpec.sets
                       THEN [NewStatefulSet(0, InitialSpec.count[s], InitialSpec.tmpl[s])
                               EXCEPT !.upd = InitialSpec.tmpl[s]]
                       ELSE NoStatefulSet(0)
    BY <1>1, Zenon DEF InitRunning
  <2>2. \A n, u : /\ [NewStatefulSet(0, n, u) EXCEPT !.upd = u].tmpl = u
                  /\ [NewStatefulSet(0, n, u) EXCEPT !.upd = u].upd = u
    BY DEF NewStatefulSet
  <2>3. ~NoStatefulSet(0).exists
    BY DEF NoStatefulSet
  <2>4. CASE s \in InitialSpec.sets
    BY <2>1, <2>2, <2>4 DEF HasTemplates
  <2>5. CASE s \notin InitialSpec.sets
    BY <2>1, <2>3, <2>5 DEF HasTemplates
  <2> QED
    BY <2>4, <2>5
<1>3. ASSUME NEW p \in Pods PROVE HasTemplate(pod[p], p[1])
  <2>1. pod[p] = IF p \in InitialPods
                   THEN [NewPod(0, InitialSpec.tmpl[p[1]]) EXCEPT
                           !.phase = "Ready",
                           !.boot = IF p \in InitialMasters /\ MajorOf(InitialSpec) >= 7
                                      THEN InitialMasters ELSE {}]
                   ELSE NoPod(0)
    BY <1>1, Zenon DEF InitRunning
  <2>2. \A u, v : [NewPod(0, u) EXCEPT !.phase = "Ready", !.boot = v].tmpl = u
    BY DEF NewPod
  <2>3. ~NoPod(0).exists
    BY DEF NoPod
  <2> QED
    BY <2>1, <2>2, <2>3 DEF HasTemplate
<1> QED
  BY <1>1, <1>2, <1>3 DEF Uniform, PhaseLocations, NoUpgrade, Deleting
-----------------------------------------------------------------------------
\* Every Pod that should be there is, and its node is in the cluster.
Whole == \A p \in Pods : Wanted(p) => pod[p].exists /\ ~pod[p].terminating /\ p \in joined

\* The Pods that stay, once a downscale that is decided has removed its nodes.
Removing == {"dsZen1", "dsZen2", "dsUpdate"}
Staying == {p \in Pods : Wanted(p) /\ (pc \in Removing => p \notin RemovedNodes)}

\* A shard, by its copies c, is safe: it is active on a Pod that stays, moves to such
\* Pods only, and its copies are of nodes in the cluster.
Safe(c, stay, in) ==
  /\ \E p \in stay : c[p] \in {"started", "relocating"}
  /\ \A p \in Pods : c[p] = "target" => p \in stay
  /\ \A p \in Pods : c[p] \in {"started", "relocating", "recovering", "target"} => p \in in
DataSafe == \A s \in Shards : Safe(copy[s], Staying, joined)

\* The others are excluded from shard allocation, and so are the nodes that a downscale
\* still plans to remove.
OthersExcluded == \A p \in Pods : pod[p].exists => p \in Staying \/ p \in excluded
PlanExcluded ==
  pc \in {"attempt"} \cup Removing => excluded = down.nodes /\ LeavingNodes \subseteq down.nodes

DataInv == Whole /\ JoinedExist /\ DataSafe /\ OthersExcluded /\ PlanExcluded

-----------------------------------------------------------------------------
\* A master stays, so that the cluster is always formed.
LEMMA MasterStays ==
  ASSUME TypeOK, GoInv, Descending, TemplatesStay, Uniform, Whole
  PROVE  \E p \in Pods : Wanted(p) /\ p \in joined /\ IsMaster(p)
<1>1. es.spec \in Specs
  BY DEF TypeOK, DriverTypeOK, Resources
<1>2. PICK s \in es.spec.sets : es.spec.tmpl[s].master
  BY <1>1, SpecsAssumption
<1>3. s \in NodeSets /\ es.spec.count[s] \in Nat /\ es.spec.count[s] > 0
  BY <1>1, SpecTypes, SpecsAssumption, MaxReplicasAssumption
<1> DEFINE p == <<s, 0>>
<1>4. p \in Pods /\ p[1] = s /\ p[2] = 0
  BY <1>3, MaxReplicasAssumption DEF Pods, Ordinals
<1> HIDE DEF p
<1>5. Asked(p)
  BY <1>2, <1>3, <1>4 DEF Asked
<1>6. Wanted(p)
  BY <1>4, <1>5, AskedWanted
<1>7. pod[p].exists /\ p \in joined
  BY <1>4, <1>6 DEF Whole
<1>8. pod[p].tmpl = InitialSpec.tmpl[s] /\ s \in InitialSpec.sets
  BY <1>3, <1>4, <1>6, <1>7 DEF Uniform, HasTemplate, GoInv, Shrinking, Wanted
<1>9. es.spec.tmpl[s] = InitialSpec.tmpl[s]
  BY <1>1, <1>2, <1>8 DEF TemplatesStay
<1> QED
  BY <1>2, <1>4, <1>6, <1>7, <1>8, <1>9 DEF IsMaster

-----------------------------------------------------------------------------
(***************************************************************************)
(* The copies of a shard.                                                  *)
(***************************************************************************)
\* More Pods stay.
LEMMA SafeMore ==
  ASSUME NEW c, NEW S, NEW T, NEW J, NEW K, Safe(c, S, J), S \subseteq T, J \subseteq K
  PROVE  Safe(c, T, K)
BY DEF Safe

\* A copy that is not active is dropped, recovers or starts.
LEMMA SafeSet ==
  ASSUME NEW c \in [Pods -> CopyStates], NEW S, S \subseteq Pods, NEW J, Safe(c, S, J),
         NEW p \in Pods, p \in J, c[p] \notin {"started", "relocating"},
         NEW state \in {"started", "recovering", "none"}
  PROVE  Safe([c EXCEPT ![p] = state], S, J)
BY DEF Safe

\* A copy starts to move to a Pod that stays.
LEMMA SafeMove ==
  ASSUME NEW c \in [Pods -> CopyStates], NEW S, S \subseteq Pods, NEW J, Safe(c, S, J),
         NEW p \in Pods, NEW q \in Pods, c[p] = "started", c[q] = "none", p \in J,
         q \in J, q \in S
  PROVE  Safe([c EXCEPT ![p] = "relocating", ![q] = "target"], S, J)
<1>1. p # q
  OBVIOUS
<1>2. PICK r \in S : c[r] \in {"started", "relocating"}
  BY DEF Safe
<1> DEFINE d == [c EXCEPT ![p] = "relocating", ![q] = "target"]
<1>3. \A t \in Pods : d[t] = IF t = q THEN "target" ELSE IF t = p THEN "relocating" ELSE c[t]
  BY <1>1
<1> HIDE DEF d
<1>4. d[r] \in {"started", "relocating"}
  BY <1>2, <1>3
<1>5. Safe(d, S, J)
  BY <1>2, <1>3, <1>4 DEF Safe
<1> QED
  BY <1>5 DEF d

\* It has moved.
LEMMA SafeMoved ==
  ASSUME NEW c \in [Pods -> CopyStates], NEW S, S \subseteq Pods, NEW J, Safe(c, S, J),
         NEW p \in Pods, NEW q \in Pods, c[p] = "relocating", c[q] = "target"
  PROVE  Safe([c EXCEPT ![p] = "none", ![q] = "started"], S, J)
<1>1. p # q
  OBVIOUS
<1> DEFINE d == [c EXCEPT ![p] = "none", ![q] = "started"]
<1>2. \A t \in Pods : d[t] = IF t = q THEN "started" ELSE IF t = p THEN "none" ELSE c[t]
  BY <1>1
<1> HIDE DEF d
<1>3. q \in S
  BY DEF Safe
<1>4. Safe(d, S, J)
  BY <1>2, <1>3 DEF Safe
<1> QED
  BY <1>4 DEF d

\* A node that does not stay leaves the cluster.
LEMMA SafeLeave ==
  ASSUME NEW s \in Shards, NEW S, S \subseteq Pods, Safe(copy[s], S, joined),
         NEW p \in Pods, p \notin S
  PROVE  Safe(CopiesWithout(s, p), S, joined \ {p})
<1> DEFINE d == CopiesWithout(s, p)
<1>1. \A q \in Pods : q # p =>
        \/ copy[s][q] = "target" /\ d[q] = "none"
        \/ copy[s][q] = "relocating" /\ d[q] = "started"
        \/ d[q] = copy[s][q]
  <2> SUFFICES ASSUME NEW q \in Pods, q # p
               PROVE  \/ copy[s][q] = "target" /\ d[q] = "none"
                      \/ copy[s][q] = "relocating" /\ d[q] = "started"
                      \/ d[q] = copy[s][q]
    OBVIOUS
  <2>1. d[q] = CASE copy[s][q] = "target" /\ copy[s][p] = "relocating" -> "none"
                 [] copy[s][q] = "relocating" /\ copy[s][p] = "target" -> "started"
                 [] OTHER -> copy[s][q]
    BY DEF CopiesWithout
  <2> HIDE DEF d
  <2> QED
    BY <2>1
<1>2. \/ d[p] \in {"none", "disk", "stale"}
      \/ d[p] = copy[s][p] /\ d[p] \notin {"recovering", "target", "started", "relocating"}
  <2>1. d[p] = CASE copy[s][p] \in {"recovering", "target"} -> "none"
                 [] p \in ActiveCopies(s) ->
                      IF ActiveCopies(s) = {p} THEN "disk" ELSE "stale"
                 [] OTHER -> copy[s][p]
    BY DEF CopiesWithout
  <2> HIDE DEF d
  <2> QED
    BY <2>1 DEF ActiveCopies
<1> HIDE DEF d
<1>3. PICK r \in S : copy[s][r] \in {"started", "relocating"}
  BY DEF Safe
<1>4. d[r] \in {"started", "relocating"}
  BY <1>1, <1>3
<1>5. Safe(d, S, joined \ {p})
  BY <1>1, <1>2, <1>3, <1>4 DEF Safe
<1> QED
  BY <1>5 DEF d

-----------------------------------------------------------------------------
(***************************************************************************)
(* Around the worker.                                                      *)
(***************************************************************************)
\* Elasticsearch moves, recovers and drops copies, and nodes join.
LEMMA SafeCluster ==
  ASSUME TypeOK, JoinedExist, DataSafe, OthersExcluded, Cluster
  PROVE  /\ \A s \in Shards : Safe(copy'[s], Staying, joined')
         /\ joined \subseteq joined' /\ excluded' = excluded
<1>1. /\ copy \in [Shards -> [Pods -> CopyStates]] /\ joined \subseteq Pods
      /\ Staying \subseteq Pods
  BY DEF TypeOK, ElasticsearchTypeOK, Staying
<1>2. ASSUME NEW p \in Pods, JoinCluster(p)
      PROVE  UNCHANGED <<copy, excluded>> /\ joined \subseteq joined'
  BY <1>2 DEF JoinCluster, settingsVars
<1>3. ASSUME NEW s \in Shards, NEW p \in Pods,
             \/ StartFromDisk(s, p) \/ RecoverStale(s, p) \/ AllocateReplica(s, p)
             \/ FinishRecovery(s, p)
      PROVE  /\ UNCHANGED <<joined, excluded>>
             /\ \A t \in Shards : Safe(copy'[t], Staying, joined)
  <2>1. UNCHANGED <<joined, excluded>>
    BY <1>3 DEF StartFromDisk, RecoverStale, AllocateReplica, FinishRecovery, settingsVars
  <2>2. /\ copy[s][p] \in {"disk", "stale", "none", "recovering"} /\ p \in joined
        /\ \E state \in {"started", "recovering", "none"} : SetCopy(s, p, state)
    BY <1>3 DEF StartFromDisk, RecoverStale, AllocateReplica, FinishRecovery, DataSafe, Safe
  <2>3. PICK state \in {"started", "recovering", "none"} :
          copy' = [copy EXCEPT ![s] = [copy[s] EXCEPT ![p] = state]]
    BY <1>1, <2>2 DEF SetCopy
  <2>4. Safe([copy[s] EXCEPT ![p] = state], Staying, joined)
    BY <1>1, <2>2, SafeSet DEF DataSafe
  <2> QED
    BY <1>1, <2>1, <2>3, <2>4 DEF DataSafe
<1>4. ASSUME NEW s \in Shards, NEW p \in Pods, NEW q \in Pods, StartRelocation(s, p, q)
      PROVE  /\ UNCHANGED <<joined, excluded>>
             /\ \A t \in Shards : Safe(copy'[t], Staying, joined)
  <2>1. /\ UNCHANGED <<joined, excluded>> /\ p \in joined /\ q \in joined \ excluded
        /\ copy[s][p] = "started" /\ copy[s][q] = "none"
        /\ copy' = [copy EXCEPT ![s] = [copy[s] EXCEPT ![p] = "relocating", ![q] = "target"]]
    BY <1>1, <1>4 DEF StartRelocation, settingsVars
  <2>2. q \in Staying
    BY <2>1 DEF JoinedExist, OthersExcluded
  <2>3. Safe([copy[s] EXCEPT ![p] = "relocating", ![q] = "target"], Staying, joined)
    BY <1>1, <2>1, <2>2, SafeMove DEF DataSafe
  <2> QED
    BY <1>1, <2>1, <2>3 DEF DataSafe
<1>5. ASSUME NEW s \in Shards, NEW p \in Pods, NEW q \in Pods, FinishRelocation(s, p, q)
      PROVE  /\ UNCHANGED <<joined, excluded>>
             /\ \A t \in Shards : Safe(copy'[t], Staying, joined)
  <2>1. /\ UNCHANGED <<joined, excluded>>
        /\ copy[s][p] = "relocating" /\ copy[s][q] = "target"
        /\ copy' = [copy EXCEPT ![s] = [copy[s] EXCEPT ![p] = "none", ![q] = "started"]]
    BY <1>1, <1>5 DEF FinishRelocation, settingsVars
  <2>2. Safe([copy[s] EXCEPT ![p] = "none", ![q] = "started"], Staying, joined)
    BY <1>1, <2>1, SafeMoved DEF DataSafe
  <2> QED
    BY <1>1, <2>1, <2>2 DEF DataSafe
<1>6. CASE \E p \in Pods : JoinCluster(p)
  <2>1. UNCHANGED <<copy, excluded>> /\ joined \subseteq joined'
    BY <1>2, <1>6
  <2> QED
    BY <2>1, SafeMore DEF DataSafe
<1> QED
  BY <1>3, <1>4, <1>5, <1>6 DEF Cluster

\* The other steps that concern copies and exclusions: a Pod stops, its node leaves.
LEMMA AroundKinds ==
  ASSUME TypeOK, MaxCrashes = 0,
         \/ Surroundings \/ Watches \/ Observer
         \/ \E spec \in Specs : ChangeSpec(spec)
         \/ UNCHANGED vars
  PROVE  \/ UNCHANGED <<copy, joined, excluded>>
         \/ \E p \in Pods : NodeStops(p)
         \/ Cluster
<1>1. CASE Surroundings
  <2>1. CASE StatefulSetController
    BY <2>1 DEF StatefulSetController, elasticsearchVars
  <2>2. CASE Kubelet
    <3>1. ASSUME NEW p \in Pods, NodeCrashes(p) PROVE FALSE
      BY <3>1 DEF NodeCrashes, TypeOK, ElasticsearchTypeOK
    <3>2. ASSUME NEW p \in Pods, (StartPod(p) \/ ReadyPod(p)) /\ UNCHANGED elasticsearchVars
          PROVE  UNCHANGED <<copy, joined, excluded>>
      BY <3>2 DEF elasticsearchVars
    <3> QED
      BY <2>2, <3>1, <3>2 DEF Kubelet
  <2> QED
    BY <1>1, <2>1, <2>2 DEF Surroundings
<1>2. CASE \/ Watches \/ Observer
           \/ \E spec \in Specs : ChangeSpec(spec)
           \/ UNCHANGED vars
  BY <1>2 DEF Watches, SyncEs, SyncStatefulSetCache, SyncPodCache, Observer, Observe,
     StoreObservation, ChangeSpec, vars, elasticsearchVars
<1> QED
  BY <1>1, <1>2

\* A node whose Pod stops does not stay; a master is left, with the settings.
LEMMA SafeStop ==
  ASSUME TypeOK, GoInv, Descending, TemplatesStay, Uniform, Whole, DataSafe,
         NEW p \in Pods, NodeStops(p)
  PROVE  /\ joined' = joined \ {p} /\ excluded' = excluded
         /\ \A s \in Shards : Safe(copy'[s], Staying, joined')
<1>1. /\ joined \subseteq Pods /\ Staying \subseteq Pods
      /\ copy \in [Shards -> [Pods -> CopyStates]]
  BY DEF TypeOK, ElasticsearchTypeOK, Staying
<1>2. pod[p].terminating /\ Leave(p)
  BY DEF NodeStops, RemovePod
<1>3. ~Wanted(p) /\ p \notin Staying
  BY <1>2 DEF Whole, Staying
<1>4. \E q \in joined \ {p} : IsMaster(q)
  BY <1>3, MasterStays
<1>5. joined' = joined \ {p} /\ excluded' = excluded
  BY <1>2, <1>4 DEF Leave
<1>6. copy' = IF p \in joined THEN [s \in Shards |-> CopiesWithout(s, p)] ELSE copy
  BY <1>2 DEF Leave
<1>7. ASSUME NEW s \in Shards PROVE Safe(copy'[s], Staying, joined')
  <2>1. CASE p \in joined
    <3>1. copy'[s] = CopiesWithout(s, p)
      BY <1>6, <2>1
    <3>2. Safe(CopiesWithout(s, p), Staying, joined \ {p})
      BY <1>1, <1>3, SafeLeave DEF DataSafe
    <3> QED
      BY <1>5, <3>1, <3>2
  <2>2. CASE p \notin joined
    <3>1. copy' = copy /\ joined' = joined
      BY <1>5, <1>6, <2>2
    <3> QED
      BY <3>1 DEF DataSafe
  <2> QED
    BY <2>1, <2>2
<1> QED
  BY <1>5, <1>7

\* What happens around the worker keeps the data safe.
LEMMA DataAround ==
  ASSUME TypeOK, TypeOK', MaxCrashes = 0, GoInv, Descending, TemplatesStay, Uniform, DataInv,
         \/ Surroundings \/ Watches \/ Observer
         \/ \E spec \in Specs : ChangeSpec(spec)
         \/ UNCHANGED vars
  PROVE  DataInv'
<1>1. /\ UNCHANGED <<pc, pass, down>>
      /\ \A p \in Pods : PodMove(p) /\ (Wanted(p)' <=> Wanted(p))
  BY AroundSteps, AroundMoves
<1>2. JoinedExist'
  BY AroundJoined DEF DataInv
<1>3. Staying' = Staying /\ LeavingNodes' = LeavingNodes
  <2>1. \A d : PlannedNodes(d)' = PlannedNodes(d)
    BY <1>1 DEF PlannedNodes
  <2>2. RemovedNodes' = RemovedNodes /\ LeavingNodes' = LeavingNodes
    BY <1>1, <2>1 DEF RemovedNodes, LeavingNodes, PlannedNodes
  <2> QED
    BY <1>1, <2>2 DEF Staying
<1>4. excluded' = excluded /\ \A s \in Shards : Safe(copy'[s], Staying, joined')
  <2>1. CASE UNCHANGED <<copy, joined, excluded>>
    BY <2>1 DEF DataInv, DataSafe
  <2>2. CASE \E p \in Pods : NodeStops(p)
    BY <2>2, SafeStop DEF DataInv
  <2>3. CASE Cluster
    BY <2>3, SafeCluster DEF DataInv
  <2> QED
    BY <2>1, <2>2, <2>3, AroundKinds
<1>5. Whole'
  <2> SUFFICES ASSUME NEW p \in Pods, Wanted(p)'
               PROVE  pod'[p].exists /\ ~pod'[p].terminating /\ p \in joined'
    BY DEF Whole
  <2>1. Wanted(p) /\ pod[p].exists /\ ~pod[p].terminating /\ p \in joined
    BY <1>1 DEF DataInv, Whole
  <2>2. crashes' \in 0 .. MaxCrashes
    BY DEF TypeOK, ElasticsearchTypeOK
  <2>3. p \in joined'
    BY <2>1, <2>2, AroundCluster
  <2> QED
    BY <1>1, <2>1, <2>3 DEF PodMove
<1>6. OthersExcluded'
  <2> SUFFICES ASSUME NEW p \in Pods, pod'[p].exists PROVE p \in Staying \/ p \in excluded
    BY <1>3, <1>4 DEF OthersExcluded
  <2>1. pod[p].exists
    BY <1>1 DEF PodMove, DataInv, Whole
  <2> QED
    BY <2>1 DEF DataInv, OthersExcluded
<1> QED
  BY <1>1, <1>2, <1>3, <1>4, <1>5, <1>6 DEF DataInv, DataSafe, PlanExcluded

-----------------------------------------------------------------------------
(***************************************************************************)
(* The worker.                                                             *)
(***************************************************************************)
\* It moves no copy, and only the downscale excludes nodes from allocation.
LEMMA WorkerCopies ==
  ASSUME Worker
  PROVE  copy' = copy /\ (excluded' = excluded \/ MigrateData)
<1>1. CASE \/ StartReconcile \/ ReconcileClusterUUID \/ RetrieveActualStatefulSets
           \/ AwaitExpectations \/ AdjustResources \/ \E s \in NodeSets : ApplyResource(s)
  BY <1>1 DEF StartReconcile, ReconcileClusterUUID, RetrieveActualStatefulSets,
     AwaitExpectations, AdjustResources, ApplyResource, elasticsearchVars
<1>2. CASE \/ StartDownscale \/ \E s \in NodeSets : CalculateDownscale(s)
           \/ \E target \in 0 .. MaxReplicas : AttemptDownscale(target)
           \/ RemoveStatefulSet \/ UpdateReplicas \/ FinishDownscale
  BY <1>2 DEF StartDownscale, CalculateDownscale, AttemptDownscale, RemoveStatefulSet,
     UpdateReplicas, FinishDownscale, elasticsearchVars
<1>3. CASE \/ HandleRollingUpgrades \/ NoPodSelected \/ FinishNodeSpecs \/ UpdateStatus
           \/ \E p \in Pods : ApplyPredicates(p) \/ Delete(p) \/ ForceDelete(p)
           \/ RecoverFromPanic
  BY <1>3 DEF HandleRollingUpgrades, NoPodSelected, FinishNodeSpecs, UpdateStatus,
     ApplyPredicates, Delete, ForceDelete, RecoverFromPanic, Restart, elasticsearchVars
<1>4. CASE UpdateMinimumMasterNodes \/ ClearVotingConfigExclusions \/ MigrateData
           \/ DownscaleZen1 \/ DownscaleZen2
  BY <1>4 DEF UpdateMinimumMasterNodes, ClearVotingConfigExclusions, MigrateData,
     DownscaleZen1, DownscaleZen2, MaybeUpdateZen1, AddToVotingConfigExclusions
<1>5. CASE PrepareClusterForNodeRestart \/ MaybeEnableShardsAllocation
           \/ \E p \in Pods : RollZen1(p) \/ RollZen2(p)
  BY <1>5 DEF PrepareClusterForNodeRestart, MaybeEnableShardsAllocation, RollZen1, RollZen2,
     MaybeUpdateZen1, AddToVotingConfigExclusions, elasticsearchVars
<1> QED
  BY <1>1, <1>2, <1>3, <1>4, <1>5 DEF Worker

\* When a downscale excludes its nodes, every other Pod is wanted, and the list it
\* excludes is the one it keeps.
LEMMA DataMigrate ==
  ASSUME ReadyInv, GoInv, PodsInv, FaultKinds \subseteq {"error"}, DataInv, MigrateData
  PROVE  OthersExcluded' /\ PlanExcluded'
<1>1. TypeOK /\ DownscaleInProgress /\ PlanSound
  BY DEF ReadyInv, TypeInv
<1>2. /\ pc = "calculate" /\ pc' \in {"attempt", "status"} /\ UNCHANGED <<pod, sset>>
      /\ pc' = "attempt" => excluded' = LeavingNodes /\ pass' = pass
      /\ down'.nodes = LeavingNodes /\ down'.plan = down.plan
  BY <1>1 DEF MigrateData, kubernetesVars, TypeOK, DriverTypeOK, Downscaling
<1>3. ASSUME NEW p \in Pods, pod[p].exists PROVE Wanted(p)
  <2>1. p[1] \in NodeSets /\ PodNamed(p) /\ Current(pass.actual[p[1]], sset[p[1]])
    BY <1>2 DEF GoInv, EarlyCurrent, PodsInv, PodsNamed, Scaling, Early, Pods
  <2>2. sset[p[1]].exists => pass.actual[p[1]].exists
    BY <1>2, <2>1 DEF GoInv, Shrinking, PhaseLocations, Locations
  <2> QED
    BY <1>1, <1>3, <2>1, <2>2, WantedNamed DEF PodNamed
<1>4. OthersExcluded'
  BY <1>2, <1>3 DEF OthersExcluded, Staying, Removing, Wanted
<1>5. pc' = "attempt" => LeavingNodes' = LeavingNodes
  BY <1>2 DEF LeavingNodes, PlannedNodes
<1> QED
  BY <1>2, <1>4, <1>5 DEF PlanExcluded, Removing

\* The nodes down to the target that a downscale may perform migrate no data.
LEMMA PerformableQuiet ==
  ASSUME TypeOK, NEW d \in Plans, NEW q \in PlannedNodes(d), q[2] >= PerformableTarget(d)
  PROVE  ~IsMigratingData(q, down.nodes)
<1> SUFFICES ASSUME IsMigratingData(q, down.nodes) PROVE FALSE
  OBVIOUS
<1> DEFINE blocked == {p \in PlannedNodes(d) : IsMigratingData(p, down.nodes)}
           tops == {p[2] + 1 : p \in blocked}
           gaps == {MaxReplicas - m : m \in tops}
<1>1. d.target \in Nat /\ MaxReplicas \in Nat
  BY MaxReplicasAssumption DEF Plans
<1>2. \A p \in blocked : p[2] \in Ordinals
  BY DEF PlannedNodes, Pods
<1>3. \A m \in tops : m \in Nat /\ m <= MaxReplicas
  BY <1>1, <1>2 DEF Ordinals
<1>4. PerformableTarget(d) = IF blocked = {} THEN d.target
                             ELSE CHOOSE k \in tops : \A p \in blocked : p[2] + 1 <= k
  BY Zenon DEF PerformableTarget
<1>5. q \in blocked /\ q[2] + 1 \in tops /\ q[2] \in Nat
  BY DEF PlannedNodes, Pods, Ordinals
<1> HIDE DEF blocked
<1>6. gaps \subseteq Nat /\ gaps # {}
  <2>1. MaxReplicas - (q[2] + 1) \in gaps
    BY <1>5
  <2> HIDE DEF tops
  <2>2. gaps \subseteq Nat
    BY <1>1, <1>3
  <2> QED
    BY <2>1, <2>2
<1>7. \E g \in gaps : \A h \in gaps : g <= h
  BY <1>6, LeastExists
<1>8. PICK m \in tops : \A h \in gaps : MaxReplicas - m <= h
  BY <1>7
<1>9. \A k \in tops : k <= m
  <2> SUFFICES ASSUME NEW k \in tops PROVE k <= m
    OBVIOUS
  <2>1. MaxReplicas - k \in gaps
    OBVIOUS
  <2>2. MaxReplicas - m <= MaxReplicas - k
    BY <1>8, <2>1
  <2> HIDE DEF tops, gaps
  <2>3. k \in Nat /\ m \in Nat
    BY <1>3
  <2> QED
    BY <1>1, <2>2, <2>3
<1>10. \A p \in blocked : p[2] + 1 <= m
  BY <1>9
<1>11. PerformableTarget(d) = CHOOSE k \in tops : \A p \in blocked : p[2] + 1 <= k
  BY <1>4, <1>5
<1> HIDE DEF tops
<1>12. PerformableTarget(d) \in tops /\ \A p \in blocked : p[2] + 1 <= PerformableTarget(d)
  BY <1>8, <1>10, <1>11
<1> QED
  BY <1>3, <1>5, <1>12

\* A downscale that is decided removes nodes of the plan; another node that stays has an
\* active copy of every shard, and nothing moves to them.
LEMMA DataAttempt ==
  ASSUME TypeOK, GoInv, DataInv, Decision, pc = "attempt", pc' \in Removing, down.plan # <<>>,
         down' = [down EXCEPT !.target = PerformableTarget(Head(down.plan))],
         PerformableTarget(Head(down.plan)) \in 0 .. MaxReplicas,
         UNCHANGED <<pod, sset, joined, copy, excluded>>, pass'.actual = pass.actual
  PROVE  DataSafe' /\ OthersExcluded' /\ PlanExcluded'
<1> DEFINE d == Head(down.plan)
<1>1. /\ d \in Plans /\ 1 \in DOMAIN down.plan /\ d = down.plan[1]
  BY PlanParts, PlanTypes DEF TypeOK, DriverTypeOK, Downscaling
<1>2. /\ down'.plan = down.plan /\ down'.nodes = down.nodes
      /\ down'.target = PerformableTarget(d)
  BY DEF TypeOK, DriverTypeOK, Downscaling
<1>3. LeavingNodes' = LeavingNodes /\ excluded = down.nodes /\ LeavingNodes \subseteq down.nodes
  BY <1>2 DEF LeavingNodes, PlannedNodes, DataInv, PlanExcluded
<1>4. PerformableTarget(d) >= d.target /\ d.target \in Nat
  BY <1>1, PerformableAbove DEF Plans
<1> DEFINE removed == PlannedNodes([set |-> d.set, target |-> PerformableTarget(d)])
<1>5. RemovedNodes' = removed
  BY <1>2 DEF RemovedNodes, PlannedNodes
<1>6. ASSUME NEW p \in removed
      PROVE  p \in PlannedNodes(d) /\ p[2] >= PerformableTarget(d)
  BY <1>4 DEF PlannedNodes, Pods, Ordinals
<1>7. removed \subseteq LeavingNodes
  BY <1>1, <1>6 DEF LeavingNodes
<1>8. \A p \in removed : ~IsMigratingData(p, down.nodes)
  BY <1>1, <1>6, PerformableQuiet
<1> HIDE DEF removed, d
<1>9. \A p \in Pods : /\ p \in Staying <=> Wanted(p)
                      /\ p \in Staying' <=> Wanted(p) /\ p \notin removed
  BY <1>5 DEF Staying, Removing, Wanted
<1>10. ASSUME NEW s \in Shards PROVE Safe(copy[s], Staying', joined)
  <2>1. Safe(copy[s], Staying, joined)
    BY DEF DataInv, DataSafe
  <2>2. PICK r \in Pods : Wanted(r) /\ copy[s][r] \in {"started", "relocating"}
    BY <2>1 DEF Safe, Staying
  <2>3. \E p \in Staying' : copy[s][p] \in {"started", "relocating"}
    <3>1. CASE r \notin removed
      BY <1>9, <2>2, <3>1
    <3>2. CASE r \in removed
      <4>1. PICK q \in Pods : q \notin down.nodes /\ copy[s][q] = "started"
        BY <1>8, <2>2, <3>2 DEF IsMigratingData
      <4>2. q \in joined /\ q \in Staying
        BY <1>3, <2>1, <4>1 DEF Safe, DataInv, JoinedExist, OthersExcluded
      <4>3. q \in Staying'
        BY <1>3, <1>7, <1>9, <4>1, <4>2
      <4> QED
        BY <4>1, <4>3
    <3> QED
      BY <3>1, <3>2
  <2>4. \A p \in Pods : copy[s][p] = "target" => p \in Staying'
    BY <1>8, <1>9, <2>1 DEF Safe, IsMigratingData
  <2> QED
    BY <2>1, <2>3, <2>4 DEF Safe
<1>11. OthersExcluded'
  BY <1>3, <1>7, <1>9 DEF OthersExcluded, DataInv
<1> QED
  BY <1>2, <1>3, <1>10, <1>11 DEF DataSafe, PlanExcluded

\* A step of the worker that keeps the Pods that stay, and the exclusions.
LEMMA DataQuiet ==
  ASSUME DataInv, UNCHANGED <<pod, joined, copy, excluded>>, Staying \subseteq Staying',
         pc' \in {"attempt"} \cup Removing =>
           /\ pc \in {"attempt"} \cup Removing
           /\ down'.nodes = down.nodes /\ LeavingNodes' \subseteq LeavingNodes
  PROVE  DataSafe' /\ OthersExcluded' /\ PlanExcluded'
<1>1. DataSafe'
  BY SafeMore DEF DataInv, DataSafe
<1> QED
  BY <1>1 DEF DataInv, OthersExcluded, PlanExcluded

\* The decisions of a downscale.
LEMMA DataDecision ==
  ASSUME FaultKinds \subseteq {"error"}, ReadyInv, GoInv, PodsInv, DataInv, Decision,
         UNCHANGED <<pod, joined, copy>>, excluded' = excluded \/ MigrateData
  PROVE  DataSafe' /\ OthersExcluded' /\ PlanExcluded'
<1>1. TypeOK /\ DownscaleInProgress /\ PlanSound
  BY DEF ReadyInv, TypeInv
<1>2. UNCHANGED sset /\ pass'.actual = pass.actual /\ pc' \in Scaling \cup {"rolling", "status"}
  BY <1>1, DecisionSteps DEF Still, SamePass
<1>3. pc' \notin Removing => Staying \subseteq Staying'
  BY <1>2 DEF Staying, Wanted
<1>4. CASE MigrateData
  <2>1. pc' \notin Removing
    BY <1>4 DEF MigrateData, Removing
  <2>2. DataSafe'
    BY <1>3, <2>1, SafeMore DEF DataInv, DataSafe
  <2> QED
    BY <1>4, <2>2, DataMigrate
<1>5. CASE ~MigrateData /\ pc' \notin {"attempt"} \cup Removing
  BY <1>3, <1>5, DataQuiet
<1>6. CASE ~MigrateData /\ pc' \in {"attempt"} \cup Removing
  <2>1. ~ (pc = "calculate" /\ pc' = "attempt")
    BY <1>6 DEF Decision, AdjustResources, UpdateMinimumMasterNodes, StartDownscale,
       ClearVotingConfigExclusions, CalculateDownscale, AttemptDownscale, DownscaleZen1,
       DownscaleZen2, FinishDownscale
  <2>2. pc' \in PlanLocations
    BY <1>6 DEF PlanLocations, Removing
  <2>3. CASE pc = "attempt" /\ pc' = "attempt" /\ down.plan # <<>> /\ down' = Advance
    <3>1. down'.nodes = down.nodes /\ down'.plan = Tail(down.plan)
      BY <1>1, <2>3 DEF Advance, TypeOK, DriverTypeOK, Downscaling
    <3>2. LeavingNodes' \subseteq LeavingNodes
      BY <1>1, <1>2, <2>3, <3>1, LeavingFewer
    <3> QED
      BY <1>3, <1>6, <2>3, <3>1, <3>2, DataQuiet DEF Removing
  <2>4. CASE /\ pc = "attempt" /\ down.plan # <<>> /\ pc' \in Removing
             /\ down' = [down EXCEPT !.target = PerformableTarget(Head(down.plan))]
             /\ PerformableTarget(Head(down.plan)) \in 0 .. MaxReplicas
    BY <1>1, <1>2, <1>6, <2>4, DataAttempt
  <2>5. CASE pc \in Removing /\ pc' \in Removing /\ down' = down
    <3>1. RemovedNodes' = RemovedNodes /\ LeavingNodes' = LeavingNodes
      BY <1>2, <2>5 DEF RemovedNodes, LeavingNodes, PlannedNodes
    <3>2. Staying \subseteq Staying'
      BY <1>2, <2>5, <3>1 DEF Staying, Wanted
    <3> QED
      BY <1>6, <2>5, <3>1, <3>2, DataQuiet
  <2> QED
    BY <1>1, <1>6, <2>1, <2>2, <2>3, <2>4, <2>5, PlanSteps DEF Removing
<1> QED
  BY <1>4, <1>5, <1>6

\* A write of the downscale takes the nodes that were about to go.
LEMMA DataWrite ==
  ASSUME ReadyInv, GoInv, PodsInv, DataInv, UpdateReplicas \/ RemoveStatefulSet,
         UNCHANGED <<pod, joined, copy, excluded>>
  PROVE  DataSafe' /\ OthersExcluded' /\ PlanExcluded'
<1>1. TypeOK /\ DownscaleInProgress /\ PlanSound
  BY DEF ReadyInv, TypeInv
<1>2. /\ down.plan # <<>> /\ pc' \in {"attempt", "status"} /\ pass'.actual = pass.actual
      /\ down' = Advance /\ down'.plan = Tail(down.plan)
      /\ pc \in {"attempt", "dsUpdate"} /\ (UpdateReplicas => pc = "dsUpdate")
  BY <1>1, WriteSteps DEF SamePass
<1>3. down'.nodes = down.nodes
  BY <1>2 DEF Advance, TypeOK, DriverTypeOK, Downscaling
<1>4. LeavingNodes' \subseteq LeavingNodes
  BY <1>1, <1>2, LeavingFewer
<1>5. Staying \subseteq Staying'
  <2> SUFFICES ASSUME NEW p \in Staying PROVE Wanted(p)'
    BY <1>2 DEF Staying, Removing
  <2>1. p \in Pods /\ Wanted(p)
    BY DEF Staying
  <2>2. ~Wanted(p)' => UpdateReplicas /\ p \in RemovedNodes
    BY <1>1, <2>1, WritePod
  <2> QED
    BY <1>2, <2>2 DEF Staying, Removing
<1> QED
  BY <1>2, <1>3, <1>4, <1>5, DataQuiet DEF Removing

\* Every step of the worker.
LEMMA DataWorker ==
  ASSUME FaultKinds \subseteq {"error"}, ReadyInv, GoInv, PodsInv, Descending, NoUpgrade,
         DataInv, Worker
  PROVE  DataInv'
<1>1. /\ TypeOK /\ DownscaleInProgress /\ PlanSound /\ CacheCurrent
  BY DEF ReadyInv, TypeInv
<1>2. ~Removal
  BY DEF Removal, Delete, ForceDelete, NoUpgrade, Deleting
<1>3. UNCHANGED <<pod, joined, copy>> /\ (excluded' = excluded \/ MigrateData)
  BY <1>2, QuietWorker, WorkerCopies
<1>4. Whole' /\ JoinedExist'
  <2>1. \A p \in Pods : Wanted(p)' => Wanted(p)
    BY WantedFewer
  <2> QED
    BY <1>3, <2>1 DEF DataInv, Whole, JoinedExist
<1>5. CASE Decision
  BY <1>3, <1>4, <1>5, DataDecision DEF DataInv
<1>6. CASE UpdateReplicas \/ RemoveStatefulSet
  <2>1. excluded' = excluded
    BY <1>6 DEF UpdateReplicas, RemoveStatefulSet, elasticsearchVars
  <2> QED
    BY <1>3, <1>4, <1>6, <2>1, DataWrite DEF DataInv
<1>7. ASSUME excluded' = excluded, pc' \notin {"attempt"} \cup Removing,
             WantedPods \subseteq WantedPods'
      PROVE  DataInv'
  <2>1. Staying \subseteq Staying'
    BY <1>7 DEF Staying, WantedPods
  <2> QED
    BY <1>3, <1>4, <1>7, <2>1, DataQuiet DEF DataInv
<1>8. ASSUME NEW s \in NodeSets, ApplyResource(s) PROVE DataInv'
  <2>1. pc' \notin {"attempt"} \cup Removing /\ pc = "apply"
    BY <1>1, <1>8, ApplySteps DEF GoInv, Removing
  <2>2. WantedPods \subseteq WantedPods'
    BY <2>1, UpscaleGrows DEF Next
  <2>3. excluded' = excluded
    BY <1>8 DEF ApplyResource, elasticsearchVars
  <2> QED
    BY <1>7, <2>1, <2>2, <2>3
<1>9. CASE \/ StartReconcile \/ ReconcileClusterUUID \/ RetrieveActualStatefulSets
           \/ UpdateStatus \/ AwaitExpectations \/ Rollout
  <2>1. UNCHANGED sset
    BY <1>1, <1>9, OutsideSteps, RolloutSteps DEF Still, AwaitExpectations, kubernetesVars
  <2>2. pc' \notin {"attempt"} \cup Removing
    <3>1. CASE Rollout
      BY <1>1, <3>1, RolloutSteps DEF Removing, Scaling, Early, Locations, PhaseLocations
    <3>2. CASE ~Rollout
      BY <1>9, <3>2 DEF StartReconcile, ReconcileClusterUUID, RetrieveActualStatefulSets,
         UpdateStatus, AwaitExpectations, Removing
    <3> QED
      BY <3>1, <3>2
  <2>3. ~MigrateData
    <3>1. CASE Rollout
      BY <1>1, <3>1, RolloutSteps DEF MigrateData, Scaling, Early
    <3>2. CASE ~Rollout
      BY <1>9, <3>2 DEF StartReconcile, ReconcileClusterUUID, RetrieveActualStatefulSets,
         UpdateStatus, AwaitExpectations, MigrateData
    <3> QED
      BY <3>1, <3>2
  <2>4. WantedPods \subseteq WantedPods'
    BY <2>1 DEF WantedPods, Wanted
  <2> QED
    BY <1>3, <1>7, <2>2, <2>3, <2>4
<1>10. ~RecoverFromPanic
  BY DEF RecoverFromPanic, NoUpgrade
<1> QED
  BY <1>2, <1>5, <1>6, <1>8, <1>9, <1>10, WorkerSteps

\* Every step keeps the data safe.
LEMMA DataStep ==
  ASSUME FaultKinds \subseteq {"error"}, MaxCrashes = 0, TemplatesStay, ReadyInv, ReadyInv',
         GoInv, PodsInv, Descending, Uniform, NoUpgrade, DataInv, [Next]_vars
  PROVE  DataInv'
<1>1. TypeOK /\ TypeOK' /\ ~OperatorRestarts
  BY DEF ReadyInv, TypeInv, OperatorRestarts
<1>2. CASE Worker
  BY <1>2, DataWorker
<1>3. CASE \/ Surroundings \/ Watches \/ Observer
           \/ \E spec \in Specs : ChangeSpec(spec)
           \/ UNCHANGED vars
  BY <1>1, <1>3, DataAround
<1> QED
  BY <1>1, <1>2, <1>3 DEF Next

\* A running cluster has its Pods and its data.
LEMMA DataInit ==
  ASSUME Bootstrapped, Init
  PROVE  DataInv
<1>1. /\ InitRunning /\ pc = "idle"
  BY Zenon DEF Init
<1>2. ASSUME NEW p \in Pods
      PROVE  /\ Wanted(p) <=> p \in InitialPods
             /\ pod[p].exists <=> p \in InitialPods
             /\ ~pod[p].terminating
  <2>1. /\ sset[p[1]] = IF p[1] \in InitialSpec.sets
                     THEN [NewStatefulSet(0, InitialSpec.count[p[1]], InitialSpec.tmpl[p[1]])
                             EXCEPT !.upd = InitialSpec.tmpl[p[1]]]
                     ELSE NoStatefulSet(0)
        /\ pod[p] = IF p \in InitialPods
                 THEN [NewPod(0, InitialSpec.tmpl[p[1]]) EXCEPT
                         !.phase = "Ready",
                         !.boot = IF p \in InitialMasters /\ MajorOf(InitialSpec) >= 7
                                    THEN InitialMasters ELSE {}]
                 ELSE NoPod(0)
    BY <1>1, Zenon DEF InitRunning, Pods
  <2>2. \A n, u, v : /\ [NewStatefulSet(0, n, u) EXCEPT !.upd = v].exists
                     /\ [NewStatefulSet(0, n, u) EXCEPT !.upd = v].replicas = n
    BY DEF NewStatefulSet
  <2>3. \A u, v : /\ [NewPod(0, u) EXCEPT !.phase = "Ready", !.boot = v].exists
                  /\ ~[NewPod(0, u) EXCEPT !.phase = "Ready", !.boot = v].terminating
    BY DEF NewPod
  <2>4. ~NoPod(0).exists /\ ~NoPod(0).terminating /\ ~NoStatefulSet(0).exists
    BY DEF NoPod, NoStatefulSet
  <2>5. pod[p].exists <=> p \in InitialPods
    BY <2>1, <2>3, <2>4
  <2>6. ~pod[p].terminating
    BY <2>1, <2>3, <2>4
  <2>7. Wanted(p) <=> p[1] \in InitialSpec.sets /\ p[2] < InitialSpec.count[p[1]]
    BY <2>1, <2>2, <2>4 DEF Wanted
  <2> QED
    BY <2>5, <2>6, <2>7 DEF InitialPods
<1>3. joined = InitialPods /\ InitialPods \subseteq Pods
  BY <1>1, Zenon DEF InitRunning, InitialPods
<1>4. Staying = InitialPods
  BY <1>1, <1>2, <1>3 DEF Staying, Removing
<1>5. ASSUME NEW s \in Shards PROVE Safe(copy[s], InitialPods, InitialPods)
  <2>1. PICK S \in SUBSET InitialPods :
          /\ Cardinality(S) = Copies
          /\ copy[s] = [p \in Pods |-> IF p \in S THEN "started" ELSE "none"]
    <3>1. copy \in [Shards ->
                    {[p \in Pods |-> IF p \in S THEN "started" ELSE "none"] :
                       S \in {S \in SUBSET {p \in InitialPods : InitialSpec.tmpl[p[1]].data} :
                                Cardinality(S) = Copies}}]
      BY <1>1, Zenon DEF InitRunning
    <3> QED
      BY <3>1
  <2>2. S # {}
    BY <2>1, CopiesAssumption, FS_EmptySet
  <2> QED
    BY <1>3, <2>1, <2>2 DEF Safe
<1> QED
  BY <1>1, <1>2, <1>3, <1>4, <1>5 DEF DataInv, Whole, JoinedExist, DataSafe, OthersExcluded,
     PlanExcluded, Removing

-----------------------------------------------------------------------------
\* What a running cluster keeps while nodeSets only shrink and templates stay.
KeepInv == RollInv /\ Uniform /\ NoUpgrade /\ DataInv

LEMMA KeepInit == Bootstrapped /\ Init => KeepInv
BY RollInit, UniformInit, DataInit DEF KeepInv

LEMMA KeepStep ==
  FaultKinds \subseteq {"error"} /\ MaxCrashes = 0 /\ TemplatesStay /\ KeepInv
    /\ [Next]_vars /\ [NoneGrows]_es => KeepInv'
<1> SUFFICES ASSUME FaultKinds \subseteq {"error"}, MaxCrashes = 0, TemplatesStay, KeepInv,
                    [Next]_vars, [NoneGrows]_es
             PROVE  KeepInv'
  OBVIOUS
<1>1. RollInv'
  BY RollStep DEF KeepInv
<1>2. Uniform' /\ NoUpgrade'
  BY UniformStep DEF KeepInv, RollInv
<1>3. DataInv'
  BY <1>1, DataStep DEF KeepInv, RollInv
<1> QED
  BY <1>1, <1>2, <1>3 DEF KeepInv

\* Shards are never lost to a downscale (driver/downscale.go, migration/migrate_data.go):
\* from a running cluster, while the user removes nodeSets and nodes and changes no
\* template, failed calls are the only faults and no container crashes, every shard has
\* an active copy in the cluster, however the nodes that leave and the copies that move
\* interleave with the passes of the operator.
THEOREM DownscaleKeepsData ==
  Bootstrapped /\ FaultKinds \subseteq {"error"} /\ MaxCrashes = 0 /\ TemplatesStay
    => (Spec /\ NodeSetsOnlyShrink => []NoDataLoss)
<1> SUFFICES ASSUME Bootstrapped, FaultKinds \subseteq {"error"}, MaxCrashes = 0, TemplatesStay
             PROVE  Spec /\ NodeSetsOnlyShrink => []NoDataLoss
  OBVIOUS
<1>1. Init => KeepInv
  BY KeepInit
<1>2. KeepInv /\ [Next]_vars /\ [NoneGrows]_es => KeepInv'
  BY KeepStep
<1>3. KeepInv => NoDataLoss
  BY DEF KeepInv, DataInv, DataSafe, Safe, Staying, NoDataLoss, ActiveCopies
<1> QED
  BY <1>1, <1>2, <1>3, PTL DEF Spec, NodeSetsOnlyShrink

\* A Pod that a step of the downscale stops wanting has no last copy.
LEMMA NoLastCopy ==
  ASSUME KeepInv, [Next]_vars, pc = "dsUpdate", NEW p \in WantedPods \ WantedPods',
         NEW s \in Shards
  PROVE  ~LastCopyOn(s, p)
<1>1. /\ TypeOK /\ TypeInv /\ DownscaleInProgress /\ PlanSound /\ CacheCurrent /\ GoInv /\ PodsInv
  BY DEF KeepInv, RollInv, ReadyInv, TypeInv
<1>2. UpdateReplicas
  BY <1>1, OnlyUpdate
<1>3. p \in RemovedNodes
  BY <1>1, <1>2, WritePod DEF WantedPods
<1>4. PICK q \in Staying : copy[s][q] \in {"started", "relocating"}
  BY DEF KeepInv, DataInv, DataSafe, Safe
<1>5. q \in Pods \ {p}
  BY <1>3, <1>4 DEF Staying, Removing
<1> QED
  BY <1>4, <1>5 DEF LastCopyOn

\* A downscale waits for the data (nodeIsMigratingData, migration/migrate_data.go): under
\* the same hypotheses, no node is removed while it has the last copy of a shard, even
\* when the nodes of several nodeSets leave in one pass.
THEOREM RemovalWaitsForData ==
  Bootstrapped /\ FaultKinds \subseteq {"error"} /\ MaxCrashes = 0 /\ TemplatesStay
    => (Spec /\ NodeSetsOnlyShrink => RemovedAfterMigration)
<1> SUFFICES ASSUME Bootstrapped, FaultKinds \subseteq {"error"}, MaxCrashes = 0, TemplatesStay
             PROVE  Spec /\ NodeSetsOnlyShrink => RemovedAfterMigration
  OBVIOUS
<1>1. Init => KeepInv
  BY KeepInit
<1>2. KeepInv /\ [Next]_vars /\ [NoneGrows]_es => KeepInv'
  BY KeepStep
<1>3. KeepInv /\ [Next]_vars =>
        [pc = "dsUpdate" => \A p \in WantedPods \ WantedPods', s \in Shards :
           ~LastCopyOn(s, p)]_vars
  BY NoLastCopy
<1> QED
  BY <1>1, <1>2, <1>3, PTL DEF Spec, NodeSetsOnlyShrink, RemovedAfterMigration
=============================================================================
