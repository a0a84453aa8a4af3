------------------------------- MODULE Upscale -------------------------------
(***************************************************************************)
(* Phase 1 of a reconciliation (driver/upscale.go, upscale_state.go):      *)
(* adjust the replicas of every expected StatefulSet, then create or       *)
(* update them one by one, each after its configuration.                   *)
(***************************************************************************)
EXTENDS Driver

-----------------------------------------------------------------------------
(***************************************************************************)
(* adjustResources.  Every StatefulSet is adjusted with a copy of the      *)
(* upscale state, but all the copies share one sync.Once: the first        *)
(* upscale builds the state in its own copy and the others work on a       *)
(* state that was never built.                                             *)
(***************************************************************************)
Upscales == {s \in Desired.sets : pass.actual[s].replicas < Desired.count[s]}
Built(s) == s = LeastOf(Upscales)

IsMasterNodeJoining(p) == cPod[p].phase # "Ready" \/ p \notin KnownNodes
JoiningMasters == {p \in Masters : IsMasterNodeJoining(p)}
AsksForNodes ==
  Upscales # {} /\ pass.mine.uuid /\ \E p \in Masters : cPod[p].phase = "Ready"

RecordedCreates(s) ==
  IF Built(s) /\ pass.mine.uuid THEN Cardinality(JoiningMasters) ELSE 0

CreatesAllowed ==
  LET allowed == MaxSurge + DesiredNodeCount - ActualNodeCount
  IN IF allowed < 0 THEN 0 ELSE allowed

\* getMaxNodesToCreate
MaxNodesToCreate(s, n) ==
  LET left == CreatesAllowed - RecordedCreates(s)
  IN IF MaxSurge < 0 \/ n <= left THEN n ELSE left

\* Seeded defect: masters that are joining are not waited for.
ImpatientMastersToCreate(s, n) ==
  CASE ~Built(s) -> 0
    [] Built(s) /\ pass.mine.uuid -> MaxNodesToCreate(s, 1)
    [] Built(s) /\ ~pass.mine.uuid -> MaxNodesToCreate(s, n)

\* limitMasterNodesCreation: one at a time once the cluster is bootstrapped, and
\* none while one is joining.
MastersToCreate(s, n) ==
  CASE ~Built(s) -> 0
    [] Built(s) /\ pass.mine.uuid ->
         IF JoiningMasters = {} THEN MaxNodesToCreate(s, 1) ELSE 0
    [] Built(s) /\ ~pass.mine.uuid -> MaxNodesToCreate(s, n)

NodesToCreate(s) ==
  LET n == Desired.count[s] - pass.actual[s].replicas
      create == IF Desired.tmpl[s].master THEN MastersToCreate(s, n)
                                       ELSE MaxNodesToCreate(s, n)
  IN IF create > 0 THEN create ELSE 0

\* Seeded defect: the replicas of the specification are applied as they are.
UnadjustedReplicas(s) ==
  CASE s \notin Desired.sets -> 0
    [] s \in Upscales -> pass.actual[s].replicas + NodesToCreate(s)
    [] OTHER -> Desired.count[s]

\* adjustStatefulSetReplicas: a downscale is left to the downscale phase.
AdjustedReplicas(s) ==
  CASE s \notin Desired.sets -> 0
    [] s \in Upscales -> pass.actual[s].replicas + NodesToCreate(s)
    [] OTHER -> pass.actual[s].replicas

\* The nodes of the adjusted StatefulSets that are, or still run as, masters.
AdjustedMasters ==
  {p \in Pods : p[1] \in Desired.sets /\ Desired.tmpl[p[1]].master
                /\ p[2] < AdjustedReplicas(p[1])}
FormerMasters == {p \in Masters : p[1] \in Desired.sets /\ ~Desired.tmpl[p[1]].master}

\* Seeded defect: each nodeSet is given its own masters only.
OwnConfig(s) ==
  [mmn |-> 0, initial |-> IF pass.mine.uuid THEN {} ELSE {p \in AdjustedMasters : p[1] = s}]

\* adjustZenConfig: minimum_master_nodes while a zen1 node is left,
\* initial_master_nodes for zen2 masters until the cluster is bootstrapped.
AdjustedConfig(s) ==
  [mmn |-> IF DesiredMajor < 7 \/ \E p \in Masters : cPod[p].tmpl.major < 7
             THEN Quorum(Cardinality(AdjustedMasters) + Cardinality(FormerMasters))
             ELSE 0,
   initial |-> IF ~pass.mine.uuid /\ Desired.tmpl[s].master /\ DesiredMajor >= 7
                 THEN AdjustedMasters ELSE {}]

AdjustResources ==
  /\ pc = "adjust"
  /\ IF AsksForNodes /\ ~Formed
       THEN /\ pc' = "status"
            /\ pass' = Requeue(pass)
            /\ UNCHANGED up
       ELSE /\ pc' = "apply"
            /\ pass' = IF AsksForNodes THEN WithNodes(pass) ELSE pass
            /\ up' = [replicas |-> [s \in NodeSets |-> AdjustedReplicas(s)],
                      config |-> [s \in NodeSets |-> AdjustedConfig(s)],
                      todo |-> Desired.sets]
  /\ UNCHANGED <<resourceVars, faults, queued, down, roll, kubernetesVars,
                 elasticsearchVars, expectationsVars>>

-----------------------------------------------------------------------------
(***************************************************************************)
(* The loop of HandleUpscaleAndSpecChanges: ReconcileConfig, then          *)
(* ReconcileStatefulSet.  A StatefulSet the cache does not hold is         *)
(* created, one whose label differs from the expected one is updated       *)
(* whatever its resourceVersion; only an update is expected in the cache.  *)
(***************************************************************************)
Applied(s) ==
  IF sset[s].exists
    THEN WrittenStatefulSet(sset[s], up.replicas[s], Desired.tmpl[s], TRUE)
    ELSE NewStatefulSet(NextUid(sset[s].uid), up.replicas[s], Desired.tmpl[s])

NextAfterUpscale(todo) ==
  CASE todo # {} -> "apply"
    [] todo = {} /\ pass.reachable -> "zen1"
    [] OTHER -> "rolling"

\* Elasticsearch cannot be reached: the phases that need it are skipped.
SkipUnlessReachable(c, todo) ==
  IF todo = {} /\ ~pass.reachable
    THEN [c EXCEPT !.requeue = TRUE, !.phase = "ApplyingChanges"]
    ELSE c

ApplyResource(s) ==
  /\ pc = "apply"
  /\ s = LeastOf(up.todo)
  /\ LET todo == up.todo \ {s}
         upToDate == cSset[s].exists
                     /\ EqualTemplateHash(cSset[s], up.replicas[s], Desired.tmpl[s])
         refused == ~upToDate /\ cSset[s].exists # sset[s].exists
         Done(seen) == SkipUnlessReachable([pass EXCEPT !.actual[s] = seen], todo)
     IN \E o \in Outcomes :
          LET failed == refused \/ o # "ok"
              written == ~upToDate /\ ~refused /\ o # "error"
          IN /\ Account(o)
             /\ \E configured \in IF o = "error" THEN BOOLEAN ELSE {TRUE} :
                  config' = IF configured THEN [config EXCEPT ![s] = up.config[s]]
                                          ELSE config
             /\ sset' = IF written THEN [sset EXCEPT ![s] = Applied(s)] ELSE sset
             /\ IF written /\ o = "ok" /\ cSset[s].exists
                  THEN ExpectGeneration(s, Applied(s))
                  ELSE UNCHANGED generations
             /\ up' = IF todo = {} THEN NoUp ELSE [up EXCEPT !.todo = todo]
             /\ IF failed
                  THEN pc' = "status" /\ pass' = Requeue(pass)
                  ELSE /\ pc' = NextAfterUpscale(todo)
                       /\ pass' = Done(IF upToDate THEN cSset[s] ELSE Applied(s))
  /\ UNCHANGED <<pod, cSset, cPod, elasticsearchVars, deletions, resourceVars,
                 queued, down, roll>>
=============================================================================
