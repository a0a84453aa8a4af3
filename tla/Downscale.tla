------------------------------ MODULE Downscale ------------------------------
(***************************************************************************)
(* Zen settings and phase 2 of a reconciliation (version/zen1,             *)
(* version/zen2, driver/downscale.go): decide which nodes may leave, move  *)
(* their data away, and remove those whose data has moved.                 *)
(***************************************************************************)
EXTENDS Upscale

-----------------------------------------------------------------------------
\* zen1.UpdateMinimumMasterNodes: to the quorum of the masters in the cache,
\* unless fewer than that are ready.
UpdateMinimumMasterNodes ==
  /\ pc = "zen1"
  /\ LET quorum == Quorum(Cardinality(Masters))
         ready == {p \in Masters : IsPodReady(cPod, p)}
     IN CASE ~AtLeastOneZen1(pass.actual) ->
               /\ pc' = "zen2"
               /\ UNCHANGED <<mmn, es, faults, pass>>
          [] AtLeastOneZen1(pass.actual) /\ Cardinality(ready) < quorum ->
               /\ pc' = "zen2"
               /\ pass' = Requeue(pass)
               /\ UNCHANGED <<mmn, es, faults>>
          [] OTHER -> UpdateMinimumMasterNodesTo(quorum, "zen2", "status")
  /\ UNCHANGED <<kubernetesVars, joined, allocation, excluded, voting, copy,
                 crashes, expectationsVars, cEs, observed, observing, specChanges, queued,
                 phaseVars>>

\* canClearVotingConfigExclusions: every Pod to remove is removed.
CanClearVotingConfigExclusions == PodReconciliationDone(pass.actual)

ClearVotingConfigExclusions ==
  /\ pc = "zen2"
  /\ CASE ~AllMastersZen2 ->
            /\ pc' = "downscale"
            /\ UNCHANGED <<voting, faults, pass>>
       [] AllMastersZen2 /\ ~CanClearVotingConfigExclusions ->
            /\ pc' = "downscale"
            /\ pass' = Requeue(pass)
            /\ UNCHANGED <<voting, faults>>
       [] OTHER ->
            \E o \in EsOutcomes :
              /\ EsAccount(o)
              /\ voting' = IF o = "error" THEN voting ELSE {}
              /\ pc' = IF o = "ok" THEN "downscale" ELSE "status"
              /\ pass' = IF o = "ok" THEN pass ELSE Requeue(pass)
  /\ UNCHANGED <<kubernetesVars, joined, allocation, excluded, mmn, copy,
                 crashes, expectationsVars, resourceVars, queued, phaseVars>>

-----------------------------------------------------------------------------
(***************************************************************************)
(* calculateDownscales.  The list of StatefulSets comes from the cache in  *)
(* no particular order, and what one downscale takes of the budget the     *)
(* next one no longer has.                                                 *)
(***************************************************************************)
FinalReplicas(s) == IF s \in Desired.sets THEN Desired.count[s] ELSE 0
Downscales ==
  {s \in NodeSets : /\ pass.actual[s].exists
                    /\ \/ FinalReplicas(s) = 0
                       \/ FinalReplicas(s) < pass.actual[s].replicas}

ReadyNodes == {p \in Pods : IsPodReady(cPod, p)}
\* Seeded defect: Pods count whether they are ready or not.
RemovalsAllowedOfAll ==
  LET allowed == Cardinality(Existing(cPod)) - (DesiredNodeCount - MaxUnavailable)
  IN IF allowed < 0 THEN 0 ELSE allowed
RemovalsAllowed ==
  LET allowed == Cardinality(ReadyNodes) - (DesiredNodeCount - MaxUnavailable)
  IN IF allowed < 0 THEN 0 ELSE allowed

StartDownscale ==
  /\ pc = "downscale"
  /\ pc' = "calculate"
  /\ down' = [NoDown EXCEPT !.removals = RemovalsAllowed,
                            !.masters = Cardinality(ReadyNodes \cap Masters),
                            !.todo = Downscales]
  /\ UNCHANGED <<kubernetesVars, elasticsearchVars, expectationsVars,
                 resourceVars, faults, queued, pass, up, roll>>

CheckDownscaleInvariants(s) ==
  /\ MaxUnavailable < 0 \/ down.removals >= 1
  /\ pass.actual[s].tmpl.master => ~down.leaving /\ down.masters # 1

\* Seeded defect: masters are removed like any other node.
ToRemoveAtOnce(s) ==
  LET n == pass.actual[s].replicas - FinalReplicas(s)
  IN IF MaxUnavailable >= 0 /\ n > down.removals THEN down.removals ELSE n

ToRemove(s) ==
  LET n == pass.actual[s].replicas - FinalReplicas(s)
      toDelete == IF pass.actual[s].tmpl.master /\ n > 0 THEN 1 ELSE n
  IN IF MaxUnavailable >= 0 /\ toDelete > down.removals THEN down.removals
                                                        ELSE toDelete

\* Seeded defect: the subtraction that gives the target is the wrong way round.
RecordReversedRemoval(s, n) ==
  [down EXCEPT
     !.todo = @ \ {s},
     !.plan = Append(@, [set |-> s, target |-> n - pass.actual[s].replicas])]

\* recordRemoval, and the downscale it is recorded for.
RecordRemoval(s, n) ==
  [down EXCEPT
     !.todo = @ \ {s},
     !.plan = Append(@, [set |-> s, target |-> pass.actual[s].replicas - n]),
     !.leaving = @ \/ (n > 0 /\ pass.actual[s].tmpl.master),
     !.masters = IF n > 0 /\ pass.actual[s].tmpl.master THEN @ - 1 ELSE @,
     !.removals = IF MaxUnavailable < 0 THEN @ ELSE @ - n]

CalculateDownscale(s) ==
  /\ pc = "calculate"
  /\ s \in down.todo
  /\ down' = IF CheckDownscaleInvariants(s) THEN RecordRemoval(s, ToRemove(s))
                                            ELSE [down EXCEPT !.todo = @ \ {s}]
  /\ UNCHANGED <<pc, kubernetesVars, elasticsearchVars, expectationsVars,
                 resourceVars, faults, queued, pass, up, roll>>

-----------------------------------------------------------------------------
PlannedNodes(d) ==
  {p \in Pods : p[1] = d.set /\ p[2] >= d.target
                /\ p[2] < pass.actual[d.set].replicas}
LeavingNodes == UNION {PlannedNodes(down.plan[i]) : i \in DOMAIN down.plan}

\* MigrateData excludes the leaving nodes, or none, from shard allocation.  Their
\* list is made once, for all the downscales of the pass.
MigrateData ==
  /\ pc = "calculate"
  /\ down.todo = {}
  /\ \E o \in EsOutcomes :
       /\ EsAccount(o)
       /\ excluded' = IF o = "error" THEN excluded ELSE LeavingNodes
       /\ pc' = IF o = "ok" THEN "attempt" ELSE "status"
       /\ pass' = IF o = "ok" THEN pass ELSE Requeue(pass)
  /\ down' = [down EXCEPT !.nodes = LeavingNodes]
  /\ UNCHANGED <<kubernetesVars, joined, allocation, voting, mmn, copy, crashes,
                 expectationsVars, resourceVars, queued, up, roll>>

\* Seeded defects: only what moves is looked at; the other leaving nodes count as
\* holders of a copy.
IsMoving(p, exclusions) ==
  \E s \in Shards : copy[s][p] \in {"relocating", "recovering", "target"}
IsMigratingAlone(p, exclusions) ==
  \E s \in Shards :
    \/ copy[s][p] \in {"relocating", "recovering", "target"}
    \/ copy[s][p] = "started" /\ \A q \in Pods \ {p} : copy[s][q] # "started"

\* nodeIsMigratingData: a copy on the node moves, or is the only started one of
\* its shard outside the excluded nodes.
IsMigratingData(p, exclusions) ==
  \E s \in Shards :
    \/ copy[s][p] \in {"relocating", "recovering", "target"}
    \/ /\ copy[s][p] = "started"
       /\ \A q \in Pods \ ({p} \cup exclusions) : copy[s][q] # "started"

\* The leaving nodes of one StatefulSet are looked at from the highest ordinal
\* down, until one that still migrates data.  GetShards only lists the copies
\* of nodes that are in the cluster.
PerformableTarget(d) ==
  LET blocked == {p \in PlannedNodes(d) : IsMigratingData(p, down.nodes)}
  IN IF blocked = {} THEN d.target
     ELSE CHOOSE t \in {p[2] + 1 : p \in blocked} :
            \A p \in blocked : p[2] + 1 <= t

IsRemoval(d) == pass.actual[d.set].replicas = 0 /\ d.target = 0
IsReplicaDecrease(d) == d.target < pass.actual[d.set].replicas
Advance == [down EXCEPT !.plan = Tail(@)]

FinishDownscale ==
  /\ pc = "attempt"
  /\ down.plan = <<>>
  /\ pc' = "rolling"
  /\ down' = NoDown
  /\ UNCHANGED <<kubernetesVars, elasticsearchVars, expectationsVars,
                 resourceVars, faults, queued, pass, up, roll>>

\* removeStatefulSetResources
RemoveStatefulSet ==
  /\ pc = "attempt"
  /\ down.plan # <<>>
  /\ LET d == Head(down.plan) IN
       /\ IsRemoval(d)
       /\ \E o \in Outcomes :
            LET failed == ~sset[d.set].exists \/ o # "ok"
            IN /\ Account(o)
               /\ \E deleted \in IF o = "error" THEN BOOLEAN ELSE {TRUE} :
                    config' = IF deleted THEN [config EXCEPT ![d.set] = NoConfig]
                                         ELSE config
               /\ sset' = IF o = "error" THEN sset
                          ELSE [sset EXCEPT ![d.set] = NoStatefulSet(sset[d.set].uid)]
               /\ pc' = IF failed THEN "status" ELSE "attempt"
               /\ pass' = IF failed THEN Requeue(pass) ELSE pass
               /\ down' = Advance
  /\ UNCHANGED <<pod, cSset, cPod, elasticsearchVars, expectationsVars,
                 resourceVars, queued, up, roll>>

\* attemptDownscale of a replica decrease, up to the writes.
AttemptDownscale(target) ==
  /\ pc = "attempt"
  /\ down.plan # <<>>
  /\ target = PerformableTarget(Head(down.plan))
  /\ LET d == Head(down.plan)
         migrating == [pass EXCEPT !.requeue = TRUE, !.phase =
                         IF target # d.target THEN "MigratingData" ELSE @]
     IN /\ ~IsRemoval(d)
        /\ CASE IsReplicaDecrease(d) /\ ~Formed ->
                  /\ pc' = "status"
                  /\ pass' = Requeue(pass)
                  /\ UNCHANGED down
             [] IsReplicaDecrease(d) /\ Formed
                /\ target = pass.actual[d.set].replicas ->
                  /\ pass' = migrating
                  /\ down' = Advance
                  /\ UNCHANGED pc
             [] IsReplicaDecrease(d) /\ Formed
                /\ target # pass.actual[d.set].replicas ->
                  /\ pass' = IF target # FinalReplicas(d.set) THEN migrating ELSE pass
                  /\ down' = [down EXCEPT !.target = target]
                  /\ pc' = IF pass.actual[d.set].tmpl.master THEN "dsZen1"
                                                             ELSE "dsUpdate"
             [] OTHER ->
                  /\ down' = Advance
                  /\ UNCHANGED <<pc, pass>>
  /\ UNCHANGED <<kubernetesVars, elasticsearchVars, expectationsVars,
                 resourceVars, faults, queued, up, roll>>

-----------------------------------------------------------------------------
(***************************************************************************)
(* updateZenSettingsForDownscale, before the masters in "nodes" go.        *)
(***************************************************************************)
\* Seeded defect: minimum_master_nodes is left for the next reconciliation.
PostponeZen1(next, refused) ==
  /\ pc' = next
  /\ UNCHANGED <<kubernetesVars, elasticsearchVars, expectationsVars, resourceVars,
                 faults, queued, pass, phaseVars>>

\* maybeUpdateZen1ForDownscale: 2 masters become 1.
MaybeUpdateZen1(next, refused) ==
  /\ IF AtLeastOneZen1(pass.actual) /\ Cardinality(Masters) = 2
       THEN UpdateMinimumMasterNodesTo(1, next, refused)
       ELSE pc' = next /\ UNCHANGED <<mmn, es, faults, pass>>
  /\ UNCHANGED <<kubernetesVars, joined, allocation, excluded, voting, copy,
                 crashes, expectationsVars, cEs, observed, observing, specChanges, queued,
                 phaseVars>>

AddToVotingConfigExclusions(nodes, next) ==
  /\ IF ~AllMastersZen2
       THEN pc' = next /\ UNCHANGED <<voting, faults, pass>>
       ELSE \E o \in EsOutcomes :
              /\ EsAccount(o)
              /\ voting' = IF o = "error" THEN voting ELSE voting \cup nodes
              /\ pc' = IF o = "ok" THEN next ELSE "status"
              /\ pass' = IF o = "ok" THEN pass ELSE Requeue(pass)
  /\ UNCHANGED <<kubernetesVars, joined, allocation, excluded, mmn, copy,
                 crashes, expectationsVars, resourceVars, queued, phaseVars>>

RemovedNodes ==
  PlannedNodes([set |-> Head(down.plan).set, target |-> down.target])

DownscaleZen1 == pc = "dsZen1" /\ MaybeUpdateZen1("dsZen2", "status")
DownscaleZen2 ==
  pc = "dsZen2" /\ AddToVotingConfigExclusions(RemovedNodes, "dsUpdate")

\* doDownscale updates the StatefulSet with the resourceVersion it read: any
\* write since, of the status included, is a conflict.
UpdateReplicas ==
  /\ pc = "dsUpdate"
  /\ LET s == Head(down.plan).set
         written == WrittenStatefulSet(sset[s], down.target, pass.actual[s].tmpl, FALSE)
     IN \E o \in Outcomes :
          LET conflict == sset[s] # pass.actual[s]
              failed == conflict \/ o # "ok"
          IN /\ Account(o)
             /\ sset' = IF conflict \/ o = "error" THEN sset
                        ELSE [sset EXCEPT ![s] = written]
             /\ IF failed
                  THEN /\ pc' = "status"
                       /\ pass' = Requeue(pass)
                       /\ UNCHANGED generations
                  ELSE /\ pc' = "attempt"
                       /\ ExpectGeneration(s, written)
                       /\ UNCHANGED pass
             /\ down' = Advance
  /\ UNCHANGED <<pod, cSset, cPod, config, elasticsearchVars, deletions,
                 resourceVars, queued, up, roll>>
=============================================================================
