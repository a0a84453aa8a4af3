--------------------------- MODULE RollingUpgrade ---------------------------
(***************************************************************************)
(* Phase 3 of a reconciliation (driver/upgrade.go, upgrade_forced.go,      *)
(* upgrade_pods_deletion.go, upgrade_predicates.go): delete the Pods whose *)
(* revision is not the one of their StatefulSet, for its controller to     *)
(* create them again, and enable shard allocation when they are all back.  *)
(***************************************************************************)
EXTENDS Downscale

-----------------------------------------------------------------------------
(***************************************************************************)
(* Sets of Pods, as of the cache and of the StatefulSets of this pass.     *)
(***************************************************************************)
ActualNames == UNION {PodNames(pass.actual, s) : s \in NodeSets}
PodsToUpgrade(ssets) ==
  {p \in Existing(cPod) :
     p \in PodNames(ssets, p[1]) /\ cPod[p].tmpl # ssets[p[1]].upd}

ActualPods == {p \in Existing(cPod) : pass.actual[p[1]].exists}
PodsOf(s) == {p \in ActualPods : p[1] = s}

\* shouldForceUpgrade: every Pod pending, or none ready and each one either
\* restarted already or without a container yet.
ShouldForceUpgrade(s) == \A p \in PodsOf(s) : cPod[p].phase \in {"Pending", "Looping"}
ForcedPods ==
  {p \in PodsToUpgrade(pass.actual) : ShouldForceUpgrade(p[1])}

\* Seeded defect: a Pod that is not ready is taken for healthy.
AnyPods == {p \in ActualPods : ~cPod[p].terminating}
ReadyPods == {p \in ActualPods : cPod[p].phase = "Ready" /\ ~cPod[p].terminating}
HealthyPods == ReadyPods \cap KnownNodes

\* MasterNodesNames of the expected resources.
ExpectedMasters ==
  {p \in Pods : p[1] \in Desired.sets /\ Desired.tmpl[p[1]].master /\ p[2] < Desired.count[p[1]]}

\* getAllowedDeletions
AllowedDeletions ==
  IF MaxUnavailable < 0
    THEN Cardinality(ActualNames)
    ELSE MaxUnavailable - (Cardinality(ActualNames) - Cardinality(HealthyPods))

HandleRollingUpgrades ==
  /\ pc = "rolling"
  /\ CheckExpectations(pass.actual)
  /\ LET met == ExpectationsMet(pass.actual)
         upgrade == PodsToUpgrade(pass.actual)
         start == [NoRoll EXCEPT !.seen = cPod, !.upgrade = upgrade]
         allowed == AllowedDeletions
     IN CASE ~met ->
               /\ pc' = "ready"
               /\ pass' = Requeue(pass)
               /\ UNCHANGED roll
          [] met /\ ForcedPods # {} ->
               /\ pc' = "force"
               /\ roll' = [start EXCEPT !.selected = ForcedPods]
               /\ UNCHANGED pass
          [] met /\ ForcedPods = {} /\ ~pass.reachable ->
               /\ pc' = "ready"
               /\ pass' = Requeue(pass)
               /\ UNCHANGED roll
          [] met /\ ForcedPods = {} /\ pass.reachable
             /\ ReadyPods # {} /\ pass.nodes = {} /\ ~Formed ->
               /\ pc' = "status"
               /\ pass' = Requeue(pass)
               /\ UNCHANGED roll
          [] OTHER ->
               /\ pass' = IF ReadyPods # {} THEN WithNodes(pass) ELSE pass
               /\ IF upgrade = {}
                    THEN /\ pc' = "enable"
                         /\ UNCHANGED roll
                    ELSE /\ pc' = "select"
                         /\ roll' = [start EXCEPT
                              !.healthy = HealthyPods,
                              !.todo = upgrade,
                              !.allowed = allowed,
                              !.reached = MaxUnavailable >= 0 /\ allowed <= 0]
  /\ UNCHANGED <<kubernetesVars, elasticsearchVars, generations, resourceVars,
                 faults, queued, up, down>>

-----------------------------------------------------------------------------
(***************************************************************************)
(* applyPredicates, one candidate at a time.                               *)
(***************************************************************************)
SeenMaster(p) == roll.seen[p].tmpl.master

\* sortCandidates: masters last, then by name, then from the highest ordinal.
Before(p, q) ==
  \/ ~SeenMaster(p) /\ SeenMaster(q)
  \/ /\ SeenMaster(p) = SeenMaster(q)
     /\ p[1] < q[1] \/ (p[1] = q[1] /\ p[2] > q[2])
FirstOf(S) == CHOOSE p \in S : \A q \in S \ {p} : Before(p, q)

IsHealthy(p) == p \in roll.healthy
RespectsMaxUnavailable(p) == ~(roll.reached /\ IsHealthy(p))
NotTerminating(p) == ~roll.seen[p].terminating
KnownGreen == IF roll.green = {} THEN Green ELSE TRUE \in roll.green
GreenOrUnhealthy(p) == KnownGreen \/ ~IsHealthy(p)

ActualMasters == {p \in Pods : roll.seen[p].exists /\ SeenMaster(p)}
\* Seeded defect: the health of the other masters is not looked at.
OneMasterAPass(p) == SeenMaster(p) => ~roll.master
OneMasterAtATime(p) ==
  IF SeenMaster(p)
    THEN /\ ~roll.master
         /\ \/ ~IsHealthy(p)
            \/ p \notin ExpectedMasters /\ ActualMasters \subseteq roll.healthy
            \/ /\ p \in ExpectedMasters
               /\ Cardinality({q \in roll.healthy : SeenMaster(q)})
                    = Cardinality(ExpectedMasters)
    ELSE p \in ExpectedMasters => ~roll.master

LastMasterAfterDataNodes(p) ==
  LET others == roll.upgrade \ {p}
  IN \/ ~SeenMaster(p)
     \/ \E q \in others : SeenMaster(q)
     \/ \A q \in others : ~roll.seen[q].tmpl.data

PassesButForShards(p) ==
  /\ RespectsMaxUnavailable(p)
  /\ NotTerminating(p)
  /\ GreenOrUnhealthy(p)
  /\ OneMasterAtATime(p)
  /\ LastMasterAfterDataNodes(p)

\* The last predicate compares shards when a Pod is selected already: it asks
\* a shard lister newRollingUpgrade does not set, a nil pointer dereference.
AsksShardLister(p) == roll.selected # {} /\ PassesButForShards(p)

AsksForGreen(p) ==
  RespectsMaxUnavailable(p) /\ NotTerminating(p) /\ roll.green = {}

SelectPod(p) ==
  [roll EXCEPT !.selected = @ \cup {p},
               !.healthy = @ \ {p},
               !.master = @ \/ SeenMaster(p) \/ p \in ExpectedMasters,
               !.allowed = @ - 1,
               !.todo = IF roll.allowed <= 1 THEN {} ELSE @ \ {p},
               !.green = {KnownGreen}]

ApplyPredicates(p) ==
  /\ pc = "select"
  /\ roll.todo # {}
  /\ p = FirstOf(roll.todo)
  /\ LET skipped == [roll EXCEPT !.todo = @ \ {p},
                       !.green = IF AsksForGreen(p) THEN {KnownGreen} ELSE @]
     IN CASE AsksForGreen(p) /\ ~Formed ->
               /\ pc' = "status"
               /\ pass' = Requeue(pass)
               /\ UNCHANGED roll
          [] ~(AsksForGreen(p) /\ ~Formed) /\ AsksShardLister(p) ->
               /\ pc' = "panic"
               /\ UNCHANGED <<pass, roll>>
          [] OTHER ->
               /\ roll' = IF PassesButForShards(p) THEN SelectPod(p) ELSE skipped
               /\ UNCHANGED <<pc, pass>>
  /\ UNCHANGED <<kubernetesVars, elasticsearchVars, expectationsVars,
                 resourceVars, faults, queued, up, down>>

\* Nothing is selected: retry later.
NoPodSelected ==
  /\ pc = "select"
  /\ roll.todo = {}
  /\ roll.selected = {}
  /\ pc' = "enable"
  /\ pass' = Requeue(pass)
  /\ UNCHANGED <<kubernetesVars, elasticsearchVars, expectationsVars,
                 resourceVars, faults, queued, phaseVars>>

\* prepareClusterForNodeRestart
PrepareClusterForNodeRestart ==
  /\ pc = "select"
  /\ roll.todo = {}
  /\ roll.selected # {}
  /\ \E o \in EsOutcomes :
       LET known == [pass EXCEPT !.enabled = {allocation = "all"}]
       IN /\ EsAccount(o)
          /\ allocation' = IF o = "error" THEN allocation ELSE "primaries"
          /\ pc' = IF o = "ok" THEN "rollZen1" ELSE "status"
          /\ pass' = IF o = "ok" THEN known ELSE Requeue(known)
  /\ UNCHANGED <<kubernetesVars, joined, excluded, voting, mmn, copy, crashes,
                 expectationsVars, resourceVars, queued, phaseVars>>

-----------------------------------------------------------------------------
(***************************************************************************)
(* The deletion loop.                                                      *)
(***************************************************************************)
\* handleMasterScaleChange: the Pod is a master that will not be one again.
MasterScaleDown(p) == SeenMaster(p) /\ p \notin ExpectedMasters

\* run() swallows the conflict of the annotation, and reports the Pods deleted
\* before, as it does for those of "Delete" below.
RollZen1(p) ==
  /\ pc = "rollZen1"
  /\ p = FirstOf(roll.selected)
  /\ IF MasterScaleDown(p)
       THEN MaybeUpdateZen1("rollZen2", IF roll.deleted THEN "ready" ELSE "enable")
       ELSE /\ pc' = "delete"
            /\ UNCHANGED <<kubernetesVars, elasticsearchVars, expectationsVars,
                           resourceVars, faults, queued, pass, phaseVars>>

RollZen2(p) ==
  /\ pc = "rollZen2"
  /\ p = FirstOf(roll.selected)
  /\ AddToVotingConfigExclusions({p}, "delete")

\* deletePod with the UID as a precondition, the deletion expected before the
\* call and no longer expected when the call returns any error.
DeletePod(p, o) ==
  LET uid == roll.seen[p].uid
      accepted == pod[p].exists /\ pod[p].uid = uid
  IN /\ pod' = IF accepted /\ o # "error" THEN [pod EXCEPT ![p].terminating = TRUE]
                                          ELSE pod
     /\ IF accepted /\ o = "ok" THEN ExpectDeletion(p, uid)
                                ELSE CancelExpectedDeletion(p)

Deletable(p) == pod[p].exists /\ pod[p].uid = roll.seen[p].uid

\* run() swallows the conflict of another incarnation and the absence of the
\* Pod; the Pods deleted before are reported then.
Delete(p) ==
  /\ pc = "delete"
  /\ p = FirstOf(roll.selected)
  /\ LET rest == roll.selected \ {p}
     IN \E o \in Outcomes :
          /\ Account(o)
          /\ DeletePod(p, o)
          /\ CASE Deletable(p) /\ o = "ok" ->
                    /\ roll' = [roll EXCEPT !.selected = rest, !.deleted = TRUE]
                    /\ pc' = IF rest = {} THEN "ready" ELSE "rollZen1"
                    /\ pass' = Requeue(pass)
               [] ~Deletable(p) /\ o = "ok" ->
                    /\ pc' = IF roll.deleted THEN "ready" ELSE "enable"
                    /\ pass' = Requeue(pass)
                    /\ UNCHANGED roll
               [] OTHER ->
                    /\ pc' = "status"
                    /\ pass' = Requeue(pass)
                    /\ UNCHANGED roll
  /\ UNCHANGED <<sset, cSset, cPod, config, elasticsearchVars, generations,
                 resourceVars, queued, up, down>>

\* maybeForceUpgrade: no check, no Elasticsearch request, and no requeue.
ForceDelete(p) ==
  /\ pc = "force"
  /\ p \in roll.selected
  /\ LET rest == roll.selected \ {p}
     IN \E o \in Outcomes :
          LET failed == ~Deletable(p) \/ o # "ok"
          IN /\ Account(o)
             /\ DeletePod(p, o)
             /\ roll' = [roll EXCEPT !.selected = rest]
             /\ pc' = CASE failed -> "status"
                        [] ~failed /\ rest = {} -> "ready"
                        [] OTHER -> "force"
             /\ pass' = IF failed THEN Requeue(pass) ELSE pass
  /\ UNCHANGED <<sset, cSset, cPod, config, elasticsearchVars, generations,
                 resourceVars, queued, up, down>>

-----------------------------------------------------------------------------
\* The nodes scheduled for upgrade are back: Pods reconciled, no deletion
\* pending, and every node in the cluster; the last one left out as a seeded defect.
ScheduledPodsBack == PodReconciliationDone(pass.actual) /\ SatisfiedDeletions
ScheduledNodesBack ==
  /\ PodReconciliationDone(pass.actual)
  /\ SatisfiedDeletions
  /\ ActualNames \subseteq KnownNodes

\* MaybeEnableShardsAllocation
AllocationKnownEnabled ==
  IF pass.enabled = {} THEN allocation = "all" ELSE TRUE \in pass.enabled

MaybeEnableShardsAllocation ==
  /\ pc = "enable"
  /\ LET done == PodReconciliationDone(pass.actual)
         asks == pass.enabled = {} \/ (~AllocationKnownEnabled /\ done
                                       /\ SatisfiedDeletions /\ pass.nodes = {})
     IN /\ IF ~AllocationKnownEnabled /\ done /\ ~(asks /\ ~Formed)
             THEN DropSatisfiedDeletions
             ELSE UNCHANGED deletions
        /\ CASE asks /\ ~Formed ->
                  /\ pc' = "status"
                  /\ pass' = Requeue(pass)
                  /\ UNCHANGED <<allocation, faults>>
             [] ~(asks /\ ~Formed) /\ AllocationKnownEnabled ->
                  /\ pc' = "ready"
                  /\ UNCHANGED <<allocation, faults, pass>>
             [] ~(asks /\ ~Formed) /\ ~AllocationKnownEnabled /\ ~ScheduledNodesBack ->
                  /\ pc' = "ready"
                  /\ pass' = Requeue(pass)
                  /\ UNCHANGED <<allocation, faults>>
             [] OTHER ->
                  \E o \in EsOutcomes :
                    /\ EsAccount(o)
                    /\ allocation' = IF o = "error" THEN allocation ELSE "all"
                    /\ pc' = IF o = "ok" THEN "ready" ELSE "status"
                    /\ pass' = IF o = "ok" THEN pass ELSE Requeue(pass)
  /\ UNCHANGED <<kubernetesVars, joined, excluded, voting, mmn, copy, crashes,
                 generations, resourceVars, queued, phaseVars>>
=============================================================================
