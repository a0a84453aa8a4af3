---------------------------- MODULE EsProperties ----------------------------
(***************************************************************************)
(* What the orchestration of EsDriver promises.  The properties speak of   *)
(* the real Pods and nodes, whatever the operator's caches say of them.    *)
(***************************************************************************)
EXTENDS EsDriver

TypeOK ==
  /\ KubernetesTypeOK
  /\ ElasticsearchTypeOK
  /\ ExpectationsTypeOK
  /\ DriverTypeOK

-----------------------------------------------------------------------------
WantedPods == {p \in Pods : Wanted(p)}
WantedMasters == {p \in WantedPods : sset[p[1]].tmpl.master}
IsReady(p) == pod[p].exists /\ pod[p].phase = "Ready" /\ ~pod[p].terminating
IsAvailable(p) == IsReady(p) /\ p \in joined
Unavailable(S) == {p \in S : ~IsAvailable(p)}

\* A rolling upgrade deletes the Pod p.
Restarts(p) ==
  pc = "delete" /\ pc' # pc /\ ~pod[p].terminating /\ pod'[p].terminating

(***************************************************************************)
(* Expectations.                                                           *)
(***************************************************************************)
\* Every expected generation was written and every Pod expected to go was
\* deleted, so that the operator never waits for what cannot come: an
\* expectation is recorded after the call that makes it true, or cancelled.
ExpectationsSatisfiable ==
  /\ \A s \in NodeSets :
       /\ generations[s].uid <= sset[s].uid
       /\ sset[s].exists /\ sset[s].uid = generations[s].uid
            => generations[s].gen <= sset[s].gen
  /\ \A p \in Pods : \A uid \in deletions[p] :
       /\ uid <= pod[p].uid
       /\ pod[p].exists /\ pod[p].uid = uid => pod[p].terminating

(***************************************************************************)
(* Upscale.                                                                *)
(***************************************************************************)
\* Once the cluster is bootstrapped the operator adds masters one at a time,
\* and only when the ones it added before are in the cluster.
OneMasterJoinsAtATime ==
  [][pc = "apply" /\ pass.mine.uuid /\ ~(WantedMasters' \subseteq WantedMasters)
       => /\ Cardinality(WantedMasters' \ WantedMasters) = 1
          /\ \A p \in WantedMasters : p \in joined \/ crashes > 0]_vars

\* Upscales leave downscales to the downscale phase.
UpscaleNeverRemoves == [][pc = "apply" => WantedPods \subseteq WantedPods']_vars

\* Two majorities of initial master nodes, of masters that run before the
\* cluster is annotated as bootstrapped, always share a node: no two clusters.
BootSets == {pod[p].boot : p \in {p \in Existing(pod) : pod[p].boot # {}}}
BootstrapQuorumsIntersect ==
  ~es.uuid => \A A, B \in BootSets :
    Quorum(Cardinality(A)) + Quorum(Cardinality(B)) > Cardinality(A \cup B)

(***************************************************************************)
(* Downscale.                                                              *)
(***************************************************************************)
\* A shard always has a copy in the cluster, or one on the disk of a Pod that
\* comes back.
NoDataLoss ==
  \A s \in Shards :
    \E p \in Pods : p \in ActiveCopies(s) \/ (copy[s][p] = "disk" /\ Wanted(p))

\* A downscale only removes nodes whose data is elsewhere: no shard has its last
\* copy on one, in the cluster or on the disk that goes with it.
LastCopyOn(s, p) ==
  /\ copy[s][p] \in {"started", "relocating", "disk"}
  /\ \A q \in Pods \ {p} : copy[s][q] \notin {"started", "relocating", "disk"}
RemovedAfterMigration ==
  [][pc = "dsUpdate" => \A p \in WantedPods \ WantedPods', s \in Shards :
       ~LastCopyOn(s, p)]_vars

\* A master that leaves an all zen2 cluster stays excluded from its voting
\* configuration until it is gone.
LeavingMastersExcluded ==
  (\A p \in joined : IsMaster(p) => pod[p].tmpl.major >= 7)
    => \A p \in joined : IsMaster(p) /\ ~Wanted(p) => p \in voting

\* Masters leave one at a time.
OneMasterLeavesAtATime ==
  Cardinality({p \in Existing(pod) : IsMaster(p) /\ ~Wanted(p)}) <= 1

\* minimum_master_nodes never exceeds the masters that stay, a cluster that
\* loses its master can elect another one.
CanElect ==
  AtLeastOneZen1(sset) => mmn <= Cardinality(WantedMasters)

\* A downscale leaves the number of ready Pods maxUnavailable allows.
DownscaleKeepsAvailable ==
  [][pc = "dsUpdate" /\ MaxUnavailable >= 0 /\ WantedPods' # WantedPods
       => Cardinality({p \in WantedPods' : IsReady(p)})
            >= DesiredNodeCount - MaxUnavailable - crashes]_vars

(***************************************************************************)
(* Rolling upgrade.                                                        *)
(***************************************************************************)
\* Restarting a Pod that is available leaves at most maxUnavailable Pods
\* unavailable, besides those that crashed on their own.
RestartKeepsAvailable ==
  [][\A p \in Pods :
       Restarts(p) /\ IsAvailable(p) /\ MaxUnavailable >= 0
         => Cardinality(Unavailable(WantedPods) \cup {p})
              <= MaxUnavailable + crashes]_vars

\* An available master is restarted only when the others are all available,
\* those that run as masters and those that come back as masters.
Voters ==
  {p \in WantedPods : IF pod[p].exists THEN IsMaster(p) ELSE p \in WantedMasters}
OneMasterRestartsAtATime ==
  [][\A p \in Pods :
       Restarts(p) /\ IsAvailable(p) /\ IsMaster(p)
         => Cardinality(Unavailable(Voters)) <= crashes]_vars

\* Shard allocation is enabled again only when the restarted nodes are back.
AllocationEnabledWhenBack ==
  [][pc = "enable" /\ pc' # pc /\ allocation # allocation'
       => \A p \in WantedPods :
            crashes = 0 => p \in joined /\ ~pod[p].terminating]_vars

\* No reconciliation crashes the operator.
NeverPanics == pc # "panic"

(***************************************************************************)
(* The whole.                                                              *)
(***************************************************************************)
\* A pass only reports its cluster Ready when the StatefulSets are those of the
\* specification it reconciled, whatever its upscale and downscale did to them.
ReadyMeansApplied ==
  [][pc = "ready" /\ pc' = "status" /\ pass'.phase = "Ready" => \A s \in Desired.sets :
       /\ sset[s].exists
       /\ sset[s].replicas = Desired.count[s]
       /\ sset[s].tmpl = Desired.tmpl[s]]_vars

Matches(spec) ==
  \A p \in Pods :
    LET expected == p[1] \in spec.sets /\ p[2] < spec.count[p[1]]
    IN /\ pod[p].exists <=> expected
       /\ expected => pod[p].tmpl = spec.tmpl[p[1]] /\ ~pod[p].terminating

\* Once the user stops, the cluster runs the last specification, with the
\* temporary settings of Elasticsearch reset, and is reported Ready.
Settled ==
  /\ Matches(es.spec)
  /\ \A p \in Existing(pod) : IsAvailable(p)
  /\ allocation = "all"
  /\ excluded = {}
  /\ voting = {}
  /\ es.phase = "Ready"
  /\ es.uuid
EventuallySettled == <>[]Settled

\* A StatefulSet whose nodeSet is gone from the specification is removed.
EventuallyRemoved == <>[](\A s \in NodeSets : sset[s].exists => s \in es.spec.sets)
=============================================================================
