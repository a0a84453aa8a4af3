# A TLA+ model of the Elasticsearch operator

The operator (`src/pkg/controller`) watches `Elasticsearch`, `Kibana`,
`Logstash` and `ApmServer` resources and makes each one real. The hard part is
the orchestration of a cluster in `elasticsearch/driver`: it acts on cached
reads, a few steps per pass, on a system where Pods, nodes, shards, users and the
operator itself all move. Around it, other controllers copy passwords and
certificates between resources, renew what expires, and clean up what is gone.
This project models the orchestration (sections 2 to 5), the association of an
application with a cluster, and the upkeep of a cluster (licenses, certificates,
users, observer, claims, disruption budget), checks them with TLC and proves part
with TLAPS.

## 1. The system

| Component (under `src/pkg/controller`) | State | Operations | What makes it correct |
|---|---|---|---|
| Elasticsearch controller, `elasticsearch/elasticsearch_controller.go`, `elasticsearch/driver/driver.go`, `driver/nodes.go` | work queue, status, annotations of the resource | `Reconcile`, `reconcileNodeSpecs`, `updateStatus` | converges to the last specification; reports Ready only for what it applied |
| Expectations, `common/expectations`, `driver/expectations.go` | expected generations and expected deletions, in memory | expect, cancel, check | a pass never acts on a cache older than the operator's own writes; nothing is expected that cannot come |
| Upscale, `driver/upscale.go`, `driver/upscale_state.go` | a budget and a permission per pass | adjust replicas, write configuration and StatefulSet | maxSurge; masters join one by one; never scales down |
| Downscale, `driver/downscale*.go`, `elasticsearch/migration` | removals allowed, master already leaving | plan, migrate data, zen settings, update or delete | no data lost; maxUnavailable; masters leave one by one and are excluded first |
| Rolling upgrade, `driver/upgrade*.go` | none between passes | choose Pods, predicates, delete, disable and enable shard allocation | maxUnavailable; one master at a time; allocation comes back |
| Zen settings, `elasticsearch/version/zen1`, `zen2` | annotation of minimum_master_nodes; Elasticsearch settings | minimum_master_nodes, initial_master_nodes, voting exclusions | no two clusters; an election is always possible |
| Bootstrap annotation, `elasticsearch/bootstrap` | cluster UUID annotation | annotate, remove for a re-bootstrap | a formed cluster is never bootstrapped again |
| Observer, `elasticsearch/observer` | last state of each cluster | periodic retrieval, notification | a change of state is eventually acted on |
| Volume claims and disruption budget, `driver/pvc.go`, `elasticsearch/pdb` | claims, one budget | collect at the end of a pass; delete and create | no claim in use is deleted; the budget follows nodes and health |
| Users, `elasticsearch/user`, `common/association/user.go` | secrets with passwords, the file realm | create, keep, aggregate | the operator and the applications are let in |
| Finalizers, `common/finalizer` | names in the metadata | register, execute, remove | memory and other namespaces are cleaned before the resource goes |
| Certificates, `common/certificates`, `elasticsearch/certificates`, `*/certificates` | CA, node, HTTP and public secrets | issue, rotate, copy, use the user's | nothing served expires; the copies agree |
| Licenses, `license`, `elasticsearch/license` | license secret, timer, license in Elasticsearch | match, link, apply | renewed before it expires |
| Trial, `license/trial`, `common/license/trial.go` | status secret, public key in memory | record, sign, correct | one trial, never prolonged |
| Dynamic watches, `common/watches` | registered handlers | add, remove, deliver | no event on a watched object is lost |
| Associations, `*association`, `common/association` | user and CA copies, connection details, status | reconcile, remove orphans | all copies agree once the events are handled |
| Kibana, Logstash, APM server, `kibana`, `logstash`, `apmserver` | configuration secret, Deployment | wait, configure, deploy | Pods run what the details say |

**Interactions.** A pass reads StatefulSets, Pods and the resource from informer
caches, one cache per type, each independently behind the API server. Its writes
go to the API server. The StatefulSet controller, the kubelet and Elasticsearch
react on their own, and the operator learns of it by its caches, by calls to
Elasticsearch and by the observer. An event of any cache queues the cluster; an
error, a conflict or unmet expectations queue it again. The association controller
and the controller of an application write the same resource, the former its
annotation and status, the latter its status; the user secret the association
makes in the cluster's namespace wakes the Elasticsearch controller, which adds it
to the file realm. The license controller and the Elasticsearch controller meet in
the license secret.

**Hard behaviours.** Decisions on stale caches; a pass that stops anywhere, by
an error, a lost reply, a conflict or a crash of the operator; several limits
(maxSurge, maxUnavailable, one master) shared by several StatefulSets and
several passes; Elasticsearch settings (allocation, exclusions, voting
exclusions, minimum_master_nodes) that must be set before a node goes and reset
after; nodes that crash or are restarted while their data moves; edits of the
specification in the middle; watches registered while events arrive; passwords and
CAs copied by three controllers; timers against outages; a record in a secret
against one in memory. The hazards are listed in `PROJECT.json` with the
line where each bites and the properties aimed at it.

## 2. Modules

### The orchestration of a cluster

Each module EXTENDS the previous one.

| Module | Models | State |
|---|---|---|
| `Kubernetes` | API server objects, StatefulSet controller, kubelet, informer caches (external) | `sset pod config`, caches `cSset cPod` |
| `Elasticsearch` | nodes in the cluster, shard copies, settings (external) | `joined copy allocation excluded voting mmn crashes` |
| `Expectations` | expected generations and deletions | `generations deletions` |
| `Driver` | the resource, the queue, what a pass carries, how a call may end, calls that several phases make | `es cEs observed observing queued pc pass up down roll`, `specChanges faults` |
| `Upscale` | `HandleUpscaleAndSpecChanges`, then zen settings | |
| `Downscale` | `HandleDownscale` | |
| `RollingUpgrade` | `handleRollingUpgrades`, predicates, forced upgrade, allocation | |
| `EsDriver` | the pass around the phases, watches, observer, edits, restarts; `Init`, `Next`, `Spec`, `FairSpec` | |
| `EsProperties` | properties | |
| `MCEsDriver` | instances and scenarios | |
| `EsDriver_proofs`, `Expectations_proofs`, `Scaling_proofs` | theorems | |

### An application and its cluster

| Module | Models | State |
|---|---|---|
| `Watches` | registrations of `DynamicEnqueueRequest` | (operators) |
| `Associated` | the resources both controllers share, their caches, `ReconcileCompatibility`, pause | `app es ca authSecret users caCopy realm workload settings`, caches, `queues budget` |
| `Association` | the association controllers, step by step | `assoc assocWatches` |
| `AppDriver` | the controllers of the application, step by step | `driver driverWatches` |
| `Applications` | the order of the steps for Kibana, Logstash and APM server | |
| `Stack` | events, the user, the Elasticsearch controller's part (user secrets to file realm), garbage collection, restarts; `StackSpec` | |
| `StackProperties`, `MCStack` | properties; scenarios | |
| `Stack_proofs` | theorems | |

### The upkeep of a cluster

| Module | Models | State |
|---|---|---|
| `Clock` | time, in units, to a `Horizon` | `now` |
| `TrialPeriod` | abstract: one trial that nothing prolongs | `phase until`, input `asked` |
| `Trial` | the trial controller, a step per read or write | `trialSecret trialStatus`, caches, `trialPubKey trialPass` |
| `Licensing` | the license controller and the driver's part, a pass a step | `offers linked applied observed`, queue, timers |
| `Certificates` | CAs and certificates of a cluster or an application, a step per secret | `httpCA httpCerts httpPublic transport*`, `certPods certPass` |
| `Lifecycle` | the resource from creation to deletion and again, finalizers, users, observer, claims, budget, health | `resource statefulSet claims internalUsers fileRealm pdb observers` |
| `TrialProperties`, `LicensingProperties`, `CertificatesProperties`, `LifecycleProperties` | properties | |
| `MCUpkeep` | scenarios; a behaviour is about one of the four components | `subject` |
| `Trial_proofs`, `Licensing_proofs`, `Certificates_proofs`, `Lifecycle_proofs` | theorems | |

These four share no state but the clock: the `MCUpkeep` run is four searches in one,
and the initial states of the components that do not move are fixed.

### State and code

* A Pod is `<<nodeSet, ordinal>>`; its record has a UID (an incarnation number),
  template, phase, termination mark and the `initial_master_nodes` it read when
  it started (`boot`). A StatefulSet has a UID, generation, replicas, template,
  published update revision (`upd`, empty until the StatefulSet controller acts)
  and whether its template hash label is one the operator rendered (`rendered`):
  labels computed from what the API server returned cover defaulted fields and
  equal no rendered one.
* A template is one record: master and data roles, major version, a revision
  number. The hash of a Pod template is the template itself.
* `pc` is where the single worker is. A local computation that nothing else can
  observe is one step; each call to the API server or to Elasticsearch is a step
  of its own, so every other process may move between two calls.
* `pass.start`, `pass.snap` and `pass.mine` are the resource as the controller
  read it, as the driver last knew its resourceVersion, and the driver's copy.
  An update conflicts when the stored resource differs from what the caller holds.
* A call ends `ok`, `error` (nothing happened) or `lost` (it happened, the caller
  sees an error). The last two draw on `MaxFaults`. Elasticsearch answers an error,
  without a fault, when it has not formed.
* `up`, `down` and `roll` are the local variables of the phases: adjusted replicas
  and StatefulSets left to write; planned removals and the invariants' counters;
  the Pods a rolling upgrade saw, wants, may delete and has deleted.

### Steps and code

| Steps | Code |
|---|---|
| `StartReconcile`, `ReconcileClusterUUID` | `internalReconcile`, `bootstrap.ReconcileClusterUUID` |
| `RetrieveActualStatefulSets`, `AwaitExpectations` | `nodes.go`, `expectations.go`: stop and requeue until the cache shows earlier writes |
| `AdjustResources`, `ApplyResource` | `adjustResources`, then configuration and StatefulSet of each nodeSet, in the order of the specification |
| `UpdateMinimumMasterNodes`, `ClearVotingConfigExclusions` | between upscale and downscale |
| `StartDownscale`, `CalculateDownscale` | `newDownscaleState`, `calculateDownscales`, in any order of the list |
| `MigrateData`, `AttemptDownscale`, `RemoveStatefulSet`, `DownscaleZen1`, `DownscaleZen2`, `UpdateReplicas`, `FinishDownscale` | `HandleDownscale`, `attemptDownscale`, `doDownscale` |
| `HandleRollingUpgrades`, `ForceDelete` | `handleRollingUpgrades`, `MaybeForceUpgrade` |
| `ApplyPredicates`, `NoPodSelected` | the predicates, candidate by candidate |
| `PrepareClusterForNodeRestart`, `RollZen1`, `RollZen2`, `Delete` | `rollingUpgradeCtx.Delete` |
| `MaybeEnableShardsAllocation` | same name |
| `FinishNodeSpecs`, `UpdateStatus` | `Reconciled`, `updateStatus`, the end of `Reconcile` |
| `RecoverFromPanic`, `OperatorRestarts` | the process dies: expectations and observations are lost, caches listed anew |
| `SyncEs`, `SyncStatefulSetCache`, `SyncPodCache` | informers and watches |
| `Observe`, `StoreObservation` | `Observer.retrieveState`, which notifies before it stores |

Some operators marked "Seeded defect" stand beside a definition of the model.
They are plausible mistakes in that definition, one for each property of a
passing run, each of which TLC detects; no behaviour of the model uses them.

### Applications and upkeep: state and code

* A password, a CA or a certificate is a number that is new when it is generated; a
  copy is the same number, a bcrypt hash is the password it was made of. Two hashes
  of one password are not told apart.
* Each step of an association or of a driver is one call of the Go code, with the
  caches as they are at that step; `Applications` puts the steps of each kind in the
  order of its `reconcileInternal` or `doReconcile`. The copy of the resource a pass
  holds goes stale as the other controller writes, and its writes then conflict.
* A conflict while writing connection details ends the pass without an error, as the
  code does: the event of the other write is relied on. Failed and lost calls are as
  in the orchestration.
* The watch registry is read at the moment an event is delivered, and a pass registers
  its handlers before it reads the object: `EstablishedWhenQuiet` is about that order.
* `workload.template` is what the checksum label covers and `workload.config` what a
  running Pod has read.
* In `Certificates` and `Licensing` a unit of time is long beside a pass: time passes
  when the operator waits or is stopped. The timers are absolute times in the delayed
  queue; the one second that `ShouldRotateIn` takes off the margin is one unit. A
  requeue after 0 is no requeue, as in controller-runtime. In `Trial` time passes
  anywhere.
* In `Trial` a key pair is a number greater than every one written before; a signature
  is the number of the key. The user may delete or overwrite the status secret, or
  delete the license, not forge a signature. Deleting the status secret while no
  key is in memory, that is after a restart or before the license is known to be signed,
  starts a new trial, as nothing then remembers the old one; the model excludes it.
* A trial license comes empty, as `CreateTrialLicense` makes it, or with dates of the
  user's (`TrialDates`), which `populateTrialLicense` keeps and the controller signs. An
  `expiry` of 0 stands for a license in which one of the two dates is missing: then
  both are set, and the trial lasts `TrialLength`. To change the dates, the user deletes
  the license and creates another; data that is not a trial's, or does not parse, is an
  error at each pass and is left out.
* In `Lifecycle` one nodeSet grows and shrinks; whether its data has moved is a choice
  at each pass. `resource.uid` counts the resources of one name; owner references are
  uids.

## 3. What the checks show

Passing runs:

| Run | Scenario | Properties |
|---|---|---|
| `faults` | two master and data nodes become one and back, with one failed call, lost reply or restart anywhere | `ExpectationsSatisfiable`, `NoDataLoss`, `EventuallySettled` |
| `shift` | nodes move from one nodeSet to another, or a nodeSet goes; maxSurge 1, maxUnavailable 0, two copies of a shard; one failed call or restart | `LeavingMastersExcluded`, `RemovedAfterMigration`, `DownscaleKeepsAvailable`, `UpscaleNeverRemoves`, `ReadyMeansApplied` |
| `rolling` | a new template for one master and two data nodes, maxUnavailable 1 | `RestartKeepsAvailable`, `AllocationEnabledWhenBack`, `EventuallySettled` |
| `budget` | two masters and a data node change template or trade roles, maxUnavailable 2 | `OneMasterRestartsAtATime` |
| `zen` | three version 6 masters become one and come back, a container may crash at any moment | `TypeOK`, `CanElect`, `OneMasterLeavesAtATime`, `OneMasterJoinsAtATime` |
| `create` | a new cluster, one master in each of two nodeSets | `BootstrapQuorumsIntersect` |
| `stack` | an application of each kind, new or running, one or two clusters; one or two of: an edit (reference, pause, secure settings, deletion), a cluster or secret that comes, goes or changes, a failed call, a restart | `EstablishedWhenQuiet`, `UserWhenQuiet`, `CredentialsAccepted`, `TemplateCurrent`, `NeverMarkedUnknown` |
| `upkeep` | a trial; a cluster's license; the certificates of a cluster and of each kind of application; the life of a resource | `TrialPromise`, `TamperingUndone`; `RenewedBeforeExpiry`, `FallsBack`; `CertificatesValid`, `CertificatesConsistent`; `OperatorLetIn`, `NotObservedWhenGone`, `BudgetFollows`, `ClaimsInUseKept` |

`BootstrapQuorumsIntersect` holds in `create` because a majority of one of two
nodeSets of one master each always meets a majority of both.

`TrialPromise` says that `Trial` implements `TrialPeriod`, with
`phase <- TrialPhase, until <- TrialUntil, asked <- trialSecret.expiry`: "running" while the license carries a
signature of the key that signatures are verified with, "reserved" between the record
of the key and the signature, "unused" while no key is recorded, "spent" otherwise.
`asked` is the end in the license, if it has one: a trial whose license asks for an end
has that one, and only a trial whose license asks for none is bounded by `TrialLength`.
The 30 days of `trial_test.go:191` and of `validateTrialDuration`
(`trial_controller_integration_test.go:95`) are those of a license without dates; one with
an end further away is signed as it is (`trial.go:91`), and `MCTrialDates` has such an
end. What the property is about is that there is one trial and that its end, whichever
it is, stays what it was when it began.

Most properties of `stack` and `upkeep` speak of quiet states, where the controllers
involved have no event, timer or retry left. A hand-off that is lost leaves such a
state behind for good, and it is the only thing that could: they say, without
fairness, that nothing is left undone.

Runs that end in a violation show the code contradicting its own comments or
tests:

| Run | Property | What happens |
|---|---|---|
| `panic` | `NeverPanics` | with maxUnavailable 2 or more, the second Pod that passes the other predicates reaches the comparison of shards, whose lister `newRollingUpgrade` never sets (`upgrade.go:129`): a nil dereference at every pass |
| `lost_data` | `RemovedAfterMigration` | a leaving node that a rolling upgrade just restarted has no shard in the list of shards, and is removed with the last copy on its disk |
| `license_change` | `ChangeReachesCluster` | the watch of enterprise licenses queues the name of the secret of each cluster license (`license/list.go:27`), which is not the name of the cluster: no cluster is reconciled when a license changes, and each waits for its timer |
| `stale_create` | `UpscaleNeverRemoves` | a nodeSet of one master is added; a creation is not an expectation (`reconcile.go:35`), so a pass that lists StatefulSets before the cache shows the created one takes its master for one that joins and, once the cache has caught up, writes the StatefulSet back with 0 replicas |

The same properties fail in these instances, which no configuration keeps; to see one,
change the constants of a configuration as said:

* `BootstrapQuorumsIntersect` with one master in a nodeSet and two in another
  (`create.cfg` with `BootstrapInitial` and `BootstrapSpecs`): the upscale state is
  copied for each nodeSet while its `sync.Once` is shared (`upscale.go:77`), only the
  first nodeSet may create masters, and may form a cluster alone.
* `OneMasterLeavesAtATime` when an edit makes three masters one data node (`zen.cfg` with
  `RoleInitial`, `RoleSpecs` and `RoleTemplates` in two nodeSets, maxUnavailable 4): the
  downscale tells masters by the label of the StatefulSet (`downscale.go:86`), which the
  upscale of the same pass has just changed, and removes two running masters at once.
* `OneMasterRestartsAtATime` when an edit takes one of three masters away and changes their
  template (`budget.cfg` with `LeavingInitial`, `LeavingSpecs` and `LeavingTemplates`,
  `MaxReplicas = 3`; 72 states): a leaving master that waits for its data is counted among
  the healthy ones and not among the expected ones (`upgrade_predicates.go:197`), so that
  with one of the three restarted and not ready the next is restarted. The comment there
  relies on no downscale being in progress, which nothing checks (`nodes.go:112`).
* `EventuallyRemoved` with maxUnavailable 0: deleting an empty StatefulSet waits for a
  removal that is never allowed (`downscale_invariants.go:26`).
* `NoOrphan` (`StackProperties`) when a Kibana moves to a cluster of another namespace
  or drops its reference: `deleteOrphanedResources` lists the namespace of the
  application only (`kibanaassociation/association_controller.go:342`), and the user
  made in the cluster's namespace stays.
* `TrialNeedsEula` (`TrialProperties`): a license whose EULA is not accepted is written
  back, which replaces its labels; the next pass on it, an event of the status secret or
  a retry, finds no trial label and so no violation, and starts the trial.
* `ClaimsInUseKept` when an upscale succeeds with its reply lost, and an edit changes the
  count back and forth: the write is not expected in the cache
  (`MCLifecycleBudgets` with two edits and a fault), or when a created StatefulSet is
  missing from the cache for a whole pass (`lag`).

* `UserWhenQuiet` and `CredentialsAccepted` when the user secret the association created
  is deleted before the cache has shown it: the deletion is of
  an object no cache had, and so no event (`stack.cfg` with a larger budget).

`TemplateCurrent` is about applications that refer to a cluster. One that has lost its
reference keeps its connection details (`reconcileInternal` of
`apmserverelasticsearchassociation` returns at once, the annotation is not removed), while no watch tells of changes of that cluster any more.

The passing runs avoid these defects by their scenario, and nothing else:
`rolling` stays at maxUnavailable 1; in `budget` the panic happens and the
operator restarts, and no master leaves with a change of its template; `shift` has no edit that changes a template and a count
together, no lost reply and no crash of a container; its `UpscaleNeverRemoves` holds because no edit there
adds a nodeSet, so that no StatefulSet is created; `upkeep` has no failed call together
with two edits. A passing run says what holds in that scenario and not in every one.

## 4. Bounds

* Two nodeSets of two Pods, or one of three, are what the invariants that share
  a budget between StatefulSets and between Pods need; one shard with one or two
  copies distinguishes a last copy from a spare one.
* `MaxSpecChanges` 1 or 2: 2 lets a user undo an edit half way. `MaxFaults` and
  `MaxCrashes` 0 or 1: one fault at any call, one crash at any moment. `FaultKinds`
  says which faults a run may have: a call that fails, a reply that is lost, a restart of
  the operator. `shift` is without lost replies, the hypothesis of `ReadyIsApplied`
  (section 6); `faults` has all three.
* `MaxIncarnations` bounds the UIDs of an object of one name. Kubernetes'
  controllers stop creating a name that reached it. `EventuallySettled` holds
  in `faults` and `rolling`, so no behaviour of those runs is left without a Pod
  by that bound.
* `create` stops (CONSTRAINT `UntilStarted`) when every node has read its
  configuration or the cluster is annotated: nothing the property speaks of
  changes afterwards.
* `stack` starts from a new application or from one that is fully associated and
  deployed, the state the first reaches, so that edits need not wait for it; each
  scenario allows one or two disturbances, at any step. Two clusters in two namespaces
  are what a change of reference needs.
* In `upkeep` a trial of 2 units, or one whose license ends at 1 or 9, which may be past
  when it starts or longer than the others; licenses of 4 to 9 with a safety margin of 4,
  CAs of 6 rotated 3 before their end and transport certificates of 7 rotated 2 before,
  and a `Horizon` of 10 let each expire and be renewed at least once, with the operator
  stopped for 1 unit. Two Pods in `Certificates`; a nodeSet of up to two nodes beside
  three others in `Lifecycle`, whose resource may be deleted and made again once.
* `MaxOutage` and `MaxCertOutage` bound how long the operator is stopped, or kept from its
  work by failures, in units of time; `HalfMargin` is the half of the safety margin that
  `license_controller.go:81` leaves before an expiry. `certServed` says whether the
  secrets of the certificates were all made, so that Pods serve them.
* Transport certificates live no shorter than their CA, as with the defaults, where both
  live a year: a shorter one would expire with no timer set for it, since the pass is
  queued again for the CAs only.
* `CHECK_DEADLOCK FALSE` in every run: a settled cluster with no edit left has
  nothing to do, and time ends at the `Horizon`.
* No symmetry: ordinals are ordered, and nodeSets are ordered in a specification.

## 5. Fairness

`FairSpec` is weak fairness of each process: the worker, each of the three
watches, the observer, the StatefulSet controller, the kubelet's progress (start,
ready, stop) and the cluster (join, recover, move shards). The workers and
informers of controller-runtime are loops that run forever, the observer is a
ticker, and Kubernetes and Elasticsearch are relied on to do the same. There is
none for edits, faults, restarts or crashes: they may happen, and nothing counts
on them. There is one worker: the work queue of controller-runtime never hands
the same cluster to two.

## 6. Proofs

`tlapm` checks twenty-five theorems, for all values of the constants within the named
assumptions, which TLC evaluates in the runs: `NodeSetsAssumption`,
`MaxReplicasAssumption`, `TemplatesAssumption`, `MaxIncarnationsAssumption`,
`ShardsAssumption`, `CopiesAssumption`, `MaxCrashesAssumption`, `SpecsAssumption`,
`BudgetAssumption`, `BoundsAssumption`, `FaultKindsAssumption`,
`BootstrappedAssumption` for the orchestration; `AssociatedAssumption` (finitely many
clusters; an application that is already associated refers to one that exists);
`HorizonAssumption` and `TrialAssumption` (dates, where there are any, are not 0);
`LicensingAssumption` and `UidsIdentify`
(licenses of one uid are one license, as `updateLicense` takes them to be);
`CertificatesAssumption` (a certificate lives longer than its margin, as
`ValidateCertExpirationFlags` demands, and the margin is not 0); `LifecycleAssumption`
(a resource is deleted and made again at most once, beside at least three other nodes).

| Theorem | States | Hypotheses |
|---|---|---|
| `EsDriver_proofs!TypeCorrect` | `TypeOK` | |
| `Expectations_proofs!ExpectationsAreSatisfiable` | `ExpectationsSatisfiable` | |
| `Expectations_proofs!ReadyIsApplied` | `ReadyMeansApplied` | no reply is lost |
| `Scaling_proofs!UpscaleKeepsPods` | `UpscaleNeverRemoves` | a running cluster; no reply is lost; nodeSets only go |
| `Scaling_proofs!MastersLeaveOneByOne` | `OneMasterLeavesAtATime` | a running cluster; faults are failed calls; nodeSets only go and keep their master role |
| `Scaling_proofs!LeavingStayExcluded` | `LeavingMastersExcluded` | as `MastersLeaveOneByOne`, and every template is of version 7 or above |
| `Scaling_proofs!MastersJoinOneByOne` | `OneMasterJoinsAtATime` | as `MastersLeaveOneByOne` |
| `Scaling_proofs!DownscaleKeepsBudget` | `DownscaleKeepsAvailable` | a running cluster; faults are failed calls; nodeSets only go |
| `Scaling_proofs!RestartKeepsBudget` | `RestartKeepsAvailable` | a running cluster; faults are failed calls; nodeSets and nodes only go |
| `Scaling_proofs!AllocationWaitsForNodes` | `AllocationEnabledWhenBack` | as `RestartKeepsBudget` |
| `Scaling_proofs!MastersRestartOneByOne` | `OneMasterRestartsAtATime` | as `RestartKeepsBudget`, and masters stay and keep their role |
| `Scaling_proofs!DownscaleKeepsData` | `NoDataLoss` | as `RestartKeepsBudget`, and templates stay and no container crashes |
| `Scaling_proofs!RemovalWaitsForData` | `RemovedAfterMigration` | as `DownscaleKeepsData` |
| `Stack_proofs!AnnotationIsRight` | `NeverMarkedUnknown` | |
| `Stack_proofs!AssociationIsEstablished` | `EstablishedWhenQuiet` | |
| `Stack_proofs!DeploymentIsCurrent` | `TemplateCurrent` | |
| `Trial_proofs!TrialPromiseKept` | `TrialPromise` | |
| `Trial_proofs!TamperingIsUndone` | `TamperingUndone` | |
| `Licensing_proofs!RenewedInTime` | `RenewedBeforeExpiry` | outages shorter than half the margin; no late observation (`lag`) |
| `Licensing_proofs!ExpiredGivesWay` | `FallsBack` | no late observation (`lag`) |
| `Certificates_proofs!NothingServedExpires` | `CertificatesValid` | certificates live as long as their CA; outages shorter than the CA's margin by more than a unit |
| `Certificates_proofs!SecretsAgree` | `CertificatesConsistent` | no change of the custom secret before its first watch (`race`) |
| `Lifecycle_proofs!OperatorIsLetIn` | `OperatorLetIn` | |
| `Lifecycle_proofs!NotObservedAfterItsEnd` | `NotObservedWhenGone` | |
| `Lifecycle_proofs!RestsSettled` | `BudgetFollows` | no late caches where the code relies on them (`lag`) |

TLC finds a behaviour of the model that violates the property in an instance without
the hypothesis, which no configuration keeps unless a run is named; the end of this
section lists the hypotheses for which it finds none.

* `faults.cfg` with `FaultKinds = {"lost"}` violates `ReadyMeansApplied`: the reply to an
  update is lost, the user undoes the edit, and the cache still shows the StatefulSet of
  before. A lost reply breaks the theorems of `Scaling_proofs` in the same way: the
  upscale writes replicas back that an earlier pass had raised, and two downscales
  follow each other before the cache shows the first.
* A nodeSet added: run `stale_create`. A role changed: `RoleInitial` in section 3. A cluster that
  is not formed yet creates its StatefulSets and has the problem of `stale_create`.
* A restart of the operator forgets that a Pod was deleted. The Pod, created again and
  condemned by a downscale, is missing from the cache: the next pass clears the voting
  exclusions, or removes another master.
  `AllocationEnabledWhenBack` fails in the same way, in 55 states.
* A count that grows with a change of its template violates `RestartKeepsAvailable` in 26
  states, from one node in each of two nodeSets to one and three, with maxUnavailable 1: a
  Pod made of the new template, while the pass has the revision of before, is taken for
  one to upgrade; as it is not ready yet the budget does not hold it back, and it becomes
  ready, before the others are, until it is deleted.
* A lost reply violates `RestartKeepsAvailable` in 58 states (`rolling.cfg` with
  `FaultKinds = {"lost"}`, `MaxFaults = 1`).
* A master that leaves: `LeavingInitial` in section 3, for `OneMasterRestartsAtATime`.
* A container that crashes violates `NoDataLoss`, from one copy in two nodeSets of which
  the data nodeSet shrinks from three to one, in 18 states, and `RemovedAfterMigration`,
  with two copies on two masters and a data node, in 20 states: the node that stays goes
  between the list of shards and the removal. With a change of template, the run
  `lost_data` does.
* With a node of version 6 left, no master is excluded: one that stays and crashes leaves
  a cluster of version 7 whose leaving master is not excluded.
* `upkeep.cfg` violates the others: `MaxOutage = 2`; `lag` in `MCLicensingBudgets` with
  four changes and two events (a license replaced, and back, between two observations is
  not sent); `CertValidity = 5`; `MaxCertOutage = 2`; `race` in `MCCertScenarios`; `lag`
  in `MCLifecycleBudgets`.

The passing runs satisfy each hypothesis, but that `FaultKinds` of `zen` has the three
kinds, of which none happens as `MaxFaults` is 0, and that an operator restarts in `shift`.

* `EsDriver_proofs!TypeCorrect == Spec => []TypeOK`. `TypeOK` is not inductive:
  the steps of the downscale take the head of `down.plan` and index by the
  nodeSet being planned. The invariant is `TypeInv`, `TypeOK` and
  `DownscaleInProgress`: a downscale is only computed for a StatefulSet that has
  nodes to lose, and the plan is not empty while zen settings and replicas are
  updated for its head. One lemma per step, one
  per external process; the arithmetic of the budgets (`NodesToCreateBound`,
  `ToRemoveBound`) shows that adjusted replicas stay within what was asked for.
* `Expectations_proofs!ExpectationsAreSatisfiable == Spec => []ExpectationsSatisfiable`:
  the operator never waits for a generation that was not written or a deletion
  that was not accepted, through failed calls, lost replies, restarts, and
  objects created again under the same name. The invariant is `TypeInv` with the
  two halves of the property. The argument is monotonicity: the UID of a name
  never decreases, the generation of a UID never decreases, a terminating Pod of
  a UID stays so or goes; so that only a step that records an expectation has
  something to show. Recording a generation follows the write that returned it;
  recording a deletion precedes the call, and the cancellation when the call
  fails undoes it.

* `Expectations_proofs!ReadyIsApplied == "lost" \notin FaultKinds => (Spec => ReadyMeansApplied)`:
  a pass that reports Ready has StatefulSets as its specification wants them, through
  failed calls, restarts, edits and other passes. The invariant `ReadyInv` relates three
  copies of each StatefulSet: Kubernetes', the cache's and the pass's. The cache is
  behind the operator's own updates only, and those are expected (`CacheKnown`); past
  the check of expectations the pass is up to date with Kubernetes, but for a StatefulSet
  the downscale shrinks, which has too many nodes until the pass ends without Ready
  (`ActualCurrent`); so is the cache for what the pass has yet to write (`CacheCurrent`);
  and a plan of downscales is for StatefulSets that have to shrink (`PlanSound`). A
  StatefulSet created and not yet in the cache is the case that needs care: the check
  of expectations does not see it, the upscale writes it again. With a lost reply an
  update is not expected and `CacheKnown` fails, and so does the property.

* `Scaling_proofs`: ten theorems of a running cluster (`Bootstrapped`), in which
  `NodeSetsOnlyGo == [][es'.spec.sets \subseteq es.spec.sets]_es` says of the edits that
  no nodeSet is added. Counts and templates may change in any way; in the last five no
  count grows either (`NodeSetsOnlyShrink`), and in the last two no template changes
  (`TemplatesStay`).
  * `UpscaleKeepsPods == Bootstrapped /\ "lost" \notin FaultKinds => (Spec /\ NodeSetsOnlyGo
    => UpscaleNeverRemoves)`. `GoInv` adds to `ReadyInv`: every StatefulSet is in the
    cache and in the pass, since none is created (`Shrinking`); until the downscale
    writes, the pass has all of them as Kubernetes has them (`EarlyCurrent`), which holds
    when the pass starts by `ReadyInv`; and the adjusted replicas of a nodeSet the upscale
    has yet to apply are no fewer than there are (`ApplyGrows`): the master budget never
    takes away what is there already.
  * `MastersLeaveOneByOne == ... /\ FaultKinds \subseteq {"error"} /\ RolesStay => (... =>
    []OneMasterLeavesAtATime)`. A downscale finds a master leaving by looking at the Pods of
    its cache that are not in the pass's StatefulSets. `PodsInv` relates the two: what
    the cache has of a Pod that stays is current, or its deletion is expected
    (`PodsKnown`); past the check of expectations every Pod there is, cached or not,
    is one the pass names (`PodsNamed`), so that a pass that finds none leaving knows that
    none is; only such Pods are selected for a restart (`PodsSelected`); and a plan asks
    for no less than the specification (`PlanBounded`). `LeaveInv` says that roles are
    the same in every copy (`Roles`), that a plan with a removal of a master has one
    such removal, of one node, while no master leaves (`OneRemoval`), and that at most
    one leaves (`OneLeaves`).
  * `LeavingStayExcluded`: the exclusions cover the masters that leave
    (`LeavingExcluded`), and, between their update and the update of the replicas, the node
    about to go (`RemovedExcluded`), because a node the downscale removes is in the cache
    and makes `AllMastersZen2` true. `ClearVotingConfigExclusions` clears them only when
    `PodsNamed` says that no Pod leaves.
  * `MastersJoinOneByOne`: the upscale allows one master more when every master of the
    specification is in the cluster. `JoinInv` says that the pass asks Elasticsearch for
    its nodes only then, not before the expectations are checked (`AsksLate`); that when
    they are met every Pod that should be there is in the cache as it is (`PodsSeen`);
    and that among the replicas to apply one nodeSet of masters grows, by one, with every
    master there is in the cluster (`OneGrows`). A master created by an earlier pass is
    therefore seen as a Pod before the next decision, and as a node in it.
  * `DownscaleKeepsBudget == ... /\ FaultKinds \subseteq {"error"} => (... =>
    DownscaleKeepsAvailable)`: what a downscale leaves available is at least the nodes
    asked for less `maxUnavailable`, less one for each container that crashed. The
    downscale counts Pods of the cache. `BudgetInv` says what that count is worth: a Pod
    ready in the cache has been ready, and is, or its container crashes in a loop, unless
    it is another Pod since (`PhasesKnown`); `crashes` bounds the second kind
    (`CrashesCounted`); and until the plan is written, the Pods that stay are as many as
    the floor, and what the plan may still remove (`FloorKept`).
  * `RestartKeepsBudget == ... /\ FaultKinds \subseteq {"error"} => (Spec /\ NodeSetsOnlyShrink
    => RestartKeepsAvailable)`. As no count grows, what is asked for is there to be
    (`Descending`), and from the check of expectations until a Pod is deleted the pass sees
    every Pod there should be, and asks for the nodes after that (`SeenInv`): a Pod missed,
    or taken for ready while its container crashes in a loop, is one that crashed.
    `DoubtInv` counts: the Pods that may be unavailable (`Doubtful`: not ready or not joined, in Kubernetes or as far as
    the pass knows), those chosen to be deleted (`Held`) and the deletions left (`Spare`)
    are at most maxUnavailable and the crashes. A selection moves one from `Spare` to
    `Held`; `Held` and `Doubtful` overlap where an unhealthy Pod is chosen, which costs
    nothing.
  * `AllocationWaitsForNodes`: as long as the pass has deleted nothing, the nodes it knows
    cover its Pods only if they are every Pod there should be (`EnabledWhenBack`), and one
    that is terminating would be an expectation (`NodesBack`).
  * `MastersRestartOneByOne == ... /\ RolesStay => (Spec /\ MastersOnlyStay => ...)`: no master
    goes and none is added, so that the masters a selection sees are those that are
    expected (`MastersAsked`, `SelectedRoles`), and comparing two numbers compares two sets
    (`ExpectedStay`). `MastersCounted` is the count of `DoubtInv` for masters: those at
    risk, and one more while none is chosen and all look healthy, are at most
    one and the crashes.
  * `DownscaleKeepsData == ... /\ FaultKinds \subseteq {"error"} /\ MaxCrashes = 0 /\
    TemplatesStay => (Spec /\ NodeSetsOnlyShrink => []NoDataLoss)`. As no template changes
    (`Uniform`), no Pod is chosen for a restart (`NoUpgrade`), every Pod that is wanted is in
    the cluster (`Whole`), and a master is among them (`MasterStays`), so that the
    exclusions are never lost with the last master. `DataInv` says that every Pod that
    does not stay is excluded (`OthersExcluded`) and that a shard is always active on one
    that stays and moves to such Pods only (`DataSafe`). "Stays" (`Staying`) leaves out the
    nodes of a plan from the decision on: that the decision finds no shard on a node means
    that every copy is elsewhere, and elsewhere is a node that stays, because the
    exclusions Elasticsearch has are those of all the nodes of the downscale and not of
    one nodeSet (`PlanExcluded`). From the decision to the write copies go on moving, and
    none moves to a node about to go.
  * `RemovalWaitsForData == ... => (... => RemovedAfterMigration)`: by the same invariant
    each shard is active on a Pod that stays when a replica is taken away (`NoLastCopy`).

* `Stack_proofs`: three theorems on two controllers that write one resource and learn of
  the rest by watches, for any number of clusters and any budget of edits, deletions,
  failures and restarts.
  * `AnnotationIsRight == StackSpec => []NeverMarkedUnknown`. The invariant
    `AnnotationInv` is that no copy of the application, cached or held by a pass, is
    annotated when the application is not, and that a controller past its compatibility
    check, or with a service made, has left an annotation: `Keeps` says of every step that
    it removes none.
  * `AssociationIsEstablished == StackSpec => []EstablishedWhenQuiet`. `DetailsInv` adds
    what a pass has made so far, as long as no event has queued the application
    again (`InPass`), and what is left at rest (`AtRest`). The watch on the cluster and
    the one on its CA are registered before what they are on is read, and every later
    read is guarded by them; details and status are written by this controller only, so
    that a cached application with the real one's details and status has not been
    written by the pass since it was read.
  * `DeploymentIsCurrent == StackSpec => []TemplateCurrent`. `TemplateInv` adds the same
    for the application's controller (`DriverPassInv`): what it reads of its own secrets
    is guarded by the events of what it owns; the secure settings, which the user
    owns, by a watch registered before they are copied. `DriverUndisturbed` or
    `CallsDriver` is shown of every step of the others. The theorem composes both
    invariants: the copy of the CA is right because the association rests.

* `Trial_proofs!TrialPromiseKept == TrialSpec => TrialPromise`: the trial controller
  implements `TrialPeriod`, whatever the length of a trial, the dates its license comes
  with, the user's changes, the failed calls and the restarts (those of section 2: no
  forged signature, and no status secret deleted while no key is in memory). The invariant `TrialInv` adds to the types: the end about to be signed is that
  of the license that was fetched, or not later than that of a trial that starts now when
  it has none (`EndFixed`; a license that changed since is a conflict, so that
  what is signed is what the license asks for); the next key has signed nothing, and
  the user's key signs nothing; while the license is being signed the status secret
  holds that key or the user's, and nothing runs; the key in memory is the one
  recorded, unless the user changed it. `TrialInvariant` proves it. The refinement has
  one lemma for each way the phase may change: `PhaseKept` and `RecordsKept` for the
  steps that leave the signature and the key it is verified with alone (stale reads,
  relabelling, correcting the status secret), `PhaseLost` for those that leave
  something recorded that does not run; then `CreateStep` is Reserve or Lose, `SignStep`
  is Begin or Lose, `EditStep` and `CrashStep` lose the trial or leave it alone.

* `Trial_proofs!TamperingIsUndone == TrialSpec => []TamperingUndone`: with the trial
  running, a key the user changed is corrected before the controller comes to rest. The
  invariant `TamperInv` says where the correction is until then: in the queue, in the
  pass under way, which has the cached status secret or has yet to read it, or in the
  event to come of a license that was refused and so lost its label. It rests on caches
  being behind (a version of the status secret is written once, a license created again
  has another uid) and on an event that comes during a pass staying queued.

* `Licensing_proofs`: `LicensingInv` says when the license controller will look again:
  while half the margin is left to the license in the secret, unless the cluster is
  queued or retried (`Scheduled`). From it, a license that should have been followed by
  another is one whose renewal fell in the current outage (`LinkedRenewed`,
  `AppliedRenewed`), and an outage shorter than half the margin ends before the expiry.
  That Elasticsearch has the license of the secret unless the Elasticsearch controller is
  queued (`AppliedIsLinked`) needs an observer that is not behind: `updateLicense` sends
  nothing when the observed license is the one in the secret.

* `Certificates_proofs`: `ConsistencyInv` says, of a pass that nothing has disturbed, how
  far it has made the secrets agree (`HTTPProgress`, `TransportProgress`);
  `ValidityInv` that the CA a pass goes on with is not within its margin and that the
  pass asks to be queued before that (`PassProgress`), and that of everything served the
  CA is checked in time, or the operator has been stopped since (`ServedWatched`). A
  certificate is as good as its CA because it outlives it: hence the first hypothesis.

* `Lifecycle_proofs`: for the resource, `GoneInv`: every copy the operator holds of it
  is behind it in the order registered, deleted, gone, made again (`CopiesBehind`), so
  that a pass on an old copy cannot start an observer its finalizer has stopped. For the
  users, `LetInInv`: a pass that nothing has disturbed has seen the secrets agree as far
  as it has gone, or the cache is yet to show a write, which will queue it
  (`UserPending`, `RealmPending`). For the budget and the claims, `BudgetInv`: the
  StatefulSet in the cache is the real one or has a lesser generation (`SetsOrdered`), and
  what a pass writes follows the cached one, which is the real one if no event is to come.

TLC is also run on each property (`zen`, `faults`, `shift`, `stack`,
`upkeep`), and found most of the hypotheses: without one of them it has a
counterexample. With nodeSets added, a StatefulSet created and not yet cached escapes
the upscale and the master budget (`UpscaleNeverRemoves`, `OneMasterJoinsAtATime`);
with a lost reply the expectation of an update is not recorded (these two, and
`DownscaleKeepsAvailable`); a restart forgets the expectations of deletions, so that a
master about to come back is not counted (`OneMasterJoinsAtATime`). For
`DownscaleKeepsAvailable` it found none with restarts or with nodeSets added, in
instances of a few million states; for `RestartKeepsAvailable` none with restarts
(`rolling.cfg`, 2,847,820 states); for `OneMasterRestartsAtATime` none with restarts or
with a master added (three nodes, 974,684 and 305,749 states), while a lost reply
violates it in 60 states. There the hypotheses are what the invariant `PodsInv` needs,
and may not be necessary. `AllocationEnabledWhenBack` holds with one failed call (836,692
states). For `NoDataLoss` and `RemovedAfterMigration` it found none with counts that
grow again (two nodes, three edits, 43,614 states) or with a lost reply or a restart
(73,019 states). `Bootstrapped` is the scope of these theorems: a cluster that runs, with all of
its Pods, when the operator starts.

Only model-checked, with the reason:

* `BootstrapQuorumsIntersect`, `CanElect`, `ClaimsInUseKept`: the counterexamples of
  sections 3 and 8. These are true of their scenarios and not of the code in general: a
  theorem needs the scenario among its hypotheses.
* `UserWhenQuiet` and `CredentialsAccepted`: the counterexample of section 3.
* `EventuallySettled`: liveness under fairness, like ENABLED, is beyond this prover.

## 7. What the model leaves out, and approximations

* Conflicts compare values: an edit undone before the write, or a status write
  that only changes the health, is not seen as a conflict. A real conflict there
  only costs another pass.
* In the orchestration modules, health, finalizers, pause and users are left out; they are
  in `Lifecycle`, where the orchestration is reduced to one nodeSet that scales. Node
  counts and events of the status, the compatibility annotation of a cluster, seed hosts,
  scripts, headless services, the choice between clients of versions 6 and 7.
* Readiness and joining are independent: a Pod may be ready before it joins or
  join before it is ready.
* `calculatePerformableDownscale` asks for the shards once per node; the model
  asks once for the nodes of a plan.
* nodeSets of count 0 are excluded (`SpecsAssumption`): the upscale creates the
  StatefulSet and the downscale of the same pass deletes it, forever.
* Elasticsearch is modelled by what the operator relies on: a copy is absent,
  initializing, started, relocating or on the disk of a node that is out;
  replicas are allocated only while allocation is enabled; an excluded node gives
  its copies away when there is somewhere to put them. The election itself is not
  modelled: `CanElect` and `BootstrapQuorumsIntersect` are about majorities.

* Associations: the driver's services and Pod template are reduced to what the checksum
  covers; the cluster's Elasticsearch controller to adding user secrets to the file
  realm; rollout of a Deployment is one step. A cache lags per type, as in the
  orchestration, and secrets the application owns are read as they are.
* Licenses: the periodic resync of the informers is left out, which would hide
  `license_change` for up to its period. The observer's read of the applied license is
  prompt in the run.
* Certificates: stored and custom secrets are taken to be readable. An invalid custom
  secret stops the pass before the transport certificates; an update of a custom secret
  between the read and the registration of its watch is lost
  (`GetCustomCertificates`, the `race` flag, off in the run).
* Lifecycle: the observer notifies before it stores, so that a pass may read the old
  health with no event to follow: `BudgetFollows` assumes the stored health is the
  current one. The budget is read up to date. Disabled and user-defined budgets, the
  keystore's and HTTP watch's finalizers are left out. A user deletes only secrets
  the caches already show.

### Not modelled

Scripts, seed hosts, the keystore of a cluster and the cleanup of orphaned secrets,
which write or delete what the specification and the Pods say whatever was there; the
lookup that switches enterprise features on; process set-up, command line, deployment
tooling and tests.

## 8. Plan

What remains, in this order:

1. Proofs under the hypotheses that make them true: `CanElect`, which relates the plan of
   a downscale, the leaving Pods and minimum_master_nodes; `CredentialsAccepted` when a
   user secret is only deleted once the cache has it; the theorems of a running cluster
   for one to which nodes and nodeSets are added one edit at a time.
2. `Orchestration`, an abstract specification (a set of nodes with their data and
   roles; nodes join, leave, restart one budget at a time), which `EsDriver` is
   to implement; and an abstract `Expectations` (a cache barrier: a pass sees every
   write of earlier ones).
3. Fairness for `StackSpec` and the resulting "eventually established".
4. Read in the code of the orchestration and not yet kept as runs:
   * an error of Elasticsearch is dropped in `UpdateMinimumMasterNodesTo`
     (`zen1/minimum_masters.go:153`): a downscale from 2 masters to 1 goes on
     (`CanElect` with a fault);
   * the annotation of minimum_master_nodes keeps an old value when its write
     conflicts (`minimum_masters.go:173`), and a later pass then skips the call;
   * maxSurge is spent once per nodeSet (`upscale_state.go:144`);
   * a restart of the operator forgets the deletions it made
     (`AllocationEnabledWhenBack` and `LeavingMastersExcluded` with `MaxFaults` 1);
   * a StatefulSet with no published revision has all its Pods to upgrade, and
     the forced upgrade deletes Pods that are only starting (`upgrade.go:217`);
   * Ready does not say that the Pods run (`nodes.go:144`).

## 9. Running

    tlc -workers 2 -config rolling.cfg MCEsDriver.tla
    tlapm EsDriver_proofs.tla
    tlc -workers 2 -config stack.cfg MCStack.tla
    tlc -workers 2 -config upkeep.cfg MCUpkeep.tla
    tlapm Expectations_proofs.tla
    tlapm Scaling_proofs.tla
    tlapm Stack_proofs.tla
    tlapm Trial_proofs.tla
    tlapm Licensing_proofs.tla
    tlapm Certificates_proofs.tla
    tlapm Lifecycle_proofs.tla

Each run ends within four minutes on two cores, each proof within six, but for
`Scaling_proofs`, which takes about ten. In `Stack_proofs` the SMT backend gives up on one
obligation with a message, and Zenon proves it.
