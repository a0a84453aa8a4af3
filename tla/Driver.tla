------------------------------- MODULE Driver -------------------------------
(***************************************************************************)
(* What the phases of a reconciliation share: the Elasticsearch resource   *)
(* and its cached copy, the work queue, the state one reconciliation       *)
(* carries from call to call, and the ways a call may end.                 *)
(***************************************************************************)
EXTENDS Expectations, Integers, Sequences

CONSTANTS
  Specs,          \* the specifications a user may apply
  InitialSpec,    \* the one the cluster starts from
  Bootstrapped,   \* whether the cluster starts formed, with InitialSpec reached
  MaxSurge,       \* changeBudget.maxSurge, negative when unbounded
  MaxUnavailable, \* changeBudget.maxUnavailable, negative when unbounded
  MaxSpecChanges, \* bound on the edits of the specification
  FaultKinds,     \* those that happen, of "error", "lost" and "restart"
  MaxFaults       \* bound on failed calls, lost replies and operator restarts

SpecRecords ==
  [sets : SUBSET NodeSets, count : [NodeSets -> 0 .. MaxReplicas],
   tmpl : [NodeSets -> Templates]]

\* Validated specifications: at least one master, one version.  A nodeSet of
\* count 0 is left out: its StatefulSet is created and deleted over and over.
ASSUME SpecsAssumption ==
  /\ Specs \subseteq SpecRecords
  /\ InitialSpec \in Specs
  /\ \A spec \in Specs :
       /\ \E s \in spec.sets : spec.tmpl[s].master
       /\ \A s \in spec.sets : spec.count[s] > 0
       /\ \A s, t \in spec.sets : spec.tmpl[s].major = spec.tmpl[t].major
ASSUME BudgetAssumption == MaxSurge \in Int /\ MaxUnavailable \in Int
ASSUME BoundsAssumption == MaxSpecChanges \in Nat /\ MaxFaults \in Nat
ASSUME FaultKindsAssumption == FaultKinds \subseteq {"error", "lost", "restart"}
ASSUME BootstrappedAssumption == Bootstrapped \in BOOLEAN

VARIABLES
  es,          \* the Elasticsearch resource: spec, annotations, status.phase
  cEs,         \* the operator's cached copy of it
  observed,    \* the cluster UUID is in the last state the observer stored
  observing,   \* what it found and notified, and has not stored yet: a set
  specChanges, \* edits of the specification so far
  faults,      \* faults so far
  queued,      \* the cluster is in the work queue
  pc,          \* where the worker is
  pass,        \* what the reconciliation in progress carries
  up,          \* upscale phase: replicas to apply, nodeSets left to apply
  down,        \* downscale phase
  roll         \* rolling upgrade phase

resourceVars == <<es, cEs, observed, observing, specChanges>>
phaseVars == <<up, down, roll>>
driverVars == <<resourceVars, faults, queued, pc, pass, phaseVars>>

-----------------------------------------------------------------------------
Locations ==
  {"idle", "uuid", "retrieve", "expect", "adjust", "apply", "zen1", "zen2",
   "downscale", "calculate", "attempt", "dsZen1", "dsZen2", "dsUpdate",
   "rolling", "select", "rollZen1", "rollZen2", "delete", "force", "enable",
   "ready", "status", "panic"}

OrchestrationPhases == {"", "ApplyingChanges", "MigratingData", "Ready"}

Resources ==
  [spec : Specs, uuid : BOOLEAN, mmn : Nat, phase : OrchestrationPhases]

\* "start" and "snap" are the resource as of the resourceVersions that the
\* controller and the driver send with an update; "mine" is the driver's
\* working copy.  A value the driver asks Elasticsearch for once in a
\* reconciliation is a set, empty until it is known.
Passes ==
  [start : Resources, snap : Resources, mine : Resources, reachable : BOOLEAN,
   actual : [NodeSets -> StatefulSets], phase : OrchestrationPhases,
   requeue : BOOLEAN, nodes : SUBSET SUBSET Pods, enabled : SUBSET BOOLEAN]

NewPass(resource) ==
  [start |-> resource, snap |-> resource, mine |-> resource,
   reachable |-> FALSE, actual |-> [s \in NodeSets |-> NoStatefulSet(0)],
   phase |-> resource.phase, requeue |-> FALSE, nodes |-> {}, enabled |-> {}]

\* What the three phases keep while they last; a downscale is planned for a
\* nodeSet, down to a target.
Upscaling ==
  [replicas : [NodeSets -> 0 .. MaxReplicas], config : [NodeSets -> Configs],
   todo : SUBSET NodeSets]
Plans == [set : NodeSets, target : 0 .. MaxReplicas]
Downscaling ==
  [removals : Int, masters : Int, leaving : BOOLEAN, todo : SUBSET NodeSets,
   plan : Seq(Plans), nodes : SUBSET Pods, target : 0 .. MaxReplicas]
Rolling ==
  [seen : [Pods -> PodRecords], upgrade : SUBSET Pods, healthy : SUBSET Pods,
   todo : SUBSET Pods, selected : SUBSET Pods, allowed : Int, reached : BOOLEAN,
   green : SUBSET BOOLEAN, master : BOOLEAN, deleted : BOOLEAN]

NoUp == [replicas |-> [s \in NodeSets |-> 0], config |-> [s \in NodeSets |-> NoConfig],
         todo |-> {}]
NoDown == [removals |-> 0, masters |-> 0, leaving |-> FALSE, todo |-> {},
           plan |-> <<>>, nodes |-> {}, target |-> 0]
NoRoll == [seen |-> [p \in Pods |-> NoPod(0)], upgrade |-> {}, healthy |-> {},
           todo |-> {}, selected |-> {}, allowed |-> 0, reached |-> FALSE,
           green |-> {}, master |-> FALSE, deleted |-> FALSE]

-----------------------------------------------------------------------------
Desired == pass.mine.spec
MajorOf(spec) == LET s == CHOOSE s \in spec.sets : TRUE IN spec.tmpl[s].major
DesiredMajor == MajorOf(Desired)
LeastOf(S) == CHOOSE m \in S : \A n \in S : m <= n
NodeCount(replicas, S) ==
  Cardinality({p \in Pods : p[1] \in S /\ p[2] < replicas[p[1]]})
DesiredNodeCount == NodeCount(Desired.count, Desired.sets)
ReplicasOf(ssets) == [s \in NodeSets |-> ssets[s].replicas]
ActualNodeCount == NodeCount(ReplicasOf(pass.actual), NodeSets)

\* Template hash labels: a label the operator rendered hashes the replicas and
\* the template it asked for; one it computed from what the API server returned
\* also covers the defaulted fields and equals no rendered one.
EqualTemplateHash(s, replicas, tmpl) ==
  s.rendered /\ s.replicas = replicas /\ s.tmpl = tmpl

\* GetActualMastersForCluster reads the cache, terminating Pods included.
Masters == {p \in Existing(cPod) : cPod[p].tmpl.master}

AtLeastOneZen1(ssets) ==
  \/ \E p \in Masters : cPod[p].tmpl.major < 7
  \/ \E s \in NodeSets : ssets[s].exists /\ ssets[s].tmpl.major < 7
\* Seeded defect: version 7 is not taken for a zen2 version.
AllMastersAboveZen2 ==
  Masters # {} /\ \A p \in Masters : cPod[p].tmpl.major > 7
AllMastersZen2 ==
  Masters # {} /\ \A p \in Masters : cPod[p].tmpl.major >= 7

\* How a call may end: it may fail, or succeed with its reply lost.
Outcomes ==
  {"ok"} \cup IF faults < MaxFaults THEN {"error", "lost"} \cap FaultKinds ELSE {}
EsOutcomes == IF Formed THEN Outcomes ELSE {"error"}
Account(o) == faults' = IF o = "ok" THEN faults ELSE faults + 1
EsAccount(o) == IF Formed THEN Account(o) ELSE UNCHANGED faults
\* Seeded defect: nothing is ever tried again by itself.
NeverRequeue(c) == c
Requeue(c) == [c EXCEPT !.requeue = TRUE]

\* NodesInCluster asks Elasticsearch for its nodes once per reconciliation.
KnownNodes == IF pass.nodes = {} THEN joined ELSE UNION pass.nodes
WithNodes(c) == [c EXCEPT !.nodes = {KnownNodes}]

\* UpdateMinimumMasterNodesTo: nothing to do when the annotation has the value;
\* an error of Elasticsearch is dropped; the annotation is written with the
\* driver's resourceVersion, which it does not refresh.  A conflict leads to
\* "refused", as its caller makes of it, any other failure ends the pass.
UpdateMinimumMasterNodesTo(n, next, refused) ==
  IF n = pass.mine.mmn
    THEN /\ pc' = next
         /\ UNCHANGED <<mmn, es, faults, pass>>
    ELSE \E o \in EsOutcomes :
           /\ mmn' = IF o = "error" THEN mmn ELSE n
           /\ IF o # "ok"
                THEN /\ pc' = next
                     /\ EsAccount(o)
                     /\ UNCHANGED <<es, pass>>
                ELSE \E w \in Outcomes :
                       LET conflict == es # pass.snap
                           failed == conflict \/ w # "ok"
                           mine == [pass EXCEPT !.mine.mmn = n]
                       IN /\ es' = IF conflict \/ w = "error" THEN es
                                   ELSE [es EXCEPT !.mmn = n]
                          /\ Account(w)
                          /\ pass' = IF failed THEN Requeue(mine) ELSE mine
                          /\ pc' = CASE conflict /\ w = "ok" -> refused
                                     [] w # "ok" -> "status"
                                     [] OTHER -> next

DriverTypeOK ==
  /\ es \in Resources
  /\ cEs \in Resources
  /\ observed \in BOOLEAN
  /\ observing \subseteq BOOLEAN
  /\ specChanges \in 0 .. MaxSpecChanges
  /\ faults \in 0 .. MaxFaults
  /\ queued \in BOOLEAN
  /\ pc \in Locations
  /\ pass \in Passes
  /\ up \in Upscaling
  /\ down \in Downscaling
  /\ roll \in Rolling
=============================================================================
