----------------------------- MODULE Kubernetes -----------------------------
(***************************************************************************)
(* The part of Kubernetes the operator orchestrates an Elasticsearch       *)
(* cluster through: the StatefulSets and Pods of the API server, and the   *)
(* informer cache the operator reads them from.                            *)
(*                                                                         *)
(* Nothing here is code of the repository: it is what the operator's code  *)
(* relies on.  StatefulSets are OnDelete and Parallel, as                  *)
(* nodespec/statefulset.go builds them: their controller creates every     *)
(* missing Pod and deletes every Pod above the replicas at once, and never *)
(* replaces a Pod because its template changed.                            *)
(***************************************************************************)
EXTENDS Naturals, FiniteSets

CONSTANTS
  NodeSets,      \* the names of the nodeSets; the order of numbers is both the
                 \* order of the specification and the order of the names
  MaxReplicas,   \* bound on the replicas of a StatefulSet
  Templates,     \* pod templates: [master, data : BOOLEAN, major : {6, 7}, rev : Nat]
  NoRevision,    \* the empty status.updateRevision of a new StatefulSet
  MaxIncarnations \* bound on the UIDs a Pod name takes, one after the other

ASSUME NodeSetsAssumption == NodeSets \subseteq Nat /\ IsFiniteSet(NodeSets)
ASSUME MaxReplicasAssumption == MaxReplicas \in Nat \ {0}
ASSUME TemplatesAssumption ==
  /\ Templates \subseteq [master : BOOLEAN, data : BOOLEAN, major : {6, 7}, rev : Nat]
  /\ Templates # {}
  /\ NoRevision \notin Templates
ASSUME MaxIncarnationsAssumption == MaxIncarnations \in Nat

VARIABLES
  sset,    \* StatefulSets of the API server
  pod,     \* Pods of the API server
  cSset,   \* StatefulSets in the operator's cache
  cPod,    \* Pods in the operator's cache
  config   \* the configuration Secret of each nodeSet, mounted in its Pods

kubernetesVars == <<sset, pod, cSset, cPod, config>>

-----------------------------------------------------------------------------
Ordinals == 0 .. MaxReplicas - 1
Pods == NodeSets \X Ordinals
Uids == Nat
NextUid(u) == u + 1

StatefulSets ==
  [exists : BOOLEAN, uid : Uids, gen : Nat, replicas : 0 .. MaxReplicas,
   tmpl : Templates, upd : Templates \cup {NoRevision}, rendered : BOOLEAN]

Phases == {"Pending", "Running", "Looping", "Ready"}

PodRecords ==
  [exists : BOOLEAN, uid : Uids, tmpl : Templates, phase : Phases,
   terminating : BOOLEAN, boot : SUBSET Pods]

\* Of elasticsearch.yml: discovery.zen.minimum_master_nodes (0 when absent) and
\* cluster.initial_master_nodes (empty when absent).
Configs == [mmn : Nat, initial : SUBSET Pods]
NoConfig == [mmn |-> 0, initial |-> {}]

SomeTemplate == CHOOSE t \in Templates : TRUE

\* What is left of a name nothing exists under: the UID its last holder had.
NoStatefulSet(uid) ==
  [exists |-> FALSE, uid |-> uid, gen |-> 0, replicas |-> 0,
   tmpl |-> SomeTemplate, upd |-> NoRevision, rendered |-> FALSE]

NoPod(uid) ==
  [exists |-> FALSE, uid |-> uid, tmpl |-> SomeTemplate, phase |-> "Pending",
   terminating |-> FALSE, boot |-> {}]

NewStatefulSet(uid, replicas, tmpl) ==
  [exists |-> TRUE, uid |-> uid, gen |-> 1, replicas |-> replicas,
   tmpl |-> tmpl, upd |-> NoRevision, rendered |-> TRUE]

NewPod(uid, tmpl) ==
  [exists |-> TRUE, uid |-> uid, tmpl |-> tmpl, phase |-> "Pending",
   terminating |-> FALSE, boot |-> {}]

\* A write of the spec bumps the generation only when it changes the spec.
WrittenStatefulSet(s, replicas, tmpl, rendered) ==
  [s EXCEPT !.replicas = replicas, !.tmpl = tmpl, !.rendered = rendered,
            !.gen = IF s.replicas = replicas /\ s.tmpl = tmpl THEN @ ELSE @ + 1]

Existing(pods) == {p \in Pods : pods[p].exists}
IsPodReady(pods, p) == pods[p].exists /\ pods[p].phase = "Ready"
PodNames(ssets, s) ==
  {p \in Pods : p[1] = s /\ ssets[s].exists /\ p[2] < ssets[s].replicas}

\* The StatefulSet controller keeps a Pod of this name.
Wanted(p) == sset[p[1]].exists /\ p[2] < sset[p[1]].replicas

-----------------------------------------------------------------------------
(***************************************************************************)
(* The StatefulSet controller.                                             *)
(***************************************************************************)
\* It observes the template and publishes the revision of it.
PublishRevision(s) ==
  /\ sset[s].exists
  /\ sset[s].upd # sset[s].tmpl
  /\ sset' = [sset EXCEPT ![s].upd = sset[s].tmpl]
  /\ UNCHANGED <<pod, cSset, cPod, config>>

\* It creates a missing Pod, from the template it last observed: the current
\* one, or the one whose revision it published.  It publishes the revision of
\* what it created at the end of its own pass.
CreatePod(p, t) ==
  /\ Wanted(p)
  /\ ~pod[p].exists
  /\ pod[p].uid < MaxIncarnations
  /\ t \in {sset[p[1]].tmpl, sset[p[1]].upd} \ {NoRevision}
  /\ pod' = [pod EXCEPT ![p] = NewPod(NextUid(pod[p].uid), t)]
  /\ UNCHANGED <<sset, cSset, cPod, config>>

\* It deletes a Pod above the replicas; the garbage collector deletes one
\* whose StatefulSet is gone.
CondemnPod(p) ==
  /\ pod[p].exists
  /\ ~pod[p].terminating
  /\ ~Wanted(p)
  /\ pod' = [pod EXCEPT ![p].terminating = TRUE]
  /\ UNCHANGED <<sset, cSset, cPod, config>>

(***************************************************************************)
(* The kubelet.                                                            *)
(***************************************************************************)
\* The node reads its configuration as it starts.
StartPod(p) ==
  /\ pod[p].exists
  /\ pod[p].phase = "Pending"
  /\ ~pod[p].terminating
  /\ pod' = [pod EXCEPT ![p].phase = "Running", ![p].boot = config[p[1]].initial]
  /\ UNCHANGED <<sset, cSset, cPod, config>>

ReadyPod(p) ==
  /\ pod[p].exists
  /\ pod[p].phase \in {"Running", "Looping"}
  /\ ~pod[p].terminating
  /\ pod' = [pod EXCEPT ![p].phase = "Ready"]
  /\ UNCHANGED <<sset, cSset, cPod, config>>

\* The container of the Pod exits and is restarted.
CrashPod(p) ==
  /\ pod[p].exists
  /\ pod[p].phase \in {"Running", "Ready"}
  /\ pod' = [pod EXCEPT ![p].phase = "Looping"]
  /\ UNCHANGED <<sset, cSset, cPod, config>>

RemovePod(p) ==
  /\ pod[p].exists
  /\ pod[p].terminating
  /\ pod' = [pod EXCEPT ![p] = NoPod(pod[p].uid)]
  /\ UNCHANGED <<sset, cSset, cPod, config>>

(***************************************************************************)
(* The watches of the operator bring one kind of resource up to date.  The *)
(* caches of different kinds are not synchronised with each other.         *)
(***************************************************************************)
SyncStatefulSets ==
  /\ cSset # sset
  /\ cSset' = sset
  /\ UNCHANGED <<sset, pod, cPod, config>>

SyncPods ==
  /\ cPod # pod
  /\ cPod' = pod
  /\ UNCHANGED <<sset, pod, cSset, config>>

-----------------------------------------------------------------------------
KubernetesTypeOK ==
  /\ sset \in [NodeSets -> StatefulSets]
  /\ cSset \in [NodeSets -> StatefulSets]
  /\ pod \in [Pods -> PodRecords]
  /\ cPod \in [Pods -> PodRecords]
  /\ config \in [NodeSets -> Configs]
=============================================================================
