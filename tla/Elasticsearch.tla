---------------------------- MODULE Elasticsearch ----------------------------
(***************************************************************************)
(* The Elasticsearch cluster that runs in the Pods, as far as the operator *)
(* reads it (nodes, health, shards, shard allocation) and writes it        *)
(* (shard allocation, allocation exclusions, voting configuration          *)
(* exclusions, minimum_master_nodes).  Nothing here is code of the         *)
(* repository: it is what the operator's requests rely on.                 *)
(***************************************************************************)
EXTENDS Kubernetes

CONSTANTS
  Shards,    \* the shards of the indices
  Copies,    \* number of copies of a shard: its primary and its replicas
  MaxCrashes \* bound on the containers that crash

ASSUME ShardsAssumption == IsFiniteSet(Shards)
ASSUME CopiesAssumption == Copies \in Nat \ {0}
ASSUME MaxCrashesAssumption == MaxCrashes \in Nat

VARIABLES
  joined,      \* the nodes of the cluster
  allocation,  \* cluster.routing.allocation.enable
  excluded,    \* cluster.routing.allocation.exclude._name
  voting,      \* voting configuration exclusions (zen2)
  mmn,         \* discovery.zen.minimum_master_nodes set through the API (zen1)
  copy,        \* copy[s][p]: the copy of shard s on the node or the disk of p
  crashes      \* containers that crashed so far

elasticsearchVars == <<joined, allocation, excluded, voting, mmn, copy, crashes>>
settingsVars == <<allocation, excluded, voting, mmn>>

-----------------------------------------------------------------------------
\* A "target" is the initializing copy a "relocating" one moves to; a copy is
\* "recovering" when it is initializing and moves nothing.  When its node is
\* down, the last active copy of a shard is on "disk", ready to start again;
\* any other is "stale", it must recover from an active one.
CopyStates ==
  {"none", "recovering", "target", "started", "relocating", "disk", "stale"}

IsMaster(p) == pod[p].tmpl.master
Formed == \E p \in joined : IsMaster(p)
ActiveCopies(s) == {p \in Pods : copy[s][p] \in {"started", "relocating"}}
AssignedCopies(s) ==
  {p \in Pods : copy[s][p] \in {"started", "relocating", "recovering"}}
Green == Formed /\ \A s \in Shards : Cardinality(ActiveCopies(s)) = Copies

Quorum(n) == IF n = 0 THEN 0 ELSE (n \div 2) + 1

\* The copies of s once the node p is gone: what p was still receiving is lost,
\* and a relocation p took part in is cancelled.
CopiesWithout(s, p) ==
  [q \in Pods |->
     IF q = p
       THEN CASE copy[s][p] \in {"recovering", "target"} -> "none"
              [] p \in ActiveCopies(s) ->
                   IF ActiveCopies(s) = {p} THEN "disk" ELSE "stale"
              [] OTHER -> copy[s][p]
       ELSE CASE copy[s][q] = "target" /\ copy[s][p] = "relocating" -> "none"
              [] copy[s][q] = "relocating" /\ copy[s][p] = "target" -> "started"
              [] OTHER -> copy[s][q]]

\* The allocation settings are transient: they go with the last master.
Leave(p) ==
  LET left == joined \ {p}
      masterLeft == \E q \in left : IsMaster(q)
  IN /\ joined' = left
     /\ copy' = IF p \in joined THEN [s \in Shards |-> CopiesWithout(s, p)] ELSE copy
     /\ allocation' = IF masterLeft THEN allocation ELSE "all"
     /\ excluded' = IF masterLeft THEN excluded ELSE {}
     /\ UNCHANGED <<voting, mmn>>

-----------------------------------------------------------------------------
(***************************************************************************)
(* Nodes come and go with their containers.  A master-eligible node forms  *)
(* the cluster when there is none; any other node needs a formed one.      *)
(***************************************************************************)
JoinCluster(p) ==
  /\ pod[p].exists
  /\ pod[p].phase # "Pending"
  /\ ~pod[p].terminating
  /\ p \notin joined
  /\ Formed \/ IsMaster(p)
  /\ joined' = joined \cup {p}
  /\ UNCHANGED <<settingsVars, copy, crashes, kubernetesVars>>

NodeCrashes(p) ==
  /\ crashes < MaxCrashes
  /\ CrashPod(p)
  /\ Leave(p)
  /\ crashes' = crashes + 1

NodeStops(p) ==
  /\ RemovePod(p)
  /\ Leave(p)
  /\ UNCHANGED crashes

(***************************************************************************)
(* The shard allocator.  With allocation set to "primaries" it moves and   *)
(* assigns nothing but the only active copy of a shard.                    *)
(***************************************************************************)
SetCopy(s, p, state) == copy' = [copy EXCEPT ![s][p] = state]

\* A node that is back starts the copy it has on disk if it was the last one.
StartFromDisk(s, p) ==
  /\ Formed
  /\ p \in joined
  /\ copy[s][p] = "disk"
  /\ SetCopy(s, p, "started")
  /\ UNCHANGED <<joined, settingsVars, crashes, kubernetesVars>>

\* A stale copy recovers from an active one, or is dropped when the shard has
\* all its copies without it.
RecoverStale(s, p) ==
  /\ Formed
  /\ p \in joined
  /\ copy[s][p] = "stale"
  /\ ActiveCopies(s) # {}
  /\ IF Cardinality(AssignedCopies(s)) < Copies
       THEN allocation = "all" /\ SetCopy(s, p, "recovering")
       ELSE SetCopy(s, p, "none")
  /\ UNCHANGED <<joined, settingsVars, crashes, kubernetesVars>>

\* A replica that has no copy is built on another node.
AllocateReplica(s, p) ==
  /\ Formed
  /\ allocation = "all"
  /\ ActiveCopies(s) # {}
  /\ Cardinality(AssignedCopies(s)) < Copies
  /\ p \in joined \ excluded
  /\ copy[s][p] = "none"
  /\ SetCopy(s, p, "recovering")
  /\ UNCHANGED <<joined, settingsVars, crashes, kubernetesVars>>

\* A copy moves away from an excluded node.
StartRelocation(s, p, q) ==
  /\ Formed
  /\ p \in joined \cap excluded
  /\ q \in joined \ excluded
  /\ copy[s][p] = "started"
  /\ copy[s][q] = "none"
  /\ \A r \in Pods : copy[s][r] # "relocating"
  /\ allocation = "all" \/ ActiveCopies(s) = {p}
  /\ copy' = [copy EXCEPT ![s][p] = "relocating", ![s][q] = "target"]
  /\ UNCHANGED <<joined, settingsVars, crashes, kubernetesVars>>

FinishRecovery(s, p) ==
  /\ copy[s][p] = "recovering"
  /\ ActiveCopies(s) # {}
  /\ SetCopy(s, p, "started")
  /\ UNCHANGED <<joined, settingsVars, crashes, kubernetesVars>>

FinishRelocation(s, p, q) ==
  /\ copy[s][p] = "relocating"
  /\ copy[s][q] = "target"
  /\ copy' = [copy EXCEPT ![s][p] = "none", ![s][q] = "started"]
  /\ UNCHANGED <<joined, settingsVars, crashes, kubernetesVars>>

-----------------------------------------------------------------------------
(***************************************************************************)
(* What moves without the operator.                                        *)
(***************************************************************************)
StatefulSetController ==
  \/ \E s \in NodeSets : PublishRevision(s) /\ UNCHANGED elasticsearchVars
  \/ \E p \in Pods, t \in Templates : CreatePod(p, t) /\ UNCHANGED elasticsearchVars
  \/ \E p \in Pods : CondemnPod(p) /\ UNCHANGED elasticsearchVars

Kubelet ==
  \/ \E p \in Pods : StartPod(p) /\ UNCHANGED elasticsearchVars
  \/ \E p \in Pods : ReadyPod(p) /\ UNCHANGED elasticsearchVars
  \/ \E p \in Pods : NodeCrashes(p)
  \/ \E p \in Pods : NodeStops(p)

Cluster ==
  \/ \E p \in Pods : JoinCluster(p)
  \/ \E s \in Shards, p \in Pods : StartFromDisk(s, p)
  \/ \E s \in Shards, p \in Pods : RecoverStale(s, p)
  \/ \E s \in Shards, p \in Pods : AllocateReplica(s, p)
  \/ \E s \in Shards, p, q \in Pods : StartRelocation(s, p, q)
  \/ \E s \in Shards, p \in Pods : FinishRecovery(s, p)
  \/ \E s \in Shards, p, q \in Pods : FinishRelocation(s, p, q)

ElasticsearchTypeOK ==
  /\ joined \subseteq Pods
  /\ allocation \in {"all", "primaries"}
  /\ excluded \subseteq Pods
  /\ voting \subseteq Pods
  /\ mmn \in Nat
  /\ copy \in [Shards -> [Pods -> CopyStates]]
  /\ crashes \in 0 .. MaxCrashes
=============================================================================
