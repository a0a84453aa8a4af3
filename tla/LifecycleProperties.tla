------------------------- MODULE LifecycleProperties -------------------------
(***************************************************************************)
(* What the operator owes an Elasticsearch resource through its life.      *)
(***************************************************************************)
EXTENDS Lifecycle

LifecycleQuiet == lifePass.pc = "idle" /\ ~lifeQueue /\ cache = Objects

Alive == resource.uid # 0 /\ ~resource.deleting

\* When nothing is left to do, the operator's own user is let in by Elasticsearch,
\* and it is with its password that the cluster is observed: whichever secret was
\* deleted, by the user or with an earlier resource of the same name (ReconcileUsers,
\* Observe).
OperatorLetIn ==
  LifecycleQuiet /\ Alive =>
    /\ internalUsers.password # 0
    /\ fileRealm.password = internalUsers.password
    /\ observers.password = internalUsers.password

\* A cluster that is gone is not observed any more (the observer's Finalizer).
NotObservedWhenGone == resource.uid = 0 => observers.password = 0

\* No claim is deleted of a Pod that its StatefulSet has or is about to create: those
\* that go are "ones that can be safely removed based on Pods of actual and expected
\* StatefulSets" (pvcsToRemove).
ClaimsInUseKept ==
  [][\A p \in claims \ claims' : p \notin PVCNames(statefulSet.replicas)]_lifecycleVars

\* When nothing is left to do, no claim is kept of a node that is gone, and the
\* disruption budget is the one for the nodes and for the health of the cluster,
\* which the status shows (pdb.Reconcile, healthChangeListener).
BudgetFollows ==
  (LifecycleQuiet /\ Alive /\ observers.health = health /\ observers.seen = "nothing") =>
    /\ resource.health = health
    /\ pdb = [owner |-> resource.uid,
              available |-> OtherNodes + statefulSet.replicas - IF health = "green" THEN 1 ELSE 0]
    /\ claims \subseteq PVCNames(resource.count)
=============================================================================
