------------------------------- MODULE Watches -------------------------------
(***************************************************************************)
(* common/watches: the registries through which a controller asks, at run  *)
(* time, to be called for resources it does not own.  A registry maps a    *)
(* key to the resources watched under it, for one watcher each time.  The  *)
(* mutex makes each operation, and the delivery of one event, atomic.      *)
(***************************************************************************)
EXTENDS Naturals, FiniteSets

\* NewDynamicEnqueueRequest
NoHandlers == [key \in {} |-> {}]

\* NewDynamicWatches, of the two registries that are used.
NewDynamicWatches == [ElasticsearchClusters |-> NoHandlers, Secrets |-> NoHandlers]

\* Seeded defect: the first registration of a key is kept.
AddHandlerOnce(registrations, key, watched) ==
  IF key \in DOMAIN registrations THEN registrations
  ELSE [k \in DOMAIN registrations \cup {key} |->
          IF k = key THEN watched ELSE registrations[k]]

\* AddHandler: a registration of the same key is replaced, not completed.
AddHandler(registrations, key, watched) ==
  [k \in DOMAIN registrations \cup {key} |->
     IF k = key THEN watched ELSE registrations[k]]

RemoveHandlerForKey(registrations, key) ==
  [k \in DOMAIN registrations \ {key} |-> registrations[k]]

\* NamedWatch.toReconcileRequest: the watcher hears of the watched resources.
ToReconcileRequest(watched, resource) == resource \in watched

\* Create, Update and Delete of DynamicEnqueueRequest: an event goes through
\* every registration of the moment.
Enqueues(registrations, resource) ==
  \E k \in DOMAIN registrations : ToReconcileRequest(registrations[k], resource)
=============================================================================
