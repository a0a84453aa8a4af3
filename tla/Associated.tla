----------------------------- MODULE Associated -----------------------------
(***************************************************************************)
(* What the controllers of an application (Kibana, Logstash or APM server) *)
(* share: the resource of the application, the secrets made for it, the    *)
(* Elasticsearch clusters it may refer to, the caches and work queues, and *)
(* all that changes them from outside: the user, the Elasticsearch         *)
(* controller, Kubernetes.                                                 *)
(*                                                                         *)
(* A write of a resource fails with a conflict when the resource is not    *)
(* the one the writer read; resource versions are modelled by the content. *)
(* The application, the clusters, their CAs and the user secrets are read  *)
(* from caches that follow the API server one resource at a time.  The     *)
(* secrets of the application's own namespace are read as they are: what   *)
(* is late there is met again when its event comes.                        *)
(***************************************************************************)
EXTENDS Watches

CONSTANTS
  Clusters,       \* names of the Elasticsearch clusters
  Home,           \* the namespace of the application
  NamespaceOf,    \* NamespaceOf[e]: the namespace of cluster e
  FirstCluster,   \* one of them, for the numbering of their CAs
  NoCluster,      \* an empty elasticsearchRef
  Scenarios       \* where to start from, and what may go wrong or change

(***************************************************************************)
(* A scenario: the kind of the application, whether it is new or already   *)
(* established with the cluster it refers to, that cluster, the clusters   *)
(* that exist, and the bounds on the user's edits, on what happens to the  *)
(* clusters and the secrets, on failing calls to the API server, and on    *)
(* restarts of the operator.                                               *)
(***************************************************************************)
Kinds == {"kibana", "logstash", "apm"}

ASSUME AssociatedAssumption ==
  /\ IsFiniteSet(Clusters)
  /\ NoCluster \notin Clusters
  /\ \A s \in Scenarios :
       /\ s.kind \in Kinds /\ s.new \in BOOLEAN
       /\ s.ref \in Clusters /\ s.clusters \subseteq Clusters
       /\ s.new \/ s.ref \in s.clusters
       /\ s.budget \in [edits : Nat, events : Nat, faults : Nat, crashes : Nat]

VARIABLES
  kind,        \* the kind of the application, chosen once
  app, cApp,   \* the resource of the application, and the cached one
  es, cEs,     \* es[e]: cluster e exists; the same in the cache
  ca, cCa,     \* ca[e]: the CA of e's public certificates secret, 0 when absent
  authSecret,  \* the password in the secret made for the application, 0 when absent
  caCopy,      \* the CA in the application's namespace, 0 when absent
  users, cUsers, \* users[ns]: the user secret made for the application in ns
  realm,       \* realm[e]: the password Elasticsearch accepts for that user, or 0
  workload,    \* service, configuration and Deployment of the application
  settings,    \* the user's secret of secure settings, and the operator's copy
  queues,      \* who has work to do
  budget       \* what may still go wrong or change

resourceVars == <<kind, app, es, ca, authSecret, caCopy, users, realm,
                  workload, settings>>
cacheVars == <<cApp, cEs, cCa, cUsers>>
sharedVars == <<resourceVars, cacheVars, queues, budget>>

Namespaces == {NamespaceOf[e] : e \in Clusters} \cup {Home}
Secrets == 0 .. 6
Refs == Clusters \cup {NoCluster}

\* AssociationConf: the name of the CA secret is kept as whether there is one.
\* The auth secret's name and key depend on the application only.
NoConf == [url |-> NoCluster, ca |-> FALSE]
AuthIsConfigured(conf) == conf.url # NoCluster
CAIsConfigured(conf) == conf.ca
\* IsConfigured
IsConfigured(conf) == AuthIsConfigured(conf) /\ CAIsConfigured(conf)

NoUser == [pw |-> 0, cluster |-> NoCluster, owner |-> NoCluster]
NoConfig == [url |-> NoCluster, pw |-> 0, ca |-> FALSE]
NoTemplate == [exists |-> FALSE, pw |-> 0, ca |-> 0, config |-> NoConfig, keystore |-> 0]
NoWorkload == [service |-> FALSE, token |-> FALSE, config |-> NoConfig,
               template |-> NoTemplate, running |-> NoTemplate]

NewApp(ref) ==
  [exists |-> TRUE, deleting |-> FALSE, ref |-> ref, paused |-> FALSE, secure |-> FALSE,
   finalizers |-> {}, conf |-> NoConf, version |-> "",
   status |-> "", health |-> ""]
NoApp == [NewApp(NoCluster) EXCEPT !.exists = FALSE]

AllFinalizers == {"watch", "user", "auth", "settings"}
RefNamespace(ref) == IF ref = NoCluster THEN Home ELSE NamespaceOf[ref]

\* A value no secret, and nothing made from one, holds.
UsedPasswords ==
  {authSecret, workload.config.pw, workload.template.pw, workload.running.pw}
    \cup {users[ns].pw : ns \in Namespaces} \cup {realm[e] : e \in Clusters}
RandomPassword ==
  LET Candidates == (1 .. (Cardinality(UsedPasswords) + 1)) \ UsedPasswords
  IN CHOOSE pw \in Candidates : \A other \in Candidates : pw <= other

\* A CA belongs to a cluster: the odd ones to the first.
CAsOf(e) == {c \in Secrets \ {0} : c % 2 = IF e = FirstCluster THEN 1 ELSE 0}
UsedCAs ==
  {caCopy, workload.template.ca, workload.running.ca}
    \cup {ca[e] : e \in Clusters} \cup {cCa[e] : e \in Clusters}
NewCA(e) == CHOOSE c \in CAsOf(e) :
  /\ c \notin UsedCAs
  /\ \A other \in CAsOf(e) : other \notin UsedCAs => c <= other

(***************************************************************************)
(* An established application is what a new one becomes when all is quiet. *)
(***************************************************************************)
FinalizersOf(k) == IF k = "apm" THEN AllFinalizers \ {"auth"} ELSE AllFinalizers
EstablishedApp(s) ==
  [NewApp(s.ref) EXCEPT
     !.finalizers = FinalizersOf(s.kind), !.conf = [url |-> s.ref, ca |-> TRUE],
     !.secure = TRUE, !.version = "current", !.status = "Established", !.health = "green"]
EstablishedConfig(s) == [url |-> s.ref, pw |-> 1, ca |-> TRUE]
EstablishedWorkload(s, c) ==
  LET template == [exists |-> TRUE, pw |-> IF s.kind = "apm" THEN 0 ELSE 1, ca |-> c, keystore |-> 1,
                   config |-> IF s.kind = "logstash" THEN NoConfig ELSE EstablishedConfig(s)]
  IN [service |-> TRUE, token |-> s.kind = "apm", config |-> EstablishedConfig(s),
      template |-> template, running |-> template]
FirstCA(e) == CHOOSE c \in CAsOf(e) : \A other \in CAsOf(e) : c <= other

AssociatedInit ==
  \E s \in Scenarios :
    /\ kind = s.kind
    /\ app = IF s.new THEN NewApp(s.ref) ELSE EstablishedApp(s)
    /\ es = [e \in Clusters |-> e \in s.clusters]
    /\ ca = [e \in Clusters |-> IF e \in s.clusters /\ ~s.new THEN FirstCA(e) ELSE 0]
    /\ cApp = app /\ cEs = es /\ cCa = ca
    /\ authSecret = IF s.new THEN 0 ELSE 1
    /\ caCopy = IF s.new THEN 0 ELSE FirstCA(s.ref)
    /\ users = [ns \in Namespaces |->
         IF ns = NamespaceOf[s.ref] /\ ~s.new THEN [pw |-> 1, cluster |-> s.ref, owner |-> s.ref]
         ELSE NoUser]
    /\ cUsers = users
    /\ realm = [e \in Clusters |-> IF e = s.ref /\ ~s.new THEN 1 ELSE 0]
    /\ workload = IF s.new THEN NoWorkload ELSE EstablishedWorkload(s, caCopy)
    /\ settings = IF s.new THEN [source |-> 0, copy |-> 0] ELSE [source |-> 1, copy |-> 1]
    /\ queues = [assoc |-> s.new, driver |-> s.new, es |-> {}]
    /\ budget = s.budget

-----------------------------------------------------------------------------
(***************************************************************************)
(* Calls to the API server.                                                *)
(***************************************************************************)
Outcomes == IF budget.faults > 0 THEN {"ok", "error", "lost"} ELSE {"ok"}
Applied(o) == o # "error"
Account(o) ==
  budget' = IF o = "ok" THEN budget ELSE [budget EXCEPT !.faults = @ - 1]

\* ReconcileResource (common/reconciler): what a resource that may be absent
\* becomes, given what it is created as and updated to.
ReconcileResource(current, absent, expected, needsUpdate, updated) ==
  IF current = absent THEN expected
  ELSE IF needsUpdate THEN updated ELSE current

\* Seeded defect: the resource version is not compared.
NeverConflicts(read) == FALSE

\* Update of the application as read by a pass: read is what it was read as.
Conflicts(read) == app # read
\* A resource marked for deletion goes with its last finalizer, and so does all
\* that it owns.
Stored(new) == IF new.deleting /\ new.finalizers = {} THEN NoApp ELSE new

\* Events go to the controllers watching the resource: those of the application's
\* own secrets to both of its controllers (EnqueueRequestForOwner), those of a
\* user secret to the controller of the cluster in its labels
\* (NewToRequestsFuncFromClusterNameLabel), before and after the change.
OwnedSecretChanged(q) == [q EXCEPT !.assoc = TRUE, !.driver = TRUE]
ClusterOfUser(ns, u) ==
  {e \in Clusters : u.cluster = e /\ NamespaceOf[e] = ns}
UserChanged(q, assocWatches, ns, old, new) ==
  IF old = new THEN q
  ELSE [q EXCEPT
          !.assoc = @ \/ Enqueues(assocWatches.Secrets, <<"user", ns>>),
          !.es = @ \cup ClusterOfUser(ns, old) \cup ClusterOfUser(ns, new)]

-----------------------------------------------------------------------------
(***************************************************************************)
(* common/finalizer, common/annotation, common/pause.                      *)
(***************************************************************************)
\* Handle, of a resource that is not being deleted: the missing finalizers are
\* added in one update.
ReconcileFinalizers(a, finalizers) == [a EXCEPT !.finalizers = @ \cup finalizers]
\* Handle, of a resource being deleted, once the finalizers were executed.
ExecuteFinalizers(a, finalizers) == [a EXCEPT !.finalizers = @ \ finalizers]
Handle(a, finalizers) ==
  IF a.deleting THEN ExecuteFinalizers(a, finalizers) ELSE ReconcileFinalizers(a, finalizers)

IsPaused(a) == a.paused

\* checkExistingResources: the services labelled with the application's name.
CheckExistingResources == workload.service

\* ReconcileCompatibility: the annotation it writes when there is none.  A
\* resource without annotation that has a service was made by an operator of
\* before the annotation.
ReconcileCompatibility(a) ==
  IF a.version # "" THEN a
  ELSE [a EXCEPT !.version = IF CheckExistingResources THEN "unknown" ELSE "current"]
IsCompatible(a) == a.version = "current"

\* UpdateControllerVersion, by an operator of one version.
UpdateControllerVersion(a) == [a EXCEPT !.version = "current"]
=============================================================================
