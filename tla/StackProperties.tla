--------------------------- MODULE StackProperties ---------------------------
(***************************************************************************)
(* What the association and the application controllers promise together.  *)
(***************************************************************************)
EXTENDS Stack

AssociationQuiet ==
  /\ assoc.pc = "idle" /\ ~queues.assoc
  /\ cApp = app /\ cEs = es /\ cCa = ca /\ cUsers = users
DriverQuiet == driver.pc = "idle" /\ ~queues.driver
Served == app.exists /\ ~app.deleting /\ ~app.paused /\ IsCompatible(app)

\* When the association controller has no event left and nothing to retry, the
\* connection details in the application are those of the cluster it refers to,
\* the application has a password, and the copy of the CA is the CA.  The
\* watches on the cluster and on its CA are registered during a pass, while their
\* events are delivered (association_controller.go, reconcileInternal).
EstablishedWhenQuiet ==
  (AssociationQuiet /\ Served /\ app.ref # NoCluster) =>
     LET e == app.ref
     IN /\ es[e]
        /\ app.status = "Established"
        /\ app.conf = [url |-> e, ca |-> ca[e] # 0]
        /\ authSecret # 0
        /\ ca[e] # 0 => caCopy = ca[e]

\* By then the user secret in the namespace of the cluster is of that cluster,
\* and holds the password of the application (association/user.go,
\* ReconcileEsUser).
UserWhenQuiet ==
  (AssociationQuiet /\ Served /\ app.ref # NoCluster /\ kind # "apm") =>
     LET u == users[NamespaceOf[app.ref]]
     IN u.cluster = app.ref /\ u.pw = authSecret

\* When the three controllers involved have no event left, the cluster referred
\* to accepts the password the application is configured with: the secret of the
\* application, the user secret of the cluster's namespace, the file realm and the
\* configuration are four copies of it, made by three controllers.
CredentialsAccepted ==
  LET e == app.ref IN
  (/\ AssociationQuiet /\ DriverQuiet /\ Served /\ queues.es = {}
   /\ kind # "apm" /\ e # NoCluster /\ ca[e] # 0) =>
     workload.config.pw = realm[e] /\ workload.config.url = e

\* The template's checksum follows what a Pod reads once, at its start: when the
\* application's controller is quiet the Deployment is of the current password,
\* CA, configuration and keystore (deploymentParams).  An application that has
\* lost its reference may keep the details of a cluster nobody watches for it.
TemplateCurrent ==
  (/\ AssociationQuiet /\ DriverQuiet /\ Served /\ workload.template.exists
   /\ app.ref # NoCluster /\ IsConfigured(app.conf)) =>
     /\ workload.template.ca = ca[app.conf.url]
     /\ kind # "apm" => workload.template.pw = authSecret
     /\ kind # "logstash" => workload.template.config = [url |-> app.conf.url, pw |-> authSecret, ca |-> TRUE]
     /\ workload.template.keystore = IF app.secure THEN settings.source ELSE 0

\* A user made for the application does not stay in a namespace where the
\* application refers to no cluster any more, as the comment of
\* deleteOrphanedResources has it.
NoOrphan ==
  \A ns \in Namespaces :
    (AssociationQuiet /\ Served /\ kind # "apm" /\ users[ns] # NoUser) =>
      app.ref # NoCluster /\ NamespaceOf[app.ref] = ns

\* The two controllers of an application both write the annotation of the
\* operator's version, from a cached resource: a late one never takes the
\* other's services for those of an older operator, which would end all work on
\* the application for good (ReconcileCompatibility).
NeverMarkedUnknown == app.version # "unknown"
=============================================================================
