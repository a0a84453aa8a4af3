-------------------------------- MODULE Stack --------------------------------
(***************************************************************************)
(* An application, the controllers of its kind, the Elasticsearch clusters *)
(* it may refer to and the people who change all of them.                  *)
(***************************************************************************)
EXTENDS Applications

stackVars == <<sharedVars, associationVars, driverVars>>

StackInit == AssociatedInit /\ AssociationInit /\ DriverInit

-----------------------------------------------------------------------------
(***************************************************************************)
(* Add, newReconciler, add and addWatches of the controllers: whom an      *)
(* event calls.  EnqueueRequestForObject and EnqueueRequestForOwner call   *)
(* the controllers of the application; the dynamic watches call whoever    *)
(* has registered at that moment.                                          *)
(***************************************************************************)
AppEvent(q) == [q EXCEPT !.assoc = TRUE, !.driver = TRUE]
DeploymentEvent(q) == [q EXCEPT !.driver = TRUE]
EsEvent(q, e) ==
  [q EXCEPT !.es = @ \cup {e}, !.assoc = @ \/ Enqueues(assocWatches.ElasticsearchClusters, e)]
CaEvent(q, e) ==
  [q EXCEPT !.assoc = @ \/ Enqueues(assocWatches.Secrets, <<"ca", e>>)]
SettingsEvent(q) ==
  [q EXCEPT !.driver = @ \/ Enqueues(driverWatches, <<"settings">>)]
OwnedSecretEvent(q, name) ==
  [OwnedSecretChanged(q) EXCEPT !.driver = @ \/ Enqueues(driverWatches, <<name>>)]

SyncApp ==
  /\ cApp # app
  /\ cApp' = app
  /\ queues' = AppEvent(queues)
  /\ UNCHANGED <<resourceVars, cEs, cCa, cUsers, budget>>
SyncEs(e) ==
  /\ cEs[e] # es[e]
  /\ cEs' = [cEs EXCEPT ![e] = es[e]]
  /\ queues' = EsEvent(queues, e)
  /\ UNCHANGED <<resourceVars, cApp, cCa, cUsers, budget>>
SyncCa(e) ==
  /\ cCa[e] # ca[e]
  /\ cCa' = [cCa EXCEPT ![e] = ca[e]]
  /\ queues' = CaEvent(queues, e)
  /\ UNCHANGED <<resourceVars, cApp, cEs, cUsers, budget>>
SyncUsers(ns) ==
  /\ cUsers[ns] # users[ns]
  /\ cUsers' = [cUsers EXCEPT ![ns] = users[ns]]
  /\ queues' = UserChanged(queues, assocWatches, ns, cUsers[ns], users[ns])
  /\ UNCHANGED <<resourceVars, cApp, cEs, cCa, budget>>
Sync ==
  \/ SyncApp
  \/ \E e \in Clusters : SyncEs(e) \/ SyncCa(e)
  \/ \E ns \in Namespaces : SyncUsers(ns)

-----------------------------------------------------------------------------
(***************************************************************************)
(* The user, and whoever may delete a secret.                              *)
(***************************************************************************)
Edit ==
  /\ app.exists /\ ~app.deleting
  /\ budget.edits > 0
  /\ budget' = [budget EXCEPT !.edits = @ - 1]

EditRef ==
  /\ Edit
  /\ \E ref \in Refs \ {app.ref} : app' = [app EXCEPT !.ref = ref]
  /\ UNCHANGED <<kind, es, ca, authSecret, caCopy, users, realm, workload, settings,
                 cacheVars, queues>>
TogglePause ==
  /\ Edit
  /\ app' = [app EXCEPT !.paused = ~@]
  /\ UNCHANGED <<kind, es, ca, authSecret, caCopy, users, realm, workload, settings,
                 cacheVars, queues>>
DeleteApp ==
  /\ Edit
  /\ app' = Stored([app EXCEPT !.deleting = TRUE])
  /\ UNCHANGED <<kind, es, ca, authSecret, caCopy, users, realm, workload, settings,
                 cacheVars, queues>>
\* The secure settings are named in the application, or their secret changes.
EditSecureSettings ==
  /\ Edit
  /\ \/ /\ app' = [app EXCEPT !.secure = ~@]
        /\ UNCHANGED <<settings, queues>>
     \/ /\ \E v \in 1 .. 2 : v # settings.source /\ settings' = [settings EXCEPT !.source = v]
        /\ queues' = SettingsEvent(queues)
        /\ UNCHANGED app
  /\ UNCHANGED <<kind, es, ca, authSecret, caCopy, users, realm, workload, cacheVars>>

ClusterEvent ==
  /\ budget.events > 0
  /\ budget' = [budget EXCEPT !.events = @ - 1]

DeleteAuthSecret ==
  /\ ClusterEvent
  /\ authSecret # 0 /\ authSecret' = 0
  /\ queues' = OwnedSecretEvent(queues, "auth")
  /\ UNCHANGED <<kind, app, es, ca, caCopy, users, realm, workload, settings, cacheVars>>
DeleteCaCopy ==
  /\ ClusterEvent
  /\ caCopy # 0 /\ caCopy' = 0
  /\ queues' = OwnedSecretEvent(queues, "copy")
  /\ UNCHANGED <<kind, app, es, ca, authSecret, users, realm, workload, settings, cacheVars>>
DeleteUserSecret(ns) ==
  /\ ClusterEvent
  /\ users[ns] # NoUser /\ users' = [users EXCEPT ![ns] = NoUser]
  /\ UNCHANGED <<kind, app, es, ca, authSecret, caCopy, realm, workload, settings,
                 cacheVars, queues>>
User ==
  \/ EditRef \/ TogglePause \/ DeleteApp \/ EditSecureSettings
  \/ DeleteAuthSecret \/ DeleteCaCopy \/ \E ns \in Namespaces : DeleteUserSecret(ns)

-----------------------------------------------------------------------------
(***************************************************************************)
(* The Elasticsearch clusters, as far as an application meets them.        *)
(***************************************************************************)
CreateCluster(e) ==
  /\ ~es[e]
  /\ ClusterEvent
  /\ es' = [es EXCEPT ![e] = TRUE]
  /\ UNCHANGED <<kind, app, ca, authSecret, caCopy, users, realm, workload, settings,
                 cacheVars, queues>>
DeleteCluster(e) ==
  /\ es[e]
  /\ ClusterEvent
  /\ es' = [es EXCEPT ![e] = FALSE]
  /\ ca' = [ca EXCEPT ![e] = 0]
  /\ realm' = [realm EXCEPT ![e] = 0]
  /\ UNCHANGED <<kind, app, authSecret, caCopy, users, workload, settings, cacheVars, queues>>

\* The public certificates secret is made, and follows the CA.
PublishCA(e) ==
  /\ es[e] /\ ca[e] = 0
  /\ ca' = [ca EXCEPT ![e] = NewCA(e)]
  /\ UNCHANGED <<kind, app, es, authSecret, caCopy, users, realm, workload, settings,
                 cacheVars, queues, budget>>
RotateCA(e) ==
  /\ ca[e] # 0
  /\ ClusterEvent
  /\ ca' = [ca EXCEPT ![e] = NewCA(e)]
  /\ UNCHANGED <<kind, app, es, authSecret, caCopy, users, realm, workload, settings,
                 cacheVars, queues>>

\* ReconcileUsers: the file realm is made again from the user secrets labelled
\* with the cluster's name, in its namespace.
CustomUsers(e) == {u \in {cUsers[NamespaceOf[e]]} : u.cluster = e}
ReconcileUsers(e) ==
  /\ e \in queues.es
  /\ queues' = [queues EXCEPT !.es = @ \ {e}]
  /\ realm' = IF ~es[e] THEN realm
              ELSE [realm EXCEPT ![e] = IF CustomUsers(e) = {} THEN 0
                                        ELSE (CHOOSE u \in CustomUsers(e) : TRUE).pw]
  /\ UNCHANGED <<kind, app, es, ca, authSecret, caCopy, users, workload, settings,
                 cacheVars, budget>>
Elastic ==
  \E e \in Clusters :
    CreateCluster(e) \/ DeleteCluster(e) \/ PublishCA(e) \/ RotateCA(e) \/ ReconcileUsers(e)

-----------------------------------------------------------------------------
(***************************************************************************)
(* Kubernetes, and a restart of the operator.                              *)
(***************************************************************************)
OwnerIsGone(u) == u.owner # NoCluster /\ ~es[u.owner]

GarbageCollect ==
  \/ /\ ~app.exists
     /\ \/ authSecret # 0 \/ caCopy # 0 \/ workload # NoWorkload \/ settings.copy # 0
     /\ authSecret' = 0
     /\ caCopy' = 0
     /\ workload' = NoWorkload
     /\ settings' = [settings EXCEPT !.copy = 0]
     /\ UNCHANGED <<kind, app, es, ca, users, realm, cacheVars, queues, budget>>
  \/ \E ns \in Namespaces :
       /\ OwnerIsGone(users[ns])
       /\ users' = [users EXCEPT ![ns] = NoUser]
       /\ UNCHANGED <<kind, app, es, ca, authSecret, caCopy, realm, workload, settings,
                      cacheVars, queues, budget>>

\* The Pods are replaced by Pods of the Deployment's template.
RollOut ==
  /\ workload.running # workload.template
  /\ workload' = [workload EXCEPT !.running = workload.template]
  /\ queues' = DeploymentEvent(queues)
  /\ UNCHANGED <<kind, app, es, ca, authSecret, caCopy, users, realm, settings,
                 cacheVars, budget>>

\* The passes under way are lost, and the registries, which are in memory; the
\* caches are filled again and every resource is seen as new.
Crash ==
  /\ budget.crashes > 0
  /\ budget' = [budget EXCEPT !.crashes = @ - 1]
  /\ cApp' = app /\ cEs' = es /\ cCa' = ca /\ cUsers' = users
  /\ queues' = [assoc |-> TRUE, driver |-> TRUE, es |-> Clusters]
  /\ assoc' = IdleAssociation /\ assocWatches' = NewDynamicWatches
  /\ driver' = IdleDriver /\ driverWatches' = NoHandlers
  /\ UNCHANGED resourceVars

-----------------------------------------------------------------------------
Environment ==
  (Sync \/ User \/ Elastic \/ GarbageCollect \/ RollOut)
    /\ UNCHANGED <<associationVars, driverVars>>

StackNext ==
  \/ (KibanaAssociation \/ LogstashAssociation \/ ApmAssociation) /\ UNCHANGED driverVars
  \/ (Kibana \/ Logstash \/ ApmServer) /\ UNCHANGED associationVars
  \/ Environment
  \/ Crash

StackSpec == StackInit /\ [][StackNext]_stackVars
=============================================================================
