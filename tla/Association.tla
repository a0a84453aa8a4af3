----------------------------- MODULE Association -----------------------------
(***************************************************************************)
(* The association controllers: they make a user for the application in    *)
(* the cluster it refers to, copy the cluster's CA next to it, and write   *)
(* the connection details in an annotation of its resource.  Kibana's is   *)
(* the reference; Logstash's is a copy of it; APM server's an older form.  *)
(*                                                                         *)
(* One worker per controller: a pass runs its steps one after the other,   *)
(* anything else may happen between two of them.                           *)
(***************************************************************************)
EXTENDS Associated

VARIABLES
  assoc,        \* the pass under way
  assocWatches  \* the dynamic watches, in memory

associationVars == <<assoc, assocWatches>>

IdleAssociation ==
  [pc |-> "idle", read |-> NoApp, mine |-> NoApp, pw |-> 0, ca |-> FALSE,
   status |-> "", failed |-> FALSE]
AssociationFinalizers == {"watch", "user"}
EsWatch == "es-watch"
CaWatch == "ca-watch"

\* The watches on the referenced cluster, and on the user secret made there;
\* APM server's controller has the first only.
WatchCluster(w, ref) ==
  [w EXCEPT !.ElasticsearchClusters = AddHandler(@, EsWatch, {ref}),
            !.Secrets = IF kind = "apm" THEN @
                        ELSE AddHandler(@, EsWatch, {<<"user", NamespaceOf[ref]>>})]
WatchCA(w, ref) == [w EXCEPT !.Secrets = AddHandler(@, CaWatch, {<<"ca", ref>>})]

AssociationInit ==
  /\ assoc = IdleAssociation
  /\ assocWatches = IF app.status = "Established"
       THEN WatchCA(WatchCluster(NewDynamicWatches, app.ref), app.ref)
       ELSE NewDynamicWatches

AssocGoto(pc) == assoc' = [assoc EXCEPT !.pc = pc]
\* The pass ends; requeue says that its result or its error asks for another.
FinishAssociation(requeue) ==
  /\ assoc' = IdleAssociation
  /\ queues' = [queues EXCEPT !.assoc = @ \/ requeue]
\* resultFromStatus
ResultFromStatus(status) == status = "Pending"
\* reconcileInternal returns a status, and maybe an error.  The status is written
\* when it changes.
ReturnStatus(q, read, status, failed) ==
  IF read.status = status
    THEN /\ assoc' = IdleAssociation
         /\ queues' = [q EXCEPT !.assoc = @ \/ failed \/ ResultFromStatus(status)]
    ELSE /\ assoc' = [assoc EXCEPT !.pc = "status", !.read = read, !.status = status,
                                   !.failed = failed]
         /\ queues' = q

\* client.Update of the application with what the pass made of it.
UpdateApp(new, read, o) ==
  /\ Account(o)
  /\ app' = IF Conflicts(read) \/ ~Applied(o) THEN app ELSE Stored(new)

-----------------------------------------------------------------------------
(***************************************************************************)
(* Reconcile.                                                              *)
(***************************************************************************)
\* A pass goes on in memory up to its next call: a resource with its finalizers
\* is not updated, one that is annotated is not looked at again.
AfterFinalizers(a) ==
  [IdleAssociation EXCEPT !.read = a,
     !.pc = IF IsCompatible(a) /\ (IsPaused(a) => kind = "apm") THEN "watch" ELSE "compatible"]
Fetched(a) ==
  IF a.deleting THEN [IdleAssociation EXCEPT !.pc = "finalizers", !.read = a]
  ELSE LET new == Handle(a, AssociationFinalizers)
       IN IF new = a THEN AfterFinalizers(a)
          ELSE [IdleAssociation EXCEPT !.pc = "finalized", !.read = a, !.mine = new]

\* FetchWithAssociation, from the cache.
FetchWithAssociation ==
  /\ assoc.pc = "idle"
  /\ queues.assoc
  /\ IF kind = "apm" /\ cApp.exists /\ IsPaused(cApp)
       THEN UNCHANGED <<assoc, queues>>     \* PauseRequeue
       ELSE /\ queues' = [queues EXCEPT !.assoc = FALSE]
            /\ assoc' = IF cApp.exists THEN Fetched(cApp) ELSE assoc
  /\ UNCHANGED <<resourceVars, cacheVars, budget, assocWatches>>

\* watchFinalizer.  The handler of the user secret stays registered.
WatchFinalizer(w) ==
  [w EXCEPT !.ElasticsearchClusters = RemoveHandlerForKey(@, EsWatch),
            !.Secrets = RemoveHandlerForKey(@, CaWatch)]

\* UserFinalizer deletes the user secrets it lists, of any namespace.
UserFinalizer ==
  [ns \in Namespaces |-> IF cUsers[ns] = NoUser THEN users[ns] ELSE NoUser]

\* The finalizers are run, on the resource as it was read.
RunFinalizers ==
  /\ assoc.pc = "finalizers"
  /\ \E o \in Outcomes :
       LET a == assoc.read
           usersRun == "user" \in a.finalizers
           ran == IF usersRun /\ o # "ok" THEN {"watch"} ELSE AssociationFinalizers
           left == IF usersRun /\ Applied(o) THEN UserFinalizer ELSE users
       IN /\ ~usersRun => o = "ok"
          /\ Account(o)
          /\ users' = left
          /\ assocWatches' = IF "watch" \in a.finalizers
               THEN WatchFinalizer(assocWatches) ELSE assocWatches
          /\ assoc' = [assoc EXCEPT !.pc = "finalized", !.failed = (o # "ok"),
                                    !.mine = Handle(a, ran)]
  /\ UNCHANGED <<kind, app, es, ca, authSecret, caCopy, realm, workload, settings, cacheVars, queues>>

\* ... and the resource updated.  A resource being deleted is left there.
UpdateFinalizers ==
  /\ assoc.pc = "finalized"
  /\ \E o \in Outcomes :
       LET unchanged == assoc.mine = assoc.read
       IN /\ unchanged => o = "ok"
          /\ IF unchanged THEN UNCHANGED <<app, budget>>
             ELSE UpdateApp(assoc.mine, assoc.read, o)
          /\ IF ~unchanged /\ (Conflicts(assoc.read) \/ o # "ok")
               THEN FinishAssociation(TRUE)
             ELSE IF assoc.mine.deleting
               THEN FinishAssociation(assoc.failed)
             ELSE assoc' = AfterFinalizers(assoc.mine) /\ UNCHANGED queues
  /\ UNCHANGED <<kind, es, ca, authSecret, caCopy, users, realm, workload,
                 settings, cacheVars, assocWatches>>

\* IsPaused (Kibana, Logstash) and isCompatible.
CheckCompatible ==
  /\ assoc.pc = "compatible"
  /\ \E o \in Outcomes :
       LET paused == kind # "apm" /\ IsPaused(assoc.read)
           new == ReconcileCompatibility(assoc.read)
           writes == ~paused /\ new # assoc.read
       IN /\ ~writes => o = "ok"
          /\ IF writes THEN UpdateApp(new, assoc.read, o) ELSE UNCHANGED <<app, budget>>
          /\ IF paused \/ (writes /\ (Conflicts(assoc.read) \/ o # "ok"))
               THEN FinishAssociation(TRUE)
             ELSE IF ~IsCompatible(new) THEN FinishAssociation(FALSE)
             ELSE /\ assoc' = [assoc EXCEPT !.pc = "watch", !.read = new]
                  /\ UNCHANGED queues
  /\ UNCHANGED <<kind, es, ca, authSecret, caCopy, users, realm, workload,
                 settings, cacheVars, assocWatches>>

\* The status of the association.
UpdateAssociationStatus ==
  /\ assoc.pc = "status"
  /\ \E o \in Outcomes :
       LET failed == Conflicts(assoc.read) \/ o # "ok"
       IN /\ UpdateApp([assoc.read EXCEPT !.status = assoc.status], assoc.read, o)
          /\ FinishAssociation(failed \/ assoc.failed \/ ResultFromStatus(assoc.status))
  /\ UNCHANGED <<kind, es, ca, authSecret, caCopy, users, realm, workload,
                 settings, cacheVars, assocWatches>>

-----------------------------------------------------------------------------
(***************************************************************************)
(* reconcileInternal.                                                      *)
(***************************************************************************)
\* deleteOrphanedResources, of the secrets listed in the application's own
\* namespace: what is left of [auth, ca, user] there.
DeleteOrphanedResources(ref) ==
  IF ref = NoCluster THEN [auth |-> 0, ca |-> 0, user |-> NoUser]
  ELSE [auth |-> authSecret, ca |-> caCopy,
        user |-> IF cUsers[Home] # NoUser /\ RefNamespace(ref) # Home
                   THEN NoUser ELSE users[Home]]
\* Leftovers are deleted, an error being logged only; then the watch on the
\* referenced cluster, and on the user secret made there, is registered before
\* anything is read from them.
WatchReference ==
  /\ kind # "apm"
  /\ assoc.pc = "watch"
  /\ \E o \in Outcomes :
       LET ref == assoc.read.ref
           left == DeleteOrphanedResources(ref)
           q == IF Applied(o) /\ (left.auth # authSecret \/ left.ca # caCopy)
                  THEN OwnedSecretChanged(queues) ELSE queues
           changes == left # [auth |-> authSecret, ca |-> caCopy, user |-> users[Home]]
       IN /\ ~changes => o = "ok"
          /\ Account(o)
          /\ IF Applied(o) THEN authSecret' = left.auth /\ caCopy' = left.ca
                           ELSE UNCHANGED <<authSecret, caCopy>>
          /\ users' = IF Applied(o) THEN [users EXCEPT ![Home] = left.user] ELSE users
          /\ IF ref = NoCluster
               THEN /\ assocWatches' = [assocWatches EXCEPT
                         !.ElasticsearchClusters = RemoveHandlerForKey(@, EsWatch)]
                    /\ ReturnStatus(q, assoc.read, "", FALSE)
               ELSE /\ assocWatches' = WatchCluster(assocWatches, ref)
                    /\ AssocGoto("get")
                    /\ queues' = q
  /\ UNCHANGED <<kind, app, es, ca, realm, workload, settings, cacheVars>>

\* APM server's reconcileInternal watches the cluster only, and nothing is done
\* when there is none.
ApmWatchReference ==
  /\ kind = "apm"
  /\ assoc.pc = "watch"
  /\ LET ref == assoc.read.ref
     IN IF ref = NoCluster
          THEN ReturnStatus(queues, assoc.read, "", FALSE) /\ UNCHANGED assocWatches
          ELSE /\ assocWatches' = WatchCluster(assocWatches, ref)
               /\ AssocGoto("get")
               /\ UNCHANGED queues
  /\ UNCHANGED <<resourceVars, cacheVars, budget>>

\* Get of the cluster: when it is not there the connection details are removed,
\* a conflict being ignored.
RemoveAssociationConf(a) == [a EXCEPT !.conf = NoConf]
GetElasticsearch ==
  /\ assoc.pc = "get"
  /\ \E o \in Outcomes :
       LET new == RemoveAssociationConf(assoc.read)
           writes == ~cEs[assoc.read.ref] /\ new # assoc.read
           stored == writes /\ ~Conflicts(assoc.read) /\ o = "ok"
       IN /\ ~writes => o = "ok"
          /\ IF writes THEN UpdateApp(new, assoc.read, o) ELSE UNCHANGED <<app, budget>>
          /\ IF cEs[assoc.read.ref] THEN AssocGoto("auth") /\ UNCHANGED queues
             ELSE ReturnStatus(queues, IF stored THEN new ELSE assoc.read, "Pending",
                               writes /\ ~Conflicts(assoc.read) /\ o # "ok")
  /\ UNCHANGED <<kind, es, ca, authSecret, caCopy, users, realm, workload,
                 settings, cacheVars, assocWatches>>

\* ReconcileEsUser, first secret: the password, random when the secret is made
\* and kept from then on.
ReconcileAuthSecret ==
  /\ assoc.pc = "auth"
  /\ \E o \in Outcomes :
       LET new == ReconcileResource(authSecret, 0, RandomPassword, FALSE, 0)
           q == IF Applied(o) /\ new # authSecret THEN OwnedSecretChanged(queues) ELSE queues
       IN /\ (new = authSecret) => o = "ok"
          /\ Account(o)
          /\ authSecret' = IF Applied(o) THEN new ELSE authSecret
          /\ IF o # "ok" THEN ReturnStatus(q, assoc.read, "Pending", TRUE)
             ELSE assoc' = [assoc EXCEPT !.pc = "user", !.pw = new] /\ queues' = q
  /\ UNCHANGED <<kind, app, es, ca, caCopy, users, realm, workload, settings, cacheVars,
                 assocWatches>>

\* Seeded defect: the hash is not compared with the password.
ExpectedUserByName(current, ref, pw) ==
  ReconcileResource(current, NoUser,
    [pw |-> pw, cluster |-> ref, owner |-> ref],
    current.cluster # ref,
    [pw |-> pw, cluster |-> ref, owner |-> current.owner])

\* ReconcileEsUser, second secret: its hash, in the cluster's namespace.  The
\* owner is set when the secret is created, not when it is updated.
ExpectedUser(current, ref, pw) ==
  ReconcileResource(current, NoUser,
    [pw |-> pw, cluster |-> ref, owner |-> ref],
    current.cluster # ref \/ current.pw # pw,
    [pw |-> pw, cluster |-> ref, owner |-> current.owner])

ReconcileEsUser ==
  /\ assoc.pc = "user"
  /\ \E o \in Outcomes :
       LET ns == NamespaceOf[assoc.read.ref]
           seen == cUsers[ns]
           new == ExpectedUser(seen, assoc.read.ref, assoc.pw)
           stale == new # seen /\ seen # users[ns]
       IN /\ (new = seen) => o = "ok"
          /\ Account(o)
          /\ users' = IF Applied(o) /\ ~stale /\ new # seen
               THEN [users EXCEPT ![ns] = new] ELSE users
          /\ IF stale \/ o # "ok" THEN ReturnStatus(queues, assoc.read, "Pending", TRUE)
                                  ELSE AssocGoto("ca") /\ UNCHANGED queues
  /\ UNCHANGED <<kind, app, es, ca, authSecret, caCopy, realm, workload, settings, cacheVars,
                 assocWatches>>

\* reconcileElasticsearchCA and ReconcileCASecret: the watch first; a CA that is
\* not published yet is no error, its name is left out of the details.
ReconcileElasticsearchCA ==
  /\ assoc.pc = "ca"
  /\ assocWatches' = WatchCA(assocWatches, assoc.read.ref)
  /\ \E o \in Outcomes :
       LET public == cCa[assoc.read.ref]
           new == IF public = 0 THEN caCopy
                  ELSE ReconcileResource(caCopy, 0, public, caCopy # public, public)
           q == IF Applied(o) /\ new # caCopy THEN OwnedSecretChanged(queues) ELSE queues
       IN /\ (new = caCopy) => o = "ok"
          /\ Account(o)
          /\ caCopy' = IF Applied(o) THEN new ELSE caCopy
          /\ IF o # "ok" THEN ReturnStatus(q, assoc.read, "Pending", TRUE)
             ELSE assoc' = [assoc EXCEPT !.pc = "conf", !.ca = (public # 0)] /\ queues' = q
  /\ UNCHANGED <<kind, app, es, ca, authSecret, users, realm, workload, settings, cacheVars>>

\* UpdateAssociationConf, when the details differ from the annotation.
UpdateAssociationConf ==
  /\ assoc.pc = "conf"
  /\ \E o \in Outcomes :
       LET new == [assoc.read EXCEPT !.conf = [url |-> assoc.read.ref, ca |-> assoc.ca]]
           unchanged == new = assoc.read
       IN /\ unchanged => o = "ok"
          /\ IF unchanged THEN UNCHANGED <<app, budget>>
             ELSE UpdateApp(new, assoc.read, o)
          /\ IF ~unchanged /\ Conflicts(assoc.read)
               THEN ReturnStatus(queues, assoc.read, "Pending", FALSE)
             ELSE IF o # "ok" THEN ReturnStatus(queues, assoc.read, "Pending", TRUE)
             ELSE ReturnStatus(queues, new, "Established", FALSE)
  /\ UNCHANGED <<kind, es, ca, authSecret, caCopy, users, realm, workload,
                 settings, cacheVars, assocWatches>>
=============================================================================
