------------------------------ MODULE Lifecycle ------------------------------
(***************************************************************************)
(* The life of an Elasticsearch resource, and what a pass keeps beside the *)
(* StatefulSets: finalizers, the users' secrets, the observer of the       *)
(* cluster, the volume claims, the Pod disruption budget and the health in *)
(* the status.                                                             *)
(*                                                                         *)
(* One nodeSet grows, shrinks and goes; OtherNodes nodes, several of them  *)
(* masters, stay.  How the nodeSet scales is that of Upscale and           *)
(* Downscale: up at once, down when its data have moved, which a pass      *)
(* finds or not.  A write made from an older copy of an object conflicts.  *)
(* A password is a number; a hash, the password it is of.                  *)
(***************************************************************************)
EXTENDS Naturals, FiniteSets

CONSTANTS
  MaxNodes,           \* of the nodeSet
  OtherNodes,
  LifecycleBudgets    \* bounds on the user's changes, failures and restarts

ASSUME LifecycleAssumption ==
  /\ MaxNodes \in Nat /\ OtherNodes \in Nat \ {0, 1, 2}
  /\ LifecycleBudgets \subseteq [edits : Nat, deletes : 0 .. 2, secrets : Nat, flaps : Nat,
                                 faults : Nat, crashes : Nat, lag : BOOLEAN]

VARIABLES
  resource,        \* the Elasticsearch resource
  statefulSet,     \* of the nodeSet: [owner, generation (0: absent), replicas]
  claims,          \* the ordinals whose volume claim exists
  internalUsers,   \* the secret of the operator's user: [owner, password]
  fileRealm,       \* the users' file of Elasticsearch: [owner, password]
  pdb,             \* the disruption budget: [owner, available]; owner 0 when absent
  health,          \* of the cluster
  cache,           \* the operator's copies: [resource, statefulSet, internal, realm]
  observers,       \* the observer of the cluster: [password (0: none), health, seen]
  expected,        \* the generation expected in the cache
  lifePass,        \* the pass under way
  lifeQueue,       \* whether the resource is in the work queue
  lifeBudget

lifeObjects == <<resource, statefulSet, claims, internalUsers, fileRealm, pdb>>
lifeMemory == <<observers, expected>>
lifeControl == <<lifePass, lifeQueue, lifeBudget>>
lifecycleVars == <<lifeObjects, health, cache, lifeMemory, lifeControl>>

NoResource ==
  [uid |-> 0, count |-> 0, health |-> "none", finalizers |-> FALSE, deleting |-> FALSE, paused |-> FALSE]
NewResource(uid, count) == [NoResource EXCEPT !.uid = uid, !.count = count]
Nothing == [owner |-> 0, password |-> 0]
NoSet == [owner |-> 0, generation |-> 0, replicas |-> 0]
NoPDB == [owner |-> 0, available |-> 0]
NoObserver == [password |-> 0, health |-> "unknown", seen |-> "nothing"]
EmptyCache ==
  [resource |-> NoResource, statefulSet |-> NoSet, internal |-> Nothing, realm |-> Nothing]
Objects ==
  [resource |-> resource, statefulSet |-> statefulSet, internal |-> internalUsers,
   realm |-> fileRealm]
\* A pass: the resource as fetched and with its finalizers, the operator's password,
\* the observed health and the one for the status, the StatefulSet it works on.
IdleLife ==
  [pc |-> "idle", fetched |-> NoResource, es |-> NoResource, password |-> 0,
   observed |-> "unknown", health |-> "none", set |-> NoSet, requeue |-> FALSE]

LifecycleInit ==
  /\ resource = NewResource(1, 1)
  /\ statefulSet = NoSet /\ claims = {}
  /\ internalUsers = Nothing /\ fileRealm = Nothing /\ pdb = NoPDB
  /\ health = "green"
  /\ cache = [EmptyCache EXCEPT !.resource = resource]
  /\ observers = NoObserver /\ expected = 0
  /\ lifePass = IdleLife /\ lifeQueue = TRUE
  /\ lifeBudget \in LifecycleBudgets

-----------------------------------------------------------------------------
(***************************************************************************)
(* Outcomes of a write, and the ends of a pass.                            *)
(***************************************************************************)
WriteOutcomes == {"done"} \cup IF lifeBudget.faults > 0 THEN {"failed", "lost"} ELSE {}

\* The object after a write made from the copy read: a conflict changes nothing.
AfterWrite(outcome, object, read, new) ==
  IF outcome = "failed" \/ object # read THEN object ELSE new

At(pc) == lifePass.pc = pc
To(pc) == [lifePass EXCEPT !.pc = pc]

\* The status is updated whether the pass ends or fails.
Ended(requeue) == [To("status") EXCEPT !.health = lifePass.observed, !.requeue = requeue]
Failed == [To("status") EXCEPT !.requeue = TRUE]

\* A pass goes on when what it writes is there, or needs no write.
GoOn(next) == lifePass' = next /\ UNCHANGED <<lifeQueue, lifeBudget>>

Spend(outcome) ==
  lifeBudget' = IF outcome = "done" THEN lifeBudget ELSE [lifeBudget EXCEPT !.faults = @ - 1]

Continue(outcome, conflict, next) ==
  /\ lifePass' = IF outcome = "done" /\ ~conflict THEN next ELSE Failed
  /\ Spend(outcome)
  /\ UNCHANGED lifeQueue

-----------------------------------------------------------------------------
(***************************************************************************)
(* elasticsearch_controller.go: Reconcile and the finalizers.              *)
(***************************************************************************)
\* A paused resource is looked at again ten seconds later, a deleted one is not:
\* before its finalizers.
FetchElasticsearch ==
  /\ At("idle") /\ lifeQueue
  /\ lifeQueue' = cache.resource.paused
  /\ lifePass' = IF cache.resource.uid = 0 \/ cache.resource.paused THEN IdleLife
                 ELSE [IdleLife EXCEPT !.pc = "finalizers", !.fetched = cache.resource,
                                       !.es = cache.resource, !.health = cache.resource.health]
  /\ UNCHANGED <<lifeObjects, health, cache, lifeMemory, lifeBudget>>

\* finalizers.Handle when the resource stays: what is missing is registered first.
RegisterFinalizers ==
  /\ At("finalizers") /\ ~lifePass.es.deleting
  /\ IF lifePass.es.finalizers THEN GoOn(To("internal")) /\ UNCHANGED resource
     ELSE LET registered == [lifePass.es EXCEPT !.finalizers = TRUE] IN
          \E outcome \in WriteOutcomes :
            /\ resource' = AfterWrite(outcome, resource, lifePass.es, registered)
            /\ Continue(outcome, resource # lifePass.es,
                        [To("internal") EXCEPT !.es = registered])
  /\ UNCHANGED <<statefulSet, claims, internalUsers, fileRealm, pdb, health, cache, lifeMemory>>

\* Seeded defect: the finalizers are removed, their functions not called.
StopNothing == UNCHANGED observers

\* StopObserving
StopObserving == observers' = NoObserver

\* finalizers.Handle when it is deleted: they are executed, then removed.
FinalizeElasticsearch ==
  /\ At("finalizers") /\ lifePass.es.deleting
  /\ StopObserving
  /\ \E outcome \in WriteOutcomes :
       /\ resource' = AfterWrite(outcome, resource, lifePass.es, NoResource)
       /\ Continue(outcome, resource # lifePass.es, To("status"))
  /\ UNCHANGED <<statefulSet, claims, internalUsers, fileRealm, pdb, health, cache, expected>>

-----------------------------------------------------------------------------
(***************************************************************************)
(* user: the operator's password, and the file of the users' hashes.       *)
(***************************************************************************)
NewPassword ==
  CHOOSE n \in 1 .. 7 :
    /\ n \notin {internalUsers.password, cache.internal.password, fileRealm.password,
                 cache.realm.password, observers.password}
    /\ \A k \in 1 .. n - 1 :
         k \in {internalUsers.password, cache.internal.password, fileRealm.password,
                cache.realm.password, observers.password}

\* newInternalUsers
NewInternalUsers == [owner |-> lifePass.es.uid, password |-> NewPassword]

\* NeedsUpdate and Reset of ClearTextCredentials: a password that is there is kept.
InternalUsers(read) == IF read.password # 0 THEN read ELSE NewInternalUsers

ReconcileInternalUsers ==
  /\ At("internal")
  /\ LET read == cache.internal
         users == InternalUsers(read) IN
     IF users = read
     THEN GoOn([To("realm") EXCEPT !.password = read.password]) /\ UNCHANGED internalUsers
     ELSE \E outcome \in WriteOutcomes :
            /\ internalUsers' = AfterWrite(outcome, internalUsers, read, users)
            /\ Continue(outcome, internalUsers # read,
                        [To("realm") EXCEPT !.password = users.password])
  /\ UNCHANGED <<resource, statefulSet, claims, fileRealm, pdb, health, cache, lifeMemory>>

\* Seeded defect: a user that is there is not compared.
MatchesByName(read, password) == read.password # 0

\* PasswordMatches
PasswordMatches(read, password) == read.password = password

\* NewElasticUsersCredentialsAndRoles, in a secret that keeps its owner.
ElasticUsers(read) ==
  [owner |-> IF read.owner = 0 THEN lifePass.es.uid ELSE read.owner,
   password |-> lifePass.password]

\* NeedsUpdate of HashedCredentials.
FileRealm(read) ==
  IF PasswordMatches(read, lifePass.password) THEN read ELSE ElasticUsers(read)

ReconcileFileRealm ==
  /\ At("realm")
  /\ LET read == cache.realm IN
     IF FileRealm(read) = read THEN GoOn(To("observe")) /\ UNCHANGED fileRealm
     ELSE \E outcome \in WriteOutcomes :
            /\ fileRealm' = AfterWrite(outcome, fileRealm, read, FileRealm(read))
            /\ Continue(outcome, fileRealm # read, To("observe"))
  /\ UNCHANGED <<resource, statefulSet, claims, internalUsers, pdb, health, cache, lifeMemory>>

-----------------------------------------------------------------------------
(***************************************************************************)
(* observer: one for each cluster, replaced when its client changes.       *)
(***************************************************************************)
\* Observe, createObserver: a new observer has observed nothing.
Observe(password) ==
  IF observers.password = password THEN observers ELSE [NoObserver EXCEPT !.password = password]

\* ObservedStateResolver.  Unless the budget lets it be late, what an observation
\* has told its listeners is there when they ask.
ResolveObservedState ==
  /\ At("observe")
  /\ lifeBudget.lag \/ observers.seen = "nothing"
  /\ observers' = Observe(lifePass.password)
  /\ LET observed == Observe(lifePass.password).health IN
     GoOn([To("nodes") EXCEPT !.observed = observed,
                              !.health = IF observed = "unknown" THEN @ ELSE observed])
  /\ UNCHANGED <<lifeObjects, health, cache, expected>>

\* RetrieveState: a client that Elasticsearch refuses sees nothing.
ClusterHealth == IF fileRealm.password = observers.password THEN health ELSE "unknown"

\* hasHealthChanged: what has not changed is stored without an event.
HasHealthChanged == observers.health # ClusterHealth

\* runPeriodically, retrieveState and healthChangeListener: the listeners are told
\* before the state is stored.
RetrieveState ==
  /\ observers.password # 0 /\ observers.seen = "nothing"
  /\ HasHealthChanged
  /\ observers' = [observers EXCEPT !.seen = ClusterHealth]
  /\ lifeQueue' = TRUE
  /\ UNCHANGED <<lifeObjects, health, cache, expected, lifePass, lifeBudget>>

StoreState ==
  /\ observers.seen # "nothing"
  /\ observers' = [observers EXCEPT !.health = observers.seen, !.seen = "nothing"]
  /\ UNCHANGED <<lifeObjects, health, cache, expected, lifeControl>>

-----------------------------------------------------------------------------
(***************************************************************************)
(* driver: the claims, the StatefulSet, the disruption budget.             *)
(***************************************************************************)
\* Seeded defect: the pass goes on with any StatefulSet it reads.
AnythingMet == TRUE

\* SatisfiedGenerations: updates are expected in the cache, creations are not.
GenerationsSatisfied == cache.statefulSet.generation = 0 \/ cache.statefulSet.generation >= expected

\* Unless the budget lets it lag, the cache shows what was created.
CreationSeen == lifeBudget.lag \/ (cache.statefulSet.generation = 0 => statefulSet.generation = 0)

\* PVCNames
PVCNames(replicas) == 0 .. replicas - 1

\* pvcsToRemove: neither of the actual nor of the expected StatefulSets.
PVCsToRemove ==
  claims \ (PVCNames(cache.statefulSet.replicas) \cup PVCNames(lifePass.es.count))

\* reconcileNodeSpecs: the StatefulSets it works on, expectationsMet (whose look at
\* the Pods goes either way) and GarbageCollectPVCs, some of whose calls may fail.
GarbageCollectPVCs ==
  /\ At("nodes") /\ CreationSeen
  /\ \/ /\ GenerationsSatisfied
        /\ \E outcome \in WriteOutcomes, removed \in SUBSET PVCsToRemove :
             /\ outcome = "done" => removed = PVCsToRemove
             /\ claims' = claims \ removed
             /\ Continue(outcome, FALSE, [To("upscale") EXCEPT !.set = cache.statefulSet])
     \/ GoOn(Ended(TRUE)) /\ UNCHANGED claims
  /\ UNCHANGED <<resource, statefulSet, internalUsers, fileRealm, pdb, health, cache, lifeMemory>>

\* adjustStatefulSetReplicas: a downscale is left for later.
AdjustedReplicas == IF lifePass.es.count < lifePass.set.replicas THEN lifePass.set.replicas
                    ELSE lifePass.es.count

\* ReconcileStatefulSet: what is compared is read again; the update replaces the
\* object whatever its version, owner included, and is expected in the cache.
HandleUpscale ==
  /\ At("upscale")
  /\ LET read == cache.statefulSet
         reconciled == [owner |-> lifePass.es.uid, generation |-> statefulSet.generation + 1,
                        replicas |-> AdjustedReplicas]
         refused == (read.generation = 0) # (statefulSet.generation = 0)
         created == read.generation = 0 IN
     IF lifePass.es.count = 0 \/ (~created /\ read.replicas = AdjustedReplicas)
     THEN /\ GoOn([To("pdb") EXCEPT !.set = IF lifePass.es.count = 0 THEN @ ELSE read])
          /\ UNCHANGED <<statefulSet, expected>>
     ELSE \E outcome \in WriteOutcomes :
            /\ statefulSet' = IF outcome = "failed" \/ refused THEN statefulSet ELSE reconciled
            /\ expected' = IF refused \/ outcome = "failed" THEN expected
                           ELSE IF created THEN 0
                           ELSE IF outcome = "done" THEN reconciled.generation ELSE expected
            /\ Continue(outcome, refused, [To("pdb") EXCEPT !.set = reconciled])
  /\ UNCHANGED <<resource, claims, internalUsers, fileRealm, pdb, health, cache, observers>>

\* allowedDisruptions: the health of the status, as the pass read it.
AllowedDisruptions == IF lifePass.es.health = "green" THEN 1 ELSE 0

\* Seeded defect: one Pod may always go.
AllowOneDisruption(nodes) == [owner |-> lifePass.es.uid, available |-> nodes - 1]

\* expectedPDB, buildPDBSpec
ExpectedPDB(nodes) == [owner |-> lifePass.es.uid, available |-> nodes - AllowedDisruptions]

\* ExpectedNodeCount of the StatefulSets after the upscale.
ExpectedNodeCount == OtherNodes + lifePass.set.replicas

\* pdb.Reconcile: a budget that differs is deleted, then created.  Its cache is
\* taken to be up to date: no event tells the operator when it was not.
DeleteDefaultPDB ==
  /\ At("pdb")
  /\ \/ pdb = ExpectedPDB(ExpectedNodeCount) /\ GoOn(To("downscale")) /\ UNCHANGED pdb
     \/ pdb = NoPDB /\ GoOn(To("create-pdb")) /\ UNCHANGED pdb
     \/ /\ pdb \notin {NoPDB, ExpectedPDB(ExpectedNodeCount)}
        /\ \E outcome \in WriteOutcomes :
             /\ pdb' = AfterWrite(outcome, pdb, pdb, NoPDB)
             /\ Continue(outcome, FALSE, To("create-pdb"))
  /\ UNCHANGED <<resource, statefulSet, claims, internalUsers, fileRealm, health, cache, lifeMemory>>

CreatePDB ==
  /\ At("create-pdb")
  /\ \E outcome \in WriteOutcomes :
       /\ pdb' = AfterWrite(outcome, pdb, NoPDB, ExpectedPDB(ExpectedNodeCount))
       /\ Continue(outcome, pdb # NoPDB, To("downscale"))
  /\ UNCHANGED <<resource, statefulSet, claims, internalUsers, fileRealm, health, cache, lifeMemory>>

\* attemptDownscale: to the nodes whose data have moved, with the version read; a
\* StatefulSet that is not expected and has no replicas is deleted.  A pass that
\* cannot reach Elasticsearch, or finds data to move, ends and comes back.
HandleDownscale ==
  /\ At("downscale")
  /\ LET read == lifePass.set
         removal == read.generation # 0 /\ read.replicas = 0 /\ lifePass.es.count = 0 IN
     \/ GoOn(Ended(TRUE)) /\ UNCHANGED <<statefulSet, expected>>
     \/ /\ lifePass.es.count >= read.replicas /\ ~removal
        /\ GoOn(Ended(FALSE)) /\ UNCHANGED <<statefulSet, expected>>
     \/ /\ lifePass.es.count < read.replicas
        /\ LET downscaled == [read EXCEPT !.generation = @ + 1, !.replicas = lifePass.es.count] IN
           \E outcome \in WriteOutcomes :
             /\ statefulSet' = AfterWrite(outcome, statefulSet, read, downscaled)
             /\ expected' = IF outcome = "done" /\ statefulSet = read THEN downscaled.generation
                            ELSE expected
             /\ Continue(outcome, statefulSet # read, Ended(FALSE))
     \/ /\ removal
        /\ \E outcome \in WriteOutcomes :
             /\ statefulSet' = AfterWrite(outcome, statefulSet, statefulSet, NoSet)
             /\ Continue(outcome, statefulSet = NoSet, Ended(FALSE))
        /\ UNCHANGED expected
  /\ UNCHANGED <<resource, claims, internalUsers, fileRealm, pdb, health, cache, observers>>

\* updateStatus, Apply: with the version first fetched; a conflict is retried.
UpdateStatus ==
  /\ At("status")
  /\ LET updated == [lifePass.fetched EXCEPT !.health = lifePass.health] IN
     \E outcome \in WriteOutcomes :
       /\ outcome = "done" \/ updated # lifePass.fetched
       /\ resource' = AfterWrite(outcome, resource, lifePass.fetched, updated)
       /\ lifeQueue' = (\/ lifeQueue \/ lifePass.requeue \/ outcome # "done"
                        \/ updated # lifePass.fetched /\ resource # lifePass.fetched)
       /\ Spend(outcome)
  /\ lifePass' = IdleLife
  /\ UNCHANGED <<statefulSet, claims, internalUsers, fileRealm, pdb, health, cache, lifeMemory>>

-----------------------------------------------------------------------------
(***************************************************************************)
(* The caches of what the controller watches (addWatches).                 *)
(***************************************************************************)
SyncCache ==
  \E kind \in DOMAIN cache :
    /\ cache[kind] # Objects[kind]
    /\ cache' = [cache EXCEPT ![kind] = Objects[kind]]
    /\ lifeQueue' = TRUE
    /\ UNCHANGED <<lifeObjects, health, lifeMemory, lifePass, lifeBudget>>

-----------------------------------------------------------------------------
(***************************************************************************)
(* Kubernetes, the cluster, the user, and restarts of the operator.        *)
(***************************************************************************)
Pay(counter) ==
  lifeBudget[counter] > 0 /\ lifeBudget' = [lifeBudget EXCEPT ![counter] = @ - 1]

LifeOthers == <<health, cache, lifeMemory, lifePass, lifeQueue>>

\* The StatefulSet controller creates a Pod with its claim.
CreateClaim ==
  /\ \E p \in PVCNames(statefulSet.replicas) \ claims : claims' = claims \cup {p}
  /\ UNCHANGED <<resource, statefulSet, internalUsers, fileRealm, pdb, LifeOthers, lifeBudget>>

\* The garbage collector deletes what a resource that is gone owned.
CollectGarbage ==
  /\ \/ /\ statefulSet.owner \notin {0, resource.uid} /\ statefulSet' = NoSet
        /\ UNCHANGED <<claims, internalUsers, fileRealm, pdb>>
     \/ /\ internalUsers.owner \notin {0, resource.uid} /\ internalUsers' = Nothing
        /\ UNCHANGED <<statefulSet, claims, fileRealm, pdb>>
     \/ /\ fileRealm.owner \notin {0, resource.uid} /\ fileRealm' = Nothing
        /\ UNCHANGED <<statefulSet, claims, internalUsers, pdb>>
     \/ /\ pdb.owner \notin {0, resource.uid} /\ pdb' = NoPDB
        /\ UNCHANGED <<statefulSet, claims, internalUsers, fileRealm>>
  /\ UNCHANGED <<resource, LifeOthers, lifeBudget>>

\* The user scales or removes the nodeSet, pauses the resource or resumes it.
EditResource ==
  /\ Pay("edits") /\ resource.uid # 0 /\ ~resource.deleting
  /\ \/ \E n \in 0 .. MaxNodes : n # resource.count /\ resource' = [resource EXCEPT !.count = n]
     \/ resource' = [resource EXCEPT !.paused = ~@]
  /\ UNCHANGED <<statefulSet, claims, internalUsers, fileRealm, pdb, LifeOthers>>

\* Deleted, it stays until its finalizers are removed.  Another one takes its name.
DeleteResource ==
  /\ Pay("deletes") /\ resource.uid # 0 /\ ~resource.deleting
  /\ resource' = IF resource.finalizers THEN [resource EXCEPT !.deleting = TRUE] ELSE NoResource
  /\ UNCHANGED <<statefulSet, claims, internalUsers, fileRealm, pdb, LifeOthers>>

RecreateResource ==
  /\ Pay("deletes") /\ resource.uid = 0
  /\ resource' = NewResource(2, 1)
  /\ UNCHANGED <<statefulSet, claims, internalUsers, fileRealm, pdb, LifeOthers>>

\* "Rotate secrets by deleting them", once the operator has seen them.
DeleteSecret ==
  /\ Pay("secrets")
  /\ \/ /\ internalUsers # Nothing /\ cache.internal = internalUsers
        /\ internalUsers' = Nothing /\ UNCHANGED fileRealm
     \/ /\ fileRealm # Nothing /\ cache.realm = fileRealm
        /\ fileRealm' = Nothing /\ UNCHANGED internalUsers
  /\ UNCHANGED <<resource, statefulSet, claims, pdb, LifeOthers>>

HealthChanges ==
  /\ Pay("flaps")
  /\ health' \in {"green", "yellow"} \ {health}
  /\ UNCHANGED <<lifeObjects, cache, lifeMemory, lifePass, lifeQueue>>

OperatorRestarts ==
  /\ Pay("crashes")
  /\ observers' = NoObserver /\ expected' = 0
  /\ cache' = Objects
  /\ lifePass' = IdleLife /\ lifeQueue' = (resource.uid # 0)
  /\ UNCHANGED <<lifeObjects, health>>

LifecycleNext ==
  \/ FetchElasticsearch \/ RegisterFinalizers \/ FinalizeElasticsearch
  \/ ReconcileInternalUsers \/ ReconcileFileRealm
  \/ ResolveObservedState \/ RetrieveState \/ StoreState
  \/ GarbageCollectPVCs \/ HandleUpscale \/ DeleteDefaultPDB \/ CreatePDB
  \/ HandleDownscale \/ UpdateStatus
  \/ SyncCache \/ CreateClaim \/ CollectGarbage
  \/ EditResource \/ DeleteResource \/ RecreateResource \/ DeleteSecret
  \/ HealthChanges \/ OperatorRestarts

LifecycleSpec == LifecycleInit /\ [][LifecycleNext]_lifecycleVars
=============================================================================
