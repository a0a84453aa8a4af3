--------------------------- MODULE Lifecycle_proofs ---------------------------
(***************************************************************************)
(* A cluster that is gone is not observed, and when nothing is left to do  *)
(* the operator is let in.  The first rests on the order in which a        *)
(* resource is registered, deleted and gone, which the operator's copies   *)
(* of it follow; the second on what a pass leaves when it asks for no      *)
(* other: every copy agrees, or the event of one that differs is to come.  *)
(***************************************************************************)
EXTENDS LifecycleProperties, TLAPS

-----------------------------------------------------------------------------
Healths == {"none", "unknown", "green", "yellow"}
Resources ==
  [uid : 0 .. 2, count : Nat, health : Healths, finalizers : BOOLEAN, deleting : BOOLEAN,
   paused : BOOLEAN]
Secrets == [owner : 0 .. 2, password : 0 .. 7]
Sets == [owner : 0 .. 2, generation : Nat, replicas : Nat]
Points ==
  {"idle", "finalizers", "internal", "realm", "observe", "nodes", "upscale", "pdb",
   "create-pdb", "downscale", "status"}
Passes ==
  [pc : Points,
   fetched : Resources, es : Resources, password : 0 .. 7, observed : Healths,
   health : Healths, set : Sets, requeue : BOOLEAN]
Caches == [resource : Resources, statefulSet : Sets, internal : Secrets, realm : Secrets]
Budgets ==
  [edits : Nat, deletes : 0 .. 2, secrets : Nat, flaps : Nat, faults : Nat, crashes : Nat,
   lag : BOOLEAN]

LifeTypeOK ==
  /\ resource \in Resources
  /\ statefulSet \in Sets
  /\ claims \subseteq Nat
  /\ internalUsers \in Secrets /\ fileRealm \in Secrets
  /\ pdb \in [owner : 0 .. 2, available : Nat]
  /\ health \in {"green", "yellow"}
  /\ cache \in Caches
  /\ observers \in [password : 0 .. 7, health : {"unknown", "green", "yellow"},
                    seen : {"nothing", "unknown", "green", "yellow"}]
  /\ expected \in Nat
  /\ lifePass \in Passes
  /\ lifeQueue \in BOOLEAN
  /\ lifeBudget \in Budgets

-----------------------------------------------------------------------------
\* A resource whose finalizers are registered and that is not deleted.
Registered(r) == r.uid # 0 /\ r.finalizers /\ ~r.deleting

\* A resource is deleted after its registration, and gone after its finalizers; the
\* second one is not deleted.
WellFormed(r) ==
  /\ r.deleting => r.uid = 1 /\ r.finalizers
  /\ r.finalizers => r.uid # 0

OneDeletion ==
  /\ resource.uid = 2 => lifeBudget.deletes = 0
  /\ resource.uid = 0 \/ resource.deleting => lifeBudget.deletes <= 1

\* The operator's copy of a resource is not ahead of it: registered, the resource
\* is still there with its finalizers; deleted, it is not back.
Behind(r) ==
  /\ Registered(r) => resource.uid = r.uid /\ resource.finalizers
  /\ r.deleting => ~(resource.uid = 1 /\ ~resource.deleting)
  /\ r.uid = 2 => resource.uid = 2

CopiesBehind ==
  /\ Behind(cache.resource)
  /\ lifePass.pc # "idle" => Behind(lifePass.es)

\* What a pass finalizes, the cache knows to be deleted.
DeletionKnown ==
  lifePass.pc = "finalizers" /\ lifePass.es.deleting => ~(cache.resource.uid = 1 /\ ~cache.resource.deleting)

\* Between its finalizers and its observer a pass works on a registered resource.
PassRegistered ==
  /\ lifePass.pc # "idle" => lifePass.es.uid # 0 /\ lifePass.fetched.uid = lifePass.es.uid
  /\ lifePass.pc \in {"internal", "realm", "observe"} => Registered(lifePass.es)

\* An observer is stopped before the finalizers are removed.
ObservedRegistered == observers.password # 0 => resource.uid # 0 /\ resource.finalizers

GoneInv ==
  /\ LifeTypeOK
  /\ WellFormed(resource) /\ WellFormed(cache.resource) /\ WellFormed(lifePass.es)
  /\ OneDeletion /\ CopiesBehind /\ DeletionKnown /\ PassRegistered /\ ObservedRegistered

-----------------------------------------------------------------------------
\* A secret has an owner and a password, or is not there.
SecretWhole(s) == s.owner = 0 <=> s.password = 0
SecretsWhole ==
  /\ SecretWhole(internalUsers) /\ SecretWhole(fileRealm)
  /\ SecretWhole(cache.internal) /\ SecretWhole(cache.realm)

\* A paused resource is looked at again.
PausedQueued ==
  /\ cache.resource.paused => lifeQueue
  /\ resource.paused => resource.uid # 0

\* The resource the operator knows of is the one there is.
SameResource == resource.uid = cache.resource.uid /\ ~cache.resource.deleting

\* The secret of the operator's user was created, which the cache is to show.
UserPending == cache.internal.password = 0 /\ internalUsers.owner = cache.resource.uid

\* The file of the users was written, which the cache is to show.
RealmPending ==
  /\ cache.realm # fileRealm
  /\ cache.realm.owner # 0 \/ fileRealm.owner = cache.resource.uid

\* What the steps of a pass leave, each in its turn.
UserKnown == cache.internal.password = lifePass.password /\ lifePass.password # 0
RealmKnown == cache.realm.password = lifePass.password
LetIn ==
  \/ UserPending
  \/ cache.internal.password # 0 /\ RealmPending
  \/ /\ cache.internal.password # 0
     /\ cache.realm.password = cache.internal.password
     /\ observers.password = cache.internal.password

\* A pass that no event has put back in the queue has the copy of the cache.
PassCurrent ==
  /\ ~lifeQueue /\ lifePass.pc # "idle" => cache.resource = lifePass.fetched
  /\ lifePass.pc = "finalizers" => lifePass.es = lifePass.fetched

PassProgress ==
  ~lifeQueue /\ cache.resource.uid # 0 /\ SameResource =>
    /\ lifePass.pc = "realm" => UserPending \/ UserKnown
    /\ lifePass.pc = "observe" => UserPending \/ (UserKnown /\ (RealmPending \/ RealmKnown))
    /\ \/ lifePass.pc \in {"idle", "nodes", "upscale", "pdb", "create-pdb", "downscale"}
       \/ lifePass.pc = "status" /\ ~lifePass.requeue
       => LetIn

PasswordHeld == lifePass.pc \in {"realm", "observe"} => lifePass.password # 0

LetInInv ==
  /\ GoneInv /\ SecretsWhole /\ PausedQueued /\ PassCurrent /\ PasswordHeld /\ PassProgress

-----------------------------------------------------------------------------
(***************************************************************************)
(* Types.                                                                  *)
(***************************************************************************)
\* A resource that is created has none of the operator's marks.
LEMMA NewResourceFields ==
  ASSUME NEW uid \in 1 .. 2, NEW count \in Nat
  PROVE  /\ NewResource(uid, count) \in Resources
         /\ NewResource(uid, count).uid = uid
         /\ ~NewResource(uid, count).finalizers
         /\ ~NewResource(uid, count).deleting
         /\ ~NewResource(uid, count).paused
<1>1. NoResource \in Resources /\ ~NoResource.finalizers /\ ~NoResource.deleting /\ ~NoResource.paused
  BY DEF NoResource, Resources, Healths
<1>2. uid \in 0 .. 2
  OBVIOUS
<1> QED
  BY <1>1, <1>2 DEF NewResource, Resources

LEMMA LifeTypeInit == LifecycleInit => LifeTypeOK
<1> SUFFICES ASSUME LifecycleInit PROVE LifeTypeOK
  OBVIOUS
<1>1. /\ NoResource \in Resources /\ NewResource(1, 1) \in Resources
      /\ NoSet \in Sets /\ Nothing \in Secrets
  BY NewResourceFields DEF NoResource, Resources, Healths, NoSet, Sets, Nothing, Secrets
<1>2. resource \in Resources /\ cache \in Caches
  BY <1>1 DEF LifecycleInit, EmptyCache, Caches
<1>3. lifePass \in Passes
  BY <1>1 DEF LifecycleInit, IdleLife, Passes, Points, Healths
<1>4. lifeBudget \in Budgets
  BY LifecycleAssumption DEF LifecycleInit, Budgets
<1> QED
  BY <1>1, <1>2, <1>3, <1>4 DEF LifecycleInit, LifeTypeOK, NoPDB, NoObserver

\* There is always a password that is used nowhere.
LEMMA NewPasswordType ==
  ASSUME LifeTypeOK
  PROVE  NewPassword \in 1 .. 7
<1> DEFINE Used == {internalUsers.password, cache.internal.password, fileRealm.password,
                    cache.realm.password, observers.password}
<1>1. \E n \in 1 .. 7 : n \notin Used /\ \A k \in 1 .. n - 1 : k \in Used
  <2>1. \E n \in 1 .. 6 : n \notin Used
    OBVIOUS
  <2>2. 1 .. 1 - 1 = {} /\ 1 .. 2 - 1 = {1} /\ 1 .. 3 - 1 = {1, 2} /\ 1 .. 4 - 1 = {1, 2, 3}
        /\ 1 .. 5 - 1 = {1, 2, 3, 4} /\ 1 .. 6 - 1 = {1, 2, 3, 4, 5}
    OBVIOUS
  <2>3. 1 .. 6 = {1, 2, 3, 4, 5, 6} /\ 1 .. 6 \subseteq 1 .. 7
    OBVIOUS
  <2> HIDE DEF Used
  <2> QED
    BY <2>1, <2>2, <2>3
<1>2. NewPassword = CHOOSE n \in 1 .. 7 : n \notin Used /\ \A k \in 1 .. n - 1 : k \in Used
  BY DEF NewPassword
<1> HIDE DEF Used
<1> QED
  BY <1>1, <1>2

\* The pass at another of its points.
LEMMA ToFields ==
  ASSUME lifePass \in Passes, NEW pc \in Points
  PROVE  /\ To(pc) \in Passes
         /\ To(pc).pc = pc
         /\ To(pc).es = lifePass.es /\ To(pc).fetched = lifePass.fetched
         /\ To(pc).password = lifePass.password /\ To(pc).health = lifePass.health
         /\ To(pc).observed = lifePass.observed
         /\ To(pc).set = lifePass.set
         /\ To(pc).requeue <=> lifePass.requeue
  BY DEF To, Passes

LEMMA EndedFields ==
  ASSUME lifePass \in Passes, NEW requeue \in BOOLEAN
  PROVE  /\ Ended(requeue) \in Passes
         /\ Ended(requeue).pc = "status"
         /\ Ended(requeue).es = lifePass.es /\ Ended(requeue).fetched = lifePass.fetched
         /\ Ended(requeue).requeue <=> requeue
         /\ Ended(requeue).health = lifePass.observed
<1>1. To("status") \in Passes /\ To("status").pc = "status"
      /\ To("status").es = lifePass.es /\ To("status").fetched = lifePass.fetched
  BY ToFields DEF Points
<1>2. lifePass.observed \in Healths
  BY DEF Passes
<1> QED
  BY <1>1, <1>2 DEF Ended, Passes

LEMMA FailedFields ==
  ASSUME lifePass \in Passes
  PROVE  /\ Failed \in Passes
         /\ Failed.pc = "status"
         /\ Failed.es = lifePass.es /\ Failed.fetched = lifePass.fetched
         /\ Failed.requeue
<1>1. To("status") \in Passes /\ To("status").pc = "status"
      /\ To("status").es = lifePass.es /\ To("status").fetched = lifePass.fetched
  BY ToFields DEF Points
<1> QED
  BY <1>1 DEF Failed, Passes

LEMMA IdleFields ==
  /\ IdleLife \in Passes /\ IdleLife.pc = "idle"
  /\ IdleLife.es = NoResource /\ IdleLife.fetched = NoResource
  /\ NoResource \in Resources /\ NoResource.uid = 0
  /\ ~NoResource.finalizers /\ ~NoResource.deleting /\ ~NoResource.paused
<1>1. /\ NoResource \in Resources /\ NoResource.uid = 0
      /\ ~NoResource.finalizers /\ ~NoResource.deleting /\ ~NoResource.paused
  BY DEF NoResource, Resources, Healths
<1>2. NoSet \in Sets
  BY DEF NoSet, Sets
<1> QED
  BY <1>1, <1>2 DEF IdleLife, Passes, Points, Healths

\* A failed call spends the budget of faults.
LEMMA SpendStep ==
  ASSUME LifeTypeOK, NEW outcome \in WriteOutcomes, Spend(outcome)
  PROVE  /\ lifeBudget' \in Budgets
         /\ lifeBudget'.deletes = lifeBudget.deletes
         /\ lifeBudget'.lag <=> lifeBudget.lag
  BY DEF LifeTypeOK, WriteOutcomes, Spend, Budgets

\* Where a pass goes after a write.
LEMMA ContinueStep ==
  ASSUME LifeTypeOK, NEW outcome \in WriteOutcomes, NEW conflict, NEW next,
         Continue(outcome, conflict, next)
  PROVE  /\ \/ outcome = "done" /\ ~conflict /\ lifePass' = next
            \/ ~(outcome = "done" /\ ~conflict) /\ lifePass' = Failed
         /\ lifeBudget' \in Budgets
         /\ lifeBudget'.deletes = lifeBudget.deletes
         /\ lifeBudget'.lag <=> lifeBudget.lag
         /\ lifeQueue' = lifeQueue
  BY SpendStep DEF Continue

LEMMA GoOnStep ==
  ASSUME LifeTypeOK, NEW next, GoOn(next)
  PROVE  /\ lifePass' = next
         /\ lifeBudget' = lifeBudget /\ lifeBudget' \in Budgets
         /\ lifeQueue' = lifeQueue
  BY DEF GoOn, LifeTypeOK

\* A write leaves the object, or replaces the one that was read.
LEMMA AfterWriteIs ==
  ASSUME NEW outcome, NEW object, NEW read, NEW new
  PROVE  \/ AfterWrite(outcome, object, read, new) = object /\ (outcome = "failed" \/ object # read)
         \/ AfterWrite(outcome, object, read, new) = new /\ object = read /\ outcome # "failed"
  BY DEF AfterWrite

\* What a payment of the environment leaves.
LEMMA PayStep ==
  ASSUME LifeTypeOK
  PROVE  /\ Pay("edits") \/ Pay("secrets") \/ Pay("flaps") \/ Pay("crashes") =>
              lifeBudget' \in Budgets /\ lifeBudget'.deletes = lifeBudget.deletes
              /\ (lifeBudget'.lag <=> lifeBudget.lag)
         /\ Pay("deletes") =>
              lifeBudget' \in Budgets /\ lifeBudget'.deletes = lifeBudget.deletes - 1
              /\ (lifeBudget'.lag <=> lifeBudget.lag) /\ lifeBudget.deletes > 0
<1>1. lifeBudget.deletes > 0 => lifeBudget.deletes - 1 \in 0 .. 2
  BY DEF LifeTypeOK, Budgets
<1> QED
  BY <1>1 DEF Pay, LifeTypeOK, Budgets

-----------------------------------------------------------------------------
(***************************************************************************)
(* What each step of a pass does to the variables' types, and to what the  *)
(* pass has fetched.                                                       *)
(***************************************************************************)
PassKeeps ==
  /\ lifePass'.es = lifePass.es /\ lifePass'.fetched = lifePass.fetched
  /\ lifeBudget'.deletes = lifeBudget.deletes
  /\ lifeQueue' = lifeQueue

LEMMA FetchType ==
  ASSUME LifeTypeOK, FetchElasticsearch
  PROVE  /\ LifeTypeOK'
         /\ \/ lifePass' = IdleLife /\ (cache.resource.uid = 0 \/ cache.resource.paused)
            \/ /\ lifePass'.pc = "finalizers" /\ cache.resource.uid # 0
               /\ lifePass'.fetched = cache.resource /\ lifePass'.es = cache.resource
<1>1. /\ lifeQueue' \in BOOLEAN
      /\ cache.resource \in Resources /\ cache.resource.health \in Healths
  BY DEF FetchElasticsearch, LifeTypeOK, Caches, Resources
<1>2. \/ lifePass' = IdleLife /\ (cache.resource.uid = 0 \/ cache.resource.paused)
      \/ /\ lifePass' = [IdleLife EXCEPT !.pc = "finalizers", !.fetched = cache.resource,
                                         !.es = cache.resource, !.health = cache.resource.health]
         /\ cache.resource.uid # 0
  BY DEF FetchElasticsearch
<1>3. lifePass' \in Passes
  BY <1>1, <1>2, IdleFields DEF Passes, Points
<1>4. LifeTypeOK'
  BY <1>1, <1>3 DEF FetchElasticsearch, LifeTypeOK, lifeObjects, lifeMemory
<1> QED
  BY <1>1, <1>2, <1>4, IdleFields DEF Passes, Points

LEMMA RegisterType ==
  ASSUME LifeTypeOK, RegisterFinalizers
  PROVE  /\ LifeTypeOK'
         /\ lifePass'.fetched = lifePass.fetched
         /\ lifeBudget'.deletes = lifeBudget.deletes /\ lifeQueue' = lifeQueue
         /\ \/ UNCHANGED resource
            \/ resource = lifePass.es /\ resource' = [lifePass.es EXCEPT !.finalizers = TRUE]
         /\ \/ /\ lifePass'.pc = "internal"
               /\ \/ lifePass'.es = lifePass.es /\ lifePass.es.finalizers
                  \/ /\ lifePass'.es = [lifePass.es EXCEPT !.finalizers = TRUE]
                     /\ resource' = lifePass'.es
            \/ lifePass'.pc = "status" /\ lifePass'.requeue /\ lifePass'.es = lifePass.es
<1> DEFINE registered == [lifePass.es EXCEPT !.finalizers = TRUE]
<1>1. lifePass \in Passes /\ lifePass.es \in Resources /\ resource \in Resources
  BY DEF LifeTypeOK, Passes
<1>2. registered \in Resources
  BY <1>1 DEF Resources
<1>3. /\ To("internal") \in Passes /\ To("internal").pc = "internal"
      /\ To("internal").es = lifePass.es /\ To("internal").fetched = lifePass.fetched
  BY <1>1, ToFields DEF Points
<1>4. /\ [To("internal") EXCEPT !.es = registered] \in Passes
      /\ [To("internal") EXCEPT !.es = registered].pc = "internal"
      /\ [To("internal") EXCEPT !.es = registered].es = registered
      /\ [To("internal") EXCEPT !.es = registered].fetched = lifePass.fetched
  BY <1>2, <1>3 DEF Passes
<1>5. CASE lifePass.es.finalizers
  <2>1. GoOn(To("internal")) /\ UNCHANGED resource
    BY <1>5 DEF RegisterFinalizers
  <2>2. lifePass' = To("internal") /\ lifeBudget' = lifeBudget /\ lifeQueue' = lifeQueue
    BY <2>1, GoOnStep
  <2> QED
    BY <2>1, <2>2, <1>3, <1>5 DEF LifeTypeOK, RegisterFinalizers, lifeMemory
<1>6. CASE ~lifePass.es.finalizers
  <2>1. PICK outcome \in WriteOutcomes :
          /\ resource' = AfterWrite(outcome, resource, lifePass.es, registered)
          /\ Continue(outcome, resource # lifePass.es, [To("internal") EXCEPT !.es = registered])
    BY <1>6 DEF RegisterFinalizers
  <2>2. /\ \/ /\ outcome = "done" /\ resource = lifePass.es
              /\ lifePass' = [To("internal") EXCEPT !.es = registered]
           \/ ~(outcome = "done" /\ resource = lifePass.es) /\ lifePass' = Failed
        /\ lifeBudget' \in Budgets
        /\ lifeBudget'.deletes = lifeBudget.deletes
        /\ lifeQueue' = lifeQueue
    BY <2>1, ContinueStep
  <2>3. \/ resource' = resource /\ (outcome = "failed" \/ resource # lifePass.es)
        \/ resource' = registered /\ resource = lifePass.es
    BY <2>1, AfterWriteIs
  <2>4. resource' \in Resources /\ lifePass' \in Passes
    BY <2>2, <2>3, <1>1, <1>2, <1>4, FailedFields
  <2>5. LifeTypeOK'
    BY <2>2, <2>4 DEF LifeTypeOK, RegisterFinalizers, lifeMemory
  <2> HIDE DEF registered
  <2> QED
    BY <2>2, <2>3, <2>5, <1>1, <1>4, FailedFields DEF registered
<1> QED
  BY <1>5, <1>6

LEMMA FinalizeType ==
  ASSUME LifeTypeOK, FinalizeElasticsearch
  PROVE  /\ LifeTypeOK' /\ PassKeeps
         /\ observers'.password = 0
         /\ lifePass'.pc = "status"
         /\ UNCHANGED resource \/ (resource = lifePass.es /\ resource' = NoResource)
<1>1. lifePass \in Passes /\ resource \in Resources
  BY DEF LifeTypeOK
<1>2. PICK outcome \in WriteOutcomes :
        /\ resource' = AfterWrite(outcome, resource, lifePass.es, NoResource)
        /\ Continue(outcome, resource # lifePass.es, To("status"))
  BY DEF FinalizeElasticsearch
<1>3. /\ lifePass' = To("status") \/ lifePass' = Failed
      /\ lifeBudget' \in Budgets
      /\ lifeBudget'.deletes = lifeBudget.deletes
      /\ lifeQueue' = lifeQueue
  BY <1>2, ContinueStep
<1>4. resource' = resource \/ (resource = lifePass.es /\ resource' = NoResource)
  BY <1>2, AfterWriteIs
<1>5. /\ lifePass' \in Passes /\ lifePass'.pc = "status"
      /\ lifePass'.es = lifePass.es /\ lifePass'.fetched = lifePass.fetched
  BY <1>1, <1>3, ToFields, FailedFields DEF Points
<1>6. observers' = NoObserver
  BY DEF FinalizeElasticsearch, StopObserving
<1>7. LifeTypeOK'
  BY <1>1, <1>3, <1>4, <1>5, <1>6, IdleFields
     DEF LifeTypeOK, FinalizeElasticsearch, NoObserver
<1> QED
  BY <1>3, <1>4, <1>5, <1>6, <1>7 DEF PassKeeps, NoObserver

\* The operator's user: a secret that has a password is kept, else one is written.
LEMMA InternalUsersType ==
  ASSUME LifeTypeOK, ReconcileInternalUsers
  PROVE  /\ LifeTypeOK' /\ PassKeeps
         /\ \/ internalUsers' = internalUsers
            \/ /\ cache.internal.password = 0 /\ internalUsers = cache.internal
               /\ internalUsers'.owner = lifePass.es.uid /\ internalUsers'.password # 0
         /\ \/ /\ lifePass'.pc = "realm"
               /\ \/ /\ cache.internal.password # 0
                     /\ lifePass'.password = cache.internal.password
                  \/ /\ cache.internal.password = 0
                     /\ internalUsers'.owner = lifePass.es.uid
                     /\ lifePass'.password # 0
            \/ lifePass'.pc = "status" /\ lifePass'.requeue
<1> DEFINE read == cache.internal
           users == InternalUsers(read)
           next == [To("realm") EXCEPT !.password = users.password]
<1>1. /\ lifePass \in Passes /\ lifePass.es \in Resources /\ lifePass.es.uid \in 0 .. 2
      /\ internalUsers \in Secrets
      /\ read \in Secrets /\ read.password \in 0 .. 7 /\ At("internal")
  BY DEF LifeTypeOK, Passes, Resources, Caches, Secrets, ReconcileInternalUsers
<1>2. NewPassword \in 0 .. 7 /\ NewPassword # 0
  BY NewPasswordType
<1>3. \/ read.password # 0 /\ users = read
      \/ /\ read.password = 0 /\ users # read
         /\ users.owner = lifePass.es.uid /\ users.password # 0
  <2>1. NewInternalUsers.owner = lifePass.es.uid /\ NewInternalUsers.password = NewPassword
    BY DEF NewInternalUsers
  <2> QED
    BY <2>1, <1>2 DEF InternalUsers
<1>4. users \in Secrets /\ users.password \in 0 .. 7
  <2>1. NewInternalUsers \in Secrets
    BY <1>1, <1>2 DEF NewInternalUsers, Secrets
  <2> QED
    BY <2>1, <1>1 DEF InternalUsers, Secrets
<1> HIDE DEF users
<1>5. /\ To("realm") \in Passes /\ To("realm").pc = "realm"
      /\ To("realm").es = lifePass.es /\ To("realm").fetched = lifePass.fetched
  BY <1>1, ToFields DEF Points
<1>6. /\ next \in Passes /\ next.pc = "realm" /\ next.password = users.password
      /\ next.es = lifePass.es /\ next.fetched = lifePass.fetched
  BY <1>4, <1>5 DEF Passes
<1> HIDE DEF next
<1>7. CASE users = read
  <2>1. GoOn([To("realm") EXCEPT !.password = read.password]) /\ UNCHANGED internalUsers
    BY <1>7 DEF ReconcileInternalUsers, users
  <2>2. lifePass' = next /\ lifeBudget' = lifeBudget /\ lifeQueue' = lifeQueue
    BY <2>1, <1>7, GoOnStep DEF next
  <2>3. LifeTypeOK'
    BY <2>1, <2>2, <1>6 DEF LifeTypeOK, ReconcileInternalUsers, lifeMemory
  <2> QED
    BY <2>1, <2>2, <2>3, <1>3, <1>6, <1>7 DEF PassKeeps
<1>8. CASE users # read
  <2>1. PICK outcome \in WriteOutcomes :
          /\ internalUsers' = AfterWrite(outcome, internalUsers, read, users)
          /\ Continue(outcome, internalUsers # read, next)
    BY <1>8 DEF ReconcileInternalUsers, users, next
  <2>2. /\ \/ outcome = "done" /\ internalUsers = read /\ lifePass' = next
           \/ lifePass' = Failed
        /\ lifeBudget' \in Budgets
        /\ lifeBudget'.deletes = lifeBudget.deletes
        /\ lifeQueue' = lifeQueue
    BY <2>1, ContinueStep
  <2>3. \/ internalUsers' = internalUsers /\ (outcome = "failed" \/ internalUsers # read)
        \/ internalUsers' = users /\ internalUsers = read
    BY <2>1, AfterWriteIs
  <2>4. internalUsers' \in Secrets /\ lifePass' \in Passes
    BY <2>2, <2>3, <1>1, <1>4, <1>6, FailedFields
  <2>5. LifeTypeOK'
    BY <2>2, <2>4 DEF LifeTypeOK, ReconcileInternalUsers, lifeMemory
  <2>6. PassKeeps
    BY <2>2, <1>1, <1>6, FailedFields DEF PassKeeps
  <2>7. "done" # "failed"
    OBVIOUS
  <2> QED
    BY <2>2, <2>3, <2>5, <2>6, <2>7, <1>1, <1>3, <1>6, <1>8, FailedFields
<1> QED
  BY <1>7, <1>8

\* The file of the users: one that does not match the password is written.
LEMMA FileRealmType ==
  ASSUME LifeTypeOK, ReconcileFileRealm
  PROVE  /\ LifeTypeOK' /\ PassKeeps
         /\ \/ fileRealm' = fileRealm
            \/ /\ cache.realm.password # lifePass.password /\ fileRealm = cache.realm
               /\ fileRealm'.owner = IF cache.realm.owner = 0 THEN lifePass.es.uid ELSE cache.realm.owner
               /\ fileRealm'.password = lifePass.password
         /\ \/ /\ lifePass'.pc = "observe" /\ lifePass'.password = lifePass.password
               /\ \/ cache.realm.password = lifePass.password
                  \/ cache.realm = fileRealm /\ fileRealm'.password = lifePass.password
                     /\ fileRealm'.owner = IF cache.realm.owner = 0 THEN lifePass.es.uid ELSE cache.realm.owner
            \/ lifePass'.pc = "status" /\ lifePass'.requeue
<1> DEFINE read == cache.realm
           owner == IF read.owner = 0 THEN lifePass.es.uid ELSE read.owner
           file == FileRealm(read)
<1>1. /\ lifePass \in Passes /\ lifePass.es \in Resources /\ lifePass.es.uid \in 0 .. 2
      /\ lifePass.password \in 0 .. 7
      /\ fileRealm \in Secrets
      /\ read \in Secrets /\ read.password \in 0 .. 7 /\ read.owner \in 0 .. 2
  BY DEF LifeTypeOK, Passes, Resources, Caches, Secrets
<1>2. \/ read.password = lifePass.password /\ file = read
      \/ /\ read.password # lifePass.password /\ file # read
         /\ file.owner = owner /\ file.password = lifePass.password
  <2>1. ElasticUsers(read).owner = owner /\ ElasticUsers(read).password = lifePass.password
    BY DEF ElasticUsers
  <2> QED
    BY <2>1 DEF FileRealm, PasswordMatches
<1>3. file \in Secrets
  <2>1. owner \in 0 .. 2
    BY <1>1
  <2>2. ElasticUsers(read) = [owner |-> owner, password |-> lifePass.password]
    BY DEF ElasticUsers
  <2>3. ElasticUsers(read) \in Secrets
    BY <1>1, <2>1, <2>2 DEF Secrets
  <2> QED
    BY <2>3, <1>1 DEF FileRealm
<1> HIDE DEF file
<1>4. /\ To("observe") \in Passes /\ To("observe").pc = "observe"
      /\ To("observe").es = lifePass.es /\ To("observe").fetched = lifePass.fetched
      /\ To("observe").password = lifePass.password
  BY <1>1, ToFields DEF Points
<1>5. CASE file = read
  <2>1. GoOn(To("observe")) /\ UNCHANGED fileRealm
    BY <1>5 DEF ReconcileFileRealm, file
  <2>2. lifePass' = To("observe") /\ lifeBudget' = lifeBudget /\ lifeQueue' = lifeQueue
    BY <2>1, GoOnStep
  <2>3. LifeTypeOK'
    BY <2>1, <2>2, <1>4 DEF LifeTypeOK, ReconcileFileRealm, lifeMemory
  <2> QED
    BY <2>1, <2>2, <2>3, <1>2, <1>4, <1>5 DEF PassKeeps
<1>6. CASE file # read
  <2>1. PICK outcome \in WriteOutcomes :
          /\ fileRealm' = AfterWrite(outcome, fileRealm, read, file)
          /\ Continue(outcome, fileRealm # read, To("observe"))
    BY <1>6 DEF ReconcileFileRealm, file
  <2>2. /\ \/ outcome = "done" /\ fileRealm = read /\ lifePass' = To("observe")
           \/ lifePass' = Failed
        /\ lifeBudget' \in Budgets
        /\ lifeBudget'.deletes = lifeBudget.deletes
        /\ lifeQueue' = lifeQueue
    BY <2>1, ContinueStep
  <2>3. \/ fileRealm' = fileRealm /\ (outcome = "failed" \/ fileRealm # read)
        \/ fileRealm' = file /\ fileRealm = read
    BY <2>1, AfterWriteIs
  <2>4. fileRealm' \in Secrets /\ lifePass' \in Passes
    BY <2>2, <2>3, <1>1, <1>3, <1>4, FailedFields
  <2>5. LifeTypeOK'
    BY <2>2, <2>4 DEF LifeTypeOK, ReconcileFileRealm, lifeMemory
  <2>6. PassKeeps
    BY <2>2, <1>1, <1>4, FailedFields DEF PassKeeps
  <2>7. "done" # "failed"
    OBVIOUS
  <2> HIDE DEF owner
  <2> QED
    BY <2>2, <2>3, <2>5, <2>6, <2>7, <1>1, <1>2, <1>4, <1>6, FailedFields DEF owner
<1> QED
  BY <1>5, <1>6

\* The observer is the one of the operator's password.
LEMMA ResolveType ==
  ASSUME LifeTypeOK, ResolveObservedState
  PROVE  /\ LifeTypeOK' /\ PassKeeps
         /\ lifePass'.pc = "nodes"
         /\ observers'.password = lifePass.password
<1> DEFINE observed == Observe(lifePass.password).health
           status == IF observed = "unknown" THEN lifePass.health ELSE observed
           next == [To("nodes") EXCEPT !.observed = observed, !.health = status]
<1>1. lifePass \in Passes /\ lifePass.password \in 0 .. 7 /\ lifePass.health \in Healths
  BY DEF LifeTypeOK, Passes
<1>2. /\ Observe(lifePass.password) \in
           [password : 0 .. 7, health : {"unknown", "green", "yellow"},
            seen : {"nothing", "unknown", "green", "yellow"}]
      /\ Observe(lifePass.password).password = lifePass.password
  BY <1>1 DEF LifeTypeOK, Observe, NoObserver
<1>3. observed \in Healths
  BY <1>2 DEF Healths
<1> HIDE DEF observed
<1>4. status \in Healths
  BY <1>1, <1>3
<1>5. /\ To("nodes") \in Passes /\ To("nodes").pc = "nodes" /\ To("nodes").health = lifePass.health
      /\ To("nodes").es = lifePass.es /\ To("nodes").fetched = lifePass.fetched
  BY <1>1, ToFields DEF Points
<1>6. GoOn(next)
  BY <1>5 DEF ResolveObservedState, observed
<1> HIDE DEF status
<1>7. /\ next \in Passes /\ next.pc = "nodes"
      /\ next.es = lifePass.es /\ next.fetched = lifePass.fetched
  BY <1>3, <1>4, <1>5 DEF Passes
<1>8. lifePass' = next /\ lifeBudget' = lifeBudget /\ lifeQueue' = lifeQueue
  BY <1>6, GoOnStep
<1>9. LifeTypeOK'
  BY <1>2, <1>7, <1>8 DEF LifeTypeOK, ResolveObservedState, lifeObjects
<1> QED
  BY <1>2, <1>7, <1>8, <1>9 DEF PassKeeps, ResolveObservedState

\* The steps that follow leave the resource, the users and the observer alone.
WorksOn ==
  /\ PassKeeps
  /\ UNCHANGED <<resource, internalUsers, fileRealm, cache, observers, health>>
  /\ lifePass.pc \in {"nodes", "upscale", "pdb", "create-pdb", "downscale"}
  /\ lifePass'.pc \in {"upscale", "pdb", "create-pdb", "downscale", "status"}

LEMMA GarbageCollectType ==
  ASSUME LifeTypeOK, GarbageCollectPVCs
  PROVE  LifeTypeOK' /\ WorksOn
<1> DEFINE next == [To("upscale") EXCEPT !.set = cache.statefulSet]
<1>1. lifePass \in Passes /\ cache.statefulSet \in Sets
  BY DEF LifeTypeOK, Caches
<1>2. /\ next \in Passes /\ next.pc = "upscale"
      /\ next.es = lifePass.es /\ next.fetched = lifePass.fetched
  BY <1>1, ToFields DEF Points, Passes
<1> HIDE DEF next
<1>3. /\ claims' \subseteq claims
      /\ lifePass' \in {next, Failed, Ended(TRUE)}
      /\ lifeBudget' \in Budgets /\ lifeBudget'.deletes = lifeBudget.deletes
      /\ lifeQueue' = lifeQueue
  <2>1. CASE GoOn(Ended(TRUE)) /\ UNCHANGED claims
    BY <2>1, GoOnStep
  <2>2. CASE \E outcome \in WriteOutcomes, removed \in SUBSET PVCsToRemove :
               claims' = claims \ removed /\ Continue(outcome, FALSE, next)
    BY <2>2, ContinueStep
  <2> QED
    BY <2>1, <2>2 DEF GarbageCollectPVCs, next
<1>4. /\ lifePass' \in Passes /\ lifePass'.pc \in {"upscale", "status"}
      /\ lifePass'.es = lifePass.es /\ lifePass'.fetched = lifePass.fetched
  BY <1>1, <1>2, <1>3, FailedFields, EndedFields
<1>5. LifeTypeOK'
  BY <1>3, <1>4 DEF LifeTypeOK, GarbageCollectPVCs, lifeMemory
<1> QED
  BY <1>3, <1>4, <1>5 DEF WorksOn, PassKeeps, GarbageCollectPVCs, lifeMemory, At

LEMMA UpscaleType ==
  ASSUME LifeTypeOK, HandleUpscale
  PROVE  LifeTypeOK' /\ WorksOn
<1> DEFINE read == cache.statefulSet
           reconciled == [owner |-> lifePass.es.uid, generation |-> statefulSet.generation + 1,
                          replicas |-> AdjustedReplicas]
           refused == (read.generation = 0) # (statefulSet.generation = 0)
           created == read.generation = 0
           kept == IF lifePass.es.count = 0 THEN lifePass.set ELSE read
           next == [To("pdb") EXCEPT !.set = kept]
           nextWritten == [To("pdb") EXCEPT !.set = reconciled]
<1>1. /\ lifePass \in Passes /\ read \in Sets /\ statefulSet \in Sets
      /\ lifePass.set \in Sets /\ lifePass.es.uid \in 0 .. 2 /\ lifePass.es.count \in Nat
      /\ statefulSet.generation \in Nat /\ lifePass.set.replicas \in Nat
  BY DEF LifeTypeOK, Caches, Passes, Resources, Sets
<1>2. reconciled \in Sets /\ reconciled.generation \in Nat
  BY <1>1 DEF Sets, AdjustedReplicas
<1>3. kept \in Sets
  BY <1>1
<1>4. /\ To("pdb") \in Passes /\ To("pdb").pc = "pdb" /\ To("pdb").set = lifePass.set
      /\ To("pdb").es = lifePass.es /\ To("pdb").fetched = lifePass.fetched
  BY <1>1, ToFields DEF Points
<1> HIDE DEF kept, reconciled
<1>5. /\ next \in Passes /\ next.pc = "pdb"
      /\ next.es = lifePass.es /\ next.fetched = lifePass.fetched
      /\ nextWritten \in Passes /\ nextWritten.pc = "pdb"
      /\ nextWritten.es = lifePass.es /\ nextWritten.fetched = lifePass.fetched
  BY <1>2, <1>3, <1>4 DEF Passes
<1>6. /\ statefulSet' \in {statefulSet, reconciled} /\ expected' \in {expected, 0, reconciled.generation}
      /\ lifePass' \in {next, nextWritten, Failed}
      /\ lifeBudget' \in Budgets /\ lifeBudget'.deletes = lifeBudget.deletes
      /\ lifeQueue' = lifeQueue
  <2>1. CASE lifePass.es.count = 0 \/ (~created /\ read.replicas = AdjustedReplicas)
    <3>1. GoOn(next) /\ UNCHANGED <<statefulSet, expected>>
      BY <2>1, <1>4 DEF HandleUpscale, kept
    <3> HIDE DEF next
    <3> QED
      BY <3>1, GoOnStep
  <2>2. CASE ~(lifePass.es.count = 0 \/ (~created /\ read.replicas = AdjustedReplicas))
    <3>1. PICK outcome \in WriteOutcomes :
            /\ statefulSet' \in {statefulSet, reconciled}
            /\ expected' \in {expected, 0, reconciled.generation}
            /\ Continue(outcome, refused, nextWritten)
      BY <2>2 DEF HandleUpscale, reconciled
    <3> HIDE DEF nextWritten, refused
    <3> QED
      BY <3>1, ContinueStep
  <2> QED
    BY <2>1, <2>2
<1> HIDE DEF next, nextWritten
<1>7. /\ lifePass' \in Passes /\ lifePass'.pc \in {"pdb", "status"}
      /\ lifePass'.es = lifePass.es /\ lifePass'.fetched = lifePass.fetched
  BY <1>1, <1>5, <1>6, FailedFields
<1>8. statefulSet' \in Sets /\ expected' \in Nat
  BY <1>1, <1>2, <1>6 DEF LifeTypeOK
<1>9. LifeTypeOK'
  BY <1>6, <1>7, <1>8 DEF LifeTypeOK, HandleUpscale
<1> QED
  BY <1>6, <1>7, <1>9 DEF WorksOn, PassKeeps, HandleUpscale, At

LEMMA ExpectedPDBType ==
  ASSUME LifeTypeOK
  PROVE  ExpectedPDB(ExpectedNodeCount) \in [owner : 0 .. 2, available : Nat]
<1>1. lifePass.es.uid \in 0 .. 2 /\ lifePass.set.replicas \in Nat
  BY DEF LifeTypeOK, Passes, Resources, Sets
<1>2. ExpectedNodeCount \in Nat /\ ExpectedNodeCount > 2
  BY <1>1, LifecycleAssumption DEF ExpectedNodeCount
<1>3. AllowedDisruptions \in {0, 1}
  BY DEF AllowedDisruptions
<1>4. ExpectedNodeCount - AllowedDisruptions \in Nat
  BY <1>2, <1>3
<1> QED
  BY <1>1, <1>4 DEF ExpectedPDB

LEMMA DeletePDBType ==
  ASSUME LifeTypeOK, DeleteDefaultPDB
  PROVE  LifeTypeOK' /\ WorksOn
<1>1. lifePass \in Passes
  BY DEF LifeTypeOK
<1>2. /\ pdb' \in {pdb, NoPDB}
      /\ lifePass' \in {To("downscale"), To("create-pdb"), Failed}
      /\ lifeBudget' \in Budgets /\ lifeBudget'.deletes = lifeBudget.deletes
      /\ lifeQueue' = lifeQueue
  <2>1. CASE (GoOn(To("downscale")) \/ GoOn(To("create-pdb"))) /\ UNCHANGED pdb
    BY <2>1, GoOnStep
  <2>2. CASE \E outcome \in WriteOutcomes :
               /\ pdb' = AfterWrite(outcome, pdb, pdb, NoPDB)
               /\ Continue(outcome, FALSE, To("create-pdb"))
    <3>1. PICK outcome \in WriteOutcomes :
            /\ pdb' = AfterWrite(outcome, pdb, pdb, NoPDB)
            /\ Continue(outcome, FALSE, To("create-pdb"))
      BY <2>2
    <3>2. pdb' \in {pdb, NoPDB}
      BY <3>1, AfterWriteIs
    <3> QED
      BY <3>1, <3>2, ContinueStep
  <2> QED
    BY <2>1, <2>2 DEF DeleteDefaultPDB
<1>3. /\ lifePass' \in Passes /\ lifePass'.pc \in {"create-pdb", "downscale", "status"}
      /\ lifePass'.es = lifePass.es /\ lifePass'.fetched = lifePass.fetched
  BY <1>1, <1>2, ToFields, FailedFields DEF Points
<1>4. LifeTypeOK'
  BY <1>2, <1>3 DEF LifeTypeOK, DeleteDefaultPDB, lifeMemory, NoPDB
<1> QED
  BY <1>2, <1>3, <1>4 DEF WorksOn, PassKeeps, DeleteDefaultPDB, lifeMemory, At

LEMMA CreatePDBType ==
  ASSUME LifeTypeOK, CreatePDB
  PROVE  LifeTypeOK' /\ WorksOn
<1>1. lifePass \in Passes
  BY DEF LifeTypeOK
<1>2. PICK outcome \in WriteOutcomes :
        /\ pdb' = AfterWrite(outcome, pdb, NoPDB, ExpectedPDB(ExpectedNodeCount))
        /\ Continue(outcome, pdb # NoPDB, To("downscale"))
  BY DEF CreatePDB
<1>3. /\ pdb' \in {pdb, ExpectedPDB(ExpectedNodeCount)}
      /\ lifePass' \in {To("downscale"), Failed}
      /\ lifeBudget' \in Budgets /\ lifeBudget'.deletes = lifeBudget.deletes
      /\ lifeQueue' = lifeQueue
  BY <1>2, ContinueStep, AfterWriteIs
<1>4. /\ lifePass' \in Passes /\ lifePass'.pc \in {"downscale", "status"}
      /\ lifePass'.es = lifePass.es /\ lifePass'.fetched = lifePass.fetched
  BY <1>1, <1>3, ToFields, FailedFields DEF Points
<1>5. LifeTypeOK'
  BY <1>3, <1>4, ExpectedPDBType DEF LifeTypeOK, CreatePDB, lifeMemory
<1> QED
  BY <1>3, <1>4, <1>5 DEF WorksOn, PassKeeps, CreatePDB, lifeMemory, At

LEMMA DownscaleType ==
  ASSUME LifeTypeOK, HandleDownscale
  PROVE  LifeTypeOK' /\ WorksOn
<1> DEFINE read == lifePass.set
           downscaled == [read EXCEPT !.generation = @ + 1, !.replicas = lifePass.es.count]
<1>1. /\ lifePass \in Passes /\ read \in Sets /\ lifePass.es.count \in Nat
      /\ read.generation \in Nat
  BY DEF LifeTypeOK, Passes, Resources, Sets
<1>2. downscaled \in Sets /\ downscaled.generation \in Nat
  <2>1. read.generation + 1 \in Nat
    BY <1>1
  <2>2. downscaled \in Sets
    BY <1>1, <2>1 DEF Sets
  <2> QED
    BY <2>2 DEF Sets
<1> HIDE DEF downscaled
<1>3. /\ statefulSet' \in {statefulSet, downscaled, NoSet}
      /\ expected' \in {expected, downscaled.generation}
      /\ lifePass' \in {Ended(TRUE), Ended(FALSE), Failed}
      /\ lifeBudget' \in Budgets /\ lifeBudget'.deletes = lifeBudget.deletes
      /\ lifeQueue' = lifeQueue
  <2>1. CASE (GoOn(Ended(TRUE)) \/ GoOn(Ended(FALSE))) /\ UNCHANGED <<statefulSet, expected>>
    BY <2>1, GoOnStep
  <2>2. CASE \E outcome \in WriteOutcomes :
               /\ statefulSet' = AfterWrite(outcome, statefulSet, read, downscaled)
               /\ expected' = IF outcome = "done" /\ statefulSet = read THEN downscaled.generation
                              ELSE expected
               /\ Continue(outcome, statefulSet # read, Ended(FALSE))
    <3>1. PICK outcome \in WriteOutcomes :
            /\ statefulSet' = AfterWrite(outcome, statefulSet, read, downscaled)
            /\ expected' \in {expected, downscaled.generation}
            /\ Continue(outcome, statefulSet # read, Ended(FALSE))
      BY <2>2
    <3>2. statefulSet' \in {statefulSet, downscaled}
      BY <3>1, AfterWriteIs
    <3> QED
      BY <3>1, <3>2, ContinueStep
  <2>3. CASE /\ \E outcome \in WriteOutcomes :
                  /\ statefulSet' = AfterWrite(outcome, statefulSet, statefulSet, NoSet)
                  /\ Continue(outcome, statefulSet = NoSet, Ended(FALSE))
             /\ UNCHANGED expected
    <3>1. PICK outcome \in WriteOutcomes :
            /\ statefulSet' = AfterWrite(outcome, statefulSet, statefulSet, NoSet)
            /\ Continue(outcome, statefulSet = NoSet, Ended(FALSE))
      BY <2>3
    <3>2. statefulSet' \in {statefulSet, NoSet}
      BY <3>1, AfterWriteIs
    <3> QED
      BY <2>3, <3>1, <3>2, ContinueStep
  <2> QED
    BY <2>1, <2>2, <2>3 DEF HandleDownscale, downscaled
<1>4. /\ lifePass' \in Passes /\ lifePass'.pc = "status"
      /\ lifePass'.es = lifePass.es /\ lifePass'.fetched = lifePass.fetched
  BY <1>1, <1>3, EndedFields, FailedFields
<1>5. statefulSet' \in Sets /\ expected' \in Nat
  BY <1>2, <1>3 DEF LifeTypeOK, NoSet, Sets
<1>6. LifeTypeOK'
  BY <1>3, <1>4, <1>5 DEF LifeTypeOK, HandleDownscale
<1> QED
  BY <1>3, <1>4, <1>6 DEF WorksOn, PassKeeps, HandleDownscale, At

\* The status is of the resource as it was fetched.
LEMMA UpdateStatusType ==
  ASSUME LifeTypeOK, UpdateStatus
  PROVE  /\ LifeTypeOK'
         /\ lifePass' = IdleLife
         /\ lifeBudget'.deletes = lifeBudget.deletes
         /\ lifeQueue \/ lifePass.requeue => lifeQueue'
         /\ \/ UNCHANGED resource
            \/ /\ resource = lifePass.fetched
               /\ resource' = [resource EXCEPT !.health = lifePass.health]
<1> DEFINE updated == [lifePass.fetched EXCEPT !.health = lifePass.health]
<1>1. /\ lifePass \in Passes /\ lifePass.fetched \in Resources /\ lifePass.health \in Healths
      /\ resource \in Resources
  BY DEF LifeTypeOK, Passes
<1>2. updated \in Resources
  BY <1>1 DEF Resources
<1>3. PICK outcome \in WriteOutcomes :
        /\ resource' = AfterWrite(outcome, resource, lifePass.fetched, updated)
        /\ lifeQueue' = (\/ lifeQueue \/ lifePass.requeue \/ outcome # "done"
                         \/ updated # lifePass.fetched /\ resource # lifePass.fetched)
        /\ Spend(outcome)
  BY DEF UpdateStatus
<1>4. /\ lifeBudget' \in Budgets /\ lifeBudget'.deletes = lifeBudget.deletes
  BY <1>3, SpendStep
<1>5. resource' = resource \/ (resource = lifePass.fetched /\ resource' = updated)
  BY <1>3, AfterWriteIs
<1>6. lifePass' = IdleLife
  BY DEF UpdateStatus
<1>7. LifeTypeOK'
  BY <1>1, <1>2, <1>3, <1>4, <1>5, <1>6, IdleFields DEF LifeTypeOK, UpdateStatus, lifeMemory
<1> QED
  BY <1>3, <1>4, <1>5, <1>6, <1>7

-----------------------------------------------------------------------------
(***************************************************************************)
(* The same for the observer's steps, the caches, and everyone else.       *)
(***************************************************************************)
LEMMA ObserverType ==
  ASSUME LifeTypeOK, RetrieveState \/ StoreState
  PROVE  /\ LifeTypeOK'
         /\ UNCHANGED <<lifeObjects, cache, lifePass, lifeBudget>>
         /\ observers'.password = observers.password
         /\ lifeQueue => lifeQueue'
<1>1. ClusterHealth \in {"unknown", "green", "yellow"}
  BY DEF ClusterHealth, LifeTypeOK
<1>2. CASE RetrieveState
  <2>1. /\ observers' \in [password : 0 .. 7, health : {"unknown", "green", "yellow"},
                           seen : {"nothing", "unknown", "green", "yellow"}]
        /\ observers'.password = observers.password
    BY <1>1, <1>2 DEF RetrieveState, LifeTypeOK
  <2> QED
    BY <1>2, <2>1 DEF RetrieveState, LifeTypeOK, lifeObjects
<1>3. CASE StoreState
  <2>1. /\ observers' \in [password : 0 .. 7, health : {"unknown", "green", "yellow"},
                           seen : {"nothing", "unknown", "green", "yellow"}]
        /\ observers'.password = observers.password
    BY <1>3 DEF StoreState, LifeTypeOK
  <2> QED
    BY <1>3, <2>1 DEF StoreState, LifeTypeOK, lifeObjects, lifeControl
<1> QED
  BY <1>2, <1>3

LEMMA SyncType ==
  ASSUME LifeTypeOK, SyncCache
  PROVE  /\ LifeTypeOK' /\ lifeQueue'
         /\ UNCHANGED <<lifeObjects, lifeMemory, lifePass, lifeBudget>>
         /\ cache'.resource \in {cache.resource, resource}
         /\ cache'.internal \in {cache.internal, internalUsers}
         /\ cache'.realm \in {cache.realm, fileRealm}
<1>1. cache \in Caches /\ DOMAIN cache = {"resource", "statefulSet", "internal", "realm"}
  BY DEF LifeTypeOK, Caches
<1>2. /\ Objects.resource = resource /\ Objects.statefulSet = statefulSet
      /\ Objects.internal = internalUsers /\ Objects.realm = fileRealm
  BY DEF Objects
<1>3. PICK kind \in DOMAIN cache : cache' = [cache EXCEPT ![kind] = Objects[kind]]
  BY DEF SyncCache
<1>4. \/ cache' = [cache EXCEPT !.resource = resource]
      \/ cache' = [cache EXCEPT !.statefulSet = statefulSet]
      \/ cache' = [cache EXCEPT !.internal = internalUsers]
      \/ cache' = [cache EXCEPT !.realm = fileRealm]
  BY <1>1, <1>2, <1>3
<1>5. /\ cache' \in Caches
      /\ cache'.resource \in {cache.resource, resource}
      /\ cache'.internal \in {cache.internal, internalUsers}
      /\ cache'.realm \in {cache.realm, fileRealm}
  BY <1>1, <1>4 DEF Caches, LifeTypeOK
<1>6. /\ lifeQueue' /\ lifeQueue' \in BOOLEAN
      /\ UNCHANGED <<lifeObjects, health, lifeMemory, lifePass, lifeBudget>>
  BY DEF SyncCache
<1>7. LifeTypeOK'
  BY <1>5, <1>6 DEF LifeTypeOK, lifeObjects, lifeMemory
<1> QED
  BY <1>5, <1>6, <1>7

LEMMA ClaimType ==
  ASSUME LifeTypeOK, CreateClaim
  PROVE  /\ LifeTypeOK'
         /\ UNCHANGED <<resource, internalUsers, fileRealm, cache, observers, lifePass, lifeQueue,
                        lifeBudget>>
<1>1. claims' \subseteq Nat
  BY DEF CreateClaim, PVCNames, LifeTypeOK
<1> QED
  BY <1>1 DEF CreateClaim, LifeOthers, lifeMemory, LifeTypeOK

LEMMA GarbageType ==
  ASSUME LifeTypeOK, CollectGarbage
  PROVE  /\ LifeTypeOK'
         /\ UNCHANGED <<resource, cache, observers, lifePass, lifeQueue, lifeBudget>>
         /\ \/ internalUsers' = internalUsers
            \/ internalUsers' = Nothing /\ internalUsers.owner # resource.uid /\ internalUsers.owner # 0
         /\ \/ fileRealm' = fileRealm
            \/ fileRealm' = Nothing /\ fileRealm.owner # resource.uid /\ fileRealm.owner # 0
<1>1. NoSet \in Sets /\ Nothing \in Secrets /\ NoPDB \in [owner : 0 .. 2, available : Nat]
  BY DEF NoSet, Sets, Nothing, Secrets, NoPDB
<1>2. /\ statefulSet' \in {statefulSet, NoSet} /\ pdb' \in {pdb, NoPDB} /\ claims' = claims
      /\ \/ internalUsers' = internalUsers
         \/ internalUsers' = Nothing /\ internalUsers.owner # resource.uid /\ internalUsers.owner # 0
      /\ \/ fileRealm' = fileRealm
         \/ fileRealm' = Nothing /\ fileRealm.owner # resource.uid /\ fileRealm.owner # 0
  BY DEF CollectGarbage
<1>3. UNCHANGED <<resource, LifeOthers, lifeBudget>>
  BY DEF CollectGarbage
<1>4. LifeTypeOK'
  BY <1>1, <1>2, <1>3 DEF LifeOthers, lifeMemory, LifeTypeOK
<1> QED
  BY <1>2, <1>3, <1>4 DEF LifeOthers, lifeMemory

LEMMA EditType ==
  ASSUME LifeTypeOK, EditResource
  PROVE  /\ LifeTypeOK'
         /\ UNCHANGED <<internalUsers, fileRealm, cache, observers, lifePass, lifeQueue>>
         /\ lifeBudget'.deletes = lifeBudget.deletes
         /\ resource'.uid = resource.uid /\ resource'.health = resource.health
         /\ resource'.finalizers <=> resource.finalizers
         /\ resource'.deleting <=> resource.deleting
<1>1. Pay("edits") /\ UNCHANGED <<statefulSet, claims, internalUsers, fileRealm, pdb, LifeOthers>>
  BY DEF EditResource
<1>2. lifeBudget' \in Budgets /\ lifeBudget'.deletes = lifeBudget.deletes
  BY <1>1, PayStep
<1>3. /\ resource' \in Resources
      /\ resource'.uid = resource.uid /\ resource'.health = resource.health
      /\ resource'.finalizers <=> resource.finalizers
      /\ resource'.deleting <=> resource.deleting
  <2>1. resource \in Resources /\ MaxNodes \in Nat
    BY LifecycleAssumption DEF LifeTypeOK
  <2>2. CASE \E n \in 0 .. MaxNodes : resource' = [resource EXCEPT !.count = n]
    <3>1. PICK n \in 0 .. MaxNodes : resource' = [resource EXCEPT !.count = n]
      BY <2>2
    <3>2. n \in Nat
      BY <2>1
    <3> QED
      BY <2>1, <3>1, <3>2 DEF Resources
  <2>3. CASE resource' = [resource EXCEPT !.paused = ~@]
    <3>1. (~resource.paused) \in BOOLEAN
      BY <2>1 DEF Resources
    <3> QED
      BY <2>1, <2>3, <3>1 DEF Resources
  <2> QED
    BY <2>2, <2>3 DEF EditResource
<1> QED
  BY <1>1, <1>2, <1>3 DEF LifeOthers, lifeMemory, LifeTypeOK

LEMMA DeleteType ==
  ASSUME LifeTypeOK, DeleteResource
  PROVE  /\ LifeTypeOK'
         /\ UNCHANGED <<internalUsers, fileRealm, cache, observers, lifePass, lifeQueue>>
         /\ lifeBudget'.deletes = lifeBudget.deletes - 1 /\ lifeBudget.deletes > 0
         /\ resource.uid # 0 /\ ~resource.deleting
         /\ \/ /\ resource.finalizers /\ resource'.uid = resource.uid
               /\ resource'.finalizers /\ resource'.deleting
               /\ resource'.health = resource.health
            \/ ~resource.finalizers /\ resource' = NoResource
<1>1. Pay("deletes") /\ UNCHANGED <<statefulSet, claims, internalUsers, fileRealm, pdb, LifeOthers>>
  BY DEF DeleteResource
<1>2. lifeBudget' \in Budgets /\ lifeBudget'.deletes = lifeBudget.deletes - 1 /\ lifeBudget.deletes > 0
  BY <1>1, PayStep
<1>3. resource \in Resources
  BY DEF LifeTypeOK
<1>4. /\ resource.uid # 0 /\ ~resource.deleting
      /\ \/ resource.finalizers /\ resource' = [resource EXCEPT !.deleting = TRUE]
         \/ ~resource.finalizers /\ resource' = NoResource
  BY DEF DeleteResource
<1>5. /\ resource' \in Resources
      /\ resource.finalizers =>
           /\ resource'.uid = resource.uid /\ resource'.health = resource.health
           /\ resource'.finalizers /\ resource'.deleting
  BY <1>3, <1>4, IdleFields DEF Resources
<1> QED
  BY <1>1, <1>2, <1>4, <1>5 DEF LifeOthers, lifeMemory, LifeTypeOK

LEMMA RecreateType ==
  ASSUME LifeTypeOK, RecreateResource
  PROVE  /\ LifeTypeOK'
         /\ UNCHANGED <<internalUsers, fileRealm, cache, observers, lifePass, lifeQueue>>
         /\ lifeBudget'.deletes = lifeBudget.deletes - 1 /\ lifeBudget.deletes > 0
         /\ resource.uid = 0
         /\ resource'.uid = 2 /\ ~resource'.finalizers /\ ~resource'.deleting
<1>1. Pay("deletes") /\ UNCHANGED <<statefulSet, claims, internalUsers, fileRealm, pdb, LifeOthers>>
  BY DEF RecreateResource
<1>2. lifeBudget' \in Budgets /\ lifeBudget'.deletes = lifeBudget.deletes - 1 /\ lifeBudget.deletes > 0
  BY <1>1, PayStep
<1>3. resource.uid = 0 /\ resource' = NewResource(2, 1)
  BY DEF RecreateResource
<1> QED
  BY <1>1, <1>2, <1>3, NewResourceFields DEF LifeOthers, lifeMemory, LifeTypeOK

LEMMA DeleteSecretType ==
  ASSUME LifeTypeOK, DeleteSecret
  PROVE  /\ LifeTypeOK'
         /\ UNCHANGED <<resource, cache, observers, lifePass, lifeQueue>>
         /\ lifeBudget'.deletes = lifeBudget.deletes
         /\ \/ /\ internalUsers # Nothing /\ cache.internal = internalUsers
               /\ internalUsers' = Nothing /\ fileRealm' = fileRealm
            \/ /\ fileRealm # Nothing /\ cache.realm = fileRealm
               /\ fileRealm' = Nothing /\ internalUsers' = internalUsers
<1>1. Pay("secrets") /\ UNCHANGED <<resource, statefulSet, claims, pdb, LifeOthers>>
  BY DEF DeleteSecret
<1>2. lifeBudget' \in Budgets /\ lifeBudget'.deletes = lifeBudget.deletes
  BY <1>1, PayStep
<1>3. Nothing \in Secrets
  BY DEF Nothing, Secrets
<1>4. \/ /\ internalUsers # Nothing /\ cache.internal = internalUsers
         /\ internalUsers' = Nothing /\ fileRealm' = fileRealm
      \/ /\ fileRealm # Nothing /\ cache.realm = fileRealm
         /\ fileRealm' = Nothing /\ internalUsers' = internalUsers
  BY DEF DeleteSecret
<1> QED
  BY <1>1, <1>2, <1>3, <1>4 DEF LifeOthers, lifeMemory, LifeTypeOK

LEMMA FlapType ==
  ASSUME LifeTypeOK, HealthChanges
  PROVE  /\ LifeTypeOK'
         /\ UNCHANGED <<lifeObjects, cache, lifeMemory, lifePass, lifeQueue>>
         /\ lifeBudget'.deletes = lifeBudget.deletes
<1>1. Pay("flaps") /\ UNCHANGED <<lifeObjects, cache, lifeMemory, lifePass, lifeQueue>>
  BY DEF HealthChanges
<1>2. lifeBudget' \in Budgets /\ lifeBudget'.deletes = lifeBudget.deletes
  BY <1>1, PayStep
<1>3. health' \in {"green", "yellow"}
  BY DEF HealthChanges
<1> QED
  BY <1>1, <1>2, <1>3 DEF lifeObjects, lifeMemory, LifeTypeOK

LEMMA RestartType ==
  ASSUME LifeTypeOK, OperatorRestarts
  PROVE  /\ LifeTypeOK'
         /\ UNCHANGED lifeObjects
         /\ lifeBudget'.deletes = lifeBudget.deletes
         /\ observers'.password = 0
         /\ cache'.resource = resource /\ cache'.internal = internalUsers /\ cache'.realm = fileRealm
         /\ lifePass' = IdleLife /\ (lifeQueue' <=> resource.uid # 0)
<1>1. /\ Pay("crashes") /\ observers' = NoObserver /\ expected' = 0 /\ cache' = Objects
      /\ lifePass' = IdleLife /\ lifeQueue' = (resource.uid # 0) /\ UNCHANGED <<lifeObjects, health>>
  BY DEF OperatorRestarts
<1>2. lifeBudget' \in Budgets /\ lifeBudget'.deletes = lifeBudget.deletes
  BY <1>1, PayStep
<1>3. /\ cache' \in Caches
      /\ cache'.resource = resource /\ cache'.internal = internalUsers /\ cache'.realm = fileRealm
  BY <1>1 DEF Objects, Caches, LifeTypeOK
<1>4. /\ observers' \in [password : 0 .. 7, health : {"unknown", "green", "yellow"},
                         seen : {"nothing", "unknown", "green", "yellow"}]
      /\ observers'.password = 0
  BY <1>1 DEF NoObserver
<1>5. lifeQueue' \in BOOLEAN /\ (lifeQueue' <=> resource.uid # 0)
  BY <1>1
<1>6. LifeTypeOK'
  BY <1>1, <1>2, <1>3, <1>4, <1>5, IdleFields DEF lifeObjects, LifeTypeOK
<1> QED
  BY <1>1, <1>2, <1>3, <1>4, <1>5, <1>6

-----------------------------------------------------------------------------
(***************************************************************************)
(* A cluster that is gone is not observed.                                 *)
(***************************************************************************)
LEMMA GoneInvInit == LifecycleInit => GoneInv
<1> SUFFICES ASSUME LifecycleInit PROVE GoneInv
  OBVIOUS
<1>1. LifeTypeOK
  BY LifeTypeInit
<1>2. /\ resource.uid = 1 /\ ~resource.finalizers /\ ~resource.deleting
      /\ cache.resource = resource
  <2>1. resource = NewResource(1, 1) /\ cache = [EmptyCache EXCEPT !.resource = resource]
    BY DEF LifecycleInit
  <2>2. cache.resource = resource
    BY <2>1 DEF EmptyCache
  <2> QED
    BY <2>1, <2>2, NewResourceFields
<1>3. observers.password = 0 /\ lifePass = IdleLife
  BY DEF LifecycleInit, NoObserver
<1>4. WellFormed(resource) /\ WellFormed(cache.resource) /\ WellFormed(lifePass.es)
  BY <1>2, <1>3, IdleFields DEF WellFormed
<1>5. OneDeletion /\ CopiesBehind /\ DeletionKnown /\ PassRegistered /\ ObservedRegistered
  BY <1>2, <1>3, IdleFields
     DEF OneDeletion, CopiesBehind, Behind, Registered, DeletionKnown, PassRegistered,
         ObservedRegistered
<1> QED
  BY <1>1, <1>4, <1>5 DEF GoneInv

\* Steps that leave the marks of the resource alone, and the copies and the observer;
\* the pass goes on with what it has fetched, or ends.
SameMarks ==
  /\ resource'.uid = resource.uid
  /\ resource'.finalizers <=> resource.finalizers
  /\ resource'.deleting <=> resource.deleting

PassGoesOn ==
  \/ UNCHANGED lifePass
  \/ lifePass' = IdleLife
  \/ /\ lifePass'.es = lifePass.es /\ lifePass'.fetched = lifePass.fetched
     /\ lifePass.pc # "idle" /\ lifePass'.pc # "finalizers"
     /\ lifePass'.pc \in {"internal", "realm", "observe"} => lifePass.pc \in {"internal", "realm", "observe"}

LEMMA GoneFrame ==
  ASSUME GoneInv, LifeTypeOK', SameMarks, PassGoesOn,
         cache'.resource = cache.resource, observers'.password = observers.password,
         lifeBudget'.deletes = lifeBudget.deletes
  PROVE  GoneInv'
<1>1. WellFormed(resource)' /\ WellFormed(cache.resource)'
  BY DEF GoneInv, WellFormed, SameMarks
<1>2. OneDeletion' /\ ObservedRegistered'
  BY DEF GoneInv, OneDeletion, ObservedRegistered, SameMarks
<1>3. CASE UNCHANGED lifePass
  <2>1. CopiesBehind' /\ DeletionKnown' /\ PassRegistered'
    BY <1>3 DEF GoneInv, CopiesBehind, Behind, DeletionKnown, PassRegistered, Registered, SameMarks
  <2> QED
    BY <1>1, <1>2, <1>3, <2>1 DEF GoneInv, WellFormed
<1>4. CASE lifePass' = IdleLife
  <2>1. CopiesBehind' /\ DeletionKnown' /\ PassRegistered'
    BY <1>4, IdleFields
       DEF GoneInv, CopiesBehind, Behind, DeletionKnown, PassRegistered, Registered, SameMarks
  <2> QED
    BY <1>1, <1>2, <1>4, <2>1, IdleFields DEF GoneInv, WellFormed
<1>5. CASE /\ lifePass'.es = lifePass.es /\ lifePass'.fetched = lifePass.fetched
           /\ lifePass.pc # "idle" /\ lifePass'.pc # "finalizers"
           /\ lifePass'.pc \in {"internal", "realm", "observe"} => lifePass.pc \in {"internal", "realm", "observe"}
  <2>1. CopiesBehind'
    BY <1>5 DEF GoneInv, CopiesBehind, Behind, Registered, SameMarks
  <2>2. DeletionKnown' /\ PassRegistered'
    BY <1>5 DEF GoneInv, DeletionKnown, PassRegistered, Registered
  <2> QED
    BY <1>1, <1>2, <1>5, <2>1, <2>2 DEF GoneInv, WellFormed
<1> QED
  BY <1>3, <1>4, <1>5 DEF PassGoesOn

LEMMA FetchKeepsGone ==
  ASSUME GoneInv, FetchElasticsearch
  PROVE  GoneInv'
<1>1. /\ LifeTypeOK'
      /\ \/ lifePass' = IdleLife
         \/ /\ lifePass'.pc = "finalizers" /\ cache.resource.uid # 0
            /\ lifePass'.fetched = cache.resource /\ lifePass'.es = cache.resource
      /\ UNCHANGED <<resource, cache, observers, lifeBudget>>
  BY FetchType DEF GoneInv, FetchElasticsearch, lifeObjects, lifeMemory
<1>2. CASE lifePass' = IdleLife
  BY <1>1, <1>2, GoneFrame DEF SameMarks, PassGoesOn
<1>3. CASE /\ lifePass'.pc = "finalizers" /\ cache.resource.uid # 0
           /\ lifePass'.fetched = cache.resource /\ lifePass'.es = cache.resource
  <2>1. CopiesBehind' /\ DeletionKnown'
    BY <1>1, <1>3 DEF GoneInv, CopiesBehind, Behind, DeletionKnown, Registered
  <2>2. PassRegistered' /\ OneDeletion' /\ ObservedRegistered'
    BY <1>1, <1>3 DEF GoneInv, PassRegistered, OneDeletion, ObservedRegistered
  <2> QED
    BY <1>1, <1>3, <2>1, <2>2 DEF GoneInv, WellFormed
<1> QED
  BY <1>1, <1>2, <1>3

LEMMA RegisterKeepsGone ==
  ASSUME GoneInv, RegisterFinalizers
  PROVE  GoneInv'
<1> DEFINE registered == [lifePass.es EXCEPT !.finalizers = TRUE]
<1>1. /\ LifeTypeOK'
      /\ lifePass'.fetched = lifePass.fetched
      /\ lifeBudget'.deletes = lifeBudget.deletes
      /\ UNCHANGED resource \/ (resource = lifePass.es /\ resource' = registered)
      /\ \/ /\ lifePass'.pc = "internal"
            /\ \/ lifePass'.es = lifePass.es /\ lifePass.es.finalizers
               \/ lifePass'.es = registered /\ resource' = registered
         \/ lifePass'.pc = "status" /\ lifePass'.es = lifePass.es
  BY RegisterType DEF GoneInv
<1>2. /\ UNCHANGED <<cache, observers>>
      /\ lifePass.pc = "finalizers" /\ ~lifePass.es.deleting
  BY DEF RegisterFinalizers, lifeMemory, At
<1>3. /\ registered.uid = lifePass.es.uid /\ registered.finalizers
      /\ ~registered.deleting
  BY <1>2 DEF GoneInv, LifeTypeOK, Passes, Resources
<1>4. lifePass.es.uid # 0 /\ lifePass.fetched.uid = lifePass.es.uid
  BY <1>2 DEF GoneInv, PassRegistered
<1> HIDE DEF registered
<1>5. /\ resource'.uid = resource.uid
      /\ resource.finalizers => resource'.finalizers
      /\ resource'.deleting <=> resource.deleting
      /\ UNCHANGED resource \/ (resource'.uid # 0 /\ resource'.finalizers)
  BY <1>1, <1>2, <1>3, <1>4
<1>6. WellFormed(resource)' /\ WellFormed(cache.resource)' /\ WellFormed(lifePass.es)'
  BY <1>1, <1>2, <1>3, <1>4, <1>5 DEF GoneInv, WellFormed
<1>7. CopiesBehind'
  <2>1. Behind(cache.resource)'
    BY <1>1, <1>2, <1>5 DEF GoneInv, CopiesBehind, Behind, Registered
  <2>2. Behind(lifePass.es)'
    BY <1>1, <1>2, <1>3, <1>4, <1>5 DEF GoneInv, CopiesBehind, Behind, Registered
  <2> QED
    BY <2>1, <2>2 DEF CopiesBehind
<1>8. DeletionKnown' /\ OneDeletion' /\ ObservedRegistered'
  BY <1>1, <1>2, <1>5 DEF GoneInv, DeletionKnown, OneDeletion, ObservedRegistered
<1>9. PassRegistered'
  BY <1>1, <1>2, <1>3, <1>4 DEF PassRegistered, Registered
<1> QED
  BY <1>1, <1>6, <1>7, <1>8, <1>9 DEF GoneInv

LEMMA FinalizeKeepsGone ==
  ASSUME GoneInv, FinalizeElasticsearch
  PROVE  GoneInv'
<1>1. /\ LifeTypeOK' /\ PassKeeps
      /\ observers'.password = 0
      /\ lifePass'.pc = "status"
      /\ UNCHANGED resource \/ (resource = lifePass.es /\ resource' = NoResource)
  BY FinalizeType DEF GoneInv
<1>2. /\ UNCHANGED cache
      /\ lifePass.pc = "finalizers" /\ lifePass.es.deleting
  BY DEF FinalizeElasticsearch, At
<1>3. lifePass.es.uid = 1
  BY <1>2 DEF GoneInv, WellFormed
<1>4. WellFormed(resource)' /\ WellFormed(cache.resource)' /\ WellFormed(lifePass.es)'
  BY <1>1, <1>2, IdleFields DEF GoneInv, WellFormed, PassKeeps
<1>5. OneDeletion' /\ PassRegistered' /\ ObservedRegistered' /\ DeletionKnown'
  BY <1>1, <1>2, <1>3, IdleFields
     DEF GoneInv, OneDeletion, PassRegistered, ObservedRegistered, DeletionKnown, PassKeeps
<1>6. CopiesBehind'
  <2>1. CASE UNCHANGED resource
    BY <1>1, <1>2, <2>1 DEF GoneInv, CopiesBehind, Behind, Registered, PassKeeps
  <2>2. CASE resource = lifePass.es /\ resource' = NoResource
    <3>1. ~(cache.resource.uid = 1 /\ ~cache.resource.deleting)
      BY <1>2 DEF GoneInv, DeletionKnown
    <3>2. resource.uid = 1 /\ resource.deleting
      BY <2>2, <1>2, <1>3
    <3>3. \A r \in {cache.resource, lifePass.es} :
            Behind(r) => r.uid # 2 /\ (Registered(r) => r.uid = 1)
      BY <3>2 DEF Behind
    <3>4. ~Registered(cache.resource) /\ ~Registered(lifePass.es)
      BY <3>1, <3>3, <1>2 DEF GoneInv, CopiesBehind, Registered
    <3> QED
      BY <1>1, <1>2, <1>3, <2>2, <3>3, <3>4, IdleFields
         DEF GoneInv, CopiesBehind, Behind, PassKeeps, Registered
  <2> QED
    BY <1>1, <2>1, <2>2
<1> QED
  BY <1>1, <1>4, <1>5, <1>6 DEF GoneInv

LEMMA SyncKeepsGone ==
  ASSUME GoneInv, SyncCache
  PROVE  GoneInv'
<1>1. /\ LifeTypeOK'
      /\ UNCHANGED <<resource, observers, lifePass, lifeBudget>>
      /\ cache'.resource \in {cache.resource, resource}
  BY SyncType DEF GoneInv, lifeObjects, lifeMemory
<1>2. CASE cache'.resource = cache.resource
  BY <1>1, <1>2, GoneFrame DEF SameMarks, PassGoesOn
<1>3. CASE cache'.resource = resource
  <2>1. Behind(cache.resource)'
    BY <1>1, <1>3 DEF Behind, Registered
  <2>2. lifePass.pc = "finalizers" /\ lifePass.es.deleting => ~(resource.uid = 1 /\ ~resource.deleting)
    BY DEF GoneInv, CopiesBehind, Behind
  <2>3. CopiesBehind' /\ DeletionKnown'
    BY <1>1, <1>3, <2>1, <2>2 DEF GoneInv, CopiesBehind, Behind, DeletionKnown, Registered
  <2> QED
    BY <1>1, <1>3, <2>3
       DEF GoneInv, WellFormed, OneDeletion, PassRegistered, Registered, ObservedRegistered
<1> QED
  BY <1>1, <1>2, <1>3

LEMMA DeleteKeepsGone ==
  ASSUME GoneInv, DeleteResource
  PROVE  GoneInv'
<1>1. /\ LifeTypeOK'
      /\ UNCHANGED <<cache, observers, lifePass>>
      /\ lifeBudget'.deletes = lifeBudget.deletes - 1 /\ lifeBudget.deletes > 0
      /\ resource.uid # 0 /\ ~resource.deleting
      /\ \/ /\ resource.finalizers /\ resource'.uid = resource.uid
            /\ resource'.finalizers /\ resource'.deleting
         \/ ~resource.finalizers /\ resource' = NoResource
  BY DeleteType DEF GoneInv
<1>2. resource.uid = 1 /\ lifeBudget.deletes \in 0 .. 2
  BY <1>1 DEF GoneInv, OneDeletion, LifeTypeOK, Resources, Budgets
<1>3. WellFormed(resource)' /\ WellFormed(cache.resource)' /\ WellFormed(lifePass.es)'
  BY <1>1, <1>2, IdleFields DEF GoneInv, WellFormed
<1>4. OneDeletion' /\ ObservedRegistered' /\ PassRegistered' /\ DeletionKnown'
  BY <1>1, <1>2, IdleFields
     DEF GoneInv, OneDeletion, ObservedRegistered, PassRegistered, Registered, DeletionKnown
<1>5. CopiesBehind'
  <2>1. ASSUME NEW r \in {cache.resource, lifePass.es}, Behind(r)
        PROVE  /\ Registered(r) => resource'.uid = r.uid /\ resource'.finalizers
               /\ r.deleting => ~(resource'.uid = 1 /\ ~resource'.deleting)
               /\ r.uid = 2 => resource'.uid = 2
    BY <1>1, <1>2, <2>1, IdleFields DEF Behind
  <2> QED
    BY <1>1, <2>1 DEF GoneInv, CopiesBehind, Behind, Registered
<1> QED
  BY <1>1, <1>3, <1>4, <1>5 DEF GoneInv

LEMMA RecreateKeepsGone ==
  ASSUME GoneInv, RecreateResource
  PROVE  GoneInv'
<1>1. /\ LifeTypeOK'
      /\ UNCHANGED <<cache, observers, lifePass>>
      /\ lifeBudget'.deletes = lifeBudget.deletes - 1 /\ lifeBudget.deletes > 0
      /\ resource.uid = 0
      /\ resource'.uid = 2 /\ ~resource'.finalizers /\ ~resource'.deleting
  BY RecreateType DEF GoneInv
<1>2. lifeBudget.deletes = 1
  BY <1>1 DEF GoneInv, OneDeletion, LifeTypeOK, Budgets
<1>3. WellFormed(resource)' /\ WellFormed(cache.resource)' /\ WellFormed(lifePass.es)'
  BY <1>1 DEF GoneInv, WellFormed
<1>4. OneDeletion' /\ ObservedRegistered' /\ PassRegistered' /\ DeletionKnown'
  BY <1>1, <1>2
     DEF GoneInv, OneDeletion, ObservedRegistered, PassRegistered, Registered, DeletionKnown
<1>5. CopiesBehind'
  <2>1. ASSUME NEW r \in {cache.resource, lifePass.es}, Behind(r)
        PROVE  /\ Registered(r) => resource'.uid = r.uid /\ resource'.finalizers
               /\ r.deleting => ~(resource'.uid = 1 /\ ~resource'.deleting)
               /\ r.uid = 2 => resource'.uid = 2
    BY <1>1, <2>1 DEF Behind, Registered
  <2> QED
    BY <1>1, <2>1 DEF GoneInv, CopiesBehind, Behind, Registered
<1> QED
  BY <1>1, <1>3, <1>4, <1>5 DEF GoneInv

LEMMA RestartKeepsGone ==
  ASSUME GoneInv, OperatorRestarts
  PROVE  GoneInv'
<1>1. /\ LifeTypeOK'
      /\ UNCHANGED resource
      /\ lifeBudget'.deletes = lifeBudget.deletes
      /\ observers'.password = 0
      /\ cache'.resource = resource /\ lifePass' = IdleLife
  BY RestartType DEF GoneInv, lifeObjects
<1>2. WellFormed(resource)' /\ WellFormed(cache.resource)' /\ WellFormed(lifePass.es)'
  BY <1>1, IdleFields DEF GoneInv, WellFormed
<1>3. OneDeletion' /\ ObservedRegistered' /\ PassRegistered' /\ DeletionKnown' /\ CopiesBehind'
  BY <1>1, IdleFields
     DEF GoneInv, OneDeletion, ObservedRegistered, PassRegistered, DeletionKnown, CopiesBehind,
         Behind, Registered
<1> QED
  BY <1>1, <1>2, <1>3 DEF GoneInv

LEMMA GoneInvNext ==
  ASSUME GoneInv, [LifecycleNext]_lifecycleVars
  PROVE  GoneInv'
<1>1. CASE FetchElasticsearch
  BY <1>1, FetchKeepsGone
<1>2. CASE RegisterFinalizers
  BY <1>2, RegisterKeepsGone
<1>3. CASE FinalizeElasticsearch
  BY <1>3, FinalizeKeepsGone
<1>4. CASE ReconcileInternalUsers
  <2>1. LifeTypeOK' /\ PassKeeps /\ lifePass'.pc \in {"realm", "status"}
    BY <1>4, InternalUsersType DEF GoneInv
  <2>2. UNCHANGED <<resource, cache, observers>> /\ lifePass.pc = "internal"
    BY <1>4 DEF ReconcileInternalUsers, lifeMemory, At
  <2> QED
    BY <2>1, <2>2, GoneFrame DEF SameMarks, PassGoesOn, PassKeeps
<1>5. CASE ReconcileFileRealm
  <2>1. LifeTypeOK' /\ PassKeeps /\ lifePass'.pc \in {"observe", "status"}
    BY <1>5, FileRealmType DEF GoneInv
  <2>2. UNCHANGED <<resource, cache, observers>> /\ lifePass.pc = "realm"
    BY <1>5 DEF ReconcileFileRealm, lifeMemory, At
  <2> QED
    BY <2>1, <2>2, GoneFrame DEF SameMarks, PassGoesOn, PassKeeps
<1>6. CASE ResolveObservedState
  <2>1. LifeTypeOK' /\ PassKeeps /\ lifePass'.pc = "nodes"
    BY <1>6, ResolveType DEF GoneInv
  <2>2. UNCHANGED <<resource, cache>> /\ lifePass.pc = "observe"
    BY <1>6 DEF ResolveObservedState, lifeObjects, At
  <2>3. Registered(lifePass.es) /\ Behind(lifePass.es)
    BY <2>2 DEF GoneInv, PassRegistered, CopiesBehind
  <2>4. resource.uid # 0 /\ resource.finalizers
    BY <2>3 DEF Registered, Behind
  <2> QED
    BY <2>1, <2>2, <2>4
       DEF GoneInv, PassKeeps, WellFormed, OneDeletion, CopiesBehind, Behind, Registered,
           DeletionKnown, PassRegistered, ObservedRegistered
<1>7. CASE RetrieveState \/ StoreState
  <2>1. /\ LifeTypeOK' /\ UNCHANGED <<resource, cache, lifePass, lifeBudget>>
        /\ observers'.password = observers.password
    BY <1>7, ObserverType DEF GoneInv, lifeObjects
  <2> QED
    BY <2>1, GoneFrame DEF SameMarks, PassGoesOn
<1>8. CASE GarbageCollectPVCs \/ HandleUpscale \/ DeleteDefaultPDB \/ CreatePDB \/ HandleDownscale
  <2>1. LifeTypeOK' /\ WorksOn
    BY <1>8, GarbageCollectType, UpscaleType, DeletePDBType, CreatePDBType, DownscaleType
       DEF GoneInv
  <2> QED
    BY <2>1, GoneFrame DEF WorksOn, PassKeeps, SameMarks, PassGoesOn
<1>9. CASE UpdateStatus
  <2>1. /\ LifeTypeOK' /\ lifePass' = IdleLife /\ lifeBudget'.deletes = lifeBudget.deletes
        /\ UNCHANGED resource \/ resource' = [resource EXCEPT !.health = lifePass.health]
    BY <1>9, UpdateStatusType DEF GoneInv
  <2>2. UNCHANGED <<cache, observers>>
    BY <1>9 DEF UpdateStatus, lifeMemory
  <2>3. SameMarks
    BY <2>1 DEF GoneInv, LifeTypeOK, Resources, SameMarks
  <2> QED
    BY <2>1, <2>2, <2>3, GoneFrame DEF PassGoesOn
<1>10. CASE SyncCache
  BY <1>10, SyncKeepsGone
<1>11. CASE CreateClaim \/ CollectGarbage \/ DeleteSecret \/ HealthChanges
  <2>1. /\ LifeTypeOK' /\ UNCHANGED <<resource, cache, observers, lifePass>>
        /\ lifeBudget'.deletes = lifeBudget.deletes
    BY <1>11, ClaimType, GarbageType, DeleteSecretType, FlapType DEF GoneInv, lifeObjects, lifeMemory
  <2> QED
    BY <2>1, GoneFrame DEF SameMarks, PassGoesOn
<1>12. CASE EditResource
  BY <1>12, EditType, GoneFrame DEF GoneInv, SameMarks, PassGoesOn
<1>13. CASE DeleteResource
  BY <1>13, DeleteKeepsGone
<1>14. CASE RecreateResource
  BY <1>14, RecreateKeepsGone
<1>15. CASE OperatorRestarts
  BY <1>15, RestartKeepsGone
<1>16. CASE UNCHANGED lifecycleVars
  <2>1. UNCHANGED <<resource, statefulSet, claims, internalUsers, fileRealm, pdb, health, cache,
                    observers, expected, lifePass, lifeQueue, lifeBudget>>
    BY <1>16 DEF lifecycleVars, lifeObjects, lifeMemory, lifeControl
  <2>2. LifeTypeOK'
    BY <2>1 DEF GoneInv, LifeTypeOK
  <2> QED
    BY <2>1, <2>2, GoneFrame DEF SameMarks, PassGoesOn
<1> QED
  BY <1>1, <1>2, <1>3, <1>4, <1>5, <1>6, <1>7, <1>8, <1>9, <1>10, <1>11, <1>12, <1>13, <1>14,
     <1>15, <1>16 DEF LifecycleNext

\* Observers are kept in memory by the name of the cluster: a second cluster of the
\* same name is not watched with the client of the first (the observer's Finalizer).
THEOREM NotObservedAfterItsEnd == LifecycleSpec => []NotObservedWhenGone
<1>1. LifecycleInit => GoneInv
  BY GoneInvInit
<1>2. GoneInv /\ [LifecycleNext]_lifecycleVars => GoneInv'
  BY GoneInvNext
<1>3. GoneInv => NotObservedWhenGone
  BY DEF GoneInv, ObservedRegistered, NotObservedWhenGone, LifeTypeOK
<1> QED
  BY <1>1, <1>2, <1>3, PTL DEF LifecycleSpec

-----------------------------------------------------------------------------
(***************************************************************************)
(* The operator is let in.                                                 *)
(***************************************************************************)
LEMMA LetInInvInit == LifecycleInit => LetInInv
<1> SUFFICES ASSUME LifecycleInit PROVE LetInInv
  OBVIOUS
<1>1. GoneInv
  BY GoneInvInit
<1>2. /\ resource = NewResource(1, 1) /\ cache.resource = resource
      /\ cache.internal = Nothing /\ cache.realm = Nothing
  BY DEF LifecycleInit, EmptyCache
<1>3. ~resource.paused /\ resource.uid = 1
  BY <1>2, NewResourceFields
<1>4. internalUsers = Nothing /\ fileRealm = Nothing /\ lifePass = IdleLife /\ lifeQueue
  BY DEF LifecycleInit
<1>5. SecretsWhole
  BY <1>2, <1>4 DEF SecretsWhole, SecretWhole, Nothing
<1> QED
  BY <1>1, <1>2, <1>3, <1>4, <1>5, IdleFields
     DEF LetInInv, PausedQueued, PassCurrent, PasswordHeld, PassProgress

\* What is pending stays so: nobody undoes a write before the cache shows it, but the
\* garbage collector when the resource is not the one the pass knew.
LEMMA PendingKept ==
  ASSUME LetInInv,
         cache'.resource = cache.resource, cache'.internal = cache.internal,
         cache'.realm = cache.realm,
         cache.resource.uid # 0, SameResource,
         \/ internalUsers' = internalUsers
         \/ /\ internalUsers' = Nothing
            /\ \/ internalUsers.owner # resource.uid
               \/ internalUsers # Nothing /\ cache.internal = internalUsers,
         \/ fileRealm' = fileRealm
         \/ /\ fileRealm' = Nothing
            /\ \/ fileRealm.owner # resource.uid
               \/ fileRealm # Nothing /\ cache.realm = fileRealm
  PROVE  /\ UserPending => UserPending'
         /\ RealmPending => RealmPending'
<1>1. UserPending => UserPending'
  BY DEF UserPending, LetInInv, SecretsWhole, SecretWhole, SameResource
<1>2. RealmPending => RealmPending'
  BY DEF RealmPending, LetInInv, SecretsWhole, SecretWhole, SameResource, Nothing
<1> QED
  BY <1>1, <1>2

\* The steps of everyone else: the pass goes on, the copies stay.
LEMMA OthersKeepLetIn ==
  ASSUME LetInInv, GoneInv',
         UNCHANGED <<lifePass, cache>>, observers'.password = observers.password,
         lifeQueue => lifeQueue',
         resource'.paused => resource'.uid # 0,
         resource'.uid # resource.uid => resource'.uid = 0 \/ (resource.uid = 0 /\ resource'.uid = 2),
         \/ internalUsers' = internalUsers
         \/ /\ internalUsers' = Nothing
            /\ \/ internalUsers.owner # resource.uid
               \/ internalUsers # Nothing /\ cache.internal = internalUsers,
         \/ fileRealm' = fileRealm
         \/ /\ fileRealm' = Nothing
            /\ \/ fileRealm.owner # resource.uid
               \/ fileRealm # Nothing /\ cache.realm = fileRealm
  PROVE  LetInInv'
<1>1. SecretsWhole'
  BY DEF LetInInv, SecretsWhole, SecretWhole, Nothing
<1>2. PausedQueued' /\ PassCurrent' /\ PasswordHeld'
  BY DEF LetInInv, PausedQueued, PassCurrent, PasswordHeld
<1>3. ASSUME ~lifeQueue', cache.resource.uid # 0, SameResource'
      PROVE  PassProgress'
  <2>1. SameResource
    BY <1>3 DEF SameResource, LetInInv, GoneInv, CopiesBehind, Behind
  <2>2. (UserPending => UserPending') /\ (RealmPending => RealmPending')
    BY <2>1, <1>3, PendingKept
  <2>3. (UserKnown => UserKnown') /\ (RealmKnown => RealmKnown') /\ (LetIn => LetIn')
    BY <2>2 DEF UserKnown, RealmKnown, LetIn
  <2>4. PassProgress /\ ~lifeQueue
    BY <1>3 DEF LetInInv
  <2> QED
    BY <2>1, <2>2, <2>3, <2>4, <1>3 DEF PassProgress
<1>4. PassProgress'
  BY <1>3 DEF PassProgress
<1> QED
  BY <1>1, <1>2, <1>4 DEF LetInInv

\* A step after which the resource is in the queue.
LEMMA QueuedKeepsLetIn ==
  ASSUME LetInInv, GoneInv', SecretsWhole', lifeQueue',
         resource'.paused => resource'.uid # 0,
         UNCHANGED lifePass
  PROVE  LetInInv'
  BY DEF LetInInv, PausedQueued, PassCurrent, PasswordHeld, PassProgress

LEMMA FetchKeepsLetIn ==
  ASSUME LetInInv, GoneInv', FetchElasticsearch
  PROVE  LetInInv'
<1>1. /\ \/ lifePass' = IdleLife /\ (cache.resource.uid = 0 \/ cache.resource.paused)
         \/ /\ lifePass'.pc = "finalizers"
            /\ lifePass'.fetched = cache.resource /\ lifePass'.es = cache.resource
      /\ UNCHANGED <<resource, internalUsers, fileRealm, cache>>
      /\ lifeQueue' = cache.resource.paused
  BY FetchType DEF LetInInv, GoneInv, FetchElasticsearch, lifeObjects
<1>2. SecretsWhole' /\ PausedQueued'
  BY <1>1 DEF LetInInv, SecretsWhole, SecretWhole, PausedQueued
<1>3. PassCurrent' /\ PasswordHeld' /\ PassProgress'
  BY <1>1, IdleFields DEF PassCurrent, PasswordHeld, PassProgress
<1> QED
  BY <1>2, <1>3 DEF LetInInv

LEMMA RegisterKeepsLetIn ==
  ASSUME LetInInv, GoneInv', RegisterFinalizers
  PROVE  LetInInv'
<1>1. /\ lifePass'.fetched = lifePass.fetched /\ lifeQueue' = lifeQueue
      /\ \/ UNCHANGED resource
         \/ resource = lifePass.es /\ resource' = [lifePass.es EXCEPT !.finalizers = TRUE]
      /\ \/ lifePass'.pc = "internal"
         \/ lifePass'.pc = "status" /\ lifePass'.requeue
  BY RegisterType DEF LetInInv, GoneInv
<1>2. UNCHANGED <<internalUsers, fileRealm, cache>> /\ lifePass.pc = "finalizers"
  BY DEF RegisterFinalizers, At
<1>3. resource'.paused => resource'.uid # 0
  BY <1>1 DEF LetInInv, GoneInv, LifeTypeOK, Resources, PausedQueued
<1>4. SecretsWhole' /\ PausedQueued' /\ PassCurrent' /\ PasswordHeld' /\ PassProgress'
  BY <1>1, <1>2, <1>3
     DEF LetInInv, SecretsWhole, SecretWhole, PausedQueued, PassCurrent, PasswordHeld, PassProgress
<1> QED
  BY <1>4 DEF LetInInv

\* The resource that is finalized is the deleted one: nobody is to be let in.
LEMMA FinalizeKeepsLetIn ==
  ASSUME LetInInv, GoneInv', FinalizeElasticsearch
  PROVE  LetInInv'
<1>1. /\ PassKeeps
      /\ lifePass'.pc = "status"
      /\ UNCHANGED resource \/ resource' = NoResource
  BY FinalizeType DEF LetInInv, GoneInv
<1>2. UNCHANGED <<internalUsers, fileRealm, cache>>
      /\ lifePass.pc = "finalizers" /\ lifePass.es.deleting
  BY DEF FinalizeElasticsearch, At
<1>3. resource'.paused => resource'.uid # 0
  BY <1>1, IdleFields DEF LetInInv, PausedQueued
<1>4. ~lifeQueue => cache.resource.deleting
  BY <1>2 DEF LetInInv, PassCurrent
<1>5. SecretsWhole' /\ PausedQueued' /\ PassCurrent' /\ PasswordHeld' /\ PassProgress'
  BY <1>1, <1>2, <1>3, <1>4
     DEF LetInInv, SecretsWhole, SecretWhole, PausedQueued, PassCurrent, PasswordHeld,
         PassProgress, PassKeeps, SameResource
<1> QED
  BY <1>5 DEF LetInInv

LEMMA InternalUsersKeepLetIn ==
  ASSUME LetInInv, GoneInv', ReconcileInternalUsers
  PROVE  LetInInv'
<1>1. /\ PassKeeps
      /\ \/ internalUsers' = internalUsers
         \/ internalUsers'.owner = lifePass.es.uid /\ internalUsers'.password # 0
      /\ \/ /\ lifePass'.pc = "realm"
            /\ \/ cache.internal.password # 0 /\ lifePass'.password = cache.internal.password
               \/ /\ cache.internal.password = 0
                  /\ internalUsers'.owner = lifePass.es.uid
                  /\ lifePass'.password # 0
         \/ lifePass'.pc = "status" /\ lifePass'.requeue
  BY InternalUsersType DEF LetInInv, GoneInv
<1>2. UNCHANGED <<resource, fileRealm, cache>> /\ lifePass.pc = "internal"
  BY DEF ReconcileInternalUsers, At
<1>3. lifePass.es.uid # 0 /\ lifePass.fetched.uid = lifePass.es.uid
  BY <1>2 DEF LetInInv, GoneInv, PassRegistered
<1>4. SecretsWhole' /\ PausedQueued' /\ PassCurrent' /\ PasswordHeld'
  BY <1>1, <1>2, <1>3
     DEF LetInInv, SecretsWhole, SecretWhole, PausedQueued, PassCurrent, PasswordHeld, PassKeeps
<1>5. PassProgress'
  BY <1>1, <1>2, <1>3 DEF LetInInv, PassCurrent, PassProgress, UserPending, UserKnown, PassKeeps
<1> QED
  BY <1>4, <1>5 DEF LetInInv

LEMMA FileRealmKeepsLetIn ==
  ASSUME LetInInv, GoneInv', ReconcileFileRealm
  PROVE  LetInInv'
<1> DEFINE owner == IF cache.realm.owner = 0 THEN lifePass.es.uid ELSE cache.realm.owner
<1>1. /\ PassKeeps
      /\ \/ fileRealm' = fileRealm
         \/ fileRealm'.owner = owner /\ fileRealm'.password = lifePass.password
      /\ \/ /\ lifePass'.pc = "observe" /\ lifePass'.password = lifePass.password
            /\ \/ cache.realm.password = lifePass.password
               \/ fileRealm'.password = lifePass.password /\ fileRealm'.owner = owner
         \/ lifePass'.pc = "status" /\ lifePass'.requeue
  BY FileRealmType DEF LetInInv, GoneInv
<1>2. UNCHANGED <<resource, internalUsers, cache>> /\ lifePass.pc = "realm" /\ lifePass.password # 0
  BY DEF ReconcileFileRealm, At, LetInInv, PasswordHeld
<1>3. lifePass.es.uid # 0 /\ lifePass.fetched.uid = lifePass.es.uid /\ owner # 0
  BY <1>2 DEF LetInInv, GoneInv, PassRegistered
<1>4. SecretsWhole' /\ PausedQueued' /\ PassCurrent' /\ PasswordHeld'
  BY <1>1, <1>2, <1>3
     DEF LetInInv, SecretsWhole, SecretWhole, PausedQueued, PassCurrent, PasswordHeld, PassKeeps
<1>5. ASSUME ~lifeQueue', cache.resource.uid # 0, SameResource'
      PROVE  PassProgress'
  <2>1. SameResource /\ ~lifeQueue
    BY <1>1, <1>2, <1>5 DEF SameResource, PassKeeps
  <2>2. UserPending \/ UserKnown
    BY <2>1, <1>2, <1>5 DEF LetInInv, PassProgress
  <2>3. lifePass.es.uid = cache.resource.uid
    BY <2>1, <1>2, <1>3 DEF LetInInv, PassCurrent
  <2>4. lifePass'.pc = "observe" => RealmPending' \/ RealmKnown'
    BY <2>3, <1>1, <1>2 DEF RealmPending, RealmKnown
  <2>5. lifePass'.pc = "observe" => UserPending' \/ UserKnown'
    BY <2>2, <1>1, <1>2 DEF UserPending, UserKnown
  <2> QED
    BY <2>4, <2>5, <1>1 DEF PassProgress
<1>6. PassProgress'
  BY <1>5, <1>2 DEF PassProgress
<1> QED
  BY <1>4, <1>6 DEF LetInInv

LEMMA ResolveKeepsLetIn ==
  ASSUME LetInInv, GoneInv', ResolveObservedState
  PROVE  LetInInv'
<1>1. PassKeeps /\ lifePass'.pc = "nodes" /\ observers'.password = lifePass.password
  BY ResolveType DEF LetInInv, GoneInv
<1>2. UNCHANGED <<resource, internalUsers, fileRealm, cache>> /\ lifePass.pc = "observe"
  BY DEF ResolveObservedState, At, lifeObjects
<1>3. SecretsWhole' /\ PausedQueued' /\ PassCurrent' /\ PasswordHeld'
  BY <1>1, <1>2
     DEF LetInInv, SecretsWhole, SecretWhole, PausedQueued, PassCurrent, PasswordHeld, PassKeeps
<1>4. PassProgress'
  BY <1>1, <1>2
     DEF LetInInv, PassProgress, LetIn, UserPending, UserKnown, RealmPending, RealmKnown,
         PassKeeps, SameResource
<1> QED
  BY <1>3, <1>4 DEF LetInInv

LEMMA WorkKeepsLetIn ==
  ASSUME LetInInv, GoneInv', WorksOn
  PROVE  LetInInv'
<1>1. SecretsWhole' /\ PausedQueued' /\ PassCurrent' /\ PasswordHeld'
  BY DEF WorksOn, LetInInv, SecretsWhole, SecretWhole, PausedQueued, PassCurrent, PasswordHeld,
         PassKeeps
<1>2. PassProgress'
  BY DEF WorksOn, LetInInv, PassProgress, LetIn, UserPending, RealmPending, PassKeeps, SameResource
<1> QED
  BY <1>1, <1>2 DEF LetInInv

LEMMA StatusKeepsLetIn ==
  ASSUME LetInInv, GoneInv', UpdateStatus
  PROVE  LetInInv'
<1>1. /\ lifePass' = IdleLife
      /\ lifeQueue \/ lifePass.requeue => lifeQueue'
      /\ \/ UNCHANGED resource
         \/ resource' = [resource EXCEPT !.health = lifePass.health]
  BY UpdateStatusType DEF LetInInv, GoneInv
<1>2. UNCHANGED <<internalUsers, fileRealm, cache, observers>> /\ lifePass.pc = "status"
  BY DEF UpdateStatus, At, lifeMemory
<1>3. resource'.uid = resource.uid /\ (resource'.paused <=> resource.paused)
  BY <1>1 DEF LetInInv, GoneInv, LifeTypeOK, Resources
<1>4. SecretsWhole' /\ PausedQueued' /\ PassCurrent' /\ PasswordHeld'
  BY <1>1, <1>2, <1>3, IdleFields
     DEF LetInInv, SecretsWhole, SecretWhole, PausedQueued, PassCurrent, PasswordHeld
<1>5. PassProgress'
  BY <1>1, <1>2, <1>3, IdleFields
     DEF LetInInv, PassProgress, LetIn, UserPending, RealmPending, SameResource
<1> QED
  BY <1>4, <1>5 DEF LetInInv

LEMMA SyncKeepsLetIn ==
  ASSUME LetInInv, GoneInv', SyncCache
  PROVE  LetInInv'
<1>1. /\ lifeQueue' /\ UNCHANGED <<resource, internalUsers, fileRealm, lifePass>>
      /\ cache'.internal \in {cache.internal, internalUsers}
      /\ cache'.realm \in {cache.realm, fileRealm}
  BY SyncType DEF LetInInv, GoneInv, lifeObjects
<1>2. SecretsWhole' /\ (resource'.paused => resource'.uid # 0)
  BY <1>1 DEF LetInInv, SecretsWhole, SecretWhole, PausedQueued
<1> QED
  BY <1>1, <1>2, QueuedKeepsLetIn

LEMMA RestartKeepsLetIn ==
  ASSUME LetInInv, GoneInv', OperatorRestarts
  PROVE  LetInInv'
<1>1. /\ UNCHANGED <<resource, internalUsers, fileRealm>>
      /\ cache'.resource = resource /\ cache'.internal = internalUsers /\ cache'.realm = fileRealm
      /\ lifePass' = IdleLife /\ (lifeQueue' <=> resource.uid # 0)
  BY RestartType DEF LetInInv, GoneInv, lifeObjects
<1>2. SecretsWhole' /\ PausedQueued' /\ PassCurrent' /\ PasswordHeld' /\ PassProgress'
  BY <1>1, IdleFields
     DEF LetInInv, SecretsWhole, SecretWhole, PausedQueued, PassCurrent, PasswordHeld, PassProgress
<1> QED
  BY <1>2 DEF LetInInv

LEMMA LetInInvNext ==
  ASSUME LetInInv, [LifecycleNext]_lifecycleVars
  PROVE  LetInInv'
<1>1. GoneInv' /\ LifeTypeOK
  BY GoneInvNext DEF LetInInv, GoneInv
<1>2. CASE FetchElasticsearch
  BY <1>1, <1>2, FetchKeepsLetIn
<1>3. CASE RegisterFinalizers
  BY <1>1, <1>3, RegisterKeepsLetIn
<1>4. CASE FinalizeElasticsearch
  BY <1>1, <1>4, FinalizeKeepsLetIn
<1>5. CASE ReconcileInternalUsers
  BY <1>1, <1>5, InternalUsersKeepLetIn
<1>6. CASE ReconcileFileRealm
  BY <1>1, <1>6, FileRealmKeepsLetIn
<1>7. CASE ResolveObservedState
  BY <1>1, <1>7, ResolveKeepsLetIn
<1>8. CASE RetrieveState \/ StoreState
  <2>1. /\ UNCHANGED <<resource, internalUsers, fileRealm, cache, lifePass>>
        /\ observers'.password = observers.password
        /\ lifeQueue => lifeQueue'
    BY <1>1, <1>8, ObserverType DEF lifeObjects
  <2> QED
    BY <1>1, <2>1, OthersKeepLetIn DEF LetInInv, PausedQueued
<1>9. CASE GarbageCollectPVCs \/ HandleUpscale \/ DeleteDefaultPDB \/ CreatePDB \/ HandleDownscale
  <2>1. WorksOn
    BY <1>1, <1>9, GarbageCollectType, UpscaleType, DeletePDBType, CreatePDBType, DownscaleType
  <2> QED
    BY <1>1, <2>1, WorkKeepsLetIn
<1>10. CASE UpdateStatus
  BY <1>1, <1>10, StatusKeepsLetIn
<1>11. CASE SyncCache
  BY <1>1, <1>11, SyncKeepsLetIn
<1>12. CASE CreateClaim \/ HealthChanges
  <2>1. UNCHANGED <<resource, internalUsers, fileRealm, cache, observers, lifePass, lifeQueue>>
    BY <1>1, <1>12, ClaimType, FlapType DEF lifeObjects, lifeMemory
  <2> QED
    BY <1>1, <2>1, OthersKeepLetIn DEF LetInInv, PausedQueued
<1>13. CASE CollectGarbage
  <2>1. /\ UNCHANGED <<resource, cache, observers, lifePass, lifeQueue>>
        /\ internalUsers' = internalUsers \/ (internalUsers' = Nothing /\ internalUsers.owner # resource.uid)
        /\ fileRealm' = fileRealm \/ (fileRealm' = Nothing /\ fileRealm.owner # resource.uid)
    BY <1>1, <1>13, GarbageType
  <2> QED
    BY <1>1, <2>1, OthersKeepLetIn DEF LetInInv, PausedQueued
<1>14. CASE DeleteSecret
  <2>1. /\ UNCHANGED <<resource, cache, observers, lifePass, lifeQueue>>
        /\ \/ internalUsers' = internalUsers
           \/ internalUsers # Nothing /\ cache.internal = internalUsers /\ internalUsers' = Nothing
        /\ \/ fileRealm' = fileRealm
           \/ fileRealm # Nothing /\ cache.realm = fileRealm /\ fileRealm' = Nothing
    BY <1>1, <1>14, DeleteSecretType
  <2> QED
    BY <1>1, <2>1, OthersKeepLetIn DEF LetInInv, PausedQueued
<1>15. CASE EditResource
  <2>1. /\ UNCHANGED <<internalUsers, fileRealm, cache, observers, lifePass, lifeQueue>>
        /\ resource'.uid = resource.uid /\ resource.uid # 0
    BY <1>1, <1>15, EditType DEF EditResource
  <2> QED
    BY <1>1, <2>1, OthersKeepLetIn
<1>16. CASE DeleteResource
  <2>1. /\ UNCHANGED <<internalUsers, fileRealm, cache, observers, lifePass, lifeQueue>>
        /\ resource.uid # 0
        /\ resource'.uid = resource.uid \/ resource' = NoResource
    BY <1>1, <1>16, DeleteType
  <2> QED
    BY <1>1, <2>1, IdleFields, OthersKeepLetIn
<1>17. CASE RecreateResource
  <2>1. /\ UNCHANGED <<internalUsers, fileRealm, cache, observers, lifePass, lifeQueue>>
        /\ resource.uid = 0 /\ resource'.uid = 2
    BY <1>1, <1>17, RecreateType
  <2> QED
    BY <1>1, <2>1, OthersKeepLetIn
<1>18. CASE OperatorRestarts
  BY <1>1, <1>18, RestartKeepsLetIn
<1>19. CASE UNCHANGED lifecycleVars
  <2>1. UNCHANGED <<resource, internalUsers, fileRealm, cache, observers, lifePass, lifeQueue>>
    BY <1>19 DEF lifecycleVars, lifeObjects, lifeMemory, lifeControl
  <2> QED
    BY <1>1, <2>1, OthersKeepLetIn DEF LetInInv, PausedQueued
<1> QED
  BY <1>2, <1>3, <1>4, <1>5, <1>6, <1>7, <1>8, <1>9, <1>10, <1>11, <1>12, <1>13, <1>14,
     <1>15, <1>16, <1>17, <1>18, <1>19 DEF LifecycleNext

\* Whatever was deleted, refused or lost on the way, when the operator rests the two
\* secrets and the observer have the same password (ReconcileUsers, Observe).
THEOREM OperatorIsLetIn == LifecycleSpec => []OperatorLetIn
<1>1. LifecycleInit => LetInInv
  BY LetInInvInit
<1>2. LetInInv /\ [LifecycleNext]_lifecycleVars => LetInInv'
  BY LetInInvNext
<1>3. LetInInv => OperatorLetIn
  <2> SUFFICES ASSUME LetInInv, LifecycleQuiet, Alive
               PROVE  /\ internalUsers.password # 0
                      /\ fileRealm.password = internalUsers.password
                      /\ observers.password = internalUsers.password
    BY DEF OperatorLetIn
  <2>1. /\ cache.resource = resource /\ cache.internal = internalUsers /\ cache.realm = fileRealm
        /\ lifePass.pc = "idle" /\ ~lifeQueue
    BY DEF LifecycleQuiet, Objects
  <2>2. LetIn
    BY <2>1 DEF LetInInv, PassProgress, SameResource, Alive
  <2> QED
    BY <2>1, <2>2 DEF LetIn, UserPending, RealmPending, LetInInv, SecretsWhole, SecretWhole, Alive
<1> QED
  BY <1>1, <1>2, <1>3, PTL DEF LifecycleSpec
-----------------------------------------------------------------------------
(***************************************************************************)
(* When the operator rests, the health in the status is the one observed,  *)
(* the disruption budget is the one for it, and no claim is left of a node *)
(* that is gone.                                                           *)
(***************************************************************************)
\* A StatefulSet that is not there has no replicas, and an update has a greater
\* generation: a copy in the cache is of what is there, or shows that it is older.
SetsOrdered ==
  /\ statefulSet.generation = 0 => statefulSet = NoSet
  /\ cache.statefulSet.generation = 0 => cache.statefulSet = NoSet
  /\ cache.statefulSet.generation # 0 =>
       \/ statefulSet.generation = 0
       \/ statefulSet.generation > cache.statefulSet.generation
       \/ statefulSet = cache.statefulSet

\* The StatefulSet was changed, or created, which the cache is to show.
SetPending ==
  \/ /\ cache.statefulSet.generation # 0
     /\ statefulSet.generation = 0 \/ statefulSet.generation > cache.statefulSet.generation
  \/ /\ cache.statefulSet.generation = 0 /\ statefulSet.generation # 0
     /\ statefulSet.owner = cache.resource.uid /\ cache.resource.count # 0
SetKnown == statefulSet = cache.statefulSet

\* What a pass that has the copies of the cache makes of them.
CachedPDB ==
  [owner |-> cache.resource.uid,
   available |-> OtherNodes + cache.statefulSet.replicas
                   - IF cache.resource.health = "green" THEN 1 ELSE 0]
CachedClaims == PVCNames(cache.statefulSet.replicas) \cup PVCNames(cache.resource.count)

\* A pass that ends with nothing left to do, or has ended.
Rests == lifePass.pc = "idle" \/ (lifePass.pc = "status" /\ ~lifePass.requeue)

HealthProgress ==
  /\ lifePass.pc \in {"nodes", "upscale", "pdb", "create-pdb", "downscale"} =>
       observers.seen = "nothing" /\ observers.health = lifePass.observed
  /\ lifePass.pc = "status" /\ ~lifePass.requeue =>
       observers.seen = "nothing" /\ observers.health = lifePass.health
  /\ lifePass.pc = "idle" =>
       /\ observers.seen = "nothing"
       /\ resource.health = observers.health \/ resource.health # cache.resource.health

SetProgress ==
  /\ lifePass.pc \in {"upscale", "pdb", "create-pdb", "downscale"} =>
       \/ SetPending
       \/ SetKnown /\ lifePass.set = cache.statefulSet /\ claims \subseteq CachedClaims
  /\ lifePass.pc = "downscale" => SetPending \/ pdb = CachedPDB
  /\ Rests =>
       \/ SetPending
       \/ /\ SetKnown /\ pdb = CachedPDB
          /\ cache.statefulSet.replicas <= cache.resource.count
          /\ claims \subseteq PVCNames(cache.resource.count)

\* The pass works on the resource as it was fetched.
PassOf ==
  lifePass.pc # "idle" =>
    lifePass.es.count = lifePass.fetched.count /\ lifePass.es.health = lifePass.fetched.health

\* No event is to come that the operator's caches may not have shown.
Settling == ~lifeBudget.lag /\ ~lifeQueue /\ cache.resource.uid # 0 /\ SameResource

BudgetInv ==
  LetInInv /\ SetsOrdered /\ PassOf /\ (Settling => HealthProgress /\ SetProgress)

\* No step changes whether the operator's caches may be late.
LEMMA LagStays ==
  ASSUME LifeTypeOK, LifecycleNext
  PROVE  lifeBudget'.lag <=> lifeBudget.lag
<1>1. CASE FetchElasticsearch \/ ResolveObservedState \/ RetrieveState \/ StoreState \/ SyncCache
           \/ CreateClaim \/ CollectGarbage
  BY <1>1 DEF FetchElasticsearch, ResolveObservedState, RetrieveState, StoreState, SyncCache,
              CreateClaim, CollectGarbage, GoOn, lifeControl
<1>2. CASE RegisterFinalizers
  BY <1>2, GoOnStep, ContinueStep DEF RegisterFinalizers
<1>3. CASE FinalizeElasticsearch
  BY <1>3, ContinueStep DEF FinalizeElasticsearch
<1>4. CASE ReconcileInternalUsers
  BY <1>4, GoOnStep, ContinueStep DEF ReconcileInternalUsers
<1>5. CASE ReconcileFileRealm
  BY <1>5, GoOnStep, ContinueStep DEF ReconcileFileRealm
<1>6. CASE GarbageCollectPVCs
  BY <1>6, GoOnStep, ContinueStep DEF GarbageCollectPVCs
<1>7. CASE HandleUpscale
  BY <1>7, GoOnStep, ContinueStep DEF HandleUpscale
<1>8. CASE DeleteDefaultPDB
  BY <1>8, GoOnStep, ContinueStep DEF DeleteDefaultPDB
<1>9. CASE CreatePDB
  BY <1>9, ContinueStep DEF CreatePDB
<1>10. CASE HandleDownscale
  BY <1>10, GoOnStep, ContinueStep DEF HandleDownscale
<1>11. CASE UpdateStatus
  BY <1>11, SpendStep DEF UpdateStatus
<1>12. CASE EditResource \/ DeleteResource \/ RecreateResource \/ DeleteSecret \/ HealthChanges
            \/ OperatorRestarts
  BY <1>12, PayStep
     DEF EditResource, DeleteResource, RecreateResource, DeleteSecret, HealthChanges, OperatorRestarts
<1> QED
  BY <1>1, <1>2, <1>3, <1>4, <1>5, <1>6, <1>7, <1>8, <1>9, <1>10, <1>11, <1>12 DEF LifecycleNext

-----------------------------------------------------------------------------
\* What each step of the driver does to the claims, the StatefulSet and the budget.
LEMMA GarbageCollectDoes ==
  ASSUME LifeTypeOK, GarbageCollectPVCs
  PROVE  /\ UNCHANGED <<statefulSet, pdb, expected>>
         /\ \/ /\ lifePass'.pc = "upscale" /\ CreationSeen
               /\ lifePass'.set = cache.statefulSet /\ lifePass'.observed = lifePass.observed
               /\ claims' \subseteq PVCNames(cache.statefulSet.replicas) \cup PVCNames(lifePass.es.count)
            \/ lifePass'.pc = "status" /\ lifePass'.requeue
<1> DEFINE next == [To("upscale") EXCEPT !.set = cache.statefulSet]
<1>1. lifePass \in Passes /\ cache.statefulSet \in Sets
  BY DEF LifeTypeOK, Caches
<1>2. next.pc = "upscale" /\ next.set = cache.statefulSet /\ next.observed = lifePass.observed
  BY <1>1, ToFields DEF Points, Passes
<1> HIDE DEF next
<1>3. CASE GoOn(Ended(TRUE))
  BY <1>1, <1>3, GoOnStep, EndedFields DEF GarbageCollectPVCs, lifeMemory
<1>4. CASE \E outcome \in WriteOutcomes, removed \in SUBSET PVCsToRemove :
             /\ outcome = "done" => removed = PVCsToRemove
             /\ claims' = claims \ removed
             /\ Continue(outcome, FALSE, next)
  <2>1. PICK outcome \in WriteOutcomes, removed \in SUBSET PVCsToRemove :
          /\ outcome = "done" => removed = PVCsToRemove
          /\ claims' = claims \ removed
          /\ Continue(outcome, FALSE, next)
    BY <1>4
  <2>2. (outcome = "done" /\ lifePass' = next) \/ lifePass' = Failed
    BY <2>1, ContinueStep
  <2>3. CASE lifePass' = Failed
    BY <2>3, <1>1, FailedFields DEF GarbageCollectPVCs, lifeMemory
  <2>4. CASE outcome = "done" /\ lifePass' = next
    BY <2>4, <2>1, <1>2 DEF GarbageCollectPVCs, lifeMemory, PVCsToRemove
  <2> QED
    BY <2>2, <2>3, <2>4
<1> QED
  BY <1>3, <1>4 DEF GarbageCollectPVCs, next

LEMMA UpscaleDoes ==
  ASSUME LifeTypeOK, HandleUpscale
  PROVE  /\ UNCHANGED <<claims, pdb>>
         /\ \/ UNCHANGED statefulSet
            \/ /\ lifePass.es.count # 0
               /\ (cache.statefulSet.generation = 0) <=> (statefulSet.generation = 0)
               /\ statefulSet'.generation = statefulSet.generation + 1
               /\ statefulSet'.owner = lifePass.es.uid
         /\ \/ /\ lifePass'.pc = "pdb" /\ lifePass'.observed = lifePass.observed
               /\ statefulSet' = statefulSet => lifePass'.set \in {lifePass.set, cache.statefulSet}
            \/ lifePass'.pc = "status" /\ lifePass'.requeue
<1> DEFINE read == cache.statefulSet
           reconciled == [owner |-> lifePass.es.uid, generation |-> statefulSet.generation + 1,
                          replicas |-> AdjustedReplicas]
           refused == (read.generation = 0) # (statefulSet.generation = 0)
           created == read.generation = 0
           kept == IF lifePass.es.count = 0 THEN lifePass.set ELSE read
           next == [To("pdb") EXCEPT !.set = kept]
           nextWritten == [To("pdb") EXCEPT !.set = reconciled]
<1>1. /\ lifePass \in Passes /\ read \in Sets /\ statefulSet \in Sets
      /\ lifePass.set \in Sets /\ lifePass.es.uid \in 0 .. 2 /\ lifePass.es.count \in Nat
      /\ statefulSet.generation \in Nat /\ lifePass.set.replicas \in Nat
  BY DEF LifeTypeOK, Caches, Passes, Resources, Sets
<1>2. /\ reconciled \in Sets
      /\ reconciled.generation = statefulSet.generation + 1 /\ reconciled.owner = lifePass.es.uid
  BY <1>1 DEF Sets, AdjustedReplicas
<1>3. kept \in Sets /\ kept \in {lifePass.set, read}
  BY <1>1
<1>4. /\ To("pdb") \in Passes /\ To("pdb").pc = "pdb" /\ To("pdb").set = lifePass.set
      /\ To("pdb").observed = lifePass.observed
  BY <1>1, ToFields DEF Points
<1> HIDE DEF kept, reconciled
<1>5. /\ next.pc = "pdb" /\ next.set = kept /\ next.observed = lifePass.observed
      /\ nextWritten.pc = "pdb" /\ nextWritten.observed = lifePass.observed
  BY <1>2, <1>3, <1>4 DEF Passes
<1>6. UNCHANGED <<claims, pdb>>
  BY DEF HandleUpscale
<1>7. CASE lifePass.es.count = 0 \/ (~created /\ read.replicas = AdjustedReplicas)
  <2>1. GoOn(next) /\ UNCHANGED <<statefulSet, expected>>
    BY <1>7, <1>4 DEF HandleUpscale, kept
  <2> HIDE DEF next
  <2> QED
    BY <2>1, <1>3, <1>5, <1>6, GoOnStep
<1>8. CASE ~(lifePass.es.count = 0 \/ (~created /\ read.replicas = AdjustedReplicas))
  <2>1. PICK outcome \in WriteOutcomes :
          /\ statefulSet' = IF outcome = "failed" \/ refused THEN statefulSet ELSE reconciled
          /\ Continue(outcome, refused, nextWritten)
    BY <1>8 DEF HandleUpscale, reconciled
  <2> HIDE DEF nextWritten
  <2>2. (outcome = "done" /\ ~refused /\ lifePass' = nextWritten) \/ lifePass' = Failed
    BY <2>1, ContinueStep
  <2>3. \/ UNCHANGED statefulSet
        \/ ~refused /\ statefulSet' = reconciled
    BY <2>1
  <2>4. statefulSet' = statefulSet => lifePass' = Failed
    <3>1. reconciled # statefulSet
      BY <1>1, <1>2
    <3> QED
      BY <3>1, <2>1, <2>2
  <2> QED
    BY <2>2, <2>3, <2>4, <1>1, <1>2, <1>5, <1>6, <1>8, FailedFields
<1> QED
  BY <1>7, <1>8

LEMMA DeletePDBDoes ==
  ASSUME LifeTypeOK, DeleteDefaultPDB
  PROVE  /\ UNCHANGED <<statefulSet, claims>>
         /\ \/ /\ lifePass'.pc \in {"downscale", "create-pdb"}
               /\ lifePass'.set = lifePass.set /\ lifePass'.observed = lifePass.observed
               /\ lifePass'.pc = "downscale" => pdb' = ExpectedPDB(ExpectedNodeCount)
            \/ lifePass'.pc = "status" /\ lifePass'.requeue
<1>1. lifePass \in Passes
  BY DEF LifeTypeOK
<1>2. \A pc \in {"downscale", "create-pdb"} :
        To(pc).pc = pc /\ To(pc).set = lifePass.set /\ To(pc).observed = lifePass.observed
  BY <1>1, ToFields DEF Points
<1>3. \/ lifePass' = To("downscale") /\ pdb' = ExpectedPDB(ExpectedNodeCount)
      \/ lifePass' = To("create-pdb")
      \/ lifePass' = Failed
  <2>1. CASE pdb = ExpectedPDB(ExpectedNodeCount) /\ GoOn(To("downscale")) /\ UNCHANGED pdb
    BY <2>1, GoOnStep
  <2>2. CASE GoOn(To("create-pdb"))
    BY <2>2, GoOnStep
  <2>3. CASE \E outcome \in WriteOutcomes : Continue(outcome, FALSE, To("create-pdb"))
    BY <2>3, ContinueStep
  <2> QED
    BY <2>1, <2>2, <2>3 DEF DeleteDefaultPDB
<1>4. UNCHANGED <<statefulSet, claims>>
  BY DEF DeleteDefaultPDB
<1> QED
  BY <1>1, <1>2, <1>3, <1>4, FailedFields

LEMMA CreatePDBDoes ==
  ASSUME LifeTypeOK, CreatePDB
  PROVE  /\ UNCHANGED <<statefulSet, claims>>
         /\ \/ /\ lifePass'.pc = "downscale"
               /\ lifePass'.set = lifePass.set /\ lifePass'.observed = lifePass.observed
               /\ pdb' = ExpectedPDB(ExpectedNodeCount)
            \/ lifePass'.pc = "status" /\ lifePass'.requeue
<1>1. lifePass \in Passes
  BY DEF LifeTypeOK
<1>2. /\ To("downscale").pc = "downscale"
      /\ To("downscale").set = lifePass.set /\ To("downscale").observed = lifePass.observed
  BY <1>1, ToFields DEF Points
<1>3. PICK outcome \in WriteOutcomes :
        /\ pdb' = AfterWrite(outcome, pdb, NoPDB, ExpectedPDB(ExpectedNodeCount))
        /\ Continue(outcome, pdb # NoPDB, To("downscale"))
  BY DEF CreatePDB
<1>4. \/ lifePass' = To("downscale") /\ pdb = NoPDB /\ outcome = "done"
      \/ lifePass' = Failed
  BY <1>3, ContinueStep
<1>5. pdb = NoPDB /\ outcome = "done" => pdb' = ExpectedPDB(ExpectedNodeCount)
  BY <1>3 DEF AfterWrite
<1>6. UNCHANGED <<statefulSet, claims>>
  BY DEF CreatePDB
<1> QED
  BY <1>1, <1>2, <1>4, <1>5, <1>6, FailedFields

\* A downscale leaves the StatefulSet, updates the one it knows, or deletes it.
LEMMA DownscaleDoes ==
  ASSUME LifeTypeOK, HandleDownscale
  PROVE  /\ UNCHANGED <<claims, pdb>>
         /\ \/ UNCHANGED statefulSet
            \/ /\ statefulSet = lifePass.set /\ lifePass.es.count < lifePass.set.replicas
               /\ statefulSet'.generation = statefulSet.generation + 1
               /\ statefulSet'.owner = statefulSet.owner
            \/ /\ lifePass.set.generation # 0 /\ lifePass.es.count = 0
               /\ statefulSet' = NoSet
         /\ lifePass'.pc = "status"
         /\ \/ lifePass'.requeue
            \/ /\ lifePass'.health = lifePass.observed
               /\ UNCHANGED statefulSet => lifePass.es.count >= lifePass.set.replicas
<1> DEFINE read == lifePass.set
           downscaled == [read EXCEPT !.generation = @ + 1, !.replicas = lifePass.es.count]
           removal == read.generation # 0 /\ read.replicas = 0 /\ lifePass.es.count = 0
<1>1. /\ lifePass \in Passes /\ read \in Sets /\ lifePass.es.count \in Nat
      /\ read.generation \in Nat /\ read.replicas \in Nat /\ read.generation + 1 \in Nat
  BY DEF LifeTypeOK, Passes, Resources, Sets
<1>2. /\ downscaled.generation = read.generation + 1 /\ downscaled.owner = read.owner
      /\ downscaled # read
  <2>1. downscaled.generation = read.generation + 1 /\ downscaled.owner = read.owner
    BY <1>1 DEF Sets
  <2>2. read.generation + 1 # read.generation
    BY <1>1
  <2> HIDE DEF downscaled
  <2>3. downscaled # read
    BY <2>1, <2>2
  <2> QED
    BY <2>1, <2>3
<1> HIDE DEF downscaled
<1>3. UNCHANGED <<claims, pdb>>
  BY DEF HandleDownscale
<1>4. /\ Ended(TRUE).pc = "status" /\ Ended(TRUE).requeue
      /\ Ended(FALSE).pc = "status" /\ Ended(FALSE).health = lifePass.observed
      /\ Failed.pc = "status" /\ Failed.requeue
  BY <1>1, EndedFields, FailedFields
<1>5. CASE GoOn(Ended(TRUE)) /\ UNCHANGED statefulSet
  BY <1>5, <1>3, <1>4, GoOnStep
<1>6. CASE lifePass.es.count >= read.replicas /\ GoOn(Ended(FALSE)) /\ UNCHANGED statefulSet
  BY <1>6, <1>3, <1>4, GoOnStep
<1>7. CASE /\ lifePass.es.count < read.replicas
           /\ \E outcome \in WriteOutcomes :
                /\ statefulSet' = AfterWrite(outcome, statefulSet, read, downscaled)
                /\ Continue(outcome, statefulSet # read, Ended(FALSE))
  <2>1. PICK outcome \in WriteOutcomes :
          /\ statefulSet' = AfterWrite(outcome, statefulSet, read, downscaled)
          /\ Continue(outcome, statefulSet # read, Ended(FALSE))
    BY <1>7
  <2>2. \/ lifePass' = Ended(FALSE) /\ outcome = "done" /\ statefulSet = read
        \/ lifePass' = Failed
    BY <2>1, ContinueStep
  <2>3. UNCHANGED statefulSet \/ (statefulSet' = downscaled /\ statefulSet = read)
    BY <2>1, AfterWriteIs
  <2>4. lifePass' = Ended(FALSE) /\ outcome = "done" /\ statefulSet = read => statefulSet' = downscaled
    BY <2>1 DEF AfterWrite
  <2> QED
    BY <2>2, <2>3, <2>4, <1>2, <1>3, <1>4, <1>7
<1>8. CASE /\ removal
           /\ \E outcome \in WriteOutcomes :
                /\ statefulSet' = AfterWrite(outcome, statefulSet, statefulSet, NoSet)
                /\ Continue(outcome, statefulSet = NoSet, Ended(FALSE))
  <2>1. PICK outcome \in WriteOutcomes :
          /\ statefulSet' = AfterWrite(outcome, statefulSet, statefulSet, NoSet)
          /\ Continue(outcome, statefulSet = NoSet, Ended(FALSE))
    BY <1>8
  <2>2. lifePass' = Ended(FALSE) \/ lifePass' = Failed
    BY <2>1, ContinueStep
  <2>3. UNCHANGED statefulSet \/ statefulSet' = NoSet
    BY <2>1, AfterWriteIs
  <2>4. lifePass.es.count >= read.replicas
    BY <1>8
  <2> QED
    BY <2>2, <2>3, <2>4, <1>3, <1>4, <1>8
<1> QED
  BY <1>5, <1>6, <1>7, <1>8 DEF HandleDownscale, downscaled

\* An observer that is replaced has observed nothing.
LEMMA ResolveDoes ==
  ASSUME LifeTypeOK, ResolveObservedState, ~lifeBudget.lag
  PROVE  observers'.seen = "nothing" /\ observers'.health = lifePass'.observed
<1> DEFINE observed == Observe(lifePass.password).health
           status == IF observed = "unknown" THEN lifePass.health ELSE observed
           next == [To("nodes") EXCEPT !.observed = observed, !.health = status]
<1>1. To("nodes") \in Passes /\ To("nodes").health = lifePass.health
  BY ToFields DEF Points, LifeTypeOK
<1>2. GoOn(next)
  BY <1>1 DEF ResolveObservedState
<1>3. lifePass' = next
  BY <1>2, GoOnStep
<1>4. observers' = Observe(lifePass.password) /\ observers.seen = "nothing"
  BY DEF ResolveObservedState
<1>5. Observe(lifePass.password).seen = "nothing"
  BY <1>4 DEF Observe, NoObserver
<1> HIDE DEF observed, status
<1>6. next.observed = observed
  BY <1>1 DEF Passes
<1> QED
  BY <1>3, <1>4, <1>5, <1>6 DEF observed

\* A status that is written is the pass's, one that needs no writing was read.
LEMMA UpdateStatusDoes ==
  ASSUME LifeTypeOK, UpdateStatus, ~lifeQueue'
  PROVE  \/ resource'.health = lifePass.health
         \/ lifePass.fetched.health = lifePass.health /\ UNCHANGED resource
<1> DEFINE updated == [lifePass.fetched EXCEPT !.health = lifePass.health]
<1>1. /\ lifePass.fetched \in Resources /\ updated.health = lifePass.health
  BY DEF LifeTypeOK, Passes, Resources
<1>2. PICK outcome \in WriteOutcomes :
        /\ resource' = AfterWrite(outcome, resource, lifePass.fetched, updated)
        /\ outcome = "done"
        /\ updated = lifePass.fetched \/ resource = lifePass.fetched
  BY DEF UpdateStatus
<1> HIDE DEF updated
<1>3. CASE resource = lifePass.fetched
  BY <1>1, <1>2, <1>3 DEF AfterWrite
<1>4. CASE resource # lifePass.fetched
  BY <1>1, <1>2, <1>4 DEF AfterWrite
<1> QED
  BY <1>3, <1>4

LEMMA MoreNames ==
  ASSUME NEW m \in Nat, NEW n \in Nat, m <= n
  PROVE  PVCNames(m) \subseteq PVCNames(n)
  BY DEF PVCNames

-----------------------------------------------------------------------------
\* A StatefulSet is left, deleted, updated, or created when the cache has none.
LEMMA SetMoves ==
  ASSUME LifeTypeOK, LifeTypeOK', SetsOrdered, cache'.statefulSet = cache.statefulSet,
         \/ UNCHANGED statefulSet
         \/ statefulSet' = NoSet
         \/ /\ statefulSet'.generation = statefulSet.generation + 1
            /\ statefulSet.generation = 0 => cache.statefulSet.generation = 0
  PROVE  SetsOrdered'
<1>1. statefulSet.generation \in Nat /\ cache.statefulSet.generation \in Nat
  BY DEF LifeTypeOK, Sets, Caches
<1>2. NoSet.generation = 0
  BY DEF NoSet
<1> QED
  BY <1>1, <1>2 DEF SetsOrdered

LEMMA SetsOrderedNext ==
  ASSUME LifeTypeOK, LifeTypeOK', SetsOrdered, LifecycleNext
  PROVE  SetsOrdered'
<1>1. CASE HandleUpscale
  <2>1. cache' = cache
    BY <1>1 DEF HandleUpscale
  <2> QED
    BY <1>1, <2>1, UpscaleDoes, SetMoves
<1>2. CASE HandleDownscale
  <2>1. cache' = cache
    BY <1>2 DEF HandleDownscale
  <2>2. lifePass.es.count \in Nat
    BY DEF LifeTypeOK, Passes, Resources
  <2>3. statefulSet = lifePass.set /\ lifePass.es.count < lifePass.set.replicas => statefulSet.generation # 0
    BY <2>2 DEF SetsOrdered, NoSet
  <2> QED
    BY <1>2, <2>1, <2>3, DownscaleDoes, SetMoves
<1>3. CASE CollectGarbage
  BY <1>3, SetMoves DEF CollectGarbage, LifeOthers
<1>4. CASE SyncCache
  <2>1. cache \in Caches /\ DOMAIN cache = {"resource", "statefulSet", "internal", "realm"}
    BY DEF LifeTypeOK, Caches
  <2>2. PICK kind \in DOMAIN cache : cache' = [cache EXCEPT ![kind] = Objects[kind]]
    BY <1>4 DEF SyncCache
  <2>3. Objects.statefulSet = statefulSet
    BY DEF Objects
  <2>4. cache'.statefulSet = cache.statefulSet \/ cache'.statefulSet = statefulSet
    BY <2>1, <2>2, <2>3 DEF Caches
  <2>5. UNCHANGED statefulSet
    BY <1>4 DEF SyncCache, lifeObjects
  <2> QED
    BY <2>4, <2>5 DEF SetsOrdered
<1>5. CASE OperatorRestarts
  BY <1>5 DEF OperatorRestarts, Objects, lifeObjects, SetsOrdered
<1>6. CASE UNCHANGED <<statefulSet, cache>>
  BY <1>6 DEF SetsOrdered
<1>7. FetchElasticsearch \/ RetrieveState \/ StoreState \/ ResolveObservedState => UNCHANGED <<statefulSet, cache>>
  BY DEF FetchElasticsearch, RetrieveState, StoreState, ResolveObservedState, lifeObjects
<1>8. RegisterFinalizers \/ FinalizeElasticsearch \/ ReconcileInternalUsers \/ ReconcileFileRealm
      \/ GarbageCollectPVCs \/ DeleteDefaultPDB \/ CreatePDB \/ UpdateStatus => UNCHANGED <<statefulSet, cache>>
  BY DEF RegisterFinalizers, FinalizeElasticsearch, ReconcileInternalUsers, ReconcileFileRealm,
         GarbageCollectPVCs, DeleteDefaultPDB, CreatePDB, UpdateStatus
<1>9. CreateClaim \/ EditResource \/ DeleteResource \/ RecreateResource \/ DeleteSecret \/ HealthChanges
      => UNCHANGED <<statefulSet, cache>>
  BY DEF CreateClaim, EditResource, DeleteResource, RecreateResource, DeleteSecret, HealthChanges,
         LifeOthers, lifeObjects
<1> QED
  BY <1>1, <1>2, <1>3, <1>4, <1>5, <1>6, <1>7, <1>8, <1>9 DEF LifecycleNext

LEMMA PassOfNext ==
  ASSUME LifeTypeOK, PassOf, LifecycleNext
  PROVE  PassOf'
<1>1. CASE FetchElasticsearch
  BY <1>1, FetchType, IdleFields DEF PassOf
<1>2. CASE RegisterFinalizers
  <2>1. lifePass.es \in Resources
    BY DEF LifeTypeOK, Passes
  <2>2. /\ [lifePass.es EXCEPT !.finalizers = TRUE].count = lifePass.es.count
        /\ [lifePass.es EXCEPT !.finalizers = TRUE].health = lifePass.es.health
    BY <2>1 DEF Resources
  <2> QED
    BY <1>2, <2>2, RegisterType DEF PassOf, RegisterFinalizers, At
<1>3. CASE PassKeeps /\ lifePass.pc # "idle"
  BY <1>3 DEF PassOf, PassKeeps
<1>4. CASE UNCHANGED lifePass \/ lifePass' = IdleLife
  BY <1>4, IdleFields DEF PassOf
<1>5. FinalizeElasticsearch \/ ReconcileInternalUsers \/ ReconcileFileRealm \/ ResolveObservedState
      => PassKeeps /\ lifePass.pc # "idle"
  BY FinalizeType, InternalUsersType, FileRealmType, ResolveType
     DEF FinalizeElasticsearch, ReconcileInternalUsers, ReconcileFileRealm, ResolveObservedState, At
<1>6. GarbageCollectPVCs \/ HandleUpscale \/ DeleteDefaultPDB \/ CreatePDB \/ HandleDownscale
      => PassKeeps /\ lifePass.pc # "idle"
  BY GarbageCollectType, UpscaleType, DeletePDBType, CreatePDBType, DownscaleType DEF WorksOn
<1>7. RetrieveState \/ StoreState \/ SyncCache => UNCHANGED lifePass
  BY DEF RetrieveState, StoreState, SyncCache, lifeControl
<1>8. CreateClaim \/ CollectGarbage \/ EditResource \/ DeleteResource \/ RecreateResource
      \/ DeleteSecret \/ HealthChanges => UNCHANGED lifePass
  BY DEF CreateClaim, CollectGarbage, EditResource, DeleteResource, RecreateResource, DeleteSecret,
         HealthChanges, LifeOthers
<1>9. UpdateStatus \/ OperatorRestarts => lifePass' = IdleLife
  BY DEF UpdateStatus, OperatorRestarts
<1> QED
  BY <1>1, <1>2, <1>3, <1>4, <1>5, <1>6, <1>7, <1>8, <1>9 DEF LifecycleNext

-----------------------------------------------------------------------------
\* What a pass has fetched is what the operator's cache has.
LEMMA PassHasCopies ==
  ASSUME BudgetInv, Settling, lifePass.pc # "idle"
  PROVE  /\ lifePass.es.uid = cache.resource.uid
         /\ lifePass.es.count = cache.resource.count
         /\ lifePass.es.health = cache.resource.health
<1>1. cache.resource = lifePass.fetched
  BY DEF BudgetInv, LetInInv, PassCurrent, Settling
<1> QED
  BY <1>1 DEF BudgetInv, PassOf, LetInInv, GoneInv, PassRegistered

\* The work of a pass lets no event come.
LEMMA WorkSettling ==
  ASSUME WorksOn, lifeBudget'.lag <=> lifeBudget.lag, Settling'
  PROVE  Settling
  BY DEF WorksOn, PassKeeps, Settling, SameResource

\* A pass that fails or waits asks for another.
LEMMA RequeuedProgress ==
  ASSUME lifePass'.pc = "status" /\ lifePass'.requeue
  PROVE  HealthProgress' /\ SetProgress'
  BY DEF HealthProgress, SetProgress, Rests

LEMMA GarbageCollectProgress ==
  ASSUME BudgetInv, GarbageCollectPVCs, lifeBudget'.lag <=> lifeBudget.lag, Settling'
  PROVE  HealthProgress' /\ SetProgress'
<1>1. LifeTypeOK /\ WorksOn
  BY GarbageCollectType DEF BudgetInv, LetInInv, GoneInv
<1>2. Settling /\ lifePass.pc = "nodes" /\ UNCHANGED <<cache, observers>>
  BY <1>1, WorkSettling DEF GarbageCollectPVCs, At, WorksOn
<1>3. UNCHANGED <<statefulSet, pdb>>
  BY <1>1, GarbageCollectDoes
<1>4. CASE /\ lifePass'.pc = "upscale" /\ CreationSeen
           /\ lifePass'.set = cache.statefulSet /\ lifePass'.observed = lifePass.observed
           /\ claims' \subseteq PVCNames(cache.statefulSet.replicas) \cup PVCNames(lifePass.es.count)
  <2>1. HealthProgress'
    BY <1>2, <1>4 DEF HealthProgress, BudgetInv
  <2>2. claims' \subseteq CachedClaims'
    BY <1>2, <1>4, PassHasCopies DEF CachedClaims
  <2>3. SetPending \/ SetKnown
    BY <1>2, <1>4 DEF CreationSeen, Settling, BudgetInv, SetsOrdered, SetPending, SetKnown
  <2>4. SetPending' \/ SetKnown'
    BY <1>2, <1>3, <2>3 DEF SetPending, SetKnown
  <2> QED
    BY <1>2, <1>4, <2>1, <2>2, <2>4 DEF SetProgress, Rests
<1> QED
  BY <1>1, <1>4, GarbageCollectDoes, RequeuedProgress

LEMMA UpscaleProgress ==
  ASSUME BudgetInv, HandleUpscale, lifeBudget'.lag <=> lifeBudget.lag, Settling'
  PROVE  HealthProgress' /\ SetProgress'
<1>1. LifeTypeOK /\ WorksOn
  BY UpscaleType DEF BudgetInv, LetInInv, GoneInv
<1>2. Settling /\ lifePass.pc = "upscale" /\ UNCHANGED <<cache, observers>>
  BY <1>1, WorkSettling DEF HandleUpscale, At, WorksOn
<1>3. UNCHANGED <<claims, pdb>>
  BY <1>1, UpscaleDoes
<1>4. lifePass.es.uid = cache.resource.uid /\ lifePass.es.count = cache.resource.count
  BY <1>2, PassHasCopies
<1>5. SetPending \/ (SetKnown /\ lifePass.set = cache.statefulSet /\ claims \subseteq CachedClaims)
  BY <1>2 DEF BudgetInv, SetProgress
<1>6. CASE /\ lifePass'.pc = "pdb" /\ lifePass'.observed = lifePass.observed
           /\ statefulSet' = statefulSet => lifePass'.set \in {lifePass.set, cache.statefulSet}
  <2>1. HealthProgress'
    BY <1>2, <1>6 DEF HealthProgress, BudgetInv
  <2>2. CASE UNCHANGED statefulSet
    <3>1. SetPending => SetPending'
      BY <1>2, <2>2 DEF SetPending
    <3>2. SetKnown => SetKnown'
      BY <1>2, <2>2 DEF SetKnown
    <3> QED
      BY <1>2, <1>3, <1>5, <1>6, <2>1, <2>2, <3>1, <3>2 DEF SetProgress, Rests, CachedClaims
  <2>3. CASE ~(UNCHANGED statefulSet)
    <3>1. /\ lifePass.es.count # 0
          /\ (cache.statefulSet.generation = 0) <=> (statefulSet.generation = 0)
          /\ statefulSet'.generation = statefulSet.generation + 1
          /\ statefulSet'.owner = lifePass.es.uid
      BY <1>1, <2>3, UpscaleDoes
    <3>2. statefulSet.generation \in Nat /\ cache.statefulSet.generation \in Nat
      BY <1>1 DEF LifeTypeOK, Caches, Sets
    <3>3. SetPending'
      BY <1>2, <1>4, <1>5, <3>1, <3>2 DEF SetPending, SetKnown
    <3> QED
      BY <1>6, <2>1, <3>3 DEF SetProgress, Rests
  <2> QED
    BY <2>2, <2>3
<1> QED
  BY <1>1, <1>6, UpscaleDoes, RequeuedProgress

\* The disruption budget a pass expects is the one for the copies of the cache.
LEMMA ExpectedIsCached ==
  ASSUME BudgetInv, Settling, lifePass.pc # "idle", lifePass.set = cache.statefulSet
  PROVE  ExpectedPDB(ExpectedNodeCount) = CachedPDB
<1>1. lifePass.es.uid = cache.resource.uid /\ lifePass.es.health = cache.resource.health
  BY PassHasCopies
<1>2. AllowedDisruptions = IF cache.resource.health = "green" THEN 1 ELSE 0
  BY <1>1 DEF AllowedDisruptions
<1>3. ExpectedNodeCount = OtherNodes + cache.statefulSet.replicas
  BY DEF ExpectedNodeCount
<1>4. ExpectedPDB(ExpectedNodeCount)
      = [owner |-> lifePass.es.uid, available |-> ExpectedNodeCount - AllowedDisruptions]
  BY DEF ExpectedPDB
<1>5. OtherNodes \in Nat /\ cache.statefulSet.replicas \in Nat
  BY LifecycleAssumption DEF BudgetInv, LetInInv, GoneInv, LifeTypeOK, Caches, Sets
<1>6. ExpectedNodeCount - AllowedDisruptions
      = OtherNodes + cache.statefulSet.replicas - IF cache.resource.health = "green" THEN 1 ELSE 0
  BY <1>2, <1>3, <1>5
<1> QED
  BY <1>1, <1>4, <1>6 DEF CachedPDB

\* A step that leaves the claims and the StatefulSet to the next.
LEMMA BudgetStepProgress ==
  ASSUME BudgetInv, WorksOn, lifeBudget'.lag <=> lifeBudget.lag, Settling',
         UNCHANGED <<statefulSet, claims>>, lifePass.pc \in {"pdb", "create-pdb"},
         \/ /\ lifePass'.pc \in {"downscale", "create-pdb"}
            /\ lifePass'.set = lifePass.set /\ lifePass'.observed = lifePass.observed
            /\ lifePass'.pc = "downscale" => pdb' = ExpectedPDB(ExpectedNodeCount)
         \/ lifePass'.pc = "status" /\ lifePass'.requeue
  PROVE  HealthProgress' /\ SetProgress'
<1>1. Settling /\ UNCHANGED <<cache, observers>>
  BY WorkSettling DEF WorksOn
<1>2. SetPending \/ (SetKnown /\ lifePass.set = cache.statefulSet /\ claims \subseteq CachedClaims)
  BY <1>1 DEF BudgetInv, SetProgress
<1>3. (SetPending => SetPending') /\ (SetKnown => SetKnown') /\ CachedClaims' = CachedClaims
      /\ CachedPDB' = CachedPDB
  BY <1>1 DEF SetPending, SetKnown, CachedClaims, CachedPDB
<1>4. CASE /\ lifePass'.pc \in {"downscale", "create-pdb"}
           /\ lifePass'.set = lifePass.set /\ lifePass'.observed = lifePass.observed
           /\ lifePass'.pc = "downscale" => pdb' = ExpectedPDB(ExpectedNodeCount)
  <2>1. HealthProgress'
    BY <1>1, <1>4 DEF HealthProgress, BudgetInv
  <2>2. lifePass'.pc = "downscale" => SetPending' \/ pdb' = CachedPDB'
    BY <1>1, <1>2, <1>3, <1>4, ExpectedIsCached
  <2> QED
    BY <1>1, <1>2, <1>3, <1>4, <2>1, <2>2 DEF SetProgress, Rests
<1> QED
  BY <1>4, RequeuedProgress

LEMMA DownscaleProgress ==
  ASSUME BudgetInv, HandleDownscale, lifeBudget'.lag <=> lifeBudget.lag, Settling'
  PROVE  HealthProgress' /\ SetProgress'
<1>1. LifeTypeOK /\ WorksOn
  BY DownscaleType DEF BudgetInv, LetInInv, GoneInv
<1>2. Settling /\ lifePass.pc = "downscale" /\ UNCHANGED <<cache, observers>>
  BY <1>1, WorkSettling DEF HandleDownscale, At, WorksOn
<1>3. UNCHANGED <<claims, pdb>> /\ lifePass'.pc = "status"
  BY <1>1, DownscaleDoes
<1>4. lifePass.es.count = cache.resource.count
  BY <1>2, PassHasCopies
<1>5. \/ SetPending
      \/ SetKnown /\ lifePass.set = cache.statefulSet /\ claims \subseteq CachedClaims /\ pdb = CachedPDB
  BY <1>2 DEF BudgetInv, SetProgress
<1>6. CASE ~lifePass'.requeue
  <2>1. lifePass'.health = lifePass.observed
    BY <1>1, <1>6, DownscaleDoes
  <2>2. HealthProgress'
    BY <1>2, <1>3, <2>1 DEF HealthProgress, BudgetInv
  <2>3. /\ statefulSet.generation \in Nat /\ cache.statefulSet.generation \in Nat
        /\ cache.resource.count \in Nat /\ cache.statefulSet.replicas \in Nat
    BY <1>1 DEF LifeTypeOK, Caches, Sets, Resources
  <2>4. CASE UNCHANGED statefulSet
    <3>1. cache.resource.count >= lifePass.set.replicas
      BY <1>1, <1>4, <1>6, <2>4, DownscaleDoes
    <3>2. SetPending => SetPending'
      BY <1>2, <2>4 DEF SetPending
    <3>3. CASE SetKnown /\ lifePass.set = cache.statefulSet /\ claims \subseteq CachedClaims
               /\ pdb = CachedPDB
      <4>1. SetKnown' /\ pdb' = CachedPDB' /\ UNCHANGED <<cache, claims>>
        BY <1>2, <1>3, <2>4, <3>3 DEF SetKnown, CachedPDB
      <4>2. cache.statefulSet.replicas <= cache.resource.count
        BY <2>3, <3>1, <3>3
      <4>3. claims \subseteq PVCNames(cache.resource.count)
        BY <2>3, <3>3, <4>2, MoreNames DEF CachedClaims
      <4> QED
        BY <1>3, <2>2, <4>1, <4>2, <4>3 DEF SetProgress
    <3> QED
      BY <1>3, <1>5, <2>2, <3>2, <3>3 DEF SetProgress
  <2>5. CASE /\ statefulSet = lifePass.set /\ lifePass.es.count < lifePass.set.replicas
             /\ statefulSet'.generation = statefulSet.generation + 1
             /\ statefulSet'.owner = statefulSet.owner
    <3>1. statefulSet.generation # 0
      BY <1>4, <2>3, <2>5 DEF BudgetInv, SetsOrdered, NoSet
    <3>2. SetPending'
      BY <1>2, <1>5, <2>3, <2>5, <3>1 DEF SetPending, SetKnown
    <3> QED
      BY <1>3, <2>2, <3>2 DEF SetProgress
  <2>6. CASE lifePass.set.generation # 0 /\ lifePass.es.count = 0 /\ statefulSet' = NoSet
    <3>1. SetPending'
      BY <1>2, <1>4, <1>5, <2>6 DEF SetPending, SetKnown, NoSet
    <3> QED
      BY <1>3, <2>2, <3>1 DEF SetProgress
  <2> QED
    BY <1>1, <2>4, <2>5, <2>6, DownscaleDoes
<1> QED
  BY <1>3, <1>6, RequeuedProgress

LEMMA StatusProgress ==
  ASSUME BudgetInv, UpdateStatus, lifeBudget'.lag <=> lifeBudget.lag, Settling'
  PROVE  HealthProgress' /\ SetProgress'
<1>1. LifeTypeOK
  BY DEF BudgetInv, LetInInv, GoneInv
<1>2. /\ lifePass.pc = "status" /\ UNCHANGED <<statefulSet, claims, pdb, cache, observers>>
      /\ ~lifeQueue' /\ lifePass'.pc = "idle"
  BY IdleFields DEF UpdateStatus, At, lifeMemory, Settling
<1>3. /\ ~lifeQueue /\ ~lifePass.requeue
      /\ UNCHANGED resource \/ resource' = [resource EXCEPT !.health = lifePass.health]
  BY <1>1, <1>2, UpdateStatusType
<1>4. resource'.uid = resource.uid
  BY <1>1, <1>3 DEF LifeTypeOK, Resources
<1>5. Settling
  BY <1>2, <1>3, <1>4 DEF Settling, SameResource
<1>6. HealthProgress /\ SetProgress
  BY <1>5 DEF BudgetInv
<1>7. observers.seen = "nothing" /\ observers.health = lifePass.health
  BY <1>2, <1>3, <1>6 DEF HealthProgress
<1>8. cache.resource = lifePass.fetched
  BY <1>2, <1>3 DEF BudgetInv, LetInInv, PassCurrent
<1>9. resource'.health = observers.health \/ resource'.health # cache.resource.health
  BY <1>1, <1>2, <1>7, <1>8, UpdateStatusDoes
<1>10. HealthProgress'
  BY <1>2, <1>7, <1>9 DEF HealthProgress
<1>11. SetProgress'
  BY <1>2, <1>3, <1>6 DEF SetProgress, Rests, SetPending, SetKnown, CachedPDB
<1> QED
  BY <1>10, <1>11

\* The steps of everyone else leave what is settled: a claim is created of a Pod the
\* StatefulSet has, and what is collected is not of this resource.
LEMMA OthersKeepProgress ==
  ASSUME BudgetInv, LifeTypeOK',
         UNCHANGED <<lifePass, cache, observers, lifeQueue>>,
         lifeBudget'.lag <=> lifeBudget.lag, Settling',
         resource'.uid # resource.uid => resource'.uid = 0 \/ (resource.uid = 0 /\ resource'.uid = 2),
         resource'.uid = resource.uid => resource'.health = resource.health,
         claims' \subseteq claims \cup PVCNames(statefulSet.replicas),
         \/ UNCHANGED statefulSet
         \/ statefulSet' = NoSet /\ statefulSet.owner \notin {0, resource.uid},
         UNCHANGED pdb \/ pdb.owner \notin {0, resource.uid}
  PROVE  HealthProgress' /\ SetProgress'
<1>1. resource'.uid = resource.uid
  BY DEF Settling, SameResource, BudgetInv, LetInInv, GoneInv, CopiesBehind, Behind
<1>2. Settling
  BY <1>1 DEF Settling, SameResource
<1>3. HealthProgress /\ SetProgress /\ SetsOrdered
  BY <1>2 DEF BudgetInv
<1>4. cache.resource.uid = resource.uid
  BY <1>2 DEF Settling, SameResource
<1>5. HealthProgress'
  BY <1>1, <1>3 DEF HealthProgress
<1>6. SetPending => SetPending'
  BY <1>4 DEF SetPending, NoSet
<1>7. SetKnown => SetKnown' \/ SetPending'
  BY <1>3 DEF SetKnown, SetPending, SetsOrdered, NoSet
<1>8. pdb = CachedPDB => UNCHANGED pdb
  BY <1>4 DEF CachedPDB
<1>9. CachedPDB' = CachedPDB /\ CachedClaims' = CachedClaims
  BY DEF CachedPDB, CachedClaims
<1>10. SetKnown /\ claims \subseteq CachedClaims => claims' \subseteq CachedClaims
  BY DEF SetKnown, CachedClaims
<1>11. /\ SetKnown /\ cache.statefulSet.replicas <= cache.resource.count
       /\ claims \subseteq PVCNames(cache.resource.count)
       => claims' \subseteq PVCNames(cache.resource.count)
  <2>1. cache.statefulSet.replicas \in Nat /\ cache.resource.count \in Nat
    BY DEF BudgetInv, LetInInv, GoneInv, LifeTypeOK, Caches, Sets, Resources
  <2> QED
    BY <2>1, MoreNames DEF SetKnown
<1>12. SetProgress'
  <2>1. lifePass.pc \in {"upscale", "pdb", "create-pdb", "downscale"} =>
          \/ SetPending'
          \/ SetKnown' /\ lifePass.set = cache.statefulSet /\ claims' \subseteq CachedClaims
    BY <1>3, <1>6, <1>7, <1>10 DEF SetProgress
  <2>2. lifePass.pc = "downscale" => SetPending' \/ pdb' = CachedPDB
    BY <1>3, <1>6, <1>8 DEF SetProgress
  <2>3. Rests =>
          \/ SetPending'
          \/ /\ SetKnown' /\ pdb' = CachedPDB
             /\ cache.statefulSet.replicas <= cache.resource.count
             /\ claims' \subseteq PVCNames(cache.resource.count)
    BY <1>3, <1>6, <1>7, <1>8, <1>11 DEF SetProgress
  <2> QED
    BY <1>9, <2>1, <2>2, <2>3 DEF SetProgress, Rests
<1> QED
  BY <1>5, <1>12

LEMMA ProgressNext ==
  ASSUME BudgetInv, LetInInv', [LifecycleNext]_lifecycleVars, Settling'
  PROVE  HealthProgress' /\ SetProgress'
<1>1. LifeTypeOK /\ LifeTypeOK' /\ (lifeBudget'.lag <=> lifeBudget.lag)
  <2>1. LifeTypeOK /\ LifeTypeOK'
    BY DEF BudgetInv, LetInInv, GoneInv
  <2> QED
    BY <2>1, LagStays DEF lifecycleVars, lifeControl
<1>2. CASE FetchElasticsearch
  <2>1. /\ UNCHANGED cache /\ lifeQueue' = cache.resource.paused
        /\ \/ cache.resource.uid = 0 \/ cache.resource.paused
           \/ lifePass'.pc = "finalizers"
    BY <1>1, <1>2, FetchType DEF FetchElasticsearch
  <2>2. lifePass'.pc = "finalizers"
    BY <2>1 DEF Settling
  <2> QED
    BY <2>2 DEF HealthProgress, SetProgress, Rests
<1>3. CASE RegisterFinalizers
  <2>1. lifePass'.pc = "internal" \/ (lifePass'.pc = "status" /\ lifePass'.requeue)
    BY <1>1, <1>3, RegisterType
  <2> QED
    BY <2>1 DEF HealthProgress, SetProgress, Rests
<1>4. CASE FinalizeElasticsearch
  <2>1. UNCHANGED cache /\ lifePass.pc = "finalizers" /\ lifePass.es.deleting
    BY <1>4 DEF FinalizeElasticsearch, At
  <2>2. lifeQueue' = lifeQueue
    BY <1>1, <1>4, FinalizeType DEF PassKeeps
  <2>3. cache.resource = lifePass.es
    BY <2>1, <2>2 DEF BudgetInv, LetInInv, PassCurrent, Settling
  <2> QED
    BY <2>1, <2>3 DEF Settling, SameResource
<1>5. CASE ReconcileInternalUsers
  <2>1. lifePass'.pc = "realm" \/ (lifePass'.pc = "status" /\ lifePass'.requeue)
    BY <1>1, <1>5, InternalUsersType
  <2> QED
    BY <2>1 DEF HealthProgress, SetProgress, Rests
<1>6. CASE ReconcileFileRealm
  <2>1. lifePass'.pc = "observe" \/ (lifePass'.pc = "status" /\ lifePass'.requeue)
    BY <1>1, <1>6, FileRealmType
  <2> QED
    BY <2>1 DEF HealthProgress, SetProgress, Rests
<1>7. CASE ResolveObservedState
  <2>1. lifePass'.pc = "nodes"
    BY <1>1, <1>7, ResolveType
  <2>2. observers'.seen = "nothing" /\ observers'.health = lifePass'.observed
    BY <1>1, <1>7, ResolveDoes DEF Settling
  <2> QED
    BY <2>1, <2>2 DEF HealthProgress, SetProgress, Rests
<1>8. CASE RetrieveState
  BY <1>8 DEF RetrieveState, Settling
<1>9. CASE StoreState
  <2>1. UNCHANGED <<lifeObjects, cache, lifeControl>> /\ observers.seen # "nothing"
    BY <1>9 DEF StoreState
  <2>2. Settling
    BY <2>1 DEF Settling, SameResource, lifeObjects, lifeControl
  <2>3. HealthProgress /\ SetProgress
    BY <2>2 DEF BudgetInv
  <2>4. HealthProgress'
    BY <2>1, <2>3 DEF HealthProgress, lifeControl
  <2>5. SetProgress'
    BY <2>1, <2>3
       DEF SetProgress, Rests, SetPending, SetKnown, CachedPDB, CachedClaims, lifeObjects, lifeControl
  <2> QED
    BY <2>4, <2>5
<1>10. CASE GarbageCollectPVCs
  BY <1>1, <1>10, GarbageCollectProgress
<1>11. CASE HandleUpscale
  BY <1>1, <1>11, UpscaleProgress
<1>12. CASE DeleteDefaultPDB
  BY <1>1, <1>12, DeletePDBType, DeletePDBDoes, BudgetStepProgress DEF DeleteDefaultPDB, At
<1>13. CASE CreatePDB
  BY <1>1, <1>13, CreatePDBType, CreatePDBDoes, BudgetStepProgress DEF CreatePDB, At
<1>14. CASE HandleDownscale
  BY <1>1, <1>14, DownscaleProgress
<1>15. CASE UpdateStatus
  BY <1>1, <1>15, StatusProgress
<1>16. CASE SyncCache
  BY <1>16 DEF SyncCache, Settling
<1>17. CASE CreateClaim
  <2>1. /\ UNCHANGED <<resource, statefulSet, pdb, lifePass, cache, observers, lifeQueue>>
        /\ claims' \subseteq claims \cup PVCNames(statefulSet.replicas)
    BY <1>17 DEF CreateClaim, LifeOthers, lifeMemory
  <2> QED
    BY <1>1, <2>1, OthersKeepProgress
<1>18. CASE CollectGarbage
  <2>1. /\ UNCHANGED <<resource, claims, lifePass, cache, observers, lifeQueue>>
        /\ \/ UNCHANGED statefulSet
           \/ statefulSet' = NoSet /\ statefulSet.owner \notin {0, resource.uid}
        /\ UNCHANGED pdb \/ pdb.owner \notin {0, resource.uid}
    BY <1>18 DEF CollectGarbage, LifeOthers, lifeMemory
  <2> QED
    BY <1>1, <2>1, OthersKeepProgress
<1>19. CASE EditResource
  <2>1. /\ UNCHANGED <<statefulSet, claims, pdb, lifePass, cache, observers, lifeQueue>>
        /\ resource'.uid = resource.uid /\ resource'.health = resource.health
    BY <1>1, <1>19, EditType DEF EditResource
  <2> QED
    BY <1>1, <2>1, OthersKeepProgress
<1>20. CASE DeleteResource
  <2>1. UNCHANGED <<statefulSet, claims, pdb, lifePass, cache, observers, lifeQueue>>
    BY <1>20 DEF DeleteResource, LifeOthers, lifeMemory
  <2>2. resource'.uid = 0 \/ (resource'.uid = resource.uid /\ resource'.health = resource.health)
    BY <1>1, <1>20, DeleteType, IdleFields
  <2>3. resource.uid # 0
    BY <1>20 DEF DeleteResource
  <2> QED
    BY <1>1, <2>1, <2>2, <2>3, OthersKeepProgress
<1>21. CASE RecreateResource
  <2>1. /\ UNCHANGED <<statefulSet, claims, pdb, lifePass, cache, observers, lifeQueue>>
        /\ resource.uid = 0 /\ resource'.uid = 2
    BY <1>1, <1>21, RecreateType DEF RecreateResource
  <2> QED
    BY <1>1, <2>1, OthersKeepProgress
<1>22. CASE DeleteSecret \/ HealthChanges \/ UNCHANGED lifecycleVars
  <2>1. UNCHANGED <<resource, statefulSet, claims, pdb, lifePass, cache, observers, lifeQueue>>
    BY <1>22 DEF DeleteSecret, HealthChanges, LifeOthers, lifeObjects, lifeMemory, lifecycleVars,
                 lifeControl
  <2> QED
    BY <1>1, <2>1, OthersKeepProgress
<1>23. CASE OperatorRestarts
  BY <1>1, <1>23, RestartType DEF Settling
<1> QED
  BY <1>2, <1>3, <1>4, <1>5, <1>6, <1>7, <1>8, <1>9, <1>10, <1>11, <1>12, <1>13, <1>14,
     <1>15, <1>16, <1>17, <1>18, <1>19, <1>20, <1>21, <1>22, <1>23 DEF LifecycleNext

LEMMA BudgetInvInit == LifecycleInit => BudgetInv
<1> SUFFICES ASSUME LifecycleInit PROVE BudgetInv
  OBVIOUS
<1>1. LetInInv
  BY LetInInvInit
<1>2. lifePass = IdleLife /\ lifeQueue /\ statefulSet = NoSet /\ cache.statefulSet = NoSet
  BY DEF LifecycleInit, EmptyCache
<1> QED
  BY <1>1, <1>2, IdleFields DEF BudgetInv, SetsOrdered, PassOf, Settling, NoSet

LEMMA BudgetInvNext ==
  ASSUME BudgetInv, [LifecycleNext]_lifecycleVars
  PROVE  BudgetInv'
<1>1. LetInInv' /\ LifeTypeOK /\ LifeTypeOK'
  BY LetInInvNext DEF BudgetInv, LetInInv, GoneInv
<1>2. SetsOrdered' /\ PassOf'
  BY <1>1, SetsOrderedNext, PassOfNext
     DEF BudgetInv, SetsOrdered, PassOf, lifecycleVars, lifeObjects, lifeControl
<1>3. Settling' => HealthProgress' /\ SetProgress'
  BY <1>1, ProgressNext
<1> QED
  BY <1>1, <1>2, <1>3 DEF BudgetInv

\* Unless the operator's caches are late where the code relies on them, when it rests
\* the status shows the health that is observed, the disruption budget is the one for
\* it, and the claims of the nodes that are gone are removed (pdb.Reconcile,
\* healthChangeListener, GarbageCollectPVCs).
THEOREM RestsSettled == LifecycleSpec => [](~lifeBudget.lag => BudgetFollows)
<1>1. LifecycleInit => BudgetInv
  BY BudgetInvInit
<1>2. BudgetInv /\ [LifecycleNext]_lifecycleVars => BudgetInv'
  BY BudgetInvNext
<1>3. BudgetInv => (~lifeBudget.lag => BudgetFollows)
  <2> SUFFICES ASSUME BudgetInv, ~lifeBudget.lag, LifecycleQuiet, Alive,
                      observers.health = health, observers.seen = "nothing"
               PROVE  /\ resource.health = health
                      /\ pdb = [owner |-> resource.uid,
                                available |-> OtherNodes + statefulSet.replicas
                                                - IF health = "green" THEN 1 ELSE 0]
                      /\ claims \subseteq PVCNames(resource.count)
    BY DEF BudgetFollows
  <2>1. /\ cache.resource = resource /\ cache.statefulSet = statefulSet
        /\ lifePass.pc = "idle" /\ ~lifeQueue
    BY DEF LifecycleQuiet, Objects
  <2>2. HealthProgress /\ SetProgress
    BY <2>1 DEF BudgetInv, Settling, SameResource, Alive
  <2>3. resource.health = health
    BY <2>1, <2>2 DEF HealthProgress
  <2>4. statefulSet.generation \in Nat
    BY DEF BudgetInv, LetInInv, GoneInv, LifeTypeOK, Sets
  <2>5. ~SetPending
    BY <2>1, <2>4 DEF SetPending
  <2>6. pdb = CachedPDB /\ claims \subseteq PVCNames(cache.resource.count)
    BY <2>1, <2>2, <2>5 DEF SetProgress, Rests
  <2>7. CachedPDB = [owner |-> resource.uid,
                     available |-> OtherNodes + statefulSet.replicas
                                     - IF health = "green" THEN 1 ELSE 0]
    BY <2>1, <2>3 DEF CachedPDB
  <2> QED
    BY <2>1, <2>3, <2>6, <2>7
<1> QED
  BY <1>1, <1>2, <1>3, PTL DEF LifecycleSpec
=============================================================================
