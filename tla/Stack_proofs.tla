----------------------------- MODULE Stack_proofs -----------------------------
(***************************************************************************)
(* What the association and the application controllers promise, for any   *)
(* clusters, any number of edits, failures and restarts.                   *)
(***************************************************************************)
EXTENDS StackProperties, TLAPS, FiniteSetTheorems, WellFoundedInduction

-----------------------------------------------------------------------------
(***************************************************************************)
(* NeverMarkedUnknown.  The annotation is written once, by whichever       *)
(* controller comes first, and stays: whoever holds a copy that has it     *)
(* knows that the application has it, or is gone for good.  Services are   *)
(* made by those who hold such a copy, so that the copy of a pass that     *)
(* finds services and no annotation is an old one, whose write conflicts.  *)
(***************************************************************************)
Statuses == {"", "Pending", "Established"}
Healths == {"", "red", "green"}
Apps ==
  [exists : BOOLEAN, deleting : BOOLEAN, ref : Refs, paused : BOOLEAN, secure : BOOLEAN,
   finalizers : SUBSET AllFinalizers, conf : [url : Refs, ca : BOOLEAN],
   version : {"", "current"}, status : Statuses, health : Healths]

Annotated(a) == a.version = "current" \/ ~a.exists
\* A copy of the application a, the one that a pass holds.
CopyOf(c, a) == c \in Apps /\ (c.version = "current" => Annotated(a))
HeldOf(c, a) == CopyOf(c, a) /\ c.exists

Deploys == {"service", "config", "keystore", "deploy", "status"}

AssocPassOf(r, a) ==
  /\ {"pc", "read", "mine", "pw", "ca", "status", "failed"} \subseteq DOMAIN r
  /\ CopyOf(r.read, a) /\ CopyOf(r.mine, a) /\ r.status \in Statuses /\ r.ca \in BOOLEAN
  /\ r.pc # "idle" => r.read.exists
  /\ r.pc = "finalized" => r.mine.exists /\ r.mine.version = r.read.version
DriverPassOf(k, r, a) ==
  /\ {"pc", "read", "mine"} \subseteq DOMAIN r
  /\ CopyOf(r.read, a)
  /\ r.pc # "idle" => r.read.exists
  /\ r.pc \in Deploys => r.read.version = "current"
  /\ r.pc = "finalizers" /\ k # "apm" => r.read.version = "current"
ServiceOf(w, a) ==
  /\ {"service", "running"} \subseteq DOMAIN w /\ w.service \in BOOLEAN
  /\ w.service => Annotated(a)

AnnotationInv ==
  /\ app \in Apps
  /\ CopyOf(cApp, app)
  /\ AssocPassOf(assoc, app)
  /\ DriverPassOf(kind, driver, app)
  /\ ServiceOf(workload, app)

\* What becomes of an annotation.
Keeps(old, new) == new \in Apps /\ (Annotated(old) => Annotated(new))

LEMMA RecordFields ==
  ASSUME NEW a \in Apps
  PROVE  /\ \A b \in BOOLEAN : /\ [a EXCEPT !.exists = b] \in Apps
                               /\ [a EXCEPT !.deleting = b] \in Apps
                               /\ [a EXCEPT !.paused = b] \in Apps
                               /\ [a EXCEPT !.secure = b] \in Apps
         /\ \A f \in SUBSET AllFinalizers : [a EXCEPT !.finalizers = f] \in Apps
         /\ \A r \in Refs : [a EXCEPT !.ref = r] \in Apps
         /\ \A c \in [url : Refs, ca : BOOLEAN] : [a EXCEPT !.conf = c] \in Apps
         /\ \A s \in Statuses : [a EXCEPT !.status = s] \in Apps
         /\ \A h \in Healths : [a EXCEPT !.health = h] \in Apps
         /\ [a EXCEPT !.version = "current"] \in Apps
BY DEF Apps

LEMMA OtherFields ==
  ASSUME NEW a \in Apps, NEW x
  PROVE  /\ [a EXCEPT !.conf = x].version = a.version /\ [a EXCEPT !.conf = x].exists = a.exists
         /\ [a EXCEPT !.status = x].version = a.version /\ [a EXCEPT !.status = x].exists = a.exists
         /\ [a EXCEPT !.health = x].version = a.version /\ [a EXCEPT !.health = x].exists = a.exists
         /\ [a EXCEPT !.ref = x].version = a.version /\ [a EXCEPT !.ref = x].exists = a.exists
         /\ [a EXCEPT !.paused = x].version = a.version /\ [a EXCEPT !.paused = x].exists = a.exists
         /\ [a EXCEPT !.secure = x].version = a.version /\ [a EXCEPT !.secure = x].exists = a.exists
         /\ [a EXCEPT !.deleting = x].version = a.version
         /\ [a EXCEPT !.deleting = x].exists = a.exists
         /\ [a EXCEPT !.version = x].exists = a.exists /\ [a EXCEPT !.version = x].version = x
BY DEF Apps

LEMMA NewApps ==
  /\ NoApp \in Apps /\ ~NoApp.exists /\ NoApp.version = ""
  /\ \A r \in Refs : NewApp(r) \in Apps /\ NewApp(r).version = "" /\ NewApp(r).exists
<1>1. NoConf \in [url : Refs, ca : BOOLEAN]
  BY DEF NoConf, Refs
<1>2. \A r \in Refs : NewApp(r) \in Apps /\ NewApp(r).version = "" /\ NewApp(r).exists
  BY <1>1 DEF NewApp, Apps, Statuses, Healths, AllFinalizers
<1>3. NoCluster \in Refs
  BY DEF Refs
<1>4. [NewApp(NoCluster) EXCEPT !.exists = FALSE] \in Apps
  BY <1>2, <1>3, RecordFields
<1> QED
  BY <1>2, <1>3, <1>4 DEF NoApp, Apps

LEMMA StoredKeeps ==
  ASSUME NEW a \in Apps, NEW n \in Apps, n.version = a.version \/ n.version = "current"
  PROVE  /\ Stored(n) \in Apps
         /\ a.exists => Keeps(a, Stored(n))
         /\ n.version = "current" => Annotated(Stored(n))
BY NewApps DEF Stored, Keeps, Annotated, Apps

LEMMA UpdateKeeps ==
  ASSUME AnnotationInv, NEW r \in Apps, r.exists, NEW n \in Apps, NEW o,
         n.version = r.version \/ n.version = "current",
         UpdateApp(n, r, o)
  PROVE  /\ Keeps(app, app')
         /\ ~Conflicts(r) /\ o = "ok" /\ n.version = "current" => Annotated(app')
<1>1. CASE Conflicts(r) \/ ~Applied(o)
  BY <1>1 DEF UpdateApp, Keeps, AnnotationInv, Applied
<1>2. CASE ~Conflicts(r) /\ Applied(o)
  <2>1. app = r /\ app' = Stored(n)
    BY <1>2 DEF UpdateApp, Conflicts
  <2> QED
    BY <2>1, StoredKeeps
<1> QED
  BY <1>1, <1>2

LEMMA CopiesKept ==
  ASSUME NEW a, NEW b, Keeps(a, b)
  PROVE  /\ \A c : CopyOf(c, a) => CopyOf(c, b)
         /\ \A r : AssocPassOf(r, a) => AssocPassOf(r, b)
         /\ \A k, r : DriverPassOf(k, r, a) => DriverPassOf(k, r, b)
         /\ \A w : ServiceOf(w, a) => ServiceOf(w, b)
<1>1. \A c : CopyOf(c, a) => CopyOf(c, b)
  BY DEF CopyOf, Keeps
<1>2. \A r : AssocPassOf(r, a) => AssocPassOf(r, b)
  BY <1>1 DEF AssocPassOf
<1>3. \A k, r : DriverPassOf(k, r, a) => DriverPassOf(k, r, b)
  BY <1>1 DEF DriverPassOf
<1>4. \A w : ServiceOf(w, a) => ServiceOf(w, b)
  BY DEF ServiceOf, Keeps
<1> QED
  BY <1>1, <1>2, <1>3, <1>4

LEMMA HandleKeeps ==
  ASSUME NEW c \in Apps, NEW f \in SUBSET AllFinalizers
  PROVE  /\ Handle(c, f) \in Apps
         /\ Handle(c, f).version = c.version /\ Handle(c, f).exists = c.exists
<1>1. c.finalizers \cup f \in SUBSET AllFinalizers /\ c.finalizers \ f \in SUBSET AllFinalizers
  BY DEF Apps
<1>2. [c EXCEPT !.finalizers = @ \cup f] \in Apps /\ [c EXCEPT !.finalizers = @ \ f] \in Apps
  BY <1>1, RecordFields
<1>3. /\ [c EXCEPT !.finalizers = @ \cup f].version = c.version
      /\ [c EXCEPT !.finalizers = @ \ f].version = c.version
      /\ [c EXCEPT !.finalizers = @ \cup f].exists = c.exists
      /\ [c EXCEPT !.finalizers = @ \ f].exists = c.exists
  BY DEF Apps
<1> QED
  BY <1>2, <1>3 DEF Handle, ReconcileFinalizers, ExecuteFinalizers

\* A copy without the annotation, of an application with services, is an old one.
LEMMA OldCopyConflicts ==
  ASSUME AnnotationInv, NEW c, HeldOf(c, app), ReconcileCompatibility(c) # c
  PROVE  /\ ReconcileCompatibility(c) \in Apps \/ Conflicts(c)
         /\ ~Conflicts(c) => /\ ReconcileCompatibility(c) \in Apps
                             /\ ReconcileCompatibility(c).version = "current"
                             /\ ReconcileCompatibility(c).exists
<1>1. c \in Apps /\ c.exists /\ c.version = ""
  BY DEF HeldOf, CopyOf, ReconcileCompatibility, Apps
<1>2. CASE workload.service
  <2>1. Annotated(app)
    BY <1>2 DEF AnnotationInv, ServiceOf
  <2>2. app \in Apps
    BY DEF AnnotationInv
  <2>3. app # c
    BY <1>1, <2>1, <2>2 DEF Annotated, Apps
  <2>4. Conflicts(c)
    BY <2>3 DEF Conflicts
  <2> QED
    BY <2>4
<1>3. CASE ~workload.service
  <2>1. ReconcileCompatibility(c) = [c EXCEPT !.version = "current"]
    BY <1>1, <1>3 DEF ReconcileCompatibility, CheckExistingResources
  <2>2. [c EXCEPT !.version = "current"] \in Apps
    BY <1>1, RecordFields
  <2>3. [c EXCEPT !.version = "current"].version = "current"
        /\ [c EXCEPT !.version = "current"].exists
    BY <1>1 DEF Apps
  <2> QED
    BY <2>1, <2>2, <2>3
<1> QED
  BY <1>2, <1>3

-----------------------------------------------------------------------------
(***************************************************************************)
(* The association controllers.                                            *)
(***************************************************************************)
AssocKeeps == Keeps(app, app') /\ AssocPassOf(assoc', app')

LEMMA IdleAssociationOf ==
  ASSUME NEW a
  PROVE  AssocPassOf(IdleAssociation, a)
BY NewApps DEF IdleAssociation, AssocPassOf, CopyOf, Statuses

LEMMA AppUnchanged ==
  ASSUME AnnotationInv, app' = app
  PROVE  Keeps(app, app')
BY DEF AnnotationInv, Keeps

LEMMA FinishAssociationKeeps ==
  ASSUME NEW requeue, FinishAssociation(requeue)
  PROVE  AssocPassOf(assoc', app')
BY IdleAssociationOf DEF FinishAssociation

LEMMA ReturnStatusKeeps ==
  ASSUME AssocPassOf(assoc, app'), NEW q, NEW c, HeldOf(c, app'), NEW status \in Statuses,
         NEW failed, ReturnStatus(q, c, status, failed)
  PROVE  AssocPassOf(assoc', app')
<1>1. CASE assoc' = IdleAssociation
  BY <1>1, IdleAssociationOf
<1>2. CASE assoc' = [assoc EXCEPT !.pc = "status", !.read = c, !.status = status, !.failed = failed]
  BY <1>2 DEF AssocPassOf, HeldOf
<1> QED
  BY <1>1, <1>2 DEF ReturnStatus

LEMMA AssocGotoKeeps ==
  ASSUME AssocPassOf(assoc, app'), assoc.pc # "idle", NEW p, p # "finalized",
         \/ assoc' = [assoc EXCEPT !.pc = p]
         \/ \E pw : assoc' = [assoc EXCEPT !.pc = p, !.pw = pw]
         \/ \E ca0 \in BOOLEAN : assoc' = [assoc EXCEPT !.pc = p, !.ca = ca0]
  PROVE  AssocPassOf(assoc', app')
<1>1. CASE assoc' = [assoc EXCEPT !.pc = p]
  BY <1>1 DEF AssocPassOf
<1>2. ASSUME NEW pw, assoc' = [assoc EXCEPT !.pc = p, !.pw = pw]
      PROVE  AssocPassOf(assoc', app')
  BY <1>2 DEF AssocPassOf
<1>3. ASSUME NEW ca0 \in BOOLEAN, assoc' = [assoc EXCEPT !.pc = p, !.ca = ca0]
      PROVE  AssocPassOf(assoc', app')
  BY <1>3 DEF AssocPassOf
<1> QED
  BY <1>1, <1>2, <1>3

LEMMA AfterFinalizersOf ==
  ASSUME NEW a, NEW c, HeldOf(c, a)
  PROVE  AssocPassOf(AfterFinalizers(c), a)
<1> DEFINE p == IF IsCompatible(c) /\ (IsPaused(c) => kind = "apm") THEN "watch" ELSE "compatible"
<1>1. AfterFinalizers(c) = [IdleAssociation EXCEPT !.read = c, !.pc = p]
  BY DEF AfterFinalizers
<1>2. p # "finalized"
  OBVIOUS
<1> HIDE DEF p
<1> QED
  BY <1>1, <1>2, NewApps DEF AssocPassOf, HeldOf, IdleAssociation, CopyOf, Statuses

LEMMA FetchedOf ==
  ASSUME NEW a, NEW c, HeldOf(c, a)
  PROVE  AssocPassOf(Fetched(c), a)
<1>1. AssociationFinalizers \in SUBSET AllFinalizers
  BY DEF AssociationFinalizers, AllFinalizers
<1> DEFINE n == Handle(c, AssociationFinalizers)
<1>2. n \in Apps /\ n.version = c.version /\ n.exists
  BY <1>1, HandleKeeps DEF HeldOf, CopyOf
<1>3. CopyOf(n, a)
  BY <1>2 DEF CopyOf, HeldOf
<1> HIDE DEF n
<1>4. AssocPassOf([IdleAssociation EXCEPT !.pc = "finalizers", !.read = c], a)
  BY NewApps DEF AssocPassOf, HeldOf, IdleAssociation, CopyOf, Statuses
<1>5. AssocPassOf([IdleAssociation EXCEPT !.pc = "finalized", !.read = c, !.mine = n], a)
  BY <1>2, <1>3, NewApps DEF AssocPassOf, HeldOf, IdleAssociation, CopyOf, Statuses
<1> QED
  BY <1>4, <1>5, AfterFinalizersOf DEF Fetched, n

LEMMA FetchWithAssociationKeeps ==
  ASSUME AnnotationInv, FetchWithAssociation
  PROVE  AssocKeeps
<1>1. app' = app
  BY DEF FetchWithAssociation, resourceVars
<1>2. CASE assoc' = assoc
  BY <1>1, <1>2, AppUnchanged DEF AssocKeeps, AnnotationInv
<1>3. CASE cApp.exists /\ assoc' = Fetched(cApp)
  <2>1. HeldOf(cApp, app)
    BY <1>3 DEF AnnotationInv, HeldOf
  <2> QED
    BY <1>1, <1>3, <2>1, FetchedOf, AppUnchanged DEF AssocKeeps
<1> QED
  BY <1>2, <1>3 DEF FetchWithAssociation

LEMMA RunFinalizersKeeps ==
  ASSUME AnnotationInv, RunFinalizers
  PROVE  AssocKeeps
<1>1. app' = app /\ assoc.pc = "finalizers"
  BY DEF RunFinalizers
<1>2. HeldOf(assoc.read, app)
  BY <1>1 DEF AnnotationInv, AssocPassOf, HeldOf
<1>3. PICK o : \E ran \in {{"watch"}, AssociationFinalizers} :
        assoc' = [assoc EXCEPT !.pc = "finalized", !.failed = (o # "ok"),
                               !.mine = Handle(assoc.read, ran)]
  BY DEF RunFinalizers
<1>4. PICK ran \in {{"watch"}, AssociationFinalizers} :
        assoc' = [assoc EXCEPT !.pc = "finalized", !.failed = (o # "ok"),
                               !.mine = Handle(assoc.read, ran)]
  BY <1>3
<1> DEFINE n == Handle(assoc.read, ran)
<1>5. ran \in SUBSET AllFinalizers
  BY DEF AssociationFinalizers, AllFinalizers
<1>6. n \in Apps /\ n.version = assoc.read.version /\ n.exists
  BY <1>2, <1>5, HandleKeeps DEF HeldOf, CopyOf
<1>7. CopyOf(n, app)
  BY <1>2, <1>6 DEF CopyOf, HeldOf
<1>8. assoc' = [assoc EXCEPT !.pc = "finalized", !.failed = (o # "ok"), !.mine = n]
  BY <1>4
<1> HIDE DEF n
<1>9. AssocPassOf(assoc', app)
  BY <1>2, <1>6, <1>7, <1>8 DEF AssocPassOf, AnnotationInv, HeldOf
<1> QED
  BY <1>1, <1>9, AppUnchanged DEF AssocKeeps

LEMMA UpdateFinalizersKeeps ==
  ASSUME AnnotationInv, UpdateFinalizers
  PROVE  AssocKeeps
<1>1. HeldOf(assoc.read, app) /\ HeldOf(assoc.mine, app)
  BY DEF UpdateFinalizers, AnnotationInv, AssocPassOf, HeldOf
<1>2. PICK o :
        /\ assoc.mine = assoc.read \/ UpdateApp(assoc.mine, assoc.read, o)
        /\ assoc.mine = assoc.read => app' = app
        /\ \/ \E requeue : FinishAssociation(requeue)
           \/ assoc' = AfterFinalizers(assoc.mine)
  BY DEF UpdateFinalizers
<1>3. Keeps(app, app')
  <2>1. CASE assoc.mine = assoc.read
    BY <1>2, <2>1, AppUnchanged
  <2>2. CASE UpdateApp(assoc.mine, assoc.read, o)
    <3>1. CASE Conflicts(assoc.read) \/ ~Applied(o)
      <4>1. app' = app
        BY <2>2, <3>1 DEF UpdateApp
      <4> QED
        BY <4>1, AppUnchanged
    <3>2. CASE ~Conflicts(assoc.read) /\ Applied(o)
      <4>1. app = assoc.read /\ app' = Stored(assoc.mine)
        BY <2>2, <3>2 DEF UpdateApp, Conflicts
      <4>2. assoc.mine \in Apps /\ assoc.mine.version = app.version /\ app \in Apps /\ app.exists
        BY <1>1, <4>1 DEF UpdateFinalizers, AnnotationInv, AssocPassOf, HeldOf, CopyOf
      <4> QED
        BY <4>1, <4>2, StoredKeeps
    <3> QED
      BY <3>1, <3>2
  <2> QED
    BY <1>2, <2>1, <2>2
<1>4. CASE \E requeue : FinishAssociation(requeue)
  BY <1>3, <1>4, FinishAssociationKeeps DEF AssocKeeps
<1>5. CASE assoc' = AfterFinalizers(assoc.mine)
  <2>1. HeldOf(assoc.mine, app')
    BY <1>1, <1>3, CopiesKept DEF HeldOf
  <2> QED
    BY <1>3, <1>5, <2>1, AfterFinalizersOf DEF AssocKeeps
<1> QED
  BY <1>2, <1>4, <1>5

LEMMA CheckCompatibleKeeps ==
  ASSUME AnnotationInv, CheckCompatible
  PROVE  AssocKeeps
<1> DEFINE r == assoc.read
           n == ReconcileCompatibility(r)
           paused == kind # "apm" /\ IsPaused(r)
           writes == ~paused /\ n # r
<1>1. HeldOf(r, app)
  BY DEF CheckCompatible, AnnotationInv, AssocPassOf, HeldOf
<1>2. PICK o :
        /\ IF writes THEN UpdateApp(n, r, o) ELSE app' = app
        /\ \/ \E requeue : FinishAssociation(requeue)
           \/ /\ ~(paused \/ (writes /\ (Conflicts(r) \/ o # "ok")))
              /\ IsCompatible(n)
              /\ assoc' = [assoc EXCEPT !.pc = "watch", !.read = n]
  BY DEF CheckCompatible
<1>3. /\ Keeps(app, app')
      /\ writes /\ ~Conflicts(r) /\ o = "ok" => HeldOf(n, app')
  <2>1. CASE ~writes
    BY <1>2, <2>1, AppUnchanged
  <2>2. CASE writes /\ Conflicts(r)
    <3>1. app' = app
      BY <1>2, <2>2 DEF UpdateApp
    <3> QED
      BY <2>2, <3>1, AppUnchanged
  <2>3. CASE writes /\ ~Conflicts(r)
    <3>1. n \in Apps /\ n.version = "current" /\ n.exists
      BY <1>1, <2>3, OldCopyConflicts
    <3> HIDE DEF n
    <3>2. UpdateApp(n, r, o) /\ r \in Apps /\ r.exists
      BY <1>1, <1>2, <2>3 DEF HeldOf, CopyOf
    <3>3. Keeps(app, app') /\ (o = "ok" => Annotated(app'))
      BY <2>3, <3>1, <3>2, UpdateKeeps
    <3> QED
      BY <3>1, <3>3 DEF HeldOf, CopyOf
  <2> QED
    BY <2>1, <2>2, <2>3
<1>4. CASE \E requeue : FinishAssociation(requeue)
  BY <1>3, <1>4, FinishAssociationKeeps DEF AssocKeeps
<1>5. CASE /\ ~(paused \/ (writes /\ (Conflicts(r) \/ o # "ok")))
           /\ assoc' = [assoc EXCEPT !.pc = "watch", !.read = n]
  <2>1. HeldOf(n, app')
    <3>1. CASE writes
      BY <1>3, <1>5, <3>1
    <3>2. CASE ~writes
      <4>1. n = r
        BY <1>5, <3>2
      <4> QED
        BY <1>1, <1>3, <4>1, CopiesKept DEF HeldOf
    <3> QED
      BY <3>1, <3>2
  <2>2. AssocPassOf(assoc, app')
    BY <1>3, CopiesKept DEF AnnotationInv
  <2> HIDE DEF n
  <2>3. AssocPassOf(assoc', app')
    BY <1>5, <2>1, <2>2 DEF AssocPassOf, HeldOf
  <2> QED
    BY <1>3, <2>3 DEF AssocKeeps
<1> QED
  BY <1>2, <1>4, <1>5

LEMMA UpdateAssociationStatusKeeps ==
  ASSUME AnnotationInv, UpdateAssociationStatus
  PROVE  AssocKeeps
<1> DEFINE n == [assoc.read EXCEPT !.status = assoc.status]
<1>1. HeldOf(assoc.read, app) /\ assoc.status \in Statuses
  BY DEF UpdateAssociationStatus, AnnotationInv, AssocPassOf, HeldOf
<1>2. n \in Apps /\ n.version = assoc.read.version
  BY <1>1, RecordFields, OtherFields DEF HeldOf, CopyOf
<1>3. PICK o : UpdateApp(n, assoc.read, o) /\ \E requeue : FinishAssociation(requeue)
  BY DEF UpdateAssociationStatus
<1> HIDE DEF n
<1>4. Keeps(app, app')
  BY <1>1, <1>2, <1>3, UpdateKeeps DEF HeldOf, CopyOf
<1> QED
  BY <1>3, <1>4, FinishAssociationKeeps DEF AssocKeeps

\* The steps that do not write the application.
LEMMA QuietAssociationKeeps ==
  ASSUME AnnotationInv, assoc.pc # "idle", app' = app,
         \/ \E p : p # "finalized" /\ assoc' = [assoc EXCEPT !.pc = p]
         \/ \E p, pw : p # "finalized" /\ assoc' = [assoc EXCEPT !.pc = p, !.pw = pw]
         \/ \E p : \E ca0 \in BOOLEAN : p # "finalized" /\ assoc' = [assoc EXCEPT !.pc = p, !.ca = ca0]
         \/ \E q, failed : \E s \in Statuses : ReturnStatus(q, assoc.read, s, failed)
  PROVE  AssocKeeps
<1>1. Keeps(app, app') /\ AssocPassOf(assoc, app')
  BY AppUnchanged DEF AnnotationInv
<1>2. HeldOf(assoc.read, app')
  BY <1>1 DEF AssocPassOf, HeldOf
<1>3. CASE \/ \E p : p # "finalized" /\ assoc' = [assoc EXCEPT !.pc = p]
           \/ \E p, pw : p # "finalized" /\ assoc' = [assoc EXCEPT !.pc = p, !.pw = pw]
           \/ \E p : \E ca0 \in BOOLEAN : p # "finalized" /\ assoc' = [assoc EXCEPT !.pc = p, !.ca = ca0]
  BY <1>1, <1>3, AssocGotoKeeps DEF AssocKeeps
<1>4. CASE \E q, failed : \E s \in Statuses : ReturnStatus(q, assoc.read, s, failed)
  <2>1. PICK q, failed : \E s \in Statuses : ReturnStatus(q, assoc.read, s, failed)
    BY <1>4
  <2>2. PICK s \in Statuses : ReturnStatus(q, assoc.read, s, failed)
    BY <2>1
  <2> QED
    BY <1>1, <1>2, <2>2, ReturnStatusKeeps DEF AssocKeeps
<1> QED
  BY <1>3, <1>4

LEMMA WatchReferenceKeeps ==
  ASSUME AnnotationInv, WatchReference
  PROVE  AssocKeeps
<1>1. /\ app' = app /\ assoc.pc # "idle"
      /\ \/ AssocGoto("get")
         \/ \E q : ReturnStatus(q, assoc.read, "", FALSE)
  BY DEF WatchReference
<1> QED
  BY <1>1, QuietAssociationKeeps DEF AssocGoto, Statuses

LEMMA ApmWatchReferenceKeeps ==
  ASSUME AnnotationInv, ApmWatchReference
  PROVE  AssocKeeps
<1>1. /\ app' = app /\ assoc.pc # "idle"
      /\ \/ AssocGoto("get")
         \/ \E q : ReturnStatus(q, assoc.read, "", FALSE)
  BY DEF ApmWatchReference, resourceVars
<1> QED
  BY <1>1, QuietAssociationKeeps DEF AssocGoto, Statuses

\* A write of the association's part of the application, then the end.
LEMMA ConfWritten ==
  ASSUME AnnotationInv, assoc.pc # "idle", NEW n \in Apps, n.exists,
         n.version = assoc.read.version, NEW o,
         UpdateApp(n, assoc.read, o),
         \E q, failed : \E s \in Statuses : \E c \in {n, assoc.read} :
           ReturnStatus(q, c, s, failed)
  PROVE  AssocKeeps
<1>1. HeldOf(assoc.read, app)
  BY DEF AnnotationInv, AssocPassOf, HeldOf
<1>2. Keeps(app, app')
  BY <1>1, UpdateKeeps DEF HeldOf, CopyOf
<1>3. HeldOf(assoc.read, app') /\ AssocPassOf(assoc, app')
  BY <1>1, <1>2, CopiesKept DEF HeldOf, AnnotationInv
<1>4. HeldOf(n, app')
  BY <1>3 DEF HeldOf, CopyOf
<1>5. PICK q, failed : \E s \in Statuses : \E c \in {n, assoc.read} :
           ReturnStatus(q, c, s, failed)
  OBVIOUS
<1>6. PICK s \in Statuses : \E c \in {n, assoc.read} : ReturnStatus(q, c, s, failed)
  BY <1>5
<1> QED
  BY <1>2, <1>3, <1>4, <1>6, ReturnStatusKeeps DEF AssocKeeps

LEMMA GetElasticsearchKeeps ==
  ASSUME AnnotationInv, GetElasticsearch
  PROVE  AssocKeeps
<1> DEFINE n == RemoveAssociationConf(assoc.read)
           writes == ~cEs[assoc.read.ref] /\ n # assoc.read
<1>1. HeldOf(assoc.read, app) /\ assoc.pc # "idle"
  BY DEF GetElasticsearch, AnnotationInv, AssocPassOf, HeldOf
<1>2. n \in Apps /\ n.version = assoc.read.version /\ n.exists
  <2>1. NoConf \in [url : Refs, ca : BOOLEAN]
    BY DEF NoConf, Refs
  <2>2. assoc.read \in Apps /\ assoc.read.exists = TRUE
    BY <1>1 DEF HeldOf, CopyOf, Apps
  <2>3. [assoc.read EXCEPT !.conf = NoConf] \in Apps
    BY <2>1, <2>2, RecordFields
  <2>4. /\ [assoc.read EXCEPT !.conf = NoConf].version = assoc.read.version
        /\ [assoc.read EXCEPT !.conf = NoConf].exists = TRUE
    BY <2>2, OtherFields
  <2> QED
    BY <2>3, <2>4 DEF RemoveAssociationConf
<1>3. PICK o :
        /\ IF writes THEN UpdateApp(n, assoc.read, o) ELSE app' = app
        /\ IF cEs[assoc.read.ref] THEN AssocGoto("auth")
           ELSE \E failed : \E c \in {n, assoc.read} :
                  /\ ReturnStatus(queues, c, "Pending", failed)
                  /\ writes \/ c = assoc.read
  BY DEF GetElasticsearch
<1>4. "Pending" \in Statuses
  BY DEF Statuses
<1> HIDE DEF n
<1>5. CASE cEs[assoc.read.ref]
  BY <1>1, <1>3, <1>5, QuietAssociationKeeps DEF AssocGoto
<1>6. CASE ~cEs[assoc.read.ref] /\ ~writes
  <2>1. app' = app /\ \E failed : ReturnStatus(queues, assoc.read, "Pending", failed)
    BY <1>3, <1>6
  <2> HIDE DEF writes
  <2> QED
    BY <1>1, <1>4, <2>1, QuietAssociationKeeps
<1>7. CASE ~cEs[assoc.read.ref] /\ writes
  <2>1. /\ UpdateApp(n, assoc.read, o)
        /\ \E failed : \E c \in {n, assoc.read} : ReturnStatus(queues, c, "Pending", failed)
    BY <1>3, <1>7
  <2> HIDE DEF writes
  <2> QED
    BY <1>1, <1>2, <1>4, <2>1, ConfWritten
<1> QED
  BY <1>5, <1>6, <1>7

LEMMA ReconcileAuthSecretKeeps ==
  ASSUME AnnotationInv, ReconcileAuthSecret
  PROVE  AssocKeeps
<1>1. /\ app' = app /\ assoc.pc # "idle"
      /\ \/ \E pw : assoc' = [assoc EXCEPT !.pc = "user", !.pw = pw]
         \/ \E q : ReturnStatus(q, assoc.read, "Pending", TRUE)
  BY DEF ReconcileAuthSecret
<1> QED
  BY <1>1, QuietAssociationKeeps DEF Statuses

LEMMA ReconcileEsUserKeeps ==
  ASSUME AnnotationInv, ReconcileEsUser
  PROVE  AssocKeeps
<1>1. /\ app' = app /\ assoc.pc # "idle"
      /\ \/ AssocGoto("ca")
         \/ \E q : ReturnStatus(q, assoc.read, "Pending", TRUE)
  BY DEF ReconcileEsUser
<1> QED
  BY <1>1, QuietAssociationKeeps DEF AssocGoto, Statuses

LEMMA ReconcileElasticsearchCAKeeps ==
  ASSUME AnnotationInv, ReconcileElasticsearchCA
  PROVE  AssocKeeps
<1>1. /\ app' = app /\ assoc.pc # "idle"
      /\ \/ \E ca0 \in BOOLEAN : assoc' = [assoc EXCEPT !.pc = "conf", !.ca = ca0]
         \/ \E q : ReturnStatus(q, assoc.read, "Pending", TRUE)
  BY DEF ReconcileElasticsearchCA
<1> QED
  BY <1>1, QuietAssociationKeeps DEF Statuses

LEMMA UpdateAssociationConfKeeps ==
  ASSUME AnnotationInv, UpdateAssociationConf
  PROVE  AssocKeeps
<1> DEFINE r == assoc.read
           n == [r EXCEPT !.conf = [url |-> r.ref, ca |-> assoc.ca]]
<1>1. HeldOf(r, app) /\ assoc.pc # "idle" /\ assoc.ca \in BOOLEAN
  BY DEF UpdateAssociationConf, AnnotationInv, AssocPassOf, HeldOf
<1>2. r.ref \in Refs
  BY <1>1 DEF HeldOf, CopyOf, Apps
<1>3. n \in Apps /\ n.version = r.version /\ n.exists
  <2>1. [url |-> r.ref, ca |-> assoc.ca] \in [url : Refs, ca : BOOLEAN]
    BY <1>1, <1>2
  <2> QED
    BY <1>1, <2>1, RecordFields, OtherFields DEF HeldOf, CopyOf
<1>4. PICK o :
        /\ IF n = r THEN app' = app ELSE UpdateApp(n, r, o)
        /\ \E failed : \E s \in {"Pending", "Established"} : \E c \in {n, r} :
             ReturnStatus(queues, c, s, failed)
  BY DEF UpdateAssociationConf
<1>5. \E failed : \E s \in Statuses : \E c \in {n, r} : ReturnStatus(queues, c, s, failed)
  BY <1>4 DEF Statuses
<1> HIDE DEF n
<1>6. CASE n = r
  <2>1. app' = app /\ \E failed : \E s \in Statuses : ReturnStatus(queues, r, s, failed)
    BY <1>4, <1>5, <1>6
  <2> QED
    BY <1>1, <2>1, QuietAssociationKeeps
<1>7. CASE n # r
  <2>1. UpdateApp(n, r, o)
    BY <1>4, <1>7
  <2> QED
    BY <1>1, <1>3, <1>5, <2>1, ConfWritten
<1> QED
  BY <1>6, <1>7

Associations == KibanaAssociation \/ LogstashAssociation \/ ApmAssociation

LEMMA AssociationsAre ==
  ASSUME Associations
  PROVE  FetchWithAssociation \/ RunFinalizers \/ UpdateFinalizers \/ CheckCompatible
           \/ UpdateAssociationStatus \/ WatchReference \/ ApmWatchReference
           \/ GetElasticsearch \/ ReconcileAuthSecret \/ ReconcileEsUser
           \/ ReconcileElasticsearchCA \/ UpdateAssociationConf
BY DEF Associations, KibanaAssociation, LogstashAssociation, ApmAssociation,
       KibanaAssociationReconcile, KibanaRunFinalizers, KibanaIsCompatible, KibanaWatchReference,
       KibanaReconcileInternal, KibanaReconcileCA, LogstashAssociationReconcile,
       LogstashRunFinalizers, LogstashIsCompatible, LogstashWatchReference,
       LogstashReconcileInternal, LogstashReconcileCA, ApmAssociationReconcile,
       ApmRunFinalizers, ApmIsCompatible, ApmReconcileInternal, ApmReconcileCA,
       AssociationReconcile, ReconcileInternal

LEMMA AssociationsKeep ==
  ASSUME AnnotationInv, Associations
  PROVE  AssocKeeps
BY FetchWithAssociationKeeps, RunFinalizersKeeps, UpdateFinalizersKeeps, CheckCompatibleKeeps,
   UpdateAssociationStatusKeeps, WatchReferenceKeeps, ApmWatchReferenceKeeps,
   GetElasticsearchKeeps, ReconcileAuthSecretKeeps, ReconcileEsUserKeeps,
   ReconcileElasticsearchCAKeeps, UpdateAssociationConfKeeps, AssociationsAre

\* They leave the services and the cache of the application alone.
LEMMA AssociationsFrame ==
  ASSUME Associations
  PROVE  workload' = workload /\ cApp' = cApp /\ kind' = kind
BY AssociationsAre
   DEF FetchWithAssociation, RunFinalizers,
       UpdateFinalizers, CheckCompatible, UpdateAssociationStatus, WatchReference,
       ApmWatchReference, GetElasticsearch, ReconcileAuthSecret, ReconcileEsUser,
       ReconcileElasticsearchCA, UpdateAssociationConf, resourceVars, cacheVars

-----------------------------------------------------------------------------
(***************************************************************************)
(* The controllers that run the application.                               *)
(***************************************************************************)
DriverKeeps ==
  /\ Keeps(app, app') /\ DriverPassOf(kind, driver', app') /\ ServiceOf(workload', app')

LEMMA IdleDriverOf ==
  ASSUME NEW k, NEW a
  PROVE  DriverPassOf(k, IdleDriver, a)
BY NewApps DEF IdleDriver, DriverPassOf, CopyOf, Deploys

LEMMA PassReading ==
  ASSUME NEW a, NEW c, HeldOf(c, a), NEW p,
         p \in Deploys \/ (p = "finalizers" /\ kind # "apm") => c.version = "current"
  PROVE  DriverPassOf(kind, [IdleDriver EXCEPT !.pc = p, !.read = c], a)
BY NewApps DEF IdleDriver, DriverPassOf, HeldOf, CopyOf, Deploys

LEMMA StartDriverOf ==
  ASSUME NEW a, NEW c, HeldOf(c, a), c.version = "current"
  PROVE  DriverPassOf(kind, StartDriver(c), a)
<1> DEFINE n == UpdateControllerVersion(c)
           p == IF kind # "apm" /\ ~IsConfigured(c.conf) THEN "status"
                ELSE IF kind = "logstash" THEN "config" ELSE "service"
<1>1. c \in Apps
  BY DEF HeldOf, CopyOf
<1>2. n \in Apps
  BY <1>1, RecordFields DEF UpdateControllerVersion
<1>3. n.version = "current" /\ n.exists
  BY <1>1, OtherFields DEF UpdateControllerVersion, HeldOf
<1>4. HeldOf(n, a)
  BY <1>2, <1>3 DEF HeldOf, CopyOf
<1>5. StartDriver(c) = [IdleDriver EXCEPT !.pc = p, !.read = n]
  BY DEF StartDriver, IdleDriver
<1> HIDE DEF n, p
<1>6. DriverPassOf(kind, [IdleDriver EXCEPT !.pc = p, !.read = n], a)
  BY <1>3, <1>4, PassReading
<1> QED
  BY <1>5, <1>6

LEMMA AfterDriverFinalizersOf ==
  ASSUME NEW a, NEW c, HeldOf(c, a), kind # "apm" => c.version = "current"
  PROVE  DriverPassOf(kind, AfterDriverFinalizers(c), a)
<1>1. CASE kind = "apm" /\ ~IsCompatible(c)
  BY <1>1, PassReading DEF AfterDriverFinalizers, Deploys
<1>2. CASE ~(kind = "apm" /\ ~IsCompatible(c))
  <2>1. c.version = "current"
    BY <1>2 DEF IsCompatible
  <2> QED
    BY <1>2, <2>1, StartDriverOf DEF AfterDriverFinalizers
<1> QED
  BY <1>1, <1>2

LEMMA BeforeDriverFinalizersOf ==
  ASSUME NEW a, NEW c, HeldOf(c, a), kind # "apm" => c.version = "current"
  PROVE  DriverPassOf(kind, BeforeDriverFinalizers(c), a)
<1>1. DriverPassOf(kind, [IdleDriver EXCEPT !.pc = "finalizers", !.read = c], a)
  BY PassReading DEF Deploys
<1> QED
  BY <1>1, AfterDriverFinalizersOf DEF BeforeDriverFinalizers

LEMMA FetchedByDriverOf ==
  ASSUME NEW a, NEW c, HeldOf(c, a)
  PROVE  DriverPassOf(kind, FetchedByDriver(c), a)
<1>1. CASE kind # "apm" /\ ~IsCompatible(c)
  BY <1>1, PassReading DEF FetchedByDriver, Deploys
<1>2. CASE ~(kind # "apm" /\ ~IsCompatible(c))
  <2>1. kind # "apm" => c.version = "current"
    BY <1>2 DEF IsCompatible
  <2> QED
    BY <1>2, <2>1, BeforeDriverFinalizersOf DEF FetchedByDriver
<1> QED
  BY <1>1, <1>2

LEMMA FinishDriverKeeps ==
  ASSUME NEW requeue, FinishDriver(requeue)
  PROVE  DriverPassOf(kind, driver', app')
BY IdleDriverOf DEF FinishDriver

LEMMA ServicesKept ==
  ASSUME AnnotationInv, Keeps(app, app'), workload' = workload
  PROVE  ServiceOf(workload', app')
BY CopiesKept DEF AnnotationInv

LEMMA FetchAppKeeps ==
  ASSUME AnnotationInv, FetchApp
  PROVE  DriverKeeps
<1>1. app' = app /\ workload' = workload
  BY DEF FetchApp
<1>2. Keeps(app, app') /\ ServiceOf(workload', app')
  BY <1>1, AppUnchanged, ServicesKept
<1>3. CASE driver' = driver
  BY <1>1, <1>2, <1>3 DEF DriverKeeps, AnnotationInv
<1>4. CASE cApp.exists /\ driver' = FetchedByDriver(cApp)
  <2>1. HeldOf(cApp, app)
    BY <1>4 DEF AnnotationInv, HeldOf
  <2> QED
    BY <1>1, <1>2, <1>4, <2>1, FetchedByDriverOf DEF DriverKeeps
<1> QED
  BY <1>3, <1>4 DEF FetchApp

LEMMA DriverCompatibleKeeps ==
  ASSUME AnnotationInv, DriverCompatible
  PROVE  DriverKeeps
<1> DEFINE r == driver.read
           n == ReconcileCompatibility(r)
           writes == n # r
<1>1. HeldOf(r, app)
  BY DEF DriverCompatible, AnnotationInv, DriverPassOf, HeldOf
<1>2. PICK o :
        /\ IF writes THEN UpdateApp(n, r, o) ELSE app' = app
        /\ \/ \E requeue : FinishDriver(requeue)
           \/ /\ ~(writes /\ (Conflicts(r) \/ o # "ok"))
              /\ IsCompatible(n)
              /\ driver' = IF kind = "apm" THEN StartDriver(n) ELSE BeforeDriverFinalizers(n)
  BY DEF DriverCompatible
<1>3. workload' = workload
  BY DEF DriverCompatible
<1>4. /\ Keeps(app, app')
      /\ writes /\ ~Conflicts(r) /\ o = "ok" => HeldOf(n, app')
  <2>1. CASE ~writes
    BY <1>2, <2>1, AppUnchanged
  <2>2. CASE writes /\ Conflicts(r)
    <3>1. app' = app
      BY <1>2, <2>2 DEF UpdateApp
    <3> QED
      BY <2>2, <3>1, AppUnchanged
  <2>3. CASE writes /\ ~Conflicts(r)
    <3>1. n \in Apps /\ n.version = "current" /\ n.exists
      BY <1>1, <2>3, OldCopyConflicts
    <3> HIDE DEF n
    <3>2. UpdateApp(n, r, o) /\ r \in Apps /\ r.exists
      BY <1>1, <1>2, <2>3 DEF HeldOf, CopyOf
    <3>3. Keeps(app, app') /\ (o = "ok" => Annotated(app'))
      BY <2>3, <3>1, <3>2, UpdateKeeps
    <3> QED
      BY <3>1, <3>3 DEF HeldOf, CopyOf
  <2> QED
    BY <2>1, <2>2, <2>3
<1>5. ServiceOf(workload', app')
  BY <1>3, <1>4, ServicesKept
<1>6. CASE \E requeue : FinishDriver(requeue)
  BY <1>4, <1>5, <1>6, FinishDriverKeeps DEF DriverKeeps
<1>7. CASE /\ ~(writes /\ (Conflicts(r) \/ o # "ok"))
           /\ IsCompatible(n)
           /\ driver' = IF kind = "apm" THEN StartDriver(n) ELSE BeforeDriverFinalizers(n)
  <2>1. HeldOf(n, app')
    <3>1. CASE writes
      BY <1>4, <1>7, <3>1
    <3>2. CASE ~writes
      <4>1. n = r
        BY <3>2
      <4> QED
        BY <1>1, <1>4, <4>1, CopiesKept DEF HeldOf
    <3> QED
      BY <3>1, <3>2
  <2>2. n.version = "current"
    BY <1>7 DEF IsCompatible
  <2> HIDE DEF n
  <2>3. DriverPassOf(kind, driver', app')
    BY <1>7, <2>1, <2>2, StartDriverOf, BeforeDriverFinalizersOf
  <2> QED
    BY <1>4, <1>5, <2>3 DEF DriverKeeps
<1> QED
  BY <1>2, <1>6, <1>7

LEMMA DriverFinalizeKeeps ==
  ASSUME AnnotationInv, DriverFinalize
  PROVE  DriverKeeps
<1> DEFINE r == driver.read
           n == Handle(r, DriverFinalizers)
<1>1. HeldOf(r, app) /\ (kind # "apm" => r.version = "current")
  BY DEF DriverFinalize, AnnotationInv, DriverPassOf, HeldOf
<1>2. DriverFinalizers \in SUBSET AllFinalizers
  BY DEF DriverFinalizers, AllFinalizers
<1>3. n \in Apps /\ n.version = r.version /\ n.exists
  BY <1>1, <1>2, HandleKeeps DEF HeldOf, CopyOf
<1>4. PICK o :
        /\ IF n = r THEN app' = app ELSE UpdateApp(n, r, o)
        /\ \/ \E requeue : FinishDriver(requeue)
           \/ driver' = AfterDriverFinalizers(n)
  BY DEF DriverFinalize
<1>5. workload' = workload
  BY DEF DriverFinalize
<1> HIDE DEF n
<1>6. Keeps(app, app')
  BY <1>1, <1>3, <1>4, AppUnchanged, UpdateKeeps DEF HeldOf, CopyOf
<1>7. ServiceOf(workload', app')
  BY <1>5, <1>6, ServicesKept
<1>8. CASE \E requeue : FinishDriver(requeue)
  BY <1>6, <1>7, <1>8, FinishDriverKeeps DEF DriverKeeps
<1>9. CASE driver' = AfterDriverFinalizers(n)
  <2>1. HeldOf(r, app')
    BY <1>1, <1>6, CopiesKept DEF HeldOf
  <2>2. HeldOf(n, app')
    BY <1>3, <2>1 DEF HeldOf, CopyOf
  <2>3. DriverPassOf(kind, driver', app')
    BY <1>1, <1>3, <1>9, <2>2, AfterDriverFinalizersOf
  <2> QED
    BY <1>6, <1>7, <2>3 DEF DriverKeeps
<1> QED
  BY <1>4, <1>8, <1>9

\* The steps that do not write the application: the annotation is there when the
\* service is made.
LEMMA QuietDriverKeeps ==
  ASSUME AnnotationInv, driver.pc \in Deploys, app' = app,
         \/ \E p \in Deploys : driver' = [driver EXCEPT !.pc = p]
         \/ \E requeue : FinishDriver(requeue),
         \/ workload' = workload
         \/ workload' = [workload EXCEPT !.service = TRUE]
         \/ \E c, t : workload' = [workload EXCEPT !.config = c, !.token = t]
         \/ \E t : workload' = [workload EXCEPT !.template = t]
  PROVE  DriverKeeps
<1>1. Annotated(app) /\ Keeps(app, app')
  BY AppUnchanged DEF AnnotationInv, DriverPassOf, CopyOf
<1>2. ServiceOf(workload', app')
  <2>1. {"service", "running"} \subseteq DOMAIN workload /\ workload.service \in BOOLEAN
    BY DEF AnnotationInv, ServiceOf
  <2>2. {"service", "running"} \subseteq DOMAIN workload' /\ workload'.service \in BOOLEAN
    BY <2>1
  <2> QED
    BY <1>1, <2>2 DEF ServiceOf
<1>3. DriverPassOf(kind, driver', app')
  <2>1. CASE \E p \in Deploys : driver' = [driver EXCEPT !.pc = p]
    <3>1. PICK p \in Deploys : driver' = [driver EXCEPT !.pc = p]
      BY <2>1
    <3> QED
      BY <3>1 DEF AnnotationInv, DriverPassOf, Deploys
  <2> QED
    BY <2>1, FinishDriverKeeps
<1> QED
  BY <1>1, <1>2, <1>3 DEF DriverKeeps

LEMMA DriverServiceKeeps ==
  ASSUME AnnotationInv, DriverService
  PROVE  DriverKeeps
<1>1. /\ driver.pc \in Deploys /\ app' = app
      /\ \/ \E p \in Deploys : driver' = [driver EXCEPT !.pc = p]
         \/ \E requeue : FinishDriver(requeue)
      /\ workload' = workload \/ workload' = [workload EXCEPT !.service = TRUE]
  BY DEF DriverService, Deploys, DriverGoto
<1> QED
  BY <1>1, QuietDriverKeeps

LEMMA DriverConfigKeeps ==
  ASSUME AnnotationInv, DriverConfig
  PROVE  DriverKeeps
<1>1. /\ driver.pc \in Deploys /\ app' = app
      /\ \/ \E p \in Deploys : driver' = [driver EXCEPT !.pc = p]
         \/ \E requeue : FinishDriver(requeue)
      /\ \/ workload' = workload
         \/ \E c, t : workload' = [workload EXCEPT !.config = c, !.token = t]
  BY DEF DriverConfig, Deploys, DriverGoto
<1> QED
  BY <1>1, QuietDriverKeeps

LEMMA DriverKeystoreKeeps ==
  ASSUME AnnotationInv, DriverKeystore
  PROVE  DriverKeeps
<1>1. driver.pc \in Deploys /\ app' = app /\ workload' = workload
  BY DEF DriverKeystore, Deploys
<1>2. FinishDriver(TRUE) \/ driver' = [driver EXCEPT !.pc = "deploy"]
  BY DEF DriverKeystore, DriverGoto
<1>3. "deploy" \in Deploys
  BY DEF Deploys
<1> QED
  BY <1>1, <1>2, <1>3, QuietDriverKeeps

LEMMA DriverDeployKeeps ==
  ASSUME AnnotationInv, DriverDeploy
  PROVE  DriverKeeps
<1>1. /\ driver.pc \in Deploys /\ app' = app
      /\ \/ \E p \in Deploys : driver' = [driver EXCEPT !.pc = p]
         \/ \E requeue : FinishDriver(requeue)
      /\ workload' = workload \/ \E t : workload' = [workload EXCEPT !.template = t]
  BY DEF DriverDeploy, Deploys, DriverGoto
<1> QED
  BY <1>1, QuietDriverKeeps

LEMMA DriverStatusKeeps ==
  ASSUME AnnotationInv, DriverStatus
  PROVE  DriverKeeps
<1> DEFINE r == driver.read
<1>1. HeldOf(r, app)
  BY DEF DriverStatus, AnnotationInv, DriverPassOf, HeldOf
<1>2. PICK n \in {[r EXCEPT !.health = Health], r} :
        \E o : /\ IF n = r THEN app' = app ELSE UpdateApp(n, r, o)
               /\ \E requeue : FinishDriver(requeue)
  BY DEF DriverStatus
<1>3. n \in Apps /\ n.version = r.version
  <2>1. Health \in Healths
    BY DEF Health, Healths
  <2>2. r \in Apps
    BY <1>1 DEF HeldOf, CopyOf
  <2>3. [r EXCEPT !.health = Health] \in Apps
    BY <2>1, <2>2, RecordFields
  <2>4. [r EXCEPT !.health = Health].version = r.version
    BY <2>2, OtherFields
  <2> QED
    BY <1>2, <2>2, <2>3, <2>4
<1>4. Keeps(app, app')
  BY <1>1, <1>2, <1>3, AppUnchanged, UpdateKeeps DEF HeldOf, CopyOf
<1>5. workload' = workload
  BY DEF DriverStatus
<1> QED
  BY <1>2, <1>4, <1>5, ServicesKept, FinishDriverKeeps DEF DriverKeeps

Drivers == Kibana \/ Logstash \/ ApmServer

LEMMA DriversAre ==
  ASSUME Drivers
  PROVE  FetchApp \/ DriverCompatible \/ DriverFinalize \/ DriverService \/ DriverConfig
           \/ DriverKeystore \/ DriverDeploy \/ DriverStatus
BY DEF Drivers, Kibana, Logstash, ApmServer, KibanaController, KibanaDriverCompatible,
       KibanaDriverReconcile, KibanaStatus, LogstashController, LogstashDriverCompatible,
       LogstashDriverReconcile, LogstashStatus, ApmController, ApmDriverCompatible, ApmSecret,
       ApmDoReconcile, ApmDeployment, ApmStatus, DriverReconcile

LEMMA DriversKeep ==
  ASSUME AnnotationInv, Drivers
  PROVE  DriverKeeps
BY DriversAre, FetchAppKeeps, DriverCompatibleKeeps, DriverFinalizeKeeps, DriverServiceKeeps,
   DriverConfigKeeps, DriverKeystoreKeeps, DriverDeployKeeps, DriverStatusKeeps

LEMMA DriversFrame ==
  ASSUME Drivers
  PROVE  cApp' = cApp /\ kind' = kind
BY DriversAre DEF FetchApp, DriverCompatible, DriverFinalize, DriverService, DriverConfig,
       DriverKeystore, DriverDeploy, DriverStatus, sharedButWorkload, cacheVars

-----------------------------------------------------------------------------
(***************************************************************************)
(* The rest of the world.                                                  *)
(***************************************************************************)
EnvironmentKeeps ==
  Keeps(app, app') /\ CopyOf(cApp', app') /\ ServiceOf(workload', app')

LEMMA EditKeeps ==
  ASSUME AnnotationInv, Edit,
         \/ \E r \in Refs : app' = [app EXCEPT !.ref = r]
         \/ app' = [app EXCEPT !.paused = ~@]
         \/ app' = [app EXCEPT !.secure = ~@]
         \/ app' = Stored([app EXCEPT !.deleting = TRUE])
         \/ app' = app
  PROVE  Keeps(app, app')
<1>1. app \in Apps /\ app.exists
  BY DEF Edit, AnnotationInv
<1>2. CASE \E r \in Refs : app' = [app EXCEPT !.ref = r]
  <2>1. PICK r \in Refs : app' = [app EXCEPT !.ref = r]
    BY <1>2
  <2>2. [app EXCEPT !.ref = r] \in Apps
    BY <1>1, RecordFields
  <2>3. [app EXCEPT !.ref = r].version = app.version
    BY <1>1, OtherFields
  <2>4. [app EXCEPT !.ref = r].exists = TRUE /\ app.exists = TRUE
    BY <1>1, <2>2 DEF Apps
  <2> QED
    BY <1>1, <2>1, <2>2, <2>3, <2>4 DEF Keeps, Annotated
<1>3. CASE app' = [app EXCEPT !.paused = ~@]
  <2>1. (~app.paused) \in BOOLEAN
    BY <1>1 DEF Apps
  <2> QED
    BY <1>1, <1>3, <2>1, RecordFields, OtherFields DEF Keeps, Annotated
<1>4. CASE app' = [app EXCEPT !.secure = ~@]
  <2>1. (~app.secure) \in BOOLEAN
    BY <1>1 DEF Apps
  <2> QED
    BY <1>1, <1>4, <2>1, RecordFields, OtherFields DEF Keeps, Annotated
<1>5. CASE app' = Stored([app EXCEPT !.deleting = TRUE])
  <2>1. [app EXCEPT !.deleting = TRUE] \in Apps
    BY <1>1, RecordFields
  <2>2. [app EXCEPT !.deleting = TRUE].version = app.version
    BY <1>1, OtherFields
  <2> QED
    BY <1>1, <1>5, <2>1, <2>2, StoredKeeps
<1>6. CASE app' = app
  BY <1>6, AppUnchanged
<1> QED
  BY <1>2, <1>3, <1>4, <1>5, <1>6

LEMMA UserKeeps ==
  ASSUME AnnotationInv, User
  PROVE  EnvironmentKeeps
<1>1. cApp' = cApp /\ workload' = workload
  BY DEF User, EditRef, TogglePause, DeleteApp, EditSecureSettings, DeleteAuthSecret,
         DeleteCaCopy, DeleteUserSecret, cacheVars
<1>2. Keeps(app, app')
  <2>1. CASE EditRef \/ TogglePause \/ DeleteApp \/ EditSecureSettings
    <3>1. Edit
      BY <2>1 DEF EditRef, TogglePause, DeleteApp, EditSecureSettings
    <3>2. \/ \E r \in Refs : app' = [app EXCEPT !.ref = r]
          \/ app' = [app EXCEPT !.paused = ~@]
          \/ app' = [app EXCEPT !.secure = ~@]
          \/ app' = Stored([app EXCEPT !.deleting = TRUE])
          \/ app' = app
      BY <2>1 DEF EditRef, TogglePause, DeleteApp, EditSecureSettings
    <3> QED
      BY <3>1, <3>2, EditKeeps
  <2>2. CASE DeleteAuthSecret \/ DeleteCaCopy \/ \E ns \in Namespaces : DeleteUserSecret(ns)
    <3>1. app' = app
      BY <2>2 DEF DeleteAuthSecret, DeleteCaCopy, DeleteUserSecret
    <3> QED
      BY <3>1, AppUnchanged
  <2> QED
    BY <2>1, <2>2 DEF User
<1> QED
  BY <1>1, <1>2, CopiesKept DEF AnnotationInv, EnvironmentKeeps

LEMMA OthersKeep ==
  ASSUME AnnotationInv, Sync \/ Elastic \/ GarbageCollect \/ RollOut
  PROVE  EnvironmentKeeps
<1>1. app' = app
  BY DEF Sync, SyncApp, SyncEs, SyncCa, SyncUsers, Elastic, CreateCluster, DeleteCluster,
         PublishCA, RotateCA, ReconcileUsers, GarbageCollect, RollOut, resourceVars
<1>2. Keeps(app, app') /\ CopyOf(app, app)
  BY <1>1, AppUnchanged DEF AnnotationInv, CopyOf, Annotated
<1>3. cApp' = cApp \/ cApp' = app
  BY DEF Sync, SyncApp, SyncEs, SyncCa, SyncUsers, Elastic, CreateCluster, DeleteCluster,
         PublishCA, RotateCA, ReconcileUsers, GarbageCollect, RollOut, cacheVars
<1>4. CopyOf(cApp', app')
  BY <1>1, <1>2, <1>3 DEF AnnotationInv
<1>5. \/ workload' = workload
      \/ workload' = NoWorkload
      \/ workload' = [workload EXCEPT !.running = workload.template]
  BY DEF Sync, SyncApp, SyncEs, SyncCa, SyncUsers, Elastic, CreateCluster, DeleteCluster,
         PublishCA, RotateCA, ReconcileUsers, GarbageCollect, RollOut, resourceVars
<1>6. ServiceOf(workload', app')
  <2>1. ServiceOf(NoWorkload, app)
    BY DEF ServiceOf, NoWorkload
  <2>2. ServiceOf(workload, app)
    BY DEF AnnotationInv
  <2>3. ServiceOf([workload EXCEPT !.running = workload.template], app)
    BY <2>2 DEF ServiceOf
  <2> QED
    BY <1>1, <1>5, <2>1, <2>2, <2>3
<1> QED
  BY <1>2, <1>4, <1>6 DEF EnvironmentKeeps

-----------------------------------------------------------------------------
LEMMA AnnotationInit ==
  ASSUME StackInit
  PROVE  AnnotationInv
<1>1. PICK s \in Scenarios :
        /\ app = IF s.new THEN NewApp(s.ref) ELSE EstablishedApp(s)
        /\ cApp = app
        /\ workload = IF s.new THEN NoWorkload ELSE EstablishedWorkload(s, caCopy)
  BY DEF StackInit, AssociatedInit
<1>2. assoc = IdleAssociation /\ driver = IdleDriver
  BY DEF StackInit, AssociationInit, DriverInit
<1>3. s.ref \in Refs /\ s.kind \in Kinds
  BY <1>1, AssociatedAssumption DEF Refs
<1>4. NewApp(s.ref) \in Apps
  BY <1>3, NewApps
<1>5. EstablishedApp(s) \in Apps /\ EstablishedApp(s).version = "current"
  <2>1. FinalizersOf(s.kind) \in SUBSET AllFinalizers
    BY DEF FinalizersOf
  <2> QED
    BY <1>3, <1>4, <2>1 DEF EstablishedApp, Apps, Statuses, Healths, NewApp
<1>6. app \in Apps /\ CopyOf(app, app)
  BY <1>1, <1>4, <1>5 DEF CopyOf, Annotated
<1>7. ServiceOf(workload, app)
  <2>1. CASE s.new
    BY <1>1, <2>1 DEF ServiceOf, NoWorkload
  <2>2. CASE ~s.new
    BY <1>1, <1>5, <2>2 DEF ServiceOf, EstablishedWorkload, Annotated
  <2> QED
    BY <2>1, <2>2
<1> QED
  BY <1>1, <1>2, <1>6, <1>7, IdleAssociationOf, IdleDriverOf DEF AnnotationInv

LEMMA AnnotationNext ==
  ASSUME AnnotationInv, [StackNext]_stackVars
  PROVE  AnnotationInv'
<1>1. CASE Associations /\ UNCHANGED driverVars
  <2>1. AssocKeeps /\ workload' = workload /\ cApp' = cApp /\ kind' = kind /\ driver' = driver
    BY <1>1, AssociationsKeep, AssociationsFrame DEF driverVars
  <2> QED
    BY <2>1, CopiesKept DEF AnnotationInv, AssocKeeps, Keeps
<1>2. CASE Drivers /\ UNCHANGED associationVars
  <2>1. DriverKeeps /\ cApp' = cApp /\ kind' = kind /\ assoc' = assoc
    BY <1>2, DriversKeep, DriversFrame DEF associationVars
  <2> QED
    BY <2>1, CopiesKept DEF AnnotationInv, DriverKeeps, Keeps
<1>3. CASE Environment
  <2>1. EnvironmentKeeps
    BY <1>3, UserKeeps, OthersKeep DEF Environment
  <2>2. assoc' = assoc /\ driver' = driver
    BY <1>3 DEF Environment, associationVars, driverVars
  <2>3. kind' = kind
    BY <1>3 DEF Environment, User, EditRef, TogglePause, DeleteApp, EditSecureSettings,
         DeleteAuthSecret, DeleteCaCopy, DeleteUserSecret, Sync, SyncApp, SyncEs, SyncCa,
         SyncUsers, Elastic, CreateCluster, DeleteCluster, PublishCA, RotateCA, ReconcileUsers,
         GarbageCollect, RollOut, resourceVars
  <2> QED
    BY <2>1, <2>2, <2>3, CopiesKept DEF AnnotationInv, EnvironmentKeeps, Keeps
<1>4. CASE Crash
  <2>1. /\ app' = app /\ kind' = kind /\ workload' = workload /\ cApp' = app
        /\ assoc' = IdleAssociation /\ driver' = IdleDriver
    BY <1>4 DEF Crash, resourceVars
  <2>2. CopyOf(app, app)
    BY DEF AnnotationInv, CopyOf, Annotated
  <2> QED
    BY <2>1, <2>2, IdleAssociationOf, IdleDriverOf DEF AnnotationInv
<1>5. CASE UNCHANGED stackVars
  BY <1>5 DEF stackVars, sharedVars, resourceVars, cacheVars, associationVars, driverVars,
              AnnotationInv
<1> QED
  BY <1>1, <1>2, <1>3, <1>4, <1>5 DEF StackNext, Associations, Drivers

(***************************************************************************)
(* No interleaving of the two controllers, the user, Kubernetes, late      *)
(* caches, failing calls and restarts makes an operator take the services  *)
(* of an application for those of an older one.                            *)
(***************************************************************************)
THEOREM AnnotationIsRight == StackSpec => []NeverMarkedUnknown
<1>1. AnnotationInv => NeverMarkedUnknown
  BY DEF AnnotationInv, NeverMarkedUnknown, Apps
<1> QED
  BY <1>1, AnnotationInit, AnnotationNext, PTL DEF StackSpec

-----------------------------------------------------------------------------
(***************************************************************************)
(* EstablishedWhenQuiet.  What a pass of the association has made stays    *)
(* made, or the controller has work: the pass registers its watches before *)
(* it reads what they are on, and what it reads later than its start is    *)
(* guarded by them.  The application itself is written by many; but its    *)
(* connection details and its status by this controller only, so that a    *)
(* cached application that agrees on both with the real one has not been   *)
(* written by the pass since it was read.                                  *)
(***************************************************************************)
\* What a pass keeps of the application it has read.
SameApp(a, c) ==
  /\ a.exists = c.exists /\ a.deleting = c.deleting
  /\ a.paused = c.paused /\ a.ref = c.ref /\ a.status = c.status /\ a.secure = c.secure

HasKey(registrations, key, watched) ==
  key \in DOMAIN registrations /\ registrations[key] = watched
WatchesCluster(w, e) == HasKey(w.ElasticsearchClusters, EsWatch, {e})
WatchesCA(w, e) == HasKey(w.Secrets, CaWatch, {<<"ca", e>>})
WatchesRecord(w) == {"ElasticsearchClusters", "Secrets"} \subseteq DOMAIN w

CopyOfCA(e, copy) == cCa[e] # 0 => copy = cCa[e]
Details(e) == [url |-> e, ca |-> cCa[e] # 0]

Referring(a) == a.exists /\ ~a.deleting /\ ~a.paused /\ a.ref # NoCluster

AfterWatch == {"get", "auth", "user", "ca", "conf"}
AfterGet == {"auth", "user", "ca", "conf"}
AfterAuth == {"user", "ca", "conf"}
Unwritten == {"finalizers", "finalized", "compatible", "watch"} \cup AfterWatch

\* The resources of a cluster are as a pass left them.
Settled(e) ==
  /\ cEs[e]
  /\ app.exists => authSecret # 0 /\ CopyOfCA(e, caCopy)

InPass ==
  /\ assoc.pc \in Unwritten => assoc.read.conf = cApp.conf
  /\ SameApp(assoc.read, cApp)
  /\ assoc.pc = "finalized" => SameApp(assoc.mine, cApp) /\ assoc.mine.conf = cApp.conf
  /\ assoc.pc \in AfterGet => cEs[assoc.read.ref]
  /\ assoc.pc \in AfterAuth /\ app.exists => authSecret # 0
  /\ assoc.pc = "conf" => assoc.ca = (cCa[assoc.read.ref] # 0)
  /\ assoc.pc = "conf" /\ app.exists => CopyOfCA(assoc.read.ref, caCopy)
  /\ assoc.pc = "status" => assoc.read.status # assoc.status

AtRest ==
  Referring(cApp) /\ app.exists /\ app.conf = cApp.conf /\ app.status = cApp.status =>
    /\ Settled(cApp.ref)
    /\ WatchesCluster(assocWatches, cApp.ref) /\ WatchesCA(assocWatches, cApp.ref)
    /\ cApp.conf = Details(cApp.ref) /\ cApp.status = "Established"

PassInv ==
  /\ assoc.pc \in Unwritten \cup {"idle", "status"}
  /\ assoc.pc \in AfterWatch =>
       assoc.read.ref # NoCluster /\ WatchesCluster(assocWatches, assoc.read.ref)
  /\ assoc.pc = "conf" => WatchesCA(assocWatches, assoc.read.ref)
  /\ assoc.pc # "idle" /\ ~queues.assoc => InPass
  /\ assoc.pc = "idle" /\ ~queues.assoc => AtRest

Queues == [assoc : BOOLEAN, driver : BOOLEAN, es : SUBSET Clusters]
ShapeInv ==
  /\ kind \in Kinds
  /\ queues \in Queues
  /\ cEs \in [Clusters -> BOOLEAN] /\ es \in [Clusters -> BOOLEAN]
  /\ cCa = [e \in Clusters |-> cCa[e]] /\ ca = [e \in Clusters |-> ca[e]]
  /\ WatchesRecord(assocWatches)

DetailsInv == AnnotationInv /\ ShapeInv /\ PassInv

-----------------------------------------------------------------------------
\* A password is made among more numbers than are used.
LEMMA RandomPasswordIsNew == RandomPassword \in Nat \ {0}
<1> DEFINE Used == UsedPasswords
           Candidates == (1 .. (Cardinality(Used) + 1)) \ Used
<1>1. IsFiniteSet(Clusters)
  BY AssociatedAssumption
<1>2. IsFiniteSet(Namespaces)
  <2> DEFINE f == [e \in Clusters |-> NamespaceOf[e]]
  <2>1. f \in Surjection(Clusters, {NamespaceOf[e] : e \in Clusters})
    BY DEF Surjection
  <2>2. IsFiniteSet({NamespaceOf[e] : e \in Clusters})
    BY <1>1, <2>1, FS_Surjection
  <2> QED
    BY <2>2, FS_AddElement DEF Namespaces
<1>3. IsFiniteSet({users[ns].pw : ns \in Namespaces})
  <2> DEFINE f == [ns \in Namespaces |-> users[ns].pw]
  <2>1. f \in Surjection(Namespaces, {users[ns].pw : ns \in Namespaces})
    BY DEF Surjection
  <2> QED
    BY <1>2, <2>1, FS_Surjection
<1>4. IsFiniteSet({realm[e] : e \in Clusters})
  <2> DEFINE f == [e \in Clusters |-> realm[e]]
  <2>1. f \in Surjection(Clusters, {realm[e] : e \in Clusters})
    BY DEF Surjection
  <2> QED
    BY <1>1, <2>1, FS_Surjection
<1>5. IsFiniteSet(Used)
  <2> DEFINE A == {users[ns].pw : ns \in Namespaces}
             B == {realm[e] : e \in Clusters}
             C == A \cup B
             D == C \cup {authSecret}
             E == D \cup {workload.config.pw}
             F == E \cup {workload.template.pw}
  <2>1. IsFiniteSet(C)
    BY <1>3, <1>4, FS_Union
  <2> HIDE DEF C
  <2>2. IsFiniteSet(D)
    BY <2>1, FS_AddElement
  <2> HIDE DEF D
  <2>3. IsFiniteSet(E)
    BY <2>2, FS_AddElement
  <2> HIDE DEF E
  <2>4. IsFiniteSet(F)
    BY <2>3, FS_AddElement
  <2> HIDE DEF F
  <2>5. IsFiniteSet(F \cup {workload.running.pw})
    BY <2>4, FS_AddElement
  <2>6. Used = F \cup {workload.running.pw}
    BY DEF UsedPasswords, C, D, E, F
  <2> QED
    BY <2>5, <2>6
<1> HIDE DEF Used
<1>6. Candidates # {}
  <2>1. Cardinality(Used) \in Nat
    BY <1>5, FS_CardinalityType
  <2> DEFINE n == Cardinality(Used) + 1
  <2>2. Cardinality(1 .. n) = n
    BY <2>1, FS_Interval
  <2>3. SUFFICES ASSUME 1 .. n \subseteq Used PROVE FALSE
    OBVIOUS
  <2>4. Cardinality(1 .. n) <= Cardinality(Used)
    BY <1>5, <2>3, FS_Subset
  <2> QED
    BY <2>1, <2>2, <2>4
<1>7. Candidates \subseteq Nat \ {0}
  BY <1>5, FS_CardinalityType
<1> HIDE DEF Candidates
<1>8. \E pw \in Candidates : \A other \in Candidates : pw <= other
  <2> DEFINE R == OpToRel(<, Nat)
  <2>1. R = {ss \in Nat \X Nat : ss[1] < ss[2]}
    BY DEF OpToRel
  <2>2. IsWellFoundedOn(R, Nat)
    BY NatLessThanWellFounded
  <2> HIDE DEF R
  <2>3. Candidates \subseteq Nat
    BY <1>7
  <2>4. PICK m \in Candidates : \A n \in Candidates : ~ (<<n, m>> \in R)
    BY <1>6, <2>2, <2>3, WFMin
  <2>5. ASSUME NEW n \in Candidates PROVE m <= n
    <3>1. n \in Nat /\ m \in Nat
      BY <2>3
    <3>2. <<n, m>> \in R <=> n < m
      BY <2>1, <3>1
    <3> QED
      BY <2>4, <3>1, <3>2
  <2> QED
    BY <2>5
<1>9. RandomPassword \in Candidates
  BY <1>8, Zenon DEF RandomPassword, Used, Candidates
<1> QED
  BY <1>7, <1>9

-----------------------------------------------------------------------------
\* What the operations on a registry and on the queues do to the ones looked at.
LEMMA Registered ==
  ASSUME NEW r, NEW k, NEW v
  PROVE  /\ HasKey(AddHandler(r, k, v), k, v)
         /\ \A other, w : other # k /\ HasKey(r, other, w) =>
              HasKey(AddHandler(r, k, v), other, w) /\ HasKey(RemoveHandlerForKey(r, k), other, w)
         /\ \A other, x : HasKey(r, other, {x}) => Enqueues(r, x)
BY DEF HasKey, AddHandler, RemoveHandlerForKey, Enqueues, ToReconcileRequest

LEMMA WatchClusterDoes ==
  ASSUME NEW w, WatchesRecord(w), NEW e
  PROVE  /\ WatchesRecord(WatchCluster(w, e)) /\ WatchesCluster(WatchCluster(w, e), e)
         /\ WatchesRecord(WatchCA(w, e)) /\ WatchesCA(WatchCA(w, e), e)
         /\ \A d : WatchesCluster(w, d) => WatchesCluster(WatchCA(w, e), d)
<1> DEFINE x == AddHandler(w.ElasticsearchClusters, EsWatch, {e})
           y == IF kind = "apm" THEN w.Secrets
                ELSE AddHandler(w.Secrets, EsWatch, {<<"user", NamespaceOf[e]>>})
           z == AddHandler(w.Secrets, CaWatch, {<<"ca", e>>})
<1>1. WatchCluster(w, e) = [w EXCEPT !.ElasticsearchClusters = x, !.Secrets = y]
  BY Zenon DEF WatchCluster
<1>2. WatchCA(w, e) = [w EXCEPT !.Secrets = z]
  BY Zenon DEF WatchCA
<1>3. HasKey(x, EsWatch, {e}) /\ HasKey(z, CaWatch, {<<"ca", e>>})
  BY Registered
<1> HIDE DEF x, y, z
<1>4. /\ WatchesRecord(WatchCluster(w, e)) /\ WatchCluster(w, e).ElasticsearchClusters = x
  BY <1>1 DEF WatchesRecord
<1>5. /\ WatchesRecord(WatchCA(w, e)) /\ WatchCA(w, e).Secrets = z
      /\ WatchCA(w, e).ElasticsearchClusters = w.ElasticsearchClusters
  BY <1>2 DEF WatchesRecord
<1> QED
  BY <1>3, <1>4, <1>5 DEF WatchesCluster, WatchesCA

-----------------------------------------------------------------------------
(***************************************************************************)
(* Steps of others.  They call the controller, or leave alone what its     *)
(* last pass or the one under way has found.                               *)
(***************************************************************************)
Undisturbed ==
  /\ cApp' = cApp
  /\ app'.exists => /\ app.exists /\ app'.conf = app.conf /\ app'.status = app.status
                    /\ authSecret' = authSecret /\ caCopy' = caCopy
  /\ \A e : WatchesCluster(assocWatches, e) => cEs'[e] = cEs[e]
  /\ \A e : WatchesCA(assocWatches, e) => cCa'[e] = cCa[e]

LEMMA OthersLeaveThePass ==
  ASSUME DetailsInv, assoc' = assoc, assocWatches' = assocWatches,
         queues' \in Queues, queues'.assoc \/ (queues'.assoc = queues.assoc /\ Undisturbed)
  PROVE  PassInv'
<1> DEFINE e == assoc.read.ref
           c == cApp.ref
<1>1. CASE queues'.assoc
  BY <1>1 DEF DetailsInv, PassInv, WatchesCluster, WatchesCA
<1>2. CASE ~queues'.assoc
  <2>1. ~queues.assoc /\ Undisturbed
    BY <1>2
  <2>2. assoc.pc # "idle" => InPass
    BY <2>1 DEF DetailsInv, PassInv
  <2>3. assoc.pc = "idle" => AtRest
    BY <2>1 DEF DetailsInv, PassInv
  <2>4. /\ assoc.pc \in AfterWatch => WatchesCluster(assocWatches, e)
        /\ assoc.pc = "conf" => WatchesCA(assocWatches, e)
    BY DEF DetailsInv, PassInv
  <2>5. ASSUME assoc.pc # "idle" PROVE InPass'
    <3>1. assoc.pc \in AfterGet => cEs'[e] = cEs[e]
      BY <2>1, <2>4 DEF Undisturbed, AfterGet, AfterWatch
    <3>2. assoc.pc = "conf" => cCa'[e] = cCa[e]
      BY <2>1, <2>4 DEF Undisturbed
    <3> QED
      BY <2>1, <2>2, <2>5, <3>1, <3>2 DEF Undisturbed, InPass, SameApp, CopyOfCA
  <2>6. ASSUME assoc.pc = "idle" PROVE AtRest'
    <3> SUFFICES ASSUME Referring(cApp), app'.exists, app'.conf = cApp.conf,
                        app'.status = cApp.status
                 PROVE  /\ Settled(c)'
                        /\ WatchesCluster(assocWatches, c) /\ WatchesCA(assocWatches, c)
                        /\ cApp.conf = Details(c)' /\ cApp.status = "Established"
      BY <2>1 DEF AtRest, Undisturbed, WatchesCluster, WatchesCA
    <3>1. /\ Settled(c)
          /\ WatchesCluster(assocWatches, c) /\ WatchesCA(assocWatches, c)
          /\ cApp.conf = Details(c) /\ cApp.status = "Established"
      BY <2>1, <2>3, <2>6 DEF AtRest, Undisturbed
    <3>2. cEs'[c] = cEs[c] /\ cCa'[c] = cCa[c]
      BY <2>1, <3>1 DEF Undisturbed
    <3> QED
      BY <2>1, <3>1, <3>2 DEF Settled, Details, CopyOfCA, Undisturbed
  <2> QED
    BY <1>2, <2>4, <2>5, <2>6 DEF DetailsInv, PassInv, WatchesCluster, WatchesCA
<1> QED
  BY <1>1, <1>2

\* A write that keeps the details and the status of the application.
LEMMA OtherWriteLeaves ==
  ASSUME NEW n, NEW r \in Apps, r.exists, n.conf = r.conf, n.status = r.status, NEW o,
         UpdateApp(n, r, o)
  PROVE  app'.exists => app.exists /\ app'.conf = app.conf /\ app'.status = app.status
BY NewApps DEF UpdateApp, Conflicts, Stored

LEMMA OtherFieldsOf ==
  ASSUME NEW r \in Apps
  PROVE  /\ \A f : Handle(r, f).conf = r.conf /\ Handle(r, f).status = r.status
                   /\ Handle(r, f).exists = r.exists /\ Handle(r, f).deleting = r.deleting
                   /\ Handle(r, f).paused = r.paused /\ Handle(r, f).ref = r.ref
                   /\ Handle(r, f).secure = r.secure
         /\ LET n == ReconcileCompatibility(r)
            IN n.conf = r.conf /\ n.status = r.status /\ n.exists = r.exists
               /\ n.deleting = r.deleting /\ n.paused = r.paused /\ n.ref = r.ref
               /\ n.secure = r.secure
         /\ LET n == UpdateControllerVersion(r)
            IN n.conf = r.conf /\ n.status = r.status /\ n.exists = r.exists
               /\ n.deleting = r.deleting /\ n.paused = r.paused /\ n.ref = r.ref
               /\ n.secure = r.secure
         /\ \A h : [r EXCEPT !.health = h].conf = r.conf /\ [r EXCEPT !.health = h].status = r.status
BY DEF Apps, Handle, ReconcileFinalizers, ExecuteFinalizers, ReconcileCompatibility,
       UpdateControllerVersion

LEMMA DriversLeaveTheApp ==
  ASSUME DetailsInv, Drivers
  PROVE  app'.exists => app.exists /\ app'.conf = app.conf /\ app'.status = app.status
<1> DEFINE r == driver.read
<1>1. driver.pc # "idle" => r \in Apps /\ r.exists
  BY DEF DetailsInv, AnnotationInv, DriverPassOf, CopyOf
<1>2. CASE DriverCompatible
  <2>1. r \in Apps /\ r.exists
    BY <1>1, <1>2 DEF DriverCompatible
  <2> DEFINE n == ReconcileCompatibility(r)
  <2>2. app' = app \/ \E o : UpdateApp(n, r, o)
    BY <1>2 DEF DriverCompatible
  <2>3. n.conf = r.conf /\ n.status = r.status
    BY <2>1, OtherFieldsOf
  <2> HIDE DEF n
  <2> QED
    BY <2>1, <2>2, <2>3, OtherWriteLeaves
<1>3. CASE DriverFinalize
  <2>1. r \in Apps /\ r.exists
    BY <1>1, <1>3 DEF DriverFinalize
  <2> DEFINE n == Handle(r, DriverFinalizers)
  <2>2. app' = app \/ \E o : UpdateApp(n, r, o)
    BY <1>3 DEF DriverFinalize
  <2>3. n.conf = r.conf /\ n.status = r.status
    BY <2>1, OtherFieldsOf
  <2> HIDE DEF n
  <2> QED
    BY <2>1, <2>2, <2>3, OtherWriteLeaves
<1>4. CASE DriverStatus
  <2>1. r \in Apps /\ r.exists
    BY <1>1, <1>4 DEF DriverStatus
  <2>2. PICK n \in {[r EXCEPT !.health = Health], r} :
          app' = app \/ \E o : UpdateApp(n, r, o)
    BY <1>4 DEF DriverStatus
  <2>3. n.conf = r.conf /\ n.status = r.status
    BY <2>1, <2>2 DEF Apps
  <2> QED
    BY <2>1, <2>2, <2>3, OtherWriteLeaves
<1>5. CASE FetchApp \/ DriverService \/ DriverConfig \/ DriverKeystore \/ DriverDeploy
  BY <1>5 DEF FetchApp, DriverService, DriverConfig, DriverKeystore, DriverDeploy
<1> QED
  BY <1>2, <1>3, <1>4, <1>5, DriversAre

LEMMA DriversLeaveTheQueue ==
  ASSUME DetailsInv, Drivers
  PROVE  queues' \in Queues /\ queues'.assoc = queues.assoc
<1>1. queues \in Queues
  BY DEF DetailsInv, ShapeInv
<1>2. \/ queues' = queues
      \/ \E requeue \in BOOLEAN : FinishDriver(requeue)
      \/ queues' = [queues EXCEPT !.driver = FALSE]
  <2>1. CASE FetchApp
    BY <2>1 DEF FetchApp
  <2>2. CASE DriverCompatible
    BY <2>2 DEF DriverCompatible
  <2>3. CASE DriverFinalize
    BY <2>3 DEF DriverFinalize
  <2>4. CASE DriverService \/ DriverConfig \/ DriverKeystore \/ DriverDeploy
    BY <2>4 DEF DriverService, DriverConfig, DriverKeystore, DriverDeploy
  <2>5. CASE DriverStatus
    <3>1. PICK requeue : FinishDriver(requeue) /\ requeue \in BOOLEAN
      BY <2>5 DEF DriverStatus, Conflicts
    <3> QED
      BY <3>1
  <2> QED
    BY <2>1, <2>2, <2>3, <2>4, <2>5, DriversAre
<1>3. ASSUME NEW requeue \in BOOLEAN, FinishDriver(requeue)
      PROVE  queues' \in Queues /\ queues'.assoc = queues.assoc
  <2>1. (queues.driver \/ requeue) \in BOOLEAN
    OBVIOUS
  <2>2. PICK b \in BOOLEAN : queues' = [queues EXCEPT !.driver = b]
    BY <1>3, <2>1 DEF FinishDriver
  <2> QED
    BY <1>1, <2>2 DEF Queues
<1>4. CASE queues' = [queues EXCEPT !.driver = FALSE]
  BY <1>1, <1>4 DEF Queues
<1> QED
  BY <1>1, <1>2, <1>3, <1>4

LEMMA DriversUndisturbing ==
  ASSUME DetailsInv, Drivers
  PROVE  Undisturbed /\ queues' \in Queues /\ queues'.assoc = queues.assoc
<1>1. UNCHANGED sharedButWorkload
  BY DriversAre DEF FetchApp, DriverCompatible, DriverFinalize, DriverService, DriverConfig,
                    DriverKeystore, DriverDeploy, DriverStatus
<1> QED
  BY <1>1, DriversLeaveTheApp, DriversLeaveTheQueue
     DEF Undisturbed, sharedButWorkload, cacheVars

\* An event that calls the controller or not.
EnvironmentCalls ==
  queues' \in Queues /\ (queues'.assoc \/ (queues'.assoc = queues.assoc /\ Undisturbed))

LEMMA EventsCall ==
  ASSUME NEW q \in Queues
  PROVE  /\ AppEvent(q) \in Queues /\ AppEvent(q).assoc
         /\ \A name : OwnedSecretEvent(q, name) \in Queues /\ OwnedSecretEvent(q, name).assoc
         /\ OwnedSecretChanged(q) \in Queues /\ OwnedSecretChanged(q).assoc
         /\ OwnedSecretChanged(q).driver
         /\ DeploymentEvent(q) \in Queues /\ DeploymentEvent(q).assoc = q.assoc
         /\ SettingsEvent(q) \in Queues /\ SettingsEvent(q).assoc = q.assoc
         /\ \A e \in Clusters : EsEvent(q, e) \in Queues
         /\ \A e : CaEvent(q, e) \in Queues
         /\ \A w, ns, old, new : UserChanged(q, w, ns, old, new) \in Queues
<1>1. AppEvent(q) \in Queues /\ AppEvent(q).assoc
  BY DEF AppEvent, Queues
<1>2. ASSUME NEW name
      PROVE  OwnedSecretEvent(q, name) \in Queues /\ OwnedSecretEvent(q, name).assoc
  <2> DEFINE b == Enqueues(driverWatches, <<name>>)
  <2>1. b \in BOOLEAN
    BY DEF Enqueues
  <2>2. OwnedSecretEvent(q, name)
          = [[q EXCEPT !.assoc = TRUE, !.driver = TRUE] EXCEPT !.driver = TRUE \/ b]
    BY DEF OwnedSecretEvent, OwnedSecretChanged, Queues
  <2> HIDE DEF b
  <2> QED
    BY <2>1, <2>2 DEF Queues
<1>3. OwnedSecretChanged(q) \in Queues /\ OwnedSecretChanged(q).assoc
      /\ OwnedSecretChanged(q).driver
  BY DEF OwnedSecretChanged, Queues
<1>4. DeploymentEvent(q) \in Queues /\ DeploymentEvent(q).assoc = q.assoc
  BY DEF DeploymentEvent, Queues
<1>5. SettingsEvent(q) \in Queues /\ SettingsEvent(q).assoc = q.assoc
  <2> DEFINE b == Enqueues(driverWatches, <<"settings">>)
  <2>1. b \in BOOLEAN
    BY DEF Enqueues
  <2>2. SettingsEvent(q) = [q EXCEPT !.driver = @ \/ b]
    BY DEF SettingsEvent
  <2> HIDE DEF b
  <2> QED
    BY <2>1, <2>2 DEF Queues
<1>6. ASSUME NEW e \in Clusters PROVE EsEvent(q, e) \in Queues
  <2> DEFINE b == Enqueues(assocWatches.ElasticsearchClusters, e)
  <2>1. b \in BOOLEAN
    BY DEF Enqueues
  <2>2. EsEvent(q, e) = [q EXCEPT !.es = @ \cup {e}, !.assoc = @ \/ b]
    BY DEF EsEvent
  <2> HIDE DEF b
  <2> QED
    BY <2>1, <2>2 DEF Queues
<1>7. ASSUME NEW e PROVE CaEvent(q, e) \in Queues
  <2> DEFINE b == Enqueues(assocWatches.Secrets, <<"ca", e>>)
  <2>1. b \in BOOLEAN
    BY DEF Enqueues
  <2>2. CaEvent(q, e) = [q EXCEPT !.assoc = @ \/ b]
    BY DEF CaEvent
  <2> HIDE DEF b
  <2> QED
    BY <2>1, <2>2 DEF Queues
<1>8. ASSUME NEW w, NEW ns, NEW old, NEW new PROVE UserChanged(q, w, ns, old, new) \in Queues
  <2> DEFINE b == Enqueues(w.Secrets, <<"user", ns>>)
             x == q.es \cup ClusterOfUser(ns, old) \cup ClusterOfUser(ns, new)
  <2>1. b \in BOOLEAN /\ x \in SUBSET Clusters
    BY DEF Enqueues, ClusterOfUser, Queues
  <2>2. UserChanged(q, w, ns, old, new)
          = IF old = new THEN q ELSE [q EXCEPT !.assoc = @ \/ b, !.es = x]
    BY DEF UserChanged, Queues
  <2> HIDE DEF b, x
  <2> QED
    BY <2>1, <2>2 DEF Queues
<1> QED
  BY <1>1, <1>2, <1>3, <1>4, <1>5, <1>6, <1>7, <1>8

LEMMA SyncCalls ==
  ASSUME DetailsInv, Sync
  PROVE  EnvironmentCalls
<1>1. queues \in Queues /\ cEs \in [Clusters -> BOOLEAN] /\ cCa = [e \in Clusters |-> cCa[e]]
  BY DEF DetailsInv, ShapeInv
<1>2. CASE SyncApp
  BY <1>1, <1>2, EventsCall DEF SyncApp, EnvironmentCalls
<1>3. ASSUME NEW e \in Clusters, SyncEs(e) PROVE EnvironmentCalls
  <2>1. /\ queues' = EsEvent(queues, e) /\ cEs' = [cEs EXCEPT ![e] = es[e]]
        /\ UNCHANGED resourceVars /\ cApp' = cApp /\ cCa' = cCa
    BY <1>3 DEF SyncEs
  <2>2. queues' \in Queues
    BY <1>1, <2>1, EventsCall
  <2>3. CASE Enqueues(assocWatches.ElasticsearchClusters, e)
    <3>1. queues'.assoc
      BY <1>1, <2>1, <2>3 DEF EsEvent, Queues
    <3> QED
      BY <2>2, <3>1 DEF EnvironmentCalls
  <2>4. CASE ~Enqueues(assocWatches.ElasticsearchClusters, e)
    <3>1. queues'.assoc = queues.assoc
      BY <1>1, <2>1, <2>4 DEF EsEvent, Queues
    <3>2. ASSUME NEW d, WatchesCluster(assocWatches, d) PROVE cEs'[d] = cEs[d]
      <4>1. d # e
        BY <2>4, <3>2, Registered DEF WatchesCluster
      <4> QED
        BY <1>1, <2>1, <4>1
    <3> QED
      BY <2>1, <2>2, <3>1, <3>2 DEF EnvironmentCalls, Undisturbed, resourceVars
  <2> QED
    BY <2>3, <2>4
<1>4. ASSUME NEW e \in Clusters, SyncCa(e) PROVE EnvironmentCalls
  <2>1. /\ queues' = CaEvent(queues, e) /\ cCa' = [cCa EXCEPT ![e] = ca[e]]
        /\ UNCHANGED resourceVars /\ cApp' = cApp /\ cEs' = cEs
    BY <1>4 DEF SyncCa
  <2>2. queues' \in Queues
    BY <1>1, <2>1, EventsCall
  <2>3. CASE Enqueues(assocWatches.Secrets, <<"ca", e>>)
    <3>1. queues'.assoc
      BY <1>1, <2>1, <2>3 DEF CaEvent, Queues
    <3> QED
      BY <2>2, <3>1 DEF EnvironmentCalls
  <2>4. CASE ~Enqueues(assocWatches.Secrets, <<"ca", e>>)
    <3>1. queues'.assoc = queues.assoc
      BY <1>1, <2>1, <2>4 DEF CaEvent, Queues
    <3>2. ASSUME NEW d, WatchesCA(assocWatches, d) PROVE cCa'[d] = cCa[d]
      <4>1. d # e
        BY <2>4, <3>2, Registered DEF WatchesCA
      <4> QED
        BY <1>1, <2>1, <4>1
    <3> QED
      BY <2>1, <2>2, <3>1, <3>2 DEF EnvironmentCalls, Undisturbed, resourceVars
  <2> QED
    BY <2>3, <2>4
<1>5. ASSUME NEW ns \in Namespaces, SyncUsers(ns) PROVE EnvironmentCalls
  <2>1. /\ queues' = UserChanged(queues, assocWatches, ns, cUsers[ns], users[ns])
        /\ UNCHANGED resourceVars /\ cApp' = cApp /\ cEs' = cEs /\ cCa' = cCa
    BY <1>5 DEF SyncUsers
  <2>2. queues' \in Queues
    BY <1>1, <2>1, EventsCall
  <2>3. queues.assoc => queues'.assoc
    <3> DEFINE b == Enqueues(assocWatches.Secrets, <<"user", ns>>)
               x == queues.es \cup ClusterOfUser(ns, cUsers[ns]) \cup ClusterOfUser(ns, users[ns])
    <3>1. queues' = IF cUsers[ns] = users[ns] THEN queues
                    ELSE [queues EXCEPT !.assoc = @ \/ b, !.es = x]
      BY <1>1, <2>1 DEF UserChanged, Queues
    <3> HIDE DEF b, x
    <3> QED
      BY <1>1, <3>1 DEF Queues
  <2> QED
    BY <1>1, <2>1, <2>2, <2>3 DEF EnvironmentCalls, Undisturbed, resourceVars, Queues
<1> QED
  BY <1>2, <1>3, <1>4, <1>5 DEF Sync

LEMMA UserCalls ==
  ASSUME DetailsInv, User
  PROVE  EnvironmentCalls
<1>1. queues \in Queues /\ app \in Apps
  BY DEF DetailsInv, ShapeInv, AnnotationInv
<1>2. CASE DeleteAuthSecret \/ DeleteCaCopy
  <2>1. PICK name : queues' = OwnedSecretEvent(queues, name)
    BY <1>2 DEF DeleteAuthSecret, DeleteCaCopy
  <2>2. OwnedSecretEvent(queues, name) \in Queues /\ OwnedSecretEvent(queues, name).assoc
    BY <1>1, EventsCall
  <2> QED
    BY <2>1, <2>2, Zenon DEF EnvironmentCalls
<1>3. CASE \E ns \in Namespaces : DeleteUserSecret(ns)
  BY <1>1, <1>3 DEF DeleteUserSecret, EnvironmentCalls, Undisturbed, cacheVars
<1>4. CASE EditRef \/ TogglePause \/ DeleteApp \/ EditSecureSettings
  <2>1. app.exists
    BY <1>4 DEF EditRef, TogglePause, DeleteApp, EditSecureSettings, Edit
  <2>2. \/ \E r \in Refs : app' = [app EXCEPT !.ref = r]
        \/ app' = [app EXCEPT !.paused = ~@]
        \/ app' = [app EXCEPT !.secure = ~@]
        \/ app' = Stored([app EXCEPT !.deleting = TRUE])
        \/ app' = app
    BY <1>4 DEF EditRef, TogglePause, DeleteApp, EditSecureSettings
  <2>3. app'.exists => app'.conf = app.conf /\ app'.status = app.status
    BY <1>1, <2>2, NewApps DEF Apps, Stored
  <2>4. queues' = queues \/ queues' = SettingsEvent(queues)
    BY <1>4 DEF EditRef, TogglePause, DeleteApp, EditSecureSettings
  <2>5. UNCHANGED <<authSecret, caCopy, cApp, cEs, cCa>>
    BY <1>4 DEF EditRef, TogglePause, DeleteApp, EditSecureSettings, cacheVars
  <2> QED
    BY <1>1, <2>1, <2>3, <2>4, <2>5, EventsCall DEF EnvironmentCalls, Undisturbed
<1> QED
  BY <1>2, <1>3, <1>4 DEF User

LEMMA ElasticCalls ==
  ASSUME DetailsInv, Elastic
  PROVE  EnvironmentCalls
<1>1. queues \in Queues
  BY DEF DetailsInv, ShapeInv
<1>2. /\ UNCHANGED <<app, authSecret, caCopy, cApp, cEs, cCa>>
      /\ queues' = queues \/ \E e : queues' = [queues EXCEPT !.es = @ \ {e}]
  BY DEF Elastic, CreateCluster, DeleteCluster, PublishCA, RotateCA, ReconcileUsers, cacheVars
<1>3. queues' \in Queues /\ queues'.assoc = queues.assoc
  BY <1>1, <1>2 DEF Queues
<1> QED
  BY <1>2, <1>3 DEF EnvironmentCalls, Undisturbed

LEMMA KubernetesCalls ==
  ASSUME DetailsInv, GarbageCollect \/ RollOut
  PROVE  EnvironmentCalls
<1>1. queues \in Queues
  BY DEF DetailsInv, ShapeInv
<1>2. CASE GarbageCollect
  BY <1>1, <1>2 DEF GarbageCollect, EnvironmentCalls, Undisturbed, cacheVars
<1>3. CASE RollOut
  BY <1>1, <1>3, EventsCall DEF RollOut, EnvironmentCalls, Undisturbed, cacheVars
<1> QED
  BY <1>2, <1>3

-----------------------------------------------------------------------------
(***************************************************************************)
(* The steps of a pass.                                                    *)
(***************************************************************************)
Shaped == queues' \in Queues /\ WatchesRecord(assocWatches')
PassStep == PassInv' /\ Shaped

LEMMA PassFields ==
  ASSUME DetailsInv
  PROVE  /\ queues \in Queues /\ WatchesRecord(assocWatches)
         /\ {"pc", "read", "mine", "pw", "ca", "status", "failed"} \subseteq DOMAIN assoc
         /\ assoc.read \in Apps /\ assoc.mine \in Apps /\ cApp \in Apps /\ app \in Apps
         /\ assoc.ca \in BOOLEAN /\ assoc.status \in Statuses
         /\ assoc.pc # "idle" => assoc.read.exists
BY DEF DetailsInv, ShapeInv, AnnotationInv, AssocPassOf, CopyOf

\* A pass that ends with work left.
LEMMA EndsBusy ==
  ASSUME queues'.assoc, assoc'.pc = "idle"
  PROVE  PassInv'
BY DEF PassInv, Unwritten, AfterWatch

LEMMA IdleFields ==
  /\ IdleAssociation.pc = "idle"
  /\ \A p, r : /\ [IdleAssociation EXCEPT !.read = r, !.pc = p].pc = p
               /\ [IdleAssociation EXCEPT !.read = r, !.pc = p].read = r
               /\ [IdleAssociation EXCEPT !.pc = p, !.read = r].pc = p
               /\ [IdleAssociation EXCEPT !.pc = p, !.read = r].read = r
  /\ \A p, r, m : /\ [IdleAssociation EXCEPT !.pc = p, !.read = r, !.mine = m].pc = p
                  /\ [IdleAssociation EXCEPT !.pc = p, !.read = r, !.mine = m].read = r
                  /\ [IdleAssociation EXCEPT !.pc = p, !.read = r, !.mine = m].mine = m
BY DEF IdleAssociation

LEMMA FinishedTrue ==
  ASSUME DetailsInv, FinishAssociation(TRUE)
  PROVE  PassInv' /\ queues' \in Queues
<1>1. assoc'.pc = "idle"
  BY IdleFields DEF FinishAssociation
<1>2. queues' = [queues EXCEPT !.assoc = queues.assoc \/ TRUE]
  BY DEF FinishAssociation
<1>3. queues' \in Queues /\ queues'.assoc
  BY <1>2, PassFields DEF Queues
<1> QED
  BY <1>1, <1>3, EndsBusy

LEMMA FinishedAtRest ==
  ASSUME DetailsInv, NEW f, FinishAssociation(f),
         ~f /\ ~queues.assoc => AtRest'
  PROVE  PassInv' /\ queues' \in Queues
<1>1. assoc'.pc = "idle"
  BY IdleFields DEF FinishAssociation
<1>2. PICK b \in BOOLEAN : queues' = [queues EXCEPT !.assoc = b] /\ b = (queues.assoc \/ f)
  BY PassFields DEF FinishAssociation, Queues
<1>3. queues' \in Queues /\ queues'.assoc = b
  BY <1>2, PassFields DEF Queues
<1>4. CASE b
  BY <1>1, <1>3, <1>4, EndsBusy
<1>5. CASE ~b
  BY <1>1, <1>2, <1>3, <1>5 DEF PassInv, Unwritten, AfterWatch
<1> QED
  BY <1>3, <1>4, <1>5

LEMMA Returned ==
  ASSUME DetailsInv, NEW q \in Queues, NEW r, NEW s, NEW f,
         ReturnStatus(q, r, s, f), cApp' = cApp,
         ~q.assoc => SameApp(r, cApp),
         ~q.assoc /\ ~f /\ s # "Pending" /\ r.status = s => AtRest'
  PROVE  PassInv' /\ queues' \in Queues
<1>1. CASE r.status = s
  <2>1. assoc'.pc = "idle"
    BY <1>1, IdleFields DEF ReturnStatus
  <2>2. PICK b \in BOOLEAN : queues' = [q EXCEPT !.assoc = b]
                               /\ b = (q.assoc \/ f \/ s = "Pending")
    BY <1>1 DEF ReturnStatus, Queues, ResultFromStatus
  <2>3. queues' \in Queues /\ queues'.assoc = b
    BY <2>2 DEF Queues
  <2>4. CASE b
    BY <2>1, <2>3, <2>4, EndsBusy
  <2>5. CASE ~b
    BY <1>1, <2>1, <2>2, <2>3, <2>5 DEF PassInv, Unwritten, AfterWatch
  <2> QED
    BY <2>3, <2>4, <2>5
<1>2. CASE r.status # s
  <2>1. assoc' = [assoc EXCEPT !.pc = "status", !.read = r, !.status = s, !.failed = f]
        /\ queues' = q
    BY <1>2 DEF ReturnStatus
  <2>2. assoc'.pc = "status" /\ assoc'.read = r /\ assoc'.status = s
    BY <2>1, PassFields
  <2>3. ~q.assoc => InPass'
    BY <1>2, <2>2 DEF InPass, SameApp, Unwritten, AfterWatch, AfterGet, AfterAuth
  <2> QED
    BY <2>1, <2>2, <2>3 DEF PassInv, Unwritten, AfterWatch
<1> QED
  BY <1>1, <1>2

LEMMA AfterFinalizersIs ==
  ASSUME DetailsInv, NEW r, assoc' = AfterFinalizers(r), cApp' = cApp, queues' \in Queues,
         ~queues'.assoc => SameApp(r, cApp) /\ r.conf = cApp.conf
  PROVE  PassInv'
<1>1. PICK p \in {"watch", "compatible"} : assoc' = [IdleAssociation EXCEPT !.read = r, !.pc = p]
  BY DEF AfterFinalizers
<1>2. assoc'.pc = p /\ assoc'.read = r
  BY <1>1, IdleFields
<1>3. ~queues'.assoc => InPass'
  BY <1>2 DEF InPass, SameApp, Unwritten, AfterWatch, AfterGet, AfterAuth
<1> QED
  BY <1>2, <1>3 DEF PassInv, Unwritten, AfterWatch

LEMMA FetchWithAssociationPass ==
  ASSUME DetailsInv, FetchWithAssociation
  PROVE  PassStep
<1>1. /\ assoc.pc = "idle" /\ queues.assoc /\ cApp' = cApp /\ assocWatches' = assocWatches
  BY DEF FetchWithAssociation, cacheVars
<1>2. CASE UNCHANGED <<assoc, queues>>
  BY <1>1, <1>2, PassFields, EndsBusy DEF PassStep, Shaped
<1>3. CASE /\ queues' = [queues EXCEPT !.assoc = FALSE]
           /\ assoc' = IF cApp.exists THEN Fetched(cApp) ELSE assoc
  <2>1. queues' \in Queues /\ ~queues'.assoc
    BY <1>3, PassFields DEF Queues
  <2>2. CASE ~cApp.exists
    BY <1>1, <1>3, <2>1, <2>2, PassFields
       DEF PassStep, Shaped, PassInv, AtRest, Referring, Unwritten, AfterWatch
  <2>3. CASE cApp.exists
    <3> DEFINE n == Handle(cApp, AssociationFinalizers)
    <3>1. cApp \in Apps
      BY PassFields
    <3>2. SameApp(n, cApp) /\ n.conf = cApp.conf
      BY <3>1, OtherFieldsOf DEF SameApp
    <3> HIDE DEF n
    <3>3. SameApp(cApp, cApp)
      BY DEF SameApp
    <3>4. CASE assoc' = [IdleAssociation EXCEPT !.pc = "finalizers", !.read = cApp]
      <4>1. assoc'.pc = "finalizers" /\ assoc'.read = cApp
        BY <3>4, IdleFields
      <4>2. InPass'
        BY <1>1, <3>3, <4>1 DEF InPass, SameApp, Unwritten, AfterWatch, AfterGet, AfterAuth
      <4> QED
        BY <1>1, <2>1, <4>1, <4>2, PassFields DEF PassStep, Shaped, PassInv, Unwritten, AfterWatch
    <3>5. CASE assoc' = AfterFinalizers(cApp)
      BY <1>1, <2>1, <3>3, <3>5, AfterFinalizersIs, PassFields DEF PassStep, Shaped
    <3>6. CASE assoc' = [IdleAssociation EXCEPT !.pc = "finalized", !.read = cApp, !.mine = n]
      <4>1. assoc'.pc = "finalized" /\ assoc'.read = cApp /\ assoc'.mine = n
        BY <3>6, IdleFields
      <4>2. InPass'
        BY <1>1, <3>2, <3>3, <4>1 DEF InPass, SameApp, Unwritten, AfterWatch, AfterGet, AfterAuth
      <4> QED
        BY <1>1, <2>1, <4>1, <4>2, PassFields DEF PassStep, Shaped, PassInv, Unwritten, AfterWatch
    <3> QED
      BY <1>3, <2>3, <3>4, <3>5, <3>6 DEF Fetched, n
  <2> QED
    BY <2>2, <2>3
<1> QED
  BY <1>2, <1>3 DEF FetchWithAssociation

LEMMA RunFinalizersPass ==
  ASSUME DetailsInv, RunFinalizers
  PROVE  PassStep
<1>1. /\ assoc.pc = "finalizers" /\ cApp' = cApp /\ queues' = queues
      /\ assocWatches' = assocWatches \/ assocWatches' = WatchFinalizer(assocWatches)
  BY DEF RunFinalizers, cacheVars
<1>2. WatchesRecord(assocWatches')
  BY <1>1, PassFields DEF WatchFinalizer, WatchesRecord
<1>3. PICK o, ran :
        assoc' = [assoc EXCEPT !.pc = "finalized", !.failed = o,
                               !.mine = Handle(assoc.read, ran)]
  BY DEF RunFinalizers
<1> DEFINE n == Handle(assoc.read, ran)
<1>4. /\ n.exists = assoc.read.exists /\ n.deleting = assoc.read.deleting
      /\ n.paused = assoc.read.paused /\ n.ref = assoc.read.ref
      /\ n.status = assoc.read.status /\ n.secure = assoc.read.secure
      /\ n.conf = assoc.read.conf
  BY PassFields, OtherFieldsOf
<1> HIDE DEF n
<1>5. assoc'.pc = "finalized" /\ assoc'.read = assoc.read /\ assoc'.mine = n
  BY <1>3, PassFields DEF n
<1>6. ~queues'.assoc => InPass'
  <2> SUFFICES ASSUME ~queues.assoc PROVE InPass'
    BY <1>1
  <2>1. InPass
    BY <1>1 DEF DetailsInv, PassInv
  <2> QED
    BY <1>1, <1>4, <1>5, <2>1 DEF InPass, SameApp, Unwritten, AfterWatch, AfterGet, AfterAuth
<1> QED
  BY <1>1, <1>2, <1>5, <1>6, PassFields DEF PassStep, Shaped, PassInv, Unwritten, AfterWatch

LEMMA UpdateFinalizersPass ==
  ASSUME DetailsInv, UpdateFinalizers
  PROVE  PassStep
<1>1. assoc.pc = "finalized" /\ cApp' = cApp /\ assocWatches' = assocWatches
  BY DEF UpdateFinalizers, cacheVars
<1>2. ~queues.assoc => InPass
  BY <1>1 DEF DetailsInv, PassInv
<1>3. \/ FinishAssociation(TRUE)
      \/ assoc.mine.deleting /\ FinishAssociation(assoc.failed)
      \/ assoc' = AfterFinalizers(assoc.mine) /\ queues' = queues
  BY DEF UpdateFinalizers
<1>4. CASE FinishAssociation(TRUE)
  BY <1>1, <1>4, FinishedTrue, PassFields DEF PassStep, Shaped
<1>5. CASE assoc.mine.deleting /\ FinishAssociation(assoc.failed)
  <2>1. ~queues.assoc => AtRest'
    BY <1>1, <1>2, <1>5 DEF InPass, SameApp, AtRest, Referring
  <2> QED
    BY <1>1, <1>5, <2>1, FinishedAtRest, PassFields DEF PassStep, Shaped
<1>6. CASE assoc' = AfterFinalizers(assoc.mine) /\ queues' = queues
  <2>1. ~queues'.assoc => SameApp(assoc.mine, cApp) /\ assoc.mine.conf = cApp.conf
    BY <1>1, <1>2, <1>6 DEF InPass
  <2> QED
    BY <1>1, <1>6, <2>1, AfterFinalizersIs, PassFields DEF PassStep, Shaped
<1> QED
  BY <1>3, <1>4, <1>5, <1>6

LEMMA CheckCompatiblePass ==
  ASSUME DetailsInv, CheckCompatible
  PROVE  PassStep
<1> DEFINE r == assoc.read
           n == ReconcileCompatibility(r)
           paused == kind # "apm" /\ IsPaused(r)
           writes == ~paused /\ n # r
<1>1. assoc.pc = "compatible" /\ cApp' = cApp /\ assocWatches' = assocWatches
  BY DEF CheckCompatible, cacheVars
<1>2. ~queues.assoc => InPass
  BY <1>1 DEF DetailsInv, PassInv
<1>3. \/ FinishAssociation(TRUE)
      \/ ~paused /\ (writes => ~Conflicts(r)) /\ ~IsCompatible(n)
      \/ assoc' = [assoc EXCEPT !.pc = "watch", !.read = n] /\ queues' = queues
  BY DEF CheckCompatible
<1>4. CASE FinishAssociation(TRUE)
  BY <1>1, <1>4, FinishedTrue, PassFields DEF PassStep, Shaped
<1>5. CASE ~paused /\ (writes => ~Conflicts(r)) /\ ~IsCompatible(n)
  <2>1. HeldOf(r, app) /\ AnnotationInv
    BY <1>1 DEF DetailsInv, AnnotationInv, AssocPassOf, HeldOf
  <2>2. CASE n # r
    BY <1>5, <2>1, <2>2, OldCopyConflicts DEF IsCompatible
  <2>3. CASE n = r
    BY <1>5, <2>3, PassFields DEF IsCompatible, ReconcileCompatibility, Apps
  <2> QED
    BY <2>2, <2>3
<1>6. CASE assoc' = [assoc EXCEPT !.pc = "watch", !.read = n] /\ queues' = queues
  <2>1. assoc'.pc = "watch" /\ assoc'.read = n
    BY <1>6, PassFields
  <2>2. /\ n.exists = r.exists /\ n.deleting = r.deleting /\ n.paused = r.paused
        /\ n.ref = r.ref /\ n.status = r.status /\ n.secure = r.secure /\ n.conf = r.conf
    BY PassFields, OtherFieldsOf
  <2> HIDE DEF n
  <2>3. ~queues'.assoc => InPass'
    BY <1>1, <1>2, <1>6, <2>1, <2>2
       DEF InPass, SameApp, Unwritten, AfterWatch, AfterGet, AfterAuth
  <2> QED
    BY <1>1, <1>6, <2>1, <2>3, PassFields DEF PassStep, Shaped, PassInv, Unwritten, AfterWatch
<1> QED
  BY <1>3, <1>4, <1>5, <1>6

LEMMA UpdateAssociationStatusPass ==
  ASSUME DetailsInv, UpdateAssociationStatus
  PROVE  PassStep
<1> DEFINE r == assoc.read
           n == [r EXCEPT !.status = assoc.status]
<1>1. assoc.pc = "status" /\ cApp' = cApp /\ assocWatches' = assocWatches
  BY DEF UpdateAssociationStatus, cacheVars
<1>2. ~queues.assoc => SameApp(r, cApp) /\ r.status # assoc.status
  BY <1>1 DEF DetailsInv, PassInv, InPass
<1>3. n.status = assoc.status /\ n.exists = r.exists
  BY PassFields DEF Apps
<1> HIDE DEF n
<1>4. PICK o : /\ UpdateApp(n, r, o)
               /\ FinishAssociation((Conflicts(r) \/ o # "ok") \/ assoc.failed
                                      \/ ResultFromStatus(assoc.status))
  BY DEF UpdateAssociationStatus, n
<1>5. CASE Conflicts(r) \/ o # "ok"
  <2>1. (Conflicts(r) \/ o # "ok") \/ assoc.failed \/ ResultFromStatus(assoc.status)
    BY <1>5
  <2> QED
    BY <1>1, <1>4, <2>1, FinishedAtRest, PassFields DEF PassStep, Shaped
<1>6. CASE ~Conflicts(r) /\ o = "ok"
  <2>1. app' = Stored(n)
    BY <1>4, <1>6 DEF UpdateApp, Applied
  <2>2. ~queues.assoc => ~(app'.exists /\ app'.status = cApp.status)
    BY <1>2, <1>3, <2>1, NewApps DEF Stored, SameApp
  <2>3. ~queues.assoc => AtRest'
    BY <1>1, <2>2 DEF AtRest
  <2> QED
    BY <1>1, <1>4, <2>3, FinishedAtRest, PassFields DEF PassStep, Shaped
<1> QED
  BY <1>5, <1>6

LEMMA ReferenceWatched ==
  ASSUME DetailsInv, assoc.pc = "watch", assoc.read.ref # NoCluster, cApp' = cApp,
         assocWatches' = WatchCluster(assocWatches, assoc.read.ref),
         AssocGoto("get"), queues' \in Queues, queues.assoc => queues'.assoc
  PROVE  PassStep
<1>1. assoc'.pc = "get" /\ assoc'.read = assoc.read
  BY PassFields DEF AssocGoto
<1>2. ~queues'.assoc => InPass
  BY PassFields DEF DetailsInv, PassInv
<1>3. ~queues'.assoc => InPass'
  BY <1>1, <1>2 DEF InPass, SameApp, Unwritten, AfterWatch, AfterGet, AfterAuth
<1>4. WatchesRecord(assocWatches') /\ WatchesCluster(assocWatches', assoc.read.ref)
  BY PassFields, WatchClusterDoes
<1> QED
  BY <1>1, <1>3, <1>4, PassFields DEF PassStep, Shaped, PassInv, Unwritten, AfterWatch

LEMMA NothingReferred ==
  ASSUME DetailsInv, assoc.pc = "watch", assoc.read.ref = NoCluster, cApp' = cApp,
         WatchesRecord(assocWatches'), NEW q \in Queues, queues.assoc => q.assoc,
         ReturnStatus(q, assoc.read, "", FALSE)
  PROVE  PassStep
<1>1. ~q.assoc => InPass
  BY DEF DetailsInv, PassInv
<1>2. ~q.assoc => SameApp(assoc.read, cApp)
  BY <1>1 DEF InPass
<1>3. ~q.assoc => AtRest'
  BY <1>2 DEF SameApp, AtRest, Referring
<1> QED
  BY <1>2, <1>3, Returned DEF PassStep, Shaped

LEMMA WatchReferencePass ==
  ASSUME DetailsInv, WatchReference
  PROVE  PassStep
<1> DEFINE ref == assoc.read.ref
<1>1. PICK q \in {queues, OwnedSecretChanged(queues)} :
        /\ assoc.pc = "watch" /\ cApp' = cApp
        /\ IF ref = NoCluster
             THEN /\ assocWatches' = [assocWatches EXCEPT
                       !.ElasticsearchClusters = RemoveHandlerForKey(@, EsWatch)]
                  /\ ReturnStatus(q, assoc.read, "", FALSE)
             ELSE /\ assocWatches' = WatchCluster(assocWatches, ref)
                  /\ AssocGoto("get")
                  /\ queues' = q
  BY DEF WatchReference, cacheVars
<1>2. q \in Queues /\ (queues.assoc => q.assoc)
  BY PassFields, EventsCall
<1>3. CASE ref = NoCluster
  <2>1. WatchesRecord(assocWatches')
    BY <1>1, <1>3, PassFields DEF WatchesRecord
  <2> QED
    BY <1>1, <1>2, <1>3, <2>1, NothingReferred
<1>4. CASE ref # NoCluster
  BY <1>1, <1>2, <1>4, ReferenceWatched
<1> QED
  BY <1>3, <1>4

LEMMA ApmWatchReferencePass ==
  ASSUME DetailsInv, ApmWatchReference
  PROVE  PassStep
<1> DEFINE ref == assoc.read.ref
<1>1. assoc.pc = "watch" /\ cApp' = cApp
  BY DEF ApmWatchReference, cacheVars
<1>2. CASE ref = NoCluster
  <2>1. ReturnStatus(queues, assoc.read, "", FALSE) /\ assocWatches' = assocWatches
    BY <1>2 DEF ApmWatchReference
  <2> QED
    BY <1>1, <1>2, <2>1, PassFields, NothingReferred
<1>3. CASE ref # NoCluster
  <2>1. /\ assocWatches' = WatchCluster(assocWatches, ref)
        /\ AssocGoto("get") /\ queues' = queues
    BY <1>3 DEF ApmWatchReference
  <2> QED
    BY <1>1, <1>3, <2>1, PassFields, ReferenceWatched
<1> QED
  BY <1>2, <1>3

\* A step that stays in the pass, one that gives up until later.
LEMMA StepTaken ==
  ASSUME DetailsInv, assoc.pc \in AfterWatch, assoc'.pc \in AfterGet, assoc'.read = assoc.read,
         cApp' = cApp, WatchesRecord(assocWatches'), queues' \in Queues,
         WatchesCluster(assocWatches', assoc.read.ref),
         queues.assoc => queues'.assoc,
         ~queues'.assoc /\ InPass =>
           /\ cEs'[assoc.read.ref]
           /\ assoc'.pc \in AfterAuth /\ app'.exists => authSecret' # 0
           /\ assoc'.pc = "conf" => assoc'.ca = (cCa'[assoc.read.ref] # 0)
           /\ assoc'.pc = "conf" /\ app'.exists =>
                (cCa'[assoc.read.ref] # 0 => caCopy' = cCa'[assoc.read.ref]),
         assoc'.pc = "conf" => WatchesCA(assocWatches', assoc.read.ref)
  PROVE  PassStep
<1>1. assoc.pc # "idle" /\ assoc.pc \in Unwritten /\ assoc'.pc \in Unwritten
      /\ assoc'.pc \notin {"idle", "status", "finalized"}
  BY DEF Unwritten, AfterWatch, AfterGet
<1>2. ~queues'.assoc => InPass
  BY <1>1, PassFields DEF DetailsInv, PassInv
<1>3. ~queues'.assoc => InPass'
  BY <1>1, <1>2 DEF InPass, SameApp, CopyOfCA
<1>4. assoc.read.ref # NoCluster
  BY DEF DetailsInv, PassInv
<1> QED
  BY <1>1, <1>3, <1>4 DEF PassStep, Shaped, PassInv, WatchesCluster, WatchesCA

LEMMA GivenUp ==
  ASSUME DetailsInv, assoc.pc \in AfterWatch, cApp' = cApp, WatchesRecord(assocWatches'),
         NEW q \in Queues, queues.assoc => q.assoc, NEW r, NEW f,
         r.exists = assoc.read.exists, r.deleting = assoc.read.deleting,
         r.paused = assoc.read.paused, r.ref = assoc.read.ref,
         r.status = assoc.read.status, r.secure = assoc.read.secure,
         ReturnStatus(q, r, "Pending", f)
  PROVE  PassStep
<1>1. assoc.pc # "idle"
  BY DEF AfterWatch
<1>2. ~q.assoc => SameApp(r, cApp)
  BY <1>1, PassFields DEF DetailsInv, PassInv, InPass, SameApp
<1> QED
  BY <1>2, Returned DEF PassStep, Shaped

LEMMA GetElasticsearchPass ==
  ASSUME DetailsInv, GetElasticsearch
  PROVE  PassStep
<1> DEFINE ref == assoc.read.ref
           gone == RemoveAssociationConf(assoc.read)
<1>1. /\ assoc.pc = "get" /\ cApp' = cApp /\ assocWatches' = assocWatches
      /\ cEs' = cEs
  BY DEF GetElasticsearch, cacheVars
<1>2. assoc.pc \in AfterWatch /\ WatchesCluster(assocWatches, ref)
  BY <1>1 DEF AfterWatch, DetailsInv, PassInv
<1>3. CASE cEs[ref]
  <2>1. AssocGoto("auth") /\ queues' = queues
    BY <1>3 DEF GetElasticsearch
  <2>2. assoc'.pc = "auth" /\ assoc'.read = assoc.read
    BY <2>1, PassFields DEF AssocGoto
  <2>3. assoc'.pc \in AfterGet /\ assoc'.pc \notin AfterAuth /\ assoc'.pc # "conf"
    BY <2>2 DEF AfterGet, AfterAuth
  <2> QED
    BY <1>1, <1>2, <1>3, <2>1, <2>2, <2>3, PassFields, StepTaken
<1>4. CASE ~cEs[ref]
  <2>1. PICK r \in {gone, assoc.read}, f \in BOOLEAN : ReturnStatus(queues, r, "Pending", f)
    BY <1>4 DEF GetElasticsearch
  <2>2. /\ r.exists = assoc.read.exists /\ r.deleting = assoc.read.deleting
        /\ r.paused = assoc.read.paused /\ r.ref = assoc.read.ref
        /\ r.status = assoc.read.status /\ r.secure = assoc.read.secure
    BY <2>1, PassFields DEF RemoveAssociationConf, Apps
  <2> QED
    BY <1>1, <1>2, <2>1, <2>2, PassFields, GivenUp
<1> QED
  BY <1>3, <1>4

LEMMA ReconcileAuthSecretPass ==
  ASSUME DetailsInv, ReconcileAuthSecret
  PROVE  PassStep
<1> DEFINE ref == assoc.read.ref
           new == ReconcileResource(authSecret, 0, RandomPassword, FALSE, 0)
<1>1. /\ assoc.pc = "auth" /\ cApp' = cApp /\ assocWatches' = assocWatches
      /\ cEs' = cEs
  BY DEF ReconcileAuthSecret, cacheVars
<1>2. assoc.pc \in AfterWatch /\ assoc.pc \in AfterGet /\ WatchesCluster(assocWatches, ref)
  BY <1>1 DEF AfterWatch, AfterGet, DetailsInv, PassInv
<1>3. new # 0
  BY RandomPasswordIsNew DEF ReconcileResource
<1> HIDE DEF new
<1>4. PICK q \in {queues, OwnedSecretChanged(queues)}, o \in {"ok", "error", "lost"} :
        /\ authSecret' = IF Applied(o) THEN new ELSE authSecret
        /\ IF o # "ok" THEN ReturnStatus(q, assoc.read, "Pending", TRUE)
           ELSE assoc' = [assoc EXCEPT !.pc = "user", !.pw = new] /\ queues' = q
  BY DEF ReconcileAuthSecret, new, Outcomes
<1>5. q \in Queues /\ (queues.assoc => q.assoc)
  BY PassFields, EventsCall
<1>6. CASE o # "ok"
  BY <1>1, <1>2, <1>4, <1>5, <1>6, PassFields, GivenUp
<1>7. CASE o = "ok"
  <2>1. assoc'.pc = "user" /\ assoc'.read = assoc.read /\ authSecret' # 0
    BY <1>3, <1>4, <1>7, PassFields DEF Applied
  <2>2. assoc'.pc \in AfterGet /\ assoc'.pc # "conf"
    BY <2>1 DEF AfterGet
  <2>3. InPass => cEs'[ref]
    BY <1>1, <1>2 DEF InPass
  <2> QED
    BY <1>1, <1>2, <1>4, <1>5, <1>7, <2>1, <2>2, <2>3, PassFields, StepTaken
<1> QED
  BY <1>6, <1>7

LEMMA ReconcileEsUserPass ==
  ASSUME DetailsInv, ReconcileEsUser
  PROVE  PassStep
<1> DEFINE ref == assoc.read.ref
<1>1. /\ assoc.pc = "user" /\ cApp' = cApp /\ assocWatches' = assocWatches
      /\ cEs' = cEs /\ authSecret' = authSecret /\ app' = app
  BY DEF ReconcileEsUser, cacheVars
<1>2. /\ assoc.pc \in AfterWatch /\ assoc.pc \in AfterGet /\ assoc.pc \in AfterAuth
      /\ WatchesCluster(assocWatches, ref)
  BY <1>1 DEF AfterWatch, AfterGet, AfterAuth, DetailsInv, PassInv
<1>3. \/ ReturnStatus(queues, assoc.read, "Pending", TRUE)
      \/ AssocGoto("ca") /\ queues' = queues
  BY DEF ReconcileEsUser
<1>4. CASE ReturnStatus(queues, assoc.read, "Pending", TRUE)
  BY <1>1, <1>2, <1>4, PassFields, GivenUp
<1>5. CASE AssocGoto("ca") /\ queues' = queues
  <2>1. assoc'.pc = "ca" /\ assoc'.read = assoc.read
    BY <1>5, PassFields DEF AssocGoto
  <2>2. assoc'.pc \in AfterGet /\ assoc'.pc # "conf"
    BY <2>1 DEF AfterGet
  <2>3. InPass => cEs'[ref] /\ (app'.exists => authSecret' # 0)
    BY <1>1, <1>2 DEF InPass
  <2> QED
    BY <1>1, <1>2, <1>5, <2>1, <2>2, <2>3, PassFields, StepTaken
<1> QED
  BY <1>3, <1>4, <1>5

LEMMA ReconcileElasticsearchCAPass ==
  ASSUME DetailsInv, ReconcileElasticsearchCA
  PROVE  PassStep
<1> DEFINE ref == assoc.read.ref
           public == cCa[ref]
           new == IF public = 0 THEN caCopy
                  ELSE ReconcileResource(caCopy, 0, public, caCopy # public, public)
<1>1. /\ assoc.pc = "ca" /\ cApp' = cApp /\ assocWatches' = WatchCA(assocWatches, ref)
      /\ cEs' = cEs /\ cCa' = cCa /\ authSecret' = authSecret /\ app' = app
  BY DEF ReconcileElasticsearchCA, cacheVars
<1>2. /\ assoc.pc \in AfterWatch /\ assoc.pc \in AfterGet /\ assoc.pc \in AfterAuth
      /\ WatchesCluster(assocWatches, ref)
  BY <1>1 DEF AfterWatch, AfterGet, AfterAuth, DetailsInv, PassInv
<1>3. /\ WatchesRecord(assocWatches') /\ WatchesCluster(assocWatches', ref)
      /\ WatchesCA(assocWatches', ref)
  BY <1>1, <1>2, PassFields, WatchClusterDoes
<1>4. public # 0 => new = public
  BY DEF ReconcileResource
<1> HIDE DEF new
<1>5. PICK q \in {queues, OwnedSecretChanged(queues)}, o \in {"ok", "error", "lost"} :
        /\ caCopy' = IF Applied(o) THEN new ELSE caCopy
        /\ IF o # "ok" THEN ReturnStatus(q, assoc.read, "Pending", TRUE)
           ELSE assoc' = [assoc EXCEPT !.pc = "conf", !.ca = (public # 0)] /\ queues' = q
  BY DEF ReconcileElasticsearchCA, new, Outcomes
<1>6. q \in Queues /\ (queues.assoc => q.assoc)
  BY PassFields, EventsCall
<1>7. CASE o # "ok"
  BY <1>1, <1>2, <1>3, <1>5, <1>6, <1>7, PassFields, GivenUp
<1>8. CASE o = "ok"
  <2>1. assoc'.pc = "conf" /\ assoc'.read = assoc.read /\ assoc'.ca = (public # 0)
        /\ caCopy' = new
    BY <1>5, <1>8, PassFields DEF Applied
  <2>2. assoc'.pc \in AfterGet
    BY <2>1 DEF AfterGet
  <2>3. InPass => cEs'[ref] /\ (app'.exists => authSecret' # 0)
    BY <1>1, <1>2 DEF InPass
  <2>4. assoc'.ca = (cCa'[ref] # 0) /\ (cCa'[ref] # 0 => caCopy' = cCa'[ref])
    BY <1>1, <1>4, <2>1
  <2> QED
    BY <1>1, <1>2, <1>3, <1>5, <1>6, <1>8, <2>1, <2>2, <2>3, <2>4, PassFields, StepTaken
<1> QED
  BY <1>7, <1>8

\* Details that were written by the pass are not the cached ones.
LEMMA UpdateAssociationConfPass ==
  ASSUME DetailsInv, UpdateAssociationConf
  PROVE  PassStep
<1> DEFINE a == assoc.read
           details == [url |-> a.ref, ca |-> assoc.ca]
           new == [a EXCEPT !.conf = details]
           unchanged == new = a
<1>1. /\ assoc.pc = "conf" /\ cApp' = cApp /\ assocWatches' = assocWatches
      /\ cEs' = cEs /\ cCa' = cCa /\ authSecret' = authSecret /\ caCopy' = caCopy
  BY DEF UpdateAssociationConf, cacheVars
<1>2. /\ assoc.pc \in AfterWatch /\ assoc.pc \in AfterGet /\ assoc.pc \in AfterAuth
      /\ assoc.pc \in Unwritten /\ assoc.pc # "idle"
      /\ WatchesCluster(assocWatches, a.ref) /\ WatchesCA(assocWatches, a.ref)
  BY <1>1 DEF AfterWatch, AfterGet, AfterAuth, Unwritten, DetailsInv, PassInv
<1>3. /\ new.exists = a.exists /\ new.deleting = a.deleting /\ new.paused = a.paused
      /\ new.ref = a.ref /\ new.status = a.status /\ new.secure = a.secure
      /\ new.conf = details /\ (unchanged <=> a.conf = details)
  BY PassFields DEF Apps
<1>4. \/ \E f \in BOOLEAN : ReturnStatus(queues, a, "Pending", f)
      \/ /\ app' = app \/ ~unchanged
         /\ ~unchanged => app' = Stored(new)
         /\ unchanged => app' = app
         /\ ReturnStatus(queues, new, "Established", FALSE)
  <2>1. PICK o :
          /\ IF unchanged THEN UNCHANGED <<app, budget>> ELSE UpdateApp(new, a, o)
          /\ IF ~unchanged /\ Conflicts(a) THEN ReturnStatus(queues, a, "Pending", FALSE)
             ELSE IF o # "ok" THEN ReturnStatus(queues, a, "Pending", TRUE)
             ELSE ReturnStatus(queues, new, "Established", FALSE)
    BY DEF UpdateAssociationConf
  <2> HIDE DEF new
  <2> QED
    BY <2>1 DEF UpdateApp, Applied
<1> HIDE DEF new, unchanged
<1>5. ASSUME NEW f \in BOOLEAN, ReturnStatus(queues, a, "Pending", f) PROVE PassStep
  BY <1>1, <1>2, <1>5, PassFields, GivenUp
<1>6. CASE /\ ~unchanged => app' = Stored(new)
           /\ unchanged => app' = app
           /\ ReturnStatus(queues, new, "Established", FALSE)
  <2>1. ~queues.assoc => InPass
    BY <1>2 DEF DetailsInv, PassInv
  <2>2. ~queues.assoc => SameApp(new, cApp)
    BY <1>3, <2>1 DEF InPass, SameApp
  <2>3. ASSUME ~queues.assoc, new.status = "Established" PROVE AtRest'
    <3>1. InPass
      BY <2>1, <2>3
    <3> SUFFICES ASSUME Referring(cApp), app'.exists, app'.conf = cApp.conf,
                        app'.status = cApp.status
                 PROVE  /\ Settled(cApp.ref)'
                        /\ WatchesCluster(assocWatches, cApp.ref)
                        /\ WatchesCA(assocWatches, cApp.ref)
                        /\ cApp.conf = Details(cApp.ref)' /\ cApp.status = "Established"
      BY <1>1 DEF AtRest, WatchesCluster, WatchesCA
    <3>2. a.ref = cApp.ref /\ a.conf = cApp.conf /\ cApp.status = "Established"
      BY <1>2, <1>3, <2>3, <3>1 DEF InPass, SameApp
    <3>3. unchanged
      <4> SUFFICES ASSUME ~unchanged PROVE FALSE
        OBVIOUS
      <4>1. app' = new
        BY <1>6, NewApps DEF Stored
      <4>2. app'.conf # a.conf
        BY <1>3, <4>1
      <4> QED
        BY <3>2, <4>2
    <3>4. cApp.conf = details /\ app' = app
      BY <1>3, <1>6, <3>2, <3>3
    <3>5. app.exists
      BY <3>4
    <3>6. /\ cEs[cApp.ref] /\ authSecret # 0 /\ assoc.ca = (cCa[cApp.ref] # 0)
          /\ CopyOfCA(cApp.ref, caCopy)
      BY <1>1, <1>2, <3>1, <3>2, <3>5 DEF InPass
    <3> QED
      BY <1>1, <1>2, <3>2, <3>4, <3>6 DEF Settled, CopyOfCA, Details
  <2> QED
    BY <1>1, <1>6, <2>2, <2>3, PassFields, Returned DEF PassStep, Shaped
<1> QED
  BY <1>4, <1>5, <1>6

LEMMA AssociationsPass ==
  ASSUME DetailsInv, Associations
  PROVE  PassStep
BY FetchWithAssociationPass, RunFinalizersPass, UpdateFinalizersPass, CheckCompatiblePass,
   UpdateAssociationStatusPass, WatchReferencePass, ApmWatchReferencePass,
   GetElasticsearchPass, ReconcileAuthSecretPass, ReconcileEsUserPass,
   ReconcileElasticsearchCAPass, UpdateAssociationConfPass, AssociationsAre

-----------------------------------------------------------------------------
\* The clusters as they are, and as they are cached.
ClustersShape ==
  /\ kind \in Kinds
  /\ cEs \in [Clusters -> BOOLEAN] /\ es \in [Clusters -> BOOLEAN]
  /\ cCa = [e \in Clusters |-> cCa[e]] /\ ca = [e \in Clusters |-> ca[e]]

LEMMA ControllersLeaveTheClusters ==
  ASSUME Associations \/ Drivers
  PROVE  kind' = kind /\ es' = es /\ ca' = ca /\ cEs' = cEs /\ cCa' = cCa
<1>1. CASE Associations
  BY <1>1, AssociationsAre
     DEF FetchWithAssociation, RunFinalizers,
       UpdateFinalizers, CheckCompatible, UpdateAssociationStatus, WatchReference,
       ApmWatchReference, GetElasticsearch, ReconcileAuthSecret, ReconcileEsUser,
       ReconcileElasticsearchCA, UpdateAssociationConf, resourceVars, cacheVars
<1>2. CASE Drivers
  BY <1>2, DriversAre
     DEF FetchApp, DriverCompatible, DriverFinalize, DriverService, DriverConfig,
         DriverKeystore, DriverDeploy, DriverStatus, sharedButWorkload, cacheVars
<1> QED
  BY <1>1, <1>2

LEMMA EnvironmentShape ==
  ASSUME ClustersShape, Sync \/ User \/ Elastic \/ GarbageCollect \/ RollOut
  PROVE  ClustersShape'
<1>1. CASE Sync
  <2>1. CASE \E e \in Clusters : SyncEs(e) \/ SyncCa(e)
    BY <2>1 DEF SyncEs, SyncCa, resourceVars, ClustersShape
  <2>2. CASE SyncApp \/ \E ns \in Namespaces : SyncUsers(ns)
    BY <2>2 DEF SyncApp, SyncUsers, resourceVars, ClustersShape
  <2> QED
    BY <1>1, <2>1, <2>2 DEF Sync
<1>2. CASE User
  BY <1>2 DEF User, EditRef, TogglePause, DeleteApp, EditSecureSettings, DeleteAuthSecret,
              DeleteCaCopy, DeleteUserSecret, cacheVars, ClustersShape
<1>3. CASE Elastic
  <2>1. PICK e \in Clusters :
          CreateCluster(e) \/ DeleteCluster(e) \/ PublishCA(e) \/ RotateCA(e) \/ ReconcileUsers(e)
    BY <1>3 DEF Elastic
  <2> QED
    BY <2>1 DEF CreateCluster, DeleteCluster, PublishCA, RotateCA, ReconcileUsers, cacheVars,
                ClustersShape
<1>4. CASE GarbageCollect \/ RollOut
  BY <1>4 DEF GarbageCollect, RollOut, cacheVars, ClustersShape
<1> QED
  BY <1>1, <1>2, <1>3, <1>4

LEMMA DetailsInit ==
  ASSUME StackInit
  PROVE  DetailsInv
<1>1. PICK s \in Scenarios :
        /\ kind = s.kind
        /\ app = IF s.new THEN NewApp(s.ref) ELSE EstablishedApp(s)
        /\ es = [e \in Clusters |-> e \in s.clusters]
        /\ ca = [e \in Clusters |-> IF e \in s.clusters /\ ~s.new THEN FirstCA(e) ELSE 0]
        /\ cApp = app /\ cEs = es /\ cCa = ca
        /\ authSecret = IF s.new THEN 0 ELSE 1
        /\ caCopy = IF s.new THEN 0 ELSE FirstCA(s.ref)
        /\ queues = [assoc |-> s.new, driver |-> s.new, es |-> {}]
  BY DEF StackInit, AssociatedInit
<1>2. /\ s.kind \in Kinds /\ s.new \in BOOLEAN /\ s.ref \in Clusters
      /\ s.new \/ s.ref \in s.clusters
  BY AssociatedAssumption
<1>3. assoc = IdleAssociation /\ assoc.pc = "idle"
  BY IdleFields DEF StackInit, AssociationInit
<1>4. queues \in Queues
  BY <1>1, <1>2 DEF Queues
<1>5. WatchesRecord(NewDynamicWatches)
  BY DEF NewDynamicWatches, WatchesRecord
<1>6. CASE s.new
  <2>1. app.status = ""
    BY <1>1, <1>6 DEF NewApp
  <2>2. assocWatches = NewDynamicWatches
    BY <2>1 DEF StackInit, AssociationInit
  <2>3. queues.assoc
    BY <1>1, <1>6
  <2> QED
    BY <1>1, <1>2, <1>3, <1>4, <1>5, <2>2, <2>3, AnnotationInit
       DEF DetailsInv, ShapeInv, PassInv, Unwritten, AfterWatch
<1>7. CASE ~s.new
  <2>1. /\ app.status = "Established" /\ app.ref = s.ref /\ app.exists
        /\ app.conf = [url |-> s.ref, ca |-> TRUE]
    BY <1>1, <1>7 DEF EstablishedApp, NewApp
  <2> DEFINE w == WatchCluster(NewDynamicWatches, s.ref)
  <2>2. assocWatches = WatchCA(w, s.ref)
    BY <2>1 DEF StackInit, AssociationInit
  <2>3. WatchesRecord(w) /\ WatchesCluster(w, s.ref)
    BY <1>5, WatchClusterDoes
  <2> HIDE DEF w
  <2>4. /\ WatchesRecord(assocWatches) /\ WatchesCluster(assocWatches, s.ref)
        /\ WatchesCA(assocWatches, s.ref)
    BY <2>2, <2>3, WatchClusterDoes
  <2>5. FirstCA(s.ref) # 0
    <3>1. 1 \in {c \in Secrets \ {0} : c % 2 = 1} /\ 2 \in {c \in Secrets \ {0} : c % 2 = 0}
      BY DEF Secrets
    <3>2. \E c \in CAsOf(s.ref) : \A other \in CAsOf(s.ref) : c <= other
      <4>1. CASE s.ref = FirstCluster
        <5>1. 1 \in CAsOf(s.ref)
          BY <3>1, <4>1 DEF CAsOf
        <5>2. \A other \in CAsOf(s.ref) : 1 <= other
          BY DEF CAsOf, Secrets
        <5> QED
          BY <5>1, <5>2
      <4>2. CASE s.ref # FirstCluster
        <5>1. 2 \in CAsOf(s.ref)
          BY <3>1, <4>2 DEF CAsOf
        <5>2. \A other \in CAsOf(s.ref) : other # 1
          BY <4>2 DEF CAsOf, Secrets
        <5>3. \A other \in CAsOf(s.ref) : 2 <= other
          BY <5>2 DEF CAsOf, Secrets
        <5> QED
          BY <5>1, <5>3
      <4> QED
        BY <4>1, <4>2
    <3>3. FirstCA(s.ref) \in CAsOf(s.ref)
      BY <3>2 DEF FirstCA
    <3> QED
      BY <3>3 DEF CAsOf
  <2>6. cEs[s.ref] /\ cCa[s.ref] = caCopy /\ caCopy # 0 /\ authSecret = 1
    BY <1>1, <1>2, <1>7, <2>5
  <2>7. AtRest
    <3>1. cApp.ref = s.ref /\ cApp.status = "Established" /\ cApp.conf = [url |-> s.ref, ca |-> TRUE]
      BY <1>1, <2>1
    <3>2. Settled(cApp.ref)
      BY <2>6, <3>1 DEF Settled, CopyOfCA
    <3>3. Details(cApp.ref) = cApp.conf
      BY <2>6, <3>1 DEF Details
    <3> QED
      BY <2>4, <3>1, <3>2, <3>3 DEF AtRest
  <2> QED
    BY <1>1, <1>2, <1>3, <1>4, <2>4, <2>7, AnnotationInit
       DEF DetailsInv, ShapeInv, PassInv, Unwritten, AfterWatch
<1> QED
  BY <1>2, <1>6, <1>7

LEMMA DetailsNext ==
  ASSUME DetailsInv, [StackNext]_stackVars
  PROVE  DetailsInv'
<1>1. AnnotationInv'
  BY AnnotationNext DEF DetailsInv
<1>2. ClustersShape /\ queues \in Queues /\ WatchesRecord(assocWatches)
  BY DEF DetailsInv, ShapeInv, ClustersShape
<1>3. SUFFICES PassInv' /\ ClustersShape' /\ Shaped
  BY <1>1, <1>3 DEF DetailsInv, ShapeInv, ClustersShape, Shaped, WatchesRecord
<1>4. CASE Associations
  BY <1>2, <1>4, AssociationsPass, ControllersLeaveTheClusters DEF PassStep, ClustersShape
<1>5. CASE Drivers /\ UNCHANGED associationVars
  <2>1. Undisturbed /\ queues' \in Queues /\ queues'.assoc = queues.assoc
    BY <1>5, DriversUndisturbing
  <2>2. assoc' = assoc /\ assocWatches' = assocWatches
    BY <1>5 DEF associationVars
  <2> QED
    BY <1>2, <1>5, <2>1, <2>2, OthersLeaveThePass, ControllersLeaveTheClusters
       DEF ClustersShape, Shaped
<1>6. CASE Environment
  <2>1. EnvironmentCalls
    BY <1>6, SyncCalls, UserCalls, ElasticCalls, KubernetesCalls DEF Environment
  <2>2. assoc' = assoc /\ assocWatches' = assocWatches
    BY <1>6 DEF Environment, associationVars
  <2>3. ClustersShape'
    BY <1>2, <1>6, EnvironmentShape DEF Environment
  <2> QED
    BY <1>2, <2>1, <2>2, <2>3, OthersLeaveThePass DEF EnvironmentCalls, Shaped
<1>7. CASE Crash
  <2>1. /\ assoc' = IdleAssociation /\ assocWatches' = NewDynamicWatches
        /\ queues' = [assoc |-> TRUE, driver |-> TRUE, es |-> Clusters]
        /\ cEs' = es /\ cCa' = ca /\ es' = es /\ ca' = ca /\ kind' = kind
    BY <1>7 DEF Crash, resourceVars
  <2>2. queues' \in Queues /\ queues'.assoc
    BY <2>1 DEF Queues
  <2>3. assoc'.pc = "idle"
    BY <2>1, IdleFields
  <2>4. WatchesRecord(assocWatches')
    BY <2>1 DEF NewDynamicWatches, WatchesRecord
  <2>5. ClustersShape'
    BY <1>2, <2>1 DEF ClustersShape
  <2> QED
    BY <2>2, <2>3, <2>4, <2>5, EndsBusy DEF Shaped
<1>8. CASE UNCHANGED stackVars
  <2>1. /\ assoc' = assoc /\ assocWatches' = assocWatches /\ queues' = queues /\ Undisturbed
        /\ ClustersShape'
    BY <1>2, <1>8 DEF stackVars, sharedVars, resourceVars, cacheVars, associationVars,
                      Undisturbed, ClustersShape
  <2> QED
    BY <1>2, <2>1, OthersLeaveThePass DEF Shaped
<1> QED
  BY <1>4, <1>5, <1>6, <1>7, <1>8 DEF StackNext, Associations, Drivers

\* Whatever is edited, rotated, deleted, late or failing: an association controller
\* that rests has connected its application to the cluster it refers to, its CA and
\* its password (association_controller.go, reconcileInternal).
THEOREM AssociationIsEstablished == StackSpec => []EstablishedWhenQuiet
<1>1. DetailsInv => EstablishedWhenQuiet
  <2> SUFFICES ASSUME DetailsInv, AssociationQuiet, Served, app.ref # NoCluster
               PROVE  /\ es[app.ref] /\ app.status = "Established"
                      /\ app.conf = [url |-> app.ref, ca |-> ca[app.ref] # 0]
                      /\ authSecret # 0
                      /\ ca[app.ref] # 0 => caCopy = ca[app.ref]
    BY DEF EstablishedWhenQuiet
  <2>1. AtRest
    BY DEF DetailsInv, PassInv, AssociationQuiet
  <2> QED
    BY <2>1 DEF AtRest, AssociationQuiet, Served, Referring, Settled, CopyOfCA, Details
<1> QED
  BY <1>1, DetailsInit, DetailsNext, PTL DEF StackSpec

-----------------------------------------------------------------------------
(***************************************************************************)
(* TemplateCurrent.  A pass of the application's controller uses what it   *)
(* made since it has read the application, unless an event of one of its   *)
(* secrets has called the controller again; the secure settings, which are *)
(* the user's, are watched before they are copied.                         *)
(***************************************************************************)
\* What a pass uses of the application it has read.
SameToDriver(a, c) ==
  /\ a.exists = c.exists /\ a.deleting = c.deleting
  /\ a.paused = c.paused /\ a.conf = c.conf /\ a.secure = c.secure

\* Where a pass is after its configuration: the orders differ.
Configured ==
  IF kind = "logstash" THEN {"service", "keystore", "deploy"} ELSE {"keystore", "deploy"}

SecureWatched(secure) ==
  secure => HasKey(driverWatches, SecureSettingsWatchName, {<<"settings">>})
Keystore(secure) == IF secure THEN settings.source ELSE 0
CurrentTemplate(a) ==
  IsConfigured(a.conf) =>
    /\ SecureWatched(a.secure)
    /\ app.exists =>
         /\ workload.template.ca = caCopy
         /\ kind # "apm" => workload.template.pw = authSecret
         /\ kind # "logstash" =>
              workload.template.config = [url |-> a.conf.url, pw |-> authSecret, ca |-> TRUE]
         /\ workload.template.keystore = Keystore(a.secure)

DriverInPass ==
  /\ SameToDriver(driver.read, cApp)
  /\ driver.pc \in Configured /\ app.exists /\ (kind = "apm" => IsConfigured(driver.read.conf)) =>
       workload.config = Settings(driver.read.conf)
  /\ driver.pc = "deploy" =>
       /\ SecureWatched(driver.read.secure)
       /\ app.exists => settings.copy = Keystore(driver.read.secure)
  /\ driver.pc = "status" => CurrentTemplate(driver.read)

DriverAtRest == cApp.exists /\ ~cApp.deleting /\ ~cApp.paused => CurrentTemplate(cApp)

DriverPassInv ==
  /\ driver.pc \in Deploys \cup {"idle", "compatible", "finalizers"}
  /\ driver.pc # "idle" /\ ~queues.driver => DriverInPass
  /\ driver.pc = "idle" /\ ~queues.driver => DriverAtRest

RecordsShape ==
  /\ {"service", "token", "config", "template", "running"} \subseteq DOMAIN workload
  /\ {"source", "copy"} \subseteq DOMAIN settings

TemplateInv == DetailsInv /\ RecordsShape /\ DriverPassInv

-----------------------------------------------------------------------------
\* What others leave to the application's controller, or call it for.
DriverUndisturbed ==
  /\ cApp' = cApp
  /\ app'.exists =>
       /\ app.exists /\ authSecret' = authSecret /\ caCopy' = caCopy
       /\ workload'.config = workload.config /\ workload'.template = workload.template
       /\ settings'.copy = settings.copy
  /\ HasKey(driverWatches, SecureSettingsWatchName, {<<"settings">>}) =>
       settings'.source = settings.source

CallsDriver ==
  queues'.driver \/ (queues'.driver = queues.driver /\ DriverUndisturbed)

LEMMA OthersLeaveTheDriver ==
  ASSUME TemplateInv, driver' = driver, driverWatches' = driverWatches, kind' = kind,
         CallsDriver
  PROVE  DriverPassInv'
<1>1. CASE queues'.driver
  BY <1>1 DEF TemplateInv, DriverPassInv
<1>2. CASE ~queues'.driver
  <2>1. ~queues.driver /\ DriverUndisturbed
    BY <1>2 DEF CallsDriver
  <2>2. \A s : SecureWatched(s)' = SecureWatched(s)
    BY DEF SecureWatched, HasKey
  <2>3. \A s : SecureWatched(s) => Keystore(s)' = Keystore(s)
    BY <2>1 DEF DriverUndisturbed, SecureWatched, Keystore
  <2>4. ASSUME driver.pc # "idle" PROVE DriverInPass'
    <3>1. DriverInPass
      BY <2>1, <2>4 DEF TemplateInv, DriverPassInv
    <3>2. app'.exists => Settings(driver.read.conf)' = Settings(driver.read.conf)
      BY <2>1 DEF DriverUndisturbed, Settings, KibanaSettings, PipelineConfigMap, ApmSettings,
                  ElasticsearchAuthSettings
    <3>3. driver.pc = "status" => CurrentTemplate(driver.read)'
      BY <2>1, <2>2, <2>3, <3>1 DEF DriverInPass, CurrentTemplate, DriverUndisturbed
    <3> QED
      BY <2>1, <2>2, <2>3, <3>1, <3>2, <3>3
         DEF DriverInPass, DriverUndisturbed, SameToDriver, Configured
  <2>5. ASSUME driver.pc = "idle" PROVE DriverAtRest'
    <3>1. DriverAtRest
      BY <2>1, <2>5 DEF TemplateInv, DriverPassInv
    <3> QED
      BY <2>1, <2>2, <2>3, <3>1 DEF DriverAtRest, CurrentTemplate, DriverUndisturbed
  <2> QED
    BY <1>2, <2>4, <2>5 DEF TemplateInv, DriverPassInv
<1> QED
  BY <1>1, <1>2

\* The steps of the association: what they change of the secrets calls the driver.
LEMMA ReturnsLeaveTheDriver ==
  ASSUME NEW q \in Queues
  PROVE  /\ \A r, s, f : ReturnStatus(q, r, s, f) => queues'.driver = q.driver
         /\ q = queues => \A f : FinishAssociation(f) => queues'.driver = q.driver
<1>1. ASSUME NEW r, NEW s, NEW f, ReturnStatus(q, r, s, f) PROVE queues'.driver = q.driver
  BY <1>1 DEF ReturnStatus, Queues
<1>2. ASSUME q = queues, NEW f, FinishAssociation(f) PROVE queues'.driver = q.driver
  BY <1>2 DEF FinishAssociation, Queues
<1> QED
  BY <1>1, <1>2

LEMMA UpdateExists ==
  ASSUME NEW n, NEW r, NEW o, UpdateApp(n, r, o), r.exists
  PROVE  app'.exists => app.exists
BY DEF UpdateApp, Conflicts

SecretsCall ==
  \/ queues'.driver
  \/ queues'.driver = queues.driver /\ authSecret' = authSecret /\ caCopy' = caCopy

LEMMA AssociationsCallTheDriver ==
  ASSUME TemplateInv, Associations
  PROVE  SecretsCall /\ (app'.exists => app.exists)
<1>1. /\ queues \in Queues /\ OwnedSecretChanged(queues) \in Queues
      /\ OwnedSecretChanged(queues).driver
      /\ assoc.pc # "idle" => assoc.read.exists
  BY PassFields, EventsCall DEF TemplateInv
<1>2. CASE FetchWithAssociation
  BY <1>1, <1>2 DEF FetchWithAssociation, resourceVars, Queues, SecretsCall
<1>3. CASE RunFinalizers
  BY <1>3 DEF RunFinalizers, SecretsCall
<1>4. CASE UpdateFinalizers
  <2>1. authSecret' = authSecret /\ caCopy' = caCopy /\ assoc.read.exists
    BY <1>1, <1>4 DEF UpdateFinalizers
  <2>2. (\E f : FinishAssociation(f)) \/ queues' = queues
    BY <1>4 DEF UpdateFinalizers
  <2>3. app' = app \/ \E n, o : UpdateApp(n, assoc.read, o)
    BY <1>4 DEF UpdateFinalizers
  <2> QED
    BY <1>1, <2>1, <2>2, <2>3, ReturnsLeaveTheDriver, UpdateExists DEF SecretsCall
<1>5. CASE CheckCompatible
  <2>1. authSecret' = authSecret /\ caCopy' = caCopy /\ assoc.read.exists
    BY <1>1, <1>5 DEF CheckCompatible
  <2>2. (\E f : FinishAssociation(f)) \/ queues' = queues
    BY <1>5 DEF CheckCompatible
  <2>3. app' = app \/ \E n, o : UpdateApp(n, assoc.read, o)
    BY <1>5 DEF CheckCompatible
  <2> QED
    BY <1>1, <2>1, <2>2, <2>3, ReturnsLeaveTheDriver, UpdateExists DEF SecretsCall
<1>6. CASE UpdateAssociationStatus
  <2>1. authSecret' = authSecret /\ caCopy' = caCopy /\ assoc.read.exists
    BY <1>1, <1>6 DEF UpdateAssociationStatus
  <2>2. (\E f : FinishAssociation(f)) /\ \E n, o : UpdateApp(n, assoc.read, o)
    BY <1>6 DEF UpdateAssociationStatus
  <2> QED
    BY <1>1, <2>1, <2>2, ReturnsLeaveTheDriver, UpdateExists DEF SecretsCall
<1>7. CASE WatchReference
  <2>1. PICK o \in Outcomes :
          LET left == DeleteOrphanedResources(assoc.read.ref)
              q == IF Applied(o) /\ (left.auth # authSecret \/ left.ca # caCopy)
                     THEN OwnedSecretChanged(queues) ELSE queues
          IN /\ IF Applied(o) THEN authSecret' = left.auth /\ caCopy' = left.ca
                              ELSE UNCHANGED <<authSecret, caCopy>>
             /\ queues' = q \/ \E r, s, f : ReturnStatus(q, r, s, f)
    BY <1>7 DEF WatchReference
  <2>2. PICK q \in {queues, OwnedSecretChanged(queues)} :
          /\ queues' = q \/ \E r, s, f : ReturnStatus(q, r, s, f)
          /\ q = OwnedSecretChanged(queues) \/ (authSecret' = authSecret /\ caCopy' = caCopy)
    BY <2>1
  <2>3. app' = app
    BY <1>7 DEF WatchReference
  <2> QED
    BY <1>1, <2>2, <2>3, ReturnsLeaveTheDriver DEF SecretsCall
<1>8. CASE ApmWatchReference
  <2>1. (\E r, s, f : ReturnStatus(queues, r, s, f)) \/ queues' = queues
    BY <1>8 DEF ApmWatchReference
  <2> QED
    BY <1>1, <1>8, <2>1, ReturnsLeaveTheDriver DEF SecretsCall, ApmWatchReference, resourceVars
<1>9. CASE GetElasticsearch
  <2>1. authSecret' = authSecret /\ caCopy' = caCopy /\ assoc.read.exists
    BY <1>1, <1>9 DEF GetElasticsearch
  <2>2. (\E r, s, f : ReturnStatus(queues, r, s, f)) \/ queues' = queues
    BY <1>9 DEF GetElasticsearch
  <2>3. app' = app \/ \E n, o : UpdateApp(n, assoc.read, o)
    BY <1>9 DEF GetElasticsearch
  <2> QED
    BY <1>1, <2>1, <2>2, <2>3, ReturnsLeaveTheDriver, UpdateExists DEF SecretsCall
<1>10. CASE ReconcileAuthSecret
  <2>1. PICK q \in {queues, OwnedSecretChanged(queues)} :
          /\ queues' = q \/ \E r, s, f : ReturnStatus(q, r, s, f)
          /\ q = OwnedSecretChanged(queues) \/ authSecret' = authSecret
    BY <1>10 DEF ReconcileAuthSecret
  <2>2. app' = app /\ caCopy' = caCopy
    BY <1>10 DEF ReconcileAuthSecret
  <2> QED
    BY <1>1, <2>1, <2>2, ReturnsLeaveTheDriver DEF SecretsCall
<1>11. CASE ReconcileEsUser
  <2>1. (\E r, s, f : ReturnStatus(queues, r, s, f)) \/ queues' = queues
    BY <1>11 DEF ReconcileEsUser
  <2> QED
    BY <1>1, <1>11, <2>1, ReturnsLeaveTheDriver DEF SecretsCall, ReconcileEsUser
<1>12. CASE ReconcileElasticsearchCA
  <2>1. PICK q \in {queues, OwnedSecretChanged(queues)} :
          /\ queues' = q \/ \E r, s, f : ReturnStatus(q, r, s, f)
          /\ q = OwnedSecretChanged(queues) \/ caCopy' = caCopy
    BY <1>12 DEF ReconcileElasticsearchCA
  <2>2. app' = app /\ authSecret' = authSecret
    BY <1>12 DEF ReconcileElasticsearchCA
  <2> QED
    BY <1>1, <2>1, <2>2, ReturnsLeaveTheDriver DEF SecretsCall
<1>13. CASE UpdateAssociationConf
  <2>1. authSecret' = authSecret /\ caCopy' = caCopy /\ assoc.read.exists
    BY <1>1, <1>13 DEF UpdateAssociationConf
  <2>2. \E r, s, f : ReturnStatus(queues, r, s, f)
    BY <1>13 DEF UpdateAssociationConf
  <2>3. app' = app \/ \E n, o : UpdateApp(n, assoc.read, o)
    BY <1>13 DEF UpdateAssociationConf
  <2> QED
    BY <1>1, <2>1, <2>2, <2>3, ReturnsLeaveTheDriver, UpdateExists DEF SecretsCall
<1> QED
  BY <1>2, <1>3, <1>4, <1>5, <1>6, <1>7, <1>8, <1>9, <1>10, <1>11, <1>12, <1>13,
     AssociationsAre

LEMMA AssociationsLeaveTheSettings ==
  ASSUME Associations
  PROVE  settings' = settings
BY AssociationsAre
   DEF FetchWithAssociation, RunFinalizers, UpdateFinalizers, CheckCompatible,
       UpdateAssociationStatus, WatchReference, ApmWatchReference, GetElasticsearch,
       ReconcileAuthSecret, ReconcileEsUser, ReconcileElasticsearchCA, UpdateAssociationConf,
       resourceVars

\* The steps of Kubernetes, the caches, the clusters and the user.
LEMMA SyncCallsTheDriver ==
  ASSUME TemplateInv, Sync
  PROVE  CallsDriver
<1>1. queues \in Queues
  BY PassFields DEF TemplateInv
<1>2. CASE SyncApp
  BY <1>1, <1>2 DEF SyncApp, AppEvent, Queues, CallsDriver
<1>3. CASE \E e \in Clusters : SyncEs(e) \/ SyncCa(e)
  <2>1. PICK e \in Clusters : SyncEs(e) \/ SyncCa(e)
    BY <1>3
  <2>2. queues'.driver = queues.driver
    BY <1>1, <2>1 DEF SyncEs, SyncCa, EsEvent, CaEvent, Queues
  <2> QED
    BY <1>3, <2>2 DEF SyncEs, SyncCa, resourceVars, CallsDriver, DriverUndisturbed
<1>4. CASE \E ns \in Namespaces : SyncUsers(ns)
  <2>1. queues' = queues \/ \E x, y : queues' = [queues EXCEPT !.assoc = x, !.es = y]
    BY <1>4 DEF SyncUsers, UserChanged
  <2>2. queues'.driver = queues.driver
    BY <1>1, <2>1 DEF Queues
  <2> QED
    BY <1>4, <2>2 DEF SyncUsers, resourceVars, CallsDriver, DriverUndisturbed
<1> QED
  BY <1>2, <1>3, <1>4 DEF Sync

LEMMA UserCallsTheDriver ==
  ASSUME TemplateInv, User
  PROVE  CallsDriver
<1>1. queues \in Queues /\ app \in Apps
  BY PassFields DEF TemplateInv
<1>2. CASE DeleteAuthSecret \/ DeleteCaCopy
  <2>1. PICK name : queues' = OwnedSecretEvent(queues, name)
    BY <1>2 DEF DeleteAuthSecret, DeleteCaCopy
  <2>2. queues'.driver
    BY <1>1, <2>1 DEF OwnedSecretEvent, OwnedSecretChanged, Queues
  <2> QED
    BY <2>2 DEF CallsDriver
<1>3. CASE \E ns \in Namespaces : DeleteUserSecret(ns)
  BY <1>3 DEF DeleteUserSecret, cacheVars, CallsDriver, DriverUndisturbed
<1>4. CASE EditRef \/ TogglePause \/ DeleteApp
  BY <1>4 DEF EditRef, TogglePause, DeleteApp, Edit, cacheVars, CallsDriver, DriverUndisturbed
<1>5. CASE EditSecureSettings
  <2>1. /\ app.exists /\ cApp' = cApp /\ authSecret' = authSecret /\ caCopy' = caCopy
        /\ workload' = workload
    BY <1>5 DEF EditSecureSettings, Edit, cacheVars
  <2>2. CASE UNCHANGED <<settings, queues>>
    BY <2>1, <2>2 DEF CallsDriver, DriverUndisturbed
  <2>3. CASE /\ \E v \in 1 .. 2 : settings' = [settings EXCEPT !.source = v]
             /\ queues' = SettingsEvent(queues)
    <3> DEFINE b == Enqueues(driverWatches, <<"settings">>)
    <3>1. HasKey(driverWatches, SecureSettingsWatchName, {<<"settings">>}) => b
      BY Registered
    <3>2. b \in BOOLEAN
      BY DEF Enqueues
    <3>3. queues' = [queues EXCEPT !.driver = @ \/ b]
      BY <2>3 DEF SettingsEvent
    <3>4. settings'.copy = settings.copy
      BY <2>3 DEF TemplateInv, RecordsShape
    <3> HIDE DEF b
    <3>5. CASE b
      BY <1>1, <3>3, <3>5 DEF Queues, CallsDriver
    <3>6. CASE ~b
      BY <1>1, <2>1, <3>1, <3>3, <3>4, <3>6 DEF Queues, CallsDriver, DriverUndisturbed
    <3> QED
      BY <3>5, <3>6
  <2> QED
    BY <1>5, <2>2, <2>3 DEF EditSecureSettings
<1> QED
  BY <1>2, <1>3, <1>4, <1>5 DEF User

LEMMA OthersCallTheDriver ==
  ASSUME TemplateInv, Elastic \/ GarbageCollect \/ RollOut
  PROVE  CallsDriver
<1>1. queues \in Queues
  BY PassFields DEF TemplateInv
<1>2. CASE Elastic
  <2>1. /\ UNCHANGED <<app, authSecret, caCopy, cApp, workload, settings>>
        /\ queues' = queues \/ \E e : queues' = [queues EXCEPT !.es = @ \ {e}]
    BY <1>2 DEF Elastic, CreateCluster, DeleteCluster, PublishCA, RotateCA, ReconcileUsers,
                cacheVars
  <2>2. queues'.driver = queues.driver
    BY <1>1, <2>1 DEF Queues
  <2> QED
    BY <2>1, <2>2 DEF CallsDriver, DriverUndisturbed
<1>3. CASE GarbageCollect
  <2>1. queues' = queues /\ app' = app /\ cApp' = cApp
    BY <1>3 DEF GarbageCollect, cacheVars
  <2>2. CASE app.exists
    BY <1>3, <2>1, <2>2 DEF GarbageCollect, CallsDriver, DriverUndisturbed
  <2>3. CASE ~app.exists
    <3>1. settings'.source = settings.source
      BY <1>3 DEF GarbageCollect, TemplateInv, RecordsShape
    <3> QED
      BY <2>1, <2>3, <3>1 DEF CallsDriver, DriverUndisturbed
  <2> QED
    BY <2>2, <2>3
<1>4. CASE RollOut
  BY <1>1, <1>4 DEF RollOut, DeploymentEvent, Queues, CallsDriver
<1> QED
  BY <1>2, <1>3, <1>4

-----------------------------------------------------------------------------
(***************************************************************************)
(* The steps of the application's controller.                              *)
(***************************************************************************)
LEMMA DriverFields ==
  ASSUME TemplateInv
  PROVE  /\ queues \in Queues /\ {"pc", "read", "mine"} \subseteq DOMAIN driver
         /\ driver.read \in Apps /\ cApp \in Apps /\ kind \in Kinds
         /\ driver.pc # "idle" => driver.read.exists
         /\ driver.pc # "idle" /\ ~queues.driver => DriverInPass
BY DEF TemplateInv, DetailsInv, ShapeInv, AnnotationInv, DriverPassOf, CopyOf, DriverPassInv

LEMMA IdleDriverFields ==
  /\ IdleDriver.pc = "idle"
  /\ \A p, r : /\ [IdleDriver EXCEPT !.read = r, !.pc = p].pc = p
               /\ [IdleDriver EXCEPT !.read = r, !.pc = p].read = r
               /\ [IdleDriver EXCEPT !.pc = p, !.read = r].pc = p
               /\ [IdleDriver EXCEPT !.pc = p, !.read = r].read = r
BY DEF IdleDriver

LEMMA DriverFinishes ==
  ASSUME TemplateInv, NEW f \in BOOLEAN, FinishDriver(f), ~f /\ ~queues.driver => DriverAtRest'
  PROVE  DriverPassInv'
<1>1. driver'.pc = "idle"
  BY IdleDriverFields DEF FinishDriver
<1>2. queues'.driver <=> queues.driver \/ f
  BY DriverFields DEF FinishDriver, Queues
<1> QED
  BY <1>1, <1>2 DEF DriverPassInv

LEMMA DriverStarts ==
  ASSUME TemplateInv, NEW a \in Apps, kind' = kind, cApp' = cApp,
         driver' \in {StartDriver(a), AfterDriverFinalizers(a), BeforeDriverFinalizers(a),
                      FetchedByDriver(a)},
         ~queues'.driver => SameToDriver(a, cApp)
  PROVE  DriverPassInv'
<1> DEFINE u == UpdateControllerVersion(a)
<1>1. SameToDriver(u, a) /\ SameToDriver(a, a)
  BY OtherFieldsOf DEF SameToDriver
<1>2. PICK r \in {a, u}, p \in Deploys \cup {"compatible", "finalizers"} :
        /\ driver' = [IdleDriver EXCEPT !.read = r, !.pc = p]
        /\ p = "status" => kind # "apm" /\ ~IsConfigured(a.conf)
        /\ p = "service" => kind # "logstash"
        /\ p \notin {"keystore", "deploy"}
  <2>1. ASSUME NEW r, NEW p
        PROVE  [IdleDriver EXCEPT !.pc = p, !.read = r] = [IdleDriver EXCEPT !.read = r, !.pc = p]
    BY DEF IdleDriver
  <2>2. driver' = StartDriver(a) \/ driver' = [IdleDriver EXCEPT !.read = a, !.pc = "compatible"]
          \/ driver' = [IdleDriver EXCEPT !.read = a, !.pc = "finalizers"]
    BY <2>1 DEF AfterDriverFinalizers, BeforeDriverFinalizers, FetchedByDriver
  <2>3. CASE driver' = StartDriver(a)
    <3> DEFINE p == IF kind # "apm" /\ ~IsConfigured(a.conf) THEN "status"
                    ELSE IF kind = "logstash" THEN "config" ELSE "service"
    <3>1. /\ p \in Deploys /\ p \notin {"keystore", "deploy"}
          /\ p = "status" => kind # "apm" /\ ~IsConfigured(a.conf)
          /\ p = "service" => kind # "logstash"
      BY DEF Deploys
    <3>2. driver' = [IdleDriver EXCEPT !.read = u, !.pc = p]
      BY <2>3 DEF StartDriver
    <3> HIDE DEF p
    <3> QED
      BY <3>1, <3>2
  <2>4. CASE driver' = [IdleDriver EXCEPT !.read = a, !.pc = "compatible"]
    BY <2>4
  <2>5. CASE driver' = [IdleDriver EXCEPT !.read = a, !.pc = "finalizers"]
    BY <2>5
  <2> QED
    BY <2>2, <2>3, <2>4, <2>5
<1> HIDE DEF u
<1>3. driver'.pc = p /\ driver'.read = r
  BY <1>2, IdleDriverFields
<1>4. ~queues'.driver => SameToDriver(r, cApp)
  BY <1>1, <1>2 DEF SameToDriver
<1>5. p = "status" => ~IsConfigured(r.conf)
  BY <1>1, <1>2 DEF SameToDriver
<1>6. ~queues'.driver => DriverInPass'
  <2>1. p \notin Configured
    BY <1>2 DEF Configured
  <2>2. (driver.pc \notin Configured)' /\ (driver.pc # "deploy")'
    BY <1>2, <1>3, <2>1 DEF Configured
  <2>3. driver'.pc = "status" => CurrentTemplate(driver.read)'
    BY <1>3, <1>5 DEF CurrentTemplate
  <2> QED
    BY <1>3, <1>4, <2>2, <2>3 DEF DriverInPass
<1>7. driver'.pc \in Deploys \cup {"compatible", "finalizers"} /\ driver'.pc # "idle"
  BY <1>2, <1>3 DEF Deploys
<1> QED
  BY <1>6, <1>7 DEF DriverPassInv

LEMMA FetchAppStep ==
  ASSUME TemplateInv, FetchApp
  PROVE  DriverPassInv'
<1>1. driver.pc = "idle" /\ queues.driver /\ cApp' = cApp /\ kind' = kind
  BY DEF FetchApp, sharedButWorkload, cacheVars
<1>2. CASE UNCHANGED <<driver, queues>>
  BY <1>1, <1>2 DEF DriverPassInv
<1>3. CASE queues' = [queues EXCEPT !.driver = FALSE]
           /\ driver' = IF cApp.exists THEN FetchedByDriver(cApp) ELSE driver
  <2>1. CASE cApp.exists
    BY <1>1, <1>3, <2>1, DriverFields, DriverStarts DEF SameToDriver
  <2>2. CASE ~cApp.exists
    BY <1>1, <1>3, <2>2 DEF DriverPassInv, DriverAtRest
  <2> QED
    BY <2>1, <2>2
<1> QED
  BY <1>2, <1>3 DEF FetchApp

LEMMA DriverCompatibleStep ==
  ASSUME TemplateInv, DriverCompatible
  PROVE  DriverPassInv'
<1> DEFINE r == driver.read
           n == ReconcileCompatibility(r)
           writes == n # r
<1>1. driver.pc = "compatible" /\ cApp' = cApp /\ kind' = kind
  BY DEF DriverCompatible, sharedButWorkload, cacheVars
<1>2. \/ FinishDriver(TRUE)
      \/ (writes => ~Conflicts(r)) /\ ~IsCompatible(n)
      \/ /\ IsCompatible(n) /\ queues' = queues
         /\ driver' \in {StartDriver(n), BeforeDriverFinalizers(n)}
  BY DEF DriverCompatible
<1>3. CASE FinishDriver(TRUE)
  BY <1>3, DriverFinishes
<1>4. CASE (writes => ~Conflicts(r)) /\ ~IsCompatible(n)
  <2>1. HeldOf(r, app) /\ AnnotationInv
    BY <1>1 DEF TemplateInv, DetailsInv, AnnotationInv, DriverPassOf, HeldOf
  <2>2. CASE n # r
    BY <1>4, <2>1, <2>2, OldCopyConflicts DEF IsCompatible
  <2>3. CASE n = r
    BY <1>4, <2>3, DriverFields DEF IsCompatible, ReconcileCompatibility, Apps
  <2> QED
    BY <2>2, <2>3
<1>5. CASE /\ IsCompatible(n) /\ queues' = queues
           /\ driver' \in {StartDriver(n), BeforeDriverFinalizers(n)}
  <2>1. r \in Apps
    BY DriverFields
  <2>2. n \in Apps
    BY <1>5, <2>1, RecordFields DEF ReconcileCompatibility, IsCompatible, Apps
  <2>3. SameToDriver(n, r)
    BY <2>1, OtherFieldsOf DEF SameToDriver
  <2> HIDE DEF n
  <2>4. ~queues'.driver => SameToDriver(n, cApp)
    BY <1>1, <1>5, <2>3, DriverFields DEF DriverInPass, SameToDriver
  <2> QED
    BY <1>1, <1>5, <2>2, <2>4, DriverStarts
<1> QED
  BY <1>2, <1>3, <1>4, <1>5

LEMMA DriverFinalizeStep ==
  ASSUME TemplateInv, DriverFinalize
  PROVE  DriverPassInv'
<1> DEFINE r == driver.read
           n == Handle(r, DriverFinalizers)
<1>1. driver.pc = "finalizers" /\ cApp' = cApp /\ kind' = kind
  BY DEF DriverFinalize, sharedButWorkload, cacheVars
<1>2. \/ FinishDriver(TRUE)
      \/ r.deleting /\ FinishDriver(FALSE)
      \/ queues' = queues /\ driver' = AfterDriverFinalizers(n)
  BY DEF DriverFinalize
<1>3. CASE FinishDriver(TRUE)
  BY <1>3, DriverFinishes
<1>4. CASE r.deleting /\ FinishDriver(FALSE)
  <2>1. ~queues.driver => DriverAtRest'
    BY <1>1, <1>4, DriverFields DEF DriverInPass, SameToDriver, DriverAtRest
  <2> QED
    BY <1>4, <2>1, DriverFinishes
<1>5. CASE queues' = queues /\ driver' = AfterDriverFinalizers(n)
  <2>1. r \in Apps
    BY DriverFields
  <2>2. n \in Apps
    <3>1. r.finalizers \in SUBSET AllFinalizers
      BY <2>1 DEF Apps
    <3>2. DriverFinalizers \subseteq AllFinalizers
      BY DEF DriverFinalizers, AllFinalizers
    <3> QED
      BY <2>1, <3>1, <3>2, RecordFields DEF Handle, ReconcileFinalizers, ExecuteFinalizers
  <2>3. SameToDriver(n, r)
    BY <2>1, OtherFieldsOf DEF SameToDriver
  <2> HIDE DEF n
  <2>4. ~queues'.driver => SameToDriver(n, cApp)
    BY <1>1, <1>5, <2>3, DriverFields DEF DriverInPass, SameToDriver
  <2> QED
    BY <1>1, <1>5, <2>2, <2>4, DriverStarts
<1> QED
  BY <1>2, <1>3, <1>4, <1>5

\* A step that takes the pass to p.
LEMMA DriverGoesTo ==
  ASSUME TemplateInv, NEW p \in Deploys, DriverGoto(p), queues' = queues, cApp' = cApp,
         ~queues.driver /\ SameToDriver(driver.read, cApp) =>
           /\ p \in Configured /\ app'.exists
                /\ (kind' = "apm" => IsConfigured(driver.read.conf)) =>
                  workload'.config = Settings(driver.read.conf)'
           /\ p = "deploy" =>
                /\ SecureWatched(driver.read.secure)'
                /\ app'.exists => settings'.copy = Keystore(driver.read.secure)'
           /\ p = "status" => CurrentTemplate(driver.read)',
         driver.pc # "idle", kind' = kind
  PROVE  DriverPassInv'
<1>1. driver'.pc = p /\ driver'.read = driver.read /\ p # "idle"
  BY DriverFields DEF DriverGoto, Deploys
<1>2. ~queues.driver => SameToDriver(driver.read, cApp)
  BY DriverFields DEF DriverInPass
<1>3. ~queues'.driver => DriverInPass'
  BY <1>1, <1>2 DEF DriverInPass, SameToDriver, Configured
<1> QED
  BY <1>1, <1>3 DEF DriverPassInv

LEMMA DriverServiceStep ==
  ASSUME TemplateInv, DriverService
  PROVE  DriverPassInv'
<1> DEFINE p == IF kind = "logstash" THEN "keystore" ELSE "config"
<1>1. /\ driver.pc = "service" /\ cApp' = cApp /\ kind' = kind /\ app' = app
      /\ authSecret' = authSecret
      /\ FinishDriver(TRUE) \/ (DriverGoto(p) /\ queues' = queues)
      /\ workload' = workload \/ workload' = [workload EXCEPT !.service = TRUE]
  BY DEF DriverService, sharedButWorkload, cacheVars
<1>2. CASE FinishDriver(TRUE)
  BY <1>2, DriverFinishes
<1>3. CASE DriverGoto(p) /\ queues' = queues
  <2>1. workload'.config = workload.config
    BY <1>1 DEF TemplateInv, RecordsShape
  <2>2. Settings(driver.read.conf)' = Settings(driver.read.conf)
    <3>1. driver'.read = driver.read
      BY <1>3, DriverFields DEF DriverGoto
    <3> QED
      BY <1>1, <3>1 DEF Settings, KibanaSettings, PipelineConfigMap, ApmSettings,
                        ElasticsearchAuthSettings
  <2>3. p \in Configured => driver.pc \in Configured
    BY <1>1 DEF Configured
  <2>4. p \in Deploys /\ p \notin {"deploy", "status"} /\ driver.pc # "idle"
    BY <1>1 DEF Deploys
  <2> HIDE DEF p
  <2> QED
    BY <1>1, <1>3, <2>1, <2>2, <2>3, <2>4, DriverFields, DriverGoesTo DEF DriverInPass
<1> QED
  BY <1>1, <1>2, <1>3

LEMMA DriverConfigStep ==
  ASSUME TemplateInv, DriverConfig
  PROVE  DriverPassInv'
<1> DEFINE p == IF kind = "logstash" THEN "service" ELSE "keystore"
           conf == driver.read.conf
<1>1. /\ driver.pc = "config" /\ cApp' = cApp /\ kind' = kind
      /\ authSecret' = authSecret
      /\ \/ FinishDriver(TRUE)
         \/ /\ DriverGoto(p) /\ queues' = queues
            /\ workload' = [workload EXCEPT !.config = Settings(conf), !.token = (kind = "apm")]
  BY DEF DriverConfig, sharedButWorkload, cacheVars, Applied
<1>2. CASE FinishDriver(TRUE)
  BY <1>2, DriverFinishes
<1>3. CASE /\ DriverGoto(p) /\ queues' = queues
           /\ workload' = [workload EXCEPT !.config = Settings(conf), !.token = (kind = "apm")]
  <2>1. workload'.config = Settings(conf)
    BY <1>3 DEF TemplateInv, RecordsShape
  <2>2. Settings(conf)' = Settings(conf)
    <3>1. driver'.read = driver.read
      BY <1>3, DriverFields DEF DriverGoto
    <3> QED
      BY <1>1, <3>1 DEF Settings, KibanaSettings, PipelineConfigMap, ApmSettings,
                        ElasticsearchAuthSettings
  <2>3. p \in Deploys /\ p \notin {"deploy", "status"} /\ driver.pc # "idle"
    BY <1>1 DEF Deploys
  <2> HIDE DEF p
  <2> QED
    BY <1>1, <1>3, <2>1, <2>2, <2>3, DriverGoesTo
<1> QED
  BY <1>1, <1>2, <1>3

LEMMA DriverKeystoreStep ==
  ASSUME TemplateInv, DriverKeystore
  PROVE  DriverPassInv'
<1> DEFINE secure == driver.read.secure
           new == IF secure THEN settings.source ELSE 0
<1>1. /\ driver.pc = "keystore" /\ cApp' = cApp /\ kind' = kind /\ app' = app
      /\ authSecret' = authSecret /\ workload' = workload
      /\ driverWatches' = WatchSecureSettings(driverWatches, secure)
      /\ \/ FinishDriver(TRUE)
         \/ /\ DriverGoto("deploy") /\ queues' = queues
            /\ settings' = [settings EXCEPT !.copy = new]
  BY DEF DriverKeystore, sharedButWorkload, cacheVars, Applied
<1>2. CASE FinishDriver(TRUE)
  BY <1>2, DriverFinishes
<1>3. CASE /\ DriverGoto("deploy") /\ queues' = queues
           /\ settings' = [settings EXCEPT !.copy = new]
  <2>1. driver'.read = driver.read
    BY <1>3, DriverFields DEF DriverGoto
  <2>2. Settings(driver.read.conf)' = Settings(driver.read.conf)
    BY <1>1, <2>1 DEF Settings, KibanaSettings, PipelineConfigMap, ApmSettings,
                      ElasticsearchAuthSettings
  <2>3. "deploy" \in Configured => driver.pc \in Configured
    BY <1>1 DEF Configured
  <2>4. SecureWatched(secure)'
    BY <1>1, <2>1, Registered DEF SecureWatched, WatchSecureSettings
  <2>5. settings'.copy = Keystore(secure)'
    BY <1>3, <2>1 DEF Keystore, TemplateInv, RecordsShape
  <2>6. "deploy" \in Deploys /\ driver.pc # "idle"
    BY <1>1 DEF Deploys
  <2> QED
    BY <1>1, <1>3, <2>2, <2>3, <2>4, <2>5, <2>6, DriverFields, DriverGoesTo DEF DriverInPass
<1> QED
  BY <1>1, <1>2, <1>3

\* What the configuration and the template are once the details are complete.
LEMMA ConfiguredTemplate ==
  ASSUME NEW a, IsConfigured(a.conf), kind \in Kinds,
         workload.config = Settings(a.conf)
  PROVE  /\ Template(a).ca = caCopy /\ Template(a).keystore = settings.copy
         /\ kind # "apm" => Template(a).pw = authSecret
         /\ kind # "logstash" =>
              Template(a).config = [url |-> a.conf.url, pw |-> authSecret, ca |-> a.conf.ca]
<1>1. AuthIsConfigured(a.conf) /\ CAIsConfigured(a.conf) /\ a.conf.ca
  BY DEF IsConfigured, CAIsConfigured
<1>2. kind # "logstash" => workload.config = [url |-> a.conf.url, pw |-> authSecret, ca |-> a.conf.ca]
  BY <1>1 DEF Settings, KibanaSettings, ApmSettings, ElasticsearchAuthSettings, Kinds
<1>3. KibanaTemplate(a) = [exists |-> TRUE, keystore |-> settings.copy, pw |-> authSecret,
                           ca |-> caCopy, config |-> workload.config]
  BY <1>1 DEF KibanaTemplate, ElasticsearchAuthSettings
<1>4. /\ kind = "kibana" => Template(a) = KibanaTemplate(a)
      /\ kind = "logstash" => Template(a) = LogstashTemplate(a)
      /\ kind = "apm" => Template(a) = ApmTemplate(a)
  BY DEF Template
<1> QED
  BY <1>2, <1>3, <1>4 DEF LogstashTemplate, ApmTemplate, Kinds

LEMMA DriverDeployStep ==
  ASSUME TemplateInv, DriverDeploy
  PROVE  DriverPassInv'
<1> DEFINE a == driver.read
<1>1. /\ driver.pc = "deploy" /\ cApp' = cApp /\ kind' = kind /\ app' = app
      /\ authSecret' = authSecret /\ caCopy' = caCopy /\ settings' = settings
      /\ driverWatches' = IF kind = "apm" THEN driverWatches
                          ELSE WatchConnectionSecrets(driverWatches, a.conf)
      /\ \/ FinishDriver(TRUE)
         \/ /\ DriverGoto("status") /\ queues' = queues
            /\ workload' = [workload EXCEPT !.template = Template(a)]
  BY DEF DriverDeploy, sharedButWorkload, cacheVars, Applied
<1>2. CASE FinishDriver(TRUE)
  BY <1>2, DriverFinishes
<1>3. CASE /\ DriverGoto("status") /\ queues' = queues
           /\ workload' = [workload EXCEPT !.template = Template(a)]
  <2>1. driver'.read = driver.read
    BY <1>3, DriverFields DEF DriverGoto
  <2>2. workload'.template = Template(a)
    BY <1>3 DEF TemplateInv, RecordsShape
  <2>3. SecureSettingsWatchName # SecretWatchKey
    BY DEF SecureSettingsWatchName, SecretWatchKey
  <2>4. SecureWatched(a.secure) => SecureWatched(a.secure)'
    <3> DEFINE key == SecureSettingsWatchName
               v == {<<"settings">>}
    <3>1. \A w : HasKey(w, key, v) => HasKey(AddHandler(w, SecretWatchKey, {<<"auth">>}), key, v)
                   /\ HasKey(AddHandler(w, SecretWatchKey, {<<"copy">>}), key, v)
                   /\ HasKey(RemoveHandlerForKey(w, SecretWatchKey), key, v)
      BY <2>3, Registered
    <3>2. HasKey(driverWatches, key, v) => HasKey(driverWatches', key, v)
      BY <1>1, <3>1 DEF WatchConnectionSecrets
    <3> QED
      BY <2>1, <3>2 DEF SecureWatched
  <2>5. ASSUME ~queues.driver PROVE CurrentTemplate(a)'
    <3>1. DriverInPass
      BY <1>1, <2>5, DriverFields
    <3>2. "deploy" \in Configured
      BY DEF Configured
    <3> SUFFICES ASSUME IsConfigured(a.conf)
                 PROVE  /\ SecureWatched(a.secure)'
                        /\ app.exists =>
                             /\ workload'.template.ca = caCopy
                             /\ kind # "apm" => workload'.template.pw = authSecret
                             /\ kind # "logstash" => workload'.template.config =
                                  [url |-> a.conf.url, pw |-> authSecret, ca |-> TRUE]
                             /\ workload'.template.keystore = Keystore(a.secure)
      BY <1>1, <2>1 DEF CurrentTemplate, Keystore
    <3>3. SecureWatched(a.secure)'
      BY <1>1, <2>4, <3>1 DEF DriverInPass
    <3>4. ASSUME app.exists
          PROVE  /\ workload.config = Settings(a.conf) /\ settings.copy = Keystore(a.secure)
      BY <1>1, <3>1, <3>2, <3>4 DEF DriverInPass
    <3>5. a.conf.ca = TRUE
      BY DriverFields DEF IsConfigured, CAIsConfigured, Apps
    <3> QED
      BY <2>2, <3>3, <3>4, <3>5, ConfiguredTemplate, DriverFields
  <2>6. "status" \in Deploys /\ "status" \notin Configured /\ driver.pc # "idle"
    BY <1>1 DEF Deploys, Configured
  <2> QED
    BY <1>1, <1>3, <2>5, <2>6, DriverGoesTo
<1> QED
  BY <1>1, <1>2, <1>3

LEMMA DriverStatusStep ==
  ASSUME TemplateInv, DriverStatus, app'.exists => app.exists
  PROVE  DriverPassInv'
<1>1. /\ driver.pc = "status" /\ cApp' = cApp /\ kind' = kind
      /\ authSecret' = authSecret /\ caCopy' = caCopy /\ settings' = settings
      /\ workload' = workload /\ driverWatches' = driverWatches
  BY DEF DriverStatus, sharedButWorkload, cacheVars
<1>2. PICK f \in BOOLEAN : FinishDriver(f)
  <2>1. PICK f : FinishDriver(f) /\ f \in BOOLEAN
    BY DEF DriverStatus, Conflicts
  <2> QED
    BY <2>1
<1>3. ASSUME ~queues.driver PROVE DriverAtRest'
  <2>1. SameToDriver(driver.read, cApp) /\ CurrentTemplate(driver.read)
    BY <1>1, <1>3, DriverFields DEF DriverInPass
  <2> QED
    BY <1>1, <2>1 DEF SameToDriver, CurrentTemplate, DriverAtRest, SecureWatched, Keystore
<1> QED
  BY <1>2, <1>3, DriverFinishes

LEMMA RecordsStay ==
  ASSUME TemplateInv, [StackNext]_stackVars
  PROVE  RecordsShape'
<1>1. RecordsShape
  BY DEF TemplateInv
<1>2. CASE Associations
  BY <1>1, <1>2, AssociationsFrame, AssociationsLeaveTheSettings DEF RecordsShape
<1>3. CASE Drivers
  BY <1>1, <1>3, DriversAre
     DEF RecordsShape, FetchApp, DriverCompatible, DriverFinalize, DriverService, DriverConfig,
         DriverKeystore, DriverDeploy, DriverStatus
<1>4. CASE Environment
  <2>1. CASE Sync
    BY <1>1, <2>1 DEF Sync, SyncApp, SyncEs, SyncCa, SyncUsers, resourceVars, RecordsShape
  <2>2. CASE User
    BY <1>1, <2>2 DEF User, EditRef, TogglePause, DeleteApp, EditSecureSettings, DeleteAuthSecret,
                      DeleteCaCopy, DeleteUserSecret, RecordsShape
  <2>3. CASE Elastic
    BY <1>1, <2>3 DEF Elastic, CreateCluster, DeleteCluster, PublishCA, RotateCA, ReconcileUsers,
                      RecordsShape
  <2>4. CASE GarbageCollect \/ RollOut
    BY <1>1, <2>4 DEF GarbageCollect, RollOut, RecordsShape, NoWorkload
  <2> QED
    BY <1>4, <2>1, <2>2, <2>3, <2>4 DEF Environment
<1>5. CASE Crash \/ UNCHANGED stackVars
  BY <1>1, <1>5 DEF Crash, stackVars, sharedVars, resourceVars, RecordsShape
<1> QED
  BY <1>2, <1>3, <1>4, <1>5 DEF StackNext, Associations, Drivers

LEMMA TemplateInit ==
  ASSUME StackInit
  PROVE  TemplateInv
<1>1. PICK s \in Scenarios :
        /\ kind = s.kind
        /\ app = IF s.new THEN NewApp(s.ref) ELSE EstablishedApp(s)
        /\ cApp = app
        /\ authSecret = IF s.new THEN 0 ELSE 1
        /\ workload = IF s.new THEN NoWorkload ELSE EstablishedWorkload(s, caCopy)
        /\ settings = IF s.new THEN [source |-> 0, copy |-> 0] ELSE [source |-> 1, copy |-> 1]
        /\ queues = [assoc |-> s.new, driver |-> s.new, es |-> {}]
  BY DEF StackInit, AssociatedInit
<1>2. s.new \in BOOLEAN
  BY AssociatedAssumption
<1>3. DetailsInv
  BY DetailsInit
<1>4. RecordsShape
  BY <1>1 DEF RecordsShape, NoWorkload, EstablishedWorkload
<1>5. driver.pc = "idle"
  BY IdleDriverFields DEF StackInit, DriverInit
<1>6. CASE s.new
  BY <1>1, <1>3, <1>4, <1>5, <1>6 DEF TemplateInv, DriverPassInv
<1>7. CASE ~s.new
  <2>1. /\ app.secure /\ app.conf = [url |-> s.ref, ca |-> TRUE] /\ app.status = "Established"
    BY <1>1, <1>7 DEF EstablishedApp, NewApp
  <2> DEFINE w == WatchSecureSettings(NoHandlers, app.secure)
             key == SecureSettingsWatchName
             v == {<<"settings">>}
  <2>2. HasKey(w, key, v)
    BY <2>1, Registered DEF WatchSecureSettings
  <2>3. driverWatches \in {w, WatchConnectionSecrets(w, app.conf)}
    BY DEF StackInit, DriverInit
  <2>4. SecureSettingsWatchName # SecretWatchKey
    BY DEF SecureSettingsWatchName, SecretWatchKey
  <2>5. HasKey(driverWatches, key, v)
    <3>1. \A x : HasKey(x, key, v) => HasKey(AddHandler(x, SecretWatchKey, {<<"auth">>}), key, v)
                   /\ HasKey(AddHandler(x, SecretWatchKey, {<<"copy">>}), key, v)
                   /\ HasKey(RemoveHandlerForKey(x, SecretWatchKey), key, v)
      BY <2>4, Registered
    <3> HIDE DEF w
    <3> QED
      BY <2>2, <2>3, <3>1 DEF WatchConnectionSecrets
  <2> HIDE DEF w
  <2>6. CurrentTemplate(app)
    <3>1. /\ workload.template.ca = caCopy /\ workload.template.keystore = 1
          /\ kind # "apm" => workload.template.pw = 1
          /\ kind # "logstash" =>
               workload.template.config = [url |-> s.ref, pw |-> 1, ca |-> TRUE]
      BY <1>1, <1>7 DEF EstablishedWorkload, EstablishedConfig
    <3>2. Keystore(app.secure) = 1 /\ authSecret = 1
      BY <1>1, <1>7, <2>1 DEF Keystore
    <3>3. SecureWatched(app.secure)
      BY <2>5 DEF SecureWatched
    <3>4. app.conf.url = s.ref
      BY <2>1
    <3> QED
      BY <3>1, <3>2, <3>3, <3>4 DEF CurrentTemplate
  <2> QED
    BY <1>1, <1>3, <1>4, <1>5, <2>6 DEF TemplateInv, DriverPassInv, DriverAtRest
<1> QED
  BY <1>2, <1>6, <1>7

LEMMA TemplateNext ==
  ASSUME TemplateInv, [StackNext]_stackVars
  PROVE  TemplateInv'
<1>1. DetailsInv' /\ RecordsShape'
  BY DetailsNext, RecordsStay DEF TemplateInv
<1>2. SUFFICES DriverPassInv'
  BY <1>1 DEF TemplateInv
<1>3. CASE Associations /\ UNCHANGED driverVars
  <2>1. SecretsCall /\ (app'.exists => app.exists)
    BY <1>3, AssociationsCallTheDriver
  <2>2. /\ cApp' = cApp /\ workload' = workload /\ settings' = settings /\ kind' = kind
        /\ driver' = driver /\ driverWatches' = driverWatches
    BY <1>3, AssociationsFrame, AssociationsLeaveTheSettings DEF driverVars
  <2>3. CallsDriver
    BY <2>1, <2>2 DEF SecretsCall, CallsDriver, DriverUndisturbed
  <2> QED
    BY <2>2, <2>3, OthersLeaveTheDriver
<1>4. CASE Drivers
  <2>1. app'.exists => app.exists
    BY <1>4, DriversLeaveTheApp DEF TemplateInv
  <2> QED
    BY <1>4, <2>1, DriversAre, FetchAppStep, DriverCompatibleStep, DriverFinalizeStep,
       DriverServiceStep, DriverConfigStep, DriverKeystoreStep, DriverDeployStep, DriverStatusStep
<1>5. CASE Environment
  <2>1. CallsDriver
    BY <1>5, SyncCallsTheDriver, UserCallsTheDriver, OthersCallTheDriver DEF Environment
  <2>2. driver' = driver /\ driverWatches' = driverWatches
    BY <1>5 DEF Environment, driverVars
  <2>3. kind' = kind
    BY <1>5 DEF Environment, User, EditRef, TogglePause, DeleteApp, EditSecureSettings,
         DeleteAuthSecret, DeleteCaCopy, DeleteUserSecret, Sync, SyncApp, SyncEs, SyncCa,
         SyncUsers, Elastic, CreateCluster, DeleteCluster, PublishCA, RotateCA, ReconcileUsers,
         GarbageCollect, RollOut, resourceVars
  <2> QED
    BY <2>1, <2>2, <2>3, OthersLeaveTheDriver
<1>6. CASE Crash
  <2>1. queues'.driver /\ driver'.pc = "idle"
    BY <1>6, IdleDriverFields DEF Crash
  <2> QED
    BY <2>1 DEF DriverPassInv
<1>7. CASE UNCHANGED stackVars
  BY <1>7, OthersLeaveTheDriver
     DEF stackVars, sharedVars, resourceVars, cacheVars, driverVars, CallsDriver,
         DriverUndisturbed
<1> QED
  BY <1>3, <1>4, <1>5, <1>6, <1>7 DEF StackNext, Associations, Drivers

\* Whatever changes while it works: an application's controller that rests has
\* deployed the current password, CA, configuration and keystore (deploymentParams).
THEOREM DeploymentIsCurrent == StackSpec => []TemplateCurrent
<1>1. TemplateInv => TemplateCurrent
  <2> SUFFICES ASSUME TemplateInv, AssociationQuiet, DriverQuiet, Served,
                      app.ref # NoCluster, IsConfigured(app.conf)
               PROVE  /\ workload.template.ca = ca[app.conf.url]
                      /\ kind # "apm" => workload.template.pw = authSecret
                      /\ kind # "logstash" => workload.template.config =
                           [url |-> app.conf.url, pw |-> authSecret, ca |-> TRUE]
                      /\ workload.template.keystore = IF app.secure THEN settings.source ELSE 0
    BY DEF TemplateCurrent
  <2>1. CurrentTemplate(app)
    BY DEF TemplateInv, DriverPassInv, DriverAtRest, DriverQuiet, AssociationQuiet, Served
  <2>2. AtRest
    BY DEF TemplateInv, DetailsInv, PassInv, AssociationQuiet
  <2>3. app.conf = [url |-> app.ref, ca |-> ca[app.ref] # 0]
        /\ (ca[app.ref] # 0 => caCopy = ca[app.ref])
    BY <2>2 DEF AtRest, AssociationQuiet, Served, Referring, Settled, CopyOfCA, Details
  <2>4. caCopy = ca[app.conf.url]
    <3>1. app.conf.ca
      BY DEF IsConfigured, CAIsConfigured
    <3> DEFINE published == ca[app.ref] # 0
    <3>2. app.conf = [url |-> app.ref, ca |-> published] /\ published \in BOOLEAN
      BY <2>3
    <3> HIDE DEF published
    <3>3. app.conf.url = app.ref /\ app.conf.ca = published
      BY <3>2
    <3>4. published
      BY <3>1, <3>2, <3>3
    <3> QED
      BY <2>3, <3>3, <3>4 DEF published
  <2> QED
    BY <2>1, <2>4 DEF CurrentTemplate, Served, Keystore
<1> QED
  BY <1>1, TemplateInit, TemplateNext, PTL DEF StackSpec
=============================================================================
