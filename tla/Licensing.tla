------------------------------ MODULE Licensing ------------------------------
(***************************************************************************)
(* The license of a cluster: license/license_controller.go chooses it      *)
(* among the enterprise licenses and writes it in a secret, the            *)
(* Elasticsearch controller (elasticsearch/license) sends the secret to    *)
(* the cluster, and its observer tells it which license the cluster has.   *)
(*                                                                         *)
(* A pass of either controller is short beside a unit of time, so that it  *)
(* is one step, and time does not pass while the operator has work to do;  *)
(* the operator may be stopped for a while.                                *)
(***************************************************************************)
EXTENDS Clock, FiniteSets

CONSTANTS
  SafetyMargin,      \* defaultSafetyMargin, in units of time
  MaxOutage,         \* bound on how long the operator may be stopped before it gets to work
  Offers,            \* the enterprise licenses the user may install or remove
  LicensingBudgets   \* bounds on the user's changes, on stops and on failures

ASSUME LicensingAssumption ==
  /\ SafetyMargin \in Nat /\ MaxOutage \in Nat
  /\ \A o \in Offers :
       /\ o.start \in Nat /\ o.expiry \in Nat /\ IsFiniteSet(o.clusters)
       /\ o.clusters \subseteq [uid : Nat \ {0}, rank : Nat, start : Nat, expiry : Nat]
  /\ LicensingBudgets \subseteq [changes : Nat, events : Nat, stops : Nat, faults : Nat, lag : BOOLEAN]

\* updateLicense tells licenses by their uid.
ASSUME UidsIdentify ==
  \A o, p \in Offers : \A c \in o.clusters, d \in p.clusters : c.uid = d.uid => c = d

VARIABLES
  offers,        \* installed enterprise licenses: since[o] is when, for each
  linked,        \* the license secret of the cluster, and its label: the parent license
  applied,       \* the license Elasticsearch has
  observed,      \* the one the observer last read
  licenseQueue,  \* names the license controller is asked to reconcile
  licenseTimer,  \* when it will be asked again by its delayed queue
  licenseRetry,  \* whether it has asked for another try, or for one in an hour
  esQueue,       \* whether the Elasticsearch controller has work
  operatorUp,
  outage,        \* for how long it has been stopped since it last had done its work
  licenseBudget

licensingVars == <<offers, linked, applied, observed, licenseQueue, licenseTimer,
                   licenseRetry, esQueue, operatorUp, outage, licenseBudget>>

NoLicense == [uid |-> 0, rank |-> 0, start |-> 0, expiry |-> 0]
Never == Horizon + 1
HalfMargin == SafetyMargin \div 2

\* The names of the cluster and, LicenseSecretName, of its secret.
Cluster == "cluster"
LicenseSecretName == "cluster-es-license"

LicensingInit ==
  /\ offers = [o \in {} |-> 0]
  /\ linked = [license |-> NoLicense, parent |-> 0]
  /\ applied = NoLicense /\ observed = NoLicense
  /\ licenseQueue = {Cluster} /\ licenseTimer = Never /\ licenseRetry = FALSE
  /\ esQueue = FALSE
  /\ operatorUp = TRUE /\ outage = 0
  /\ licenseBudget \in LicensingBudgets

-----------------------------------------------------------------------------
(***************************************************************************)
(* common/license/match.go.                                                *)
(***************************************************************************)
\* EnterpriseLicensesOrErrors
EnterpriseLicenses == DOMAIN offers

\* IsValid, of both kinds of licenses.
IsValidAt(l, t) == l.start <= t /\ t < l.expiry

\* filterValid: the cluster licenses, valid themselves, of a valid enterprise
\* license; a trial has none.
FilterValid(installed, t) ==
  UNION {{[license |-> l, parent |-> o.uid] : l \in {c \in o.clusters : IsValidAt(c, t)}} :
           o \in {e \in installed : IsValidAt(e, t)}}

\* ElasticsearchLicenseTypeOrder, then the time that remains.
NotBetter(a, b) ==
  \/ a.license.rank < b.license.rank
  \/ a.license.rank = b.license.rank /\ a.license.expiry <= b.license.expiry

\* BestMatch, when there is a match.
BestMatch(installed, t) ==
  CHOOSE m \in FilterValid(installed, t) :
    \A n \in FilterValid(installed, t) : NotBetter(n, m)

-----------------------------------------------------------------------------
(***************************************************************************)
(* license_controller.go.  The delayed queue keeps the earlier of two      *)
(* times for the same request; Requeue and errors go through the rate      *)
(* limiter, which asks again well within a unit of time.                   *)
(***************************************************************************)
Delayed(t) == IF t < licenseTimer THEN t ELSE licenseTimer

\* Seeded defect: a license past its margin is not looked at again.
NextReconcileOnce(expiry) ==
  /\ licenseTimer' = IF expiry - HalfMargin > now THEN Delayed(expiry - HalfMargin)
                     ELSE licenseTimer
  /\ licenseRetry' = FALSE

\* Seeded defect: the next look at the license is when it expires.
NextReconcileLate(expiry) ==
  IF expiry > now
  THEN licenseTimer' = Delayed(expiry) /\ licenseRetry' = FALSE
  ELSE licenseRetry' = TRUE /\ UNCHANGED licenseTimer

\* nextReconcileRelativeTo
NextReconcile(expiry) ==
  IF expiry > now + HalfMargin
  THEN licenseTimer' = Delayed(expiry - HalfMargin) /\ licenseRetry' = FALSE
  ELSE licenseRetry' = TRUE /\ UNCHANGED licenseTimer

\* reconcileSecret: only the data are compared, and only they are replaced.
ReconcileSecret(match) ==
  /\ linked' = IF linked.license = NoLicense THEN match
               ELSE [linked EXCEPT !.license = match.license]
  /\ esQueue' = (esQueue \/ linked' # linked)    \* owned by the cluster

RequestFailed ==
  /\ licenseBudget.faults > 0
  /\ licenseBudget' = [licenseBudget EXCEPT !.faults = @ - 1]

\* reconcileInternal, for the name of the cluster.
ReconcileClusterLicense ==
  /\ operatorUp /\ Cluster \in licenseQueue
  /\ \/ /\ FilterValid(EnterpriseLicenses, now) # {}
        /\ LET match == BestMatch(EnterpriseLicenses, now)
           IN ReconcileSecret(match) /\ NextReconcile(match.license.expiry)
        /\ licenseQueue' = licenseQueue \ {Cluster}
        /\ UNCHANGED licenseBudget
     \/ /\ FilterValid(EnterpriseLicenses, now) = {}     \* none, or an error
        /\ licenseRetry' = TRUE
        /\ licenseQueue' = licenseQueue \ {Cluster}
        /\ UNCHANGED <<linked, esQueue, licenseTimer, licenseBudget>>
     \/ /\ RequestFailed
        /\ UNCHANGED <<linked, esQueue, licenseQueue, licenseTimer, licenseRetry>>
  /\ UNCHANGED <<offers, applied, observed, operatorUp, outage>>

\* reconcileInternal, for a name that is not one of a cluster.
ReconcileNoCluster ==
  /\ operatorUp
  /\ \E request \in licenseQueue \ {Cluster} : licenseQueue' = licenseQueue \ {request}
  /\ UNCHANGED <<offers, linked, applied, observed, licenseTimer, licenseRetry, esQueue,
                 operatorUp, outage, licenseBudget>>

\* listAffectedLicenses: the secrets labelled with the license, by their names.
ListAffectedLicenses(uid) ==
  IF linked.license # NoLicense /\ linked.parent = uid THEN {LicenseSecretName} ELSE {}

-----------------------------------------------------------------------------
(***************************************************************************)
(* elasticsearch/license, called by every pass of the Elasticsearch        *)
(* controller, and the observer.                                           *)
(***************************************************************************)
\* updateLicense: nothing is sent when the observed license is the one of the
\* secret.  Elasticsearch answers that an expired one is not valid, which is an
\* error: retried.
ToApply == linked.license.uid \notin {NoLicense.uid, observed.uid}
Refused == ToApply /\ ~IsValidAt(linked.license, now)

\* applyLinkedLicense, with an observation ten seconds old at most: without lag, it
\* is not older than the last license applied.
ApplyLinkedLicense ==
  /\ operatorUp /\ esQueue /\ ~Refused
  /\ ~licenseBudget.lag => observed \in {NoLicense, applied}
  /\ applied' = IF ToApply THEN linked.license ELSE applied
  /\ \/ esQueue' = FALSE /\ UNCHANGED licenseBudget
     \/ ToApply /\ RequestFailed /\ UNCHANGED esQueue    \* the reply is lost
  /\ UNCHANGED <<offers, linked, observed, licenseQueue, licenseTimer, licenseRetry,
                 operatorUp, outage>>

ObserveLicense ==
  /\ operatorUp /\ observed # applied
  /\ observed' = applied
  /\ UNCHANGED <<offers, linked, applied, licenseQueue, licenseTimer, licenseRetry,
                 esQueue, operatorUp, outage, licenseBudget>>

-----------------------------------------------------------------------------
(***************************************************************************)
(* The user, the cluster's other events, stops of the operator, and time.  *)
(***************************************************************************)
\* An event of the license controller's watch on enterprise licenses; a retry that
\* is under way sees the change.
LicenseChanged(uid) ==
  licenseQueue' = IF ~operatorUp THEN licenseQueue
                  ELSE licenseQueue \cup ListAffectedLicenses(uid)
                         \cup IF licenseRetry THEN {Cluster} ELSE {}

LicensingIdle == licenseQueue = {} /\ (esQueue => Refused) /\ observed = applied

Install(o) ==
  /\ o \notin DOMAIN offers
  /\ offers' = [p \in DOMAIN offers \cup {o} |-> IF p = o THEN now ELSE offers[p]]
Remove(o) ==
  /\ o \in DOMAIN offers
  /\ offers' = [p \in DOMAIN offers \ {o} |-> offers[p]]

ChangeOffers ==
  /\ licenseBudget.changes > 0
  /\ licenseBudget' = [licenseBudget EXCEPT !.changes = @ - 1]
  /\ \E o \in Offers : (Install(o) \/ Remove(o)) /\ LicenseChanged(o.uid)
  /\ UNCHANGED <<linked, applied, observed, licenseTimer, licenseRetry, esQueue,
                 operatorUp, outage>>

\* The Elasticsearch resource is written: both controllers watch it.
LicensedClusterEvent ==
  /\ operatorUp /\ licenseBudget.events > 0
  /\ licenseBudget' = [licenseBudget EXCEPT !.events = @ - 1]
  /\ licenseQueue' = licenseQueue \cup {Cluster}
  /\ esQueue' = TRUE
  /\ UNCHANGED <<offers, linked, applied, observed, licenseTimer, licenseRetry,
                 operatorUp, outage>>

\* The queues and the timers are in memory.
StopLicensing ==
  /\ operatorUp /\ licenseBudget.stops > 0
  /\ licenseBudget' = [licenseBudget EXCEPT !.stops = @ - 1]
  /\ operatorUp' = FALSE
  /\ licenseQueue' = {} /\ licenseTimer' = Never /\ licenseRetry' = FALSE
  /\ esQueue' = FALSE /\ observed' = NoLicense
  /\ UNCHANGED <<offers, linked, applied, outage>>

StartLicensing ==
  /\ ~operatorUp
  /\ operatorUp' = TRUE
  /\ licenseQueue' = {Cluster} /\ esQueue' = TRUE
  /\ UNCHANGED <<offers, linked, applied, observed, licenseTimer, licenseRetry, outage,
                 licenseBudget>>

LicensingTick ==
  /\ Advance
  /\ IF operatorUp THEN LicensingIdle /\ outage' = 0
     ELSE outage < MaxOutage /\ outage' = outage + 1
  /\ licenseQueue' = IF licenseRetry \/ licenseTimer <= now' THEN {Cluster} ELSE licenseQueue
  /\ licenseTimer' = IF licenseTimer <= now' THEN Never ELSE licenseTimer
  /\ UNCHANGED <<offers, linked, applied, observed, licenseRetry, esQueue, operatorUp,
                 licenseBudget>>

LicensingNext ==
  \/ /\ \/ ReconcileClusterLicense \/ ReconcileNoCluster \/ ApplyLinkedLicense
        \/ ObserveLicense \/ ChangeOffers \/ LicensedClusterEvent \/ StopLicensing \/ StartLicensing
     /\ UNCHANGED now
  \/ LicensingTick

LicensingSpec == now = 0 /\ LicensingInit /\ [][LicensingNext]_<<licensingVars, now>>
=============================================================================
