--------------------------- MODULE Licensing_proofs ---------------------------
(***************************************************************************)
(* The promises about the license of a cluster, for any licenses, margin   *)
(* and number of failures and stops.                                       *)
(***************************************************************************)
EXTENDS LicensingProperties, FiniteSetTheorems, WellFoundedInduction, TLAPS

-----------------------------------------------------------------------------
(***************************************************************************)
(* BestMatch: there is a best one of finitely many.                        *)
(***************************************************************************)
Known == {NoLicense} \cup UNION {o.clusters : o \in Offers}

LEMMA KnownLicense ==
  ASSUME NEW l \in Known
  PROVE  /\ l.uid \in Nat /\ l.rank \in Nat /\ l.start \in Nat /\ l.expiry \in Nat
         /\ l.uid = 0 <=> l = NoLicense
<1>1. CASE l = NoLicense
  BY <1>1 DEF NoLicense
<1>2. CASE l \in UNION {o.clusters : o \in Offers}
  <2>1. l \in [uid : Nat \ {0}, rank : Nat, start : Nat, expiry : Nat]
    BY <1>2, LicensingAssumption
  <2>2. l.uid # 0 /\ l.uid \in Nat /\ l.rank \in Nat /\ l.start \in Nat /\ l.expiry \in Nat
    BY <2>1
  <2> QED
    BY <2>2 DEF NoLicense
<1>3. l = NoLicense \/ l \in UNION {o.clusters : o \in Offers}
  BY DEF Known
<1> QED
  BY <1>1, <1>2, <1>3

LEMMA SameUid ==
  ASSUME NEW l \in Known, NEW k \in Known, l.uid = k.uid
  PROVE  l = k
<1>1. CASE l = NoLicense \/ k = NoLicense
  <2>1. l.uid = 0 \/ k.uid = 0
    BY <1>1 DEF NoLicense
  <2>2. l.uid = 0 /\ k.uid = 0
    BY <2>1
  <2> QED
    BY <2>2, KnownLicense
<1>2. CASE l # NoLicense /\ k # NoLicense
  <2>1. PICK o \in Offers : l \in o.clusters
    BY <1>2 DEF Known
  <2>2. PICK p \in Offers : k \in p.clusters
    BY <1>2 DEF Known
  <2> QED
    BY <2>1, <2>2, UidsIdentify
<1> QED
  BY <1>1, <1>2

LEMMA FiniteRange ==
  ASSUME NEW S, IsFiniteSet(S), NEW f
  PROVE  IsFiniteSet({f[x] : x \in S})
<1> DEFINE T == {f[x] : x \in S}
           g == [x \in S |-> f[x]]
<1>1. g \in Surjection(S, T)
  BY DEF Surjection
<1> QED
  BY <1>1, FS_Surjection

\* The match of a cluster license of an enterprise license.
LEMMA FilterValidIs ==
  ASSUME NEW installed, installed \subseteq Offers, NEW t
  PROVE  /\ \A m \in FilterValid(installed, t) :
              \E o \in installed : \E c \in o.clusters :
                /\ IsValidAt(o, t) /\ IsValidAt(c, t)
                /\ m = [license |-> c, parent |-> o.uid]
         /\ \A o \in installed : \A c \in o.clusters :
              IsValidAt(o, t) /\ IsValidAt(c, t) =>
                [license |-> c, parent |-> o.uid] \in FilterValid(installed, t)
<1>1. ASSUME NEW o \in installed, NEW c \in o.clusters, IsValidAt(o, t), IsValidAt(c, t)
      PROVE  [license |-> c, parent |-> o.uid] \in FilterValid(installed, t)
  <2>1. c \in {d \in o.clusters : IsValidAt(d, t)} /\ o \in {e \in installed : IsValidAt(e, t)}
    BY <1>1
  <2> QED
    BY <2>1 DEF FilterValid
<1>2. ASSUME NEW m \in FilterValid(installed, t)
      PROVE  \E o \in installed : \E c \in o.clusters :
               /\ IsValidAt(o, t) /\ IsValidAt(c, t)
               /\ m = [license |-> c, parent |-> o.uid]
  BY <1>2 DEF FilterValid
<1> QED
  BY <1>1, <1>2

LEMMA FilterValidFinite ==
  ASSUME NEW installed, installed \subseteq Offers, IsFiniteSet(installed), NEW t
  PROVE  IsFiniteSet(FilterValid(installed, t))
<1> DEFINE live == {e \in installed : IsValidAt(e, t)}
           of(o) == {[license |-> l, parent |-> o.uid] : l \in {c \in o.clusters : IsValidAt(c, t)}}
           f == [o \in live |-> of(o)]
<1>1. IsFiniteSet(live)
  BY FS_Subset
<1>2. IsFiniteSet({f[o] : o \in live})
  BY <1>1, FiniteRange
<1>3. ASSUME NEW o \in live PROVE IsFiniteSet(of(o))
  <2> DEFINE valid == {c \in o.clusters : IsValidAt(c, t)}
             g == [l \in valid |-> [license |-> l, parent |-> o.uid]]
  <2>1. IsFiniteSet(valid)
    BY LicensingAssumption, FS_Subset
  <2>2. IsFiniteSet({g[l] : l \in valid})
    BY <2>1, FiniteRange
  <2>3. {g[l] : l \in valid} = of(o)
    OBVIOUS
  <2> QED
    BY <2>2, <2>3
<1>4. {f[o] : o \in live} = {of(o) : o \in live}
  OBVIOUS
<1>5. \A T \in {f[o] : o \in live} : IsFiniteSet(T)
  BY <1>3, <1>4
<1>6. FilterValid(installed, t) = UNION {f[o] : o \in live}
  BY <1>4 DEF FilterValid
<1> QED
  BY <1>2, <1>5, <1>6, FS_UNION

LEMMA BestMatchIs ==
  ASSUME NEW installed, installed \subseteq Offers, IsFiniteSet(installed), NEW t,
         FilterValid(installed, t) # {}
  PROVE  /\ BestMatch(installed, t) \in FilterValid(installed, t)
         /\ \A n \in FilterValid(installed, t) : NotBetter(n, BestMatch(installed, t))
<1> DEFINE S == FilterValid(installed, t)
           better(m) == {n \in S : ~NotBetter(n, m)}
           T == {better(m) : m \in S}
<1>1. IsFiniteSet(S) /\ S # {}
  BY FilterValidFinite
<1>2. \A m \in S : m.license.rank \in Nat /\ m.license.expiry \in Nat
  <2>1. \A m \in S : m.license \in Known
    BY FilterValidIs DEF Known
  <2> QED
    BY <2>1, KnownLicense
<1> HIDE DEF S
<1>3. \A k, m, n \in S :
        /\ NotBetter(m, m)
        /\ NotBetter(m, n) \/ NotBetter(n, m)
        /\ NotBetter(k, m) /\ NotBetter(m, n) => NotBetter(k, n)
  BY <1>2 DEF NotBetter
<1>4. T \subseteq FiniteSubsetsOf(S) /\ T # {}
  <2>1. \A m \in S : better(m) \in SUBSET S /\ IsFiniteSet(better(m))
    BY <1>1, FS_Subset
  <2> QED
    BY <1>1, <2>1 DEF FiniteSubsetsOf
<1>5. \E x \in T : \A y \in T : <<y, x>> \notin StrictSubsetOrdering(S)
  <2> HIDE DEF T
  <2> QED
    BY <1>4, FS_StrictSubsetOrderingWellFounded, WFMin
<1>6. PICK m \in S : \A n \in S : <<better(n), better(m)>> \notin StrictSubsetOrdering(S)
  BY <1>5
<1>7. ASSUME NEW n \in S, ~NotBetter(n, m) PROVE FALSE
  <2>1. better(n) \subseteq better(m)
    BY <1>3, <1>7
  <2>2. n \in better(m) /\ n \notin better(n)
    BY <1>3, <1>7
  <2>3. better(n) \in SUBSET S /\ better(m) \in SUBSET S
    OBVIOUS
  <2>4. <<better(n), better(m)>> \in StrictSubsetOrdering(S)
    <3> HIDE DEF better
    <3> QED
      BY <2>1, <2>2, <2>3 DEF StrictSubsetOrdering
  <2> QED
    BY <1>6, <2>4
<1>8. \E m_1 \in S : \A n \in S : NotBetter(n, m_1)
  BY <1>7
<1>9. BestMatch(installed, t) = CHOOSE m_1 \in S : \A n \in S : NotBetter(n, m_1)
  BY DEF BestMatch, S
<1>10. BestMatch(installed, t) \in S /\ \A n \in S : NotBetter(n, BestMatch(installed, t))
  BY <1>8, <1>9
<1> QED
  BY <1>10 DEF S

-----------------------------------------------------------------------------
(***************************************************************************)
(* The invariant.                                                          *)
(***************************************************************************)
LicensingTypeOK ==
  /\ now \in 0 .. Horizon
  /\ DOMAIN offers \subseteq Offers /\ IsFiniteSet(DOMAIN offers)
  /\ \A o \in DOMAIN offers : offers[o] \in Nat
  /\ linked \in [license : Known, parent : {0} \cup {o.uid : o \in Offers}]
  /\ applied \in Known /\ observed \in Known
  /\ licenseQueue \subseteq {Cluster, LicenseSecretName}
  /\ licenseTimer \in Nat /\ licenseRetry \in BOOLEAN
  /\ esQueue \in BOOLEAN /\ operatorUp \in BOOLEAN
  /\ outage \in 0 .. MaxOutage
  /\ licenseBudget \in [changes : Nat, events : Nat, stops : Nat, faults : Nat, lag : BOOLEAN]

\* Unless it is in the queue, the cluster will be looked at while half the margin is
\* left to the license in its secret, or again and again.
Scheduled ==
  /\ licenseTimer > now
  /\ operatorUp /\ Cluster \notin licenseQueue =>
       \/ /\ licenseRetry
          /\ FilterValid(EnterpriseLicenses, now) = {} \/ linked.license.expiry > now
       \/ ~licenseRetry /\ licenseTimer + HalfMargin <= linked.license.expiry

\* The license in the secret has started.
LinkedStarted == linked.license.start <= now

\* License l should have been followed by another.
Due(l) == l.expiry <= now + HalfMargin /\ Successors(offers, l) # {}

\* The operator has been stopped since then.
InOutage(l) == now + HalfMargin <= l.expiry + outage

LinkedRenewed ==
  linked.license # NoLicense /\ Due(linked.license) =>
    InOutage(linked.license) /\ (operatorUp => Cluster \in licenseQueue)

\* The cluster has the license in the secret, or it is to be sent.
AppliedIsLinked ==
  /\ linked.license = NoLicense => applied = NoLicense
  /\ operatorUp /\ ~esQueue => applied = linked.license

AppliedRenewed ==
  applied # NoLicense /\ Due(applied) =>
    /\ InOutage(applied)
    /\ operatorUp => \/ Cluster \in licenseQueue
                     \/ /\ esQueue /\ linked.license \notin {NoLicense, applied}
                        /\ linked.license.expiry > now

LicensingInv ==
  /\ LicensingTypeOK /\ Scheduled /\ LinkedStarted
  /\ MaxOutage < HalfMargin => LinkedRenewed
  /\ ~licenseBudget.lag => AppliedIsLinked /\ (MaxOutage < HalfMargin => AppliedRenewed)

-----------------------------------------------------------------------------
LEMMA HalfMarginType == HalfMargin \in Nat
  BY LicensingAssumption DEF HalfMargin

LEMMA LicensingInvInit == now = 0 /\ LicensingInit => LicensingInv
<1> SUFFICES ASSUME now = 0, LicensingInit PROVE LicensingInv
  OBVIOUS
<1>1. NoLicense \in Known /\ NoLicense.start = 0
  BY DEF Known, NoLicense
<1>2. DOMAIN offers = {}
  BY DEF LicensingInit
<1>3. linked.license = NoLicense /\ linked \in [license : Known, parent : {0} \cup {o.uid : o \in Offers}]
  BY <1>1 DEF LicensingInit
<1>4. Horizon \in Nat /\ MaxOutage \in Nat
  BY HorizonAssumption, LicensingAssumption
<1>5. LicensingTypeOK
  <2>1. licenseBudget \in [changes : Nat, events : Nat, stops : Nat, faults : Nat, lag : BOOLEAN]
    BY LicensingAssumption DEF LicensingInit
  <2>2. now \in 0 .. Horizon /\ outage \in 0 .. MaxOutage /\ licenseTimer \in Nat
    BY <1>4 DEF LicensingInit, Never
  <2>3. DOMAIN offers \subseteq Offers /\ IsFiniteSet(DOMAIN offers) /\ \A o \in DOMAIN offers : offers[o] \in Nat
    BY <1>2, FS_EmptySet
  <2> QED
    BY <1>1, <1>3, <2>1, <2>2, <2>3 DEF LicensingInit, LicensingTypeOK
<1>6. Scheduled
  BY <1>4 DEF LicensingInit, Scheduled, Never
<1> QED
  BY <1>1, <1>3, <1>5, <1>6
     DEF LicensingInit, LicensingInv, LinkedStarted, LinkedRenewed, AppliedIsLinked, AppliedRenewed

\* A license that is due has not expired when the operator has a match for it, which
\* is another license.
LEMMA DueIsMatched ==
  ASSUME LicensingTypeOK, NEW l \in Known, Due(l), now < l.expiry
  PROVE  /\ FilterValid(EnterpriseLicenses, now) # {}
         /\ BestMatch(EnterpriseLicenses, now).license # l
<1> DEFINE installed == DOMAIN offers
<1>1. PICK c : c \in Successors(offers, l)
  BY DEF Due
<1>2. PICK o \in InTime(offers, l) :
        /\ c \in o.clusters /\ c.start + HalfMargin < l.expiry
        /\ c.rank >= l.rank /\ c.expiry > l.expiry
  BY <1>1 DEF Successors
<1>3. /\ o \in installed /\ o \in Offers /\ installed \subseteq Offers /\ IsFiniteSet(installed)
      /\ o.start + HalfMargin < l.expiry /\ l.expiry < o.expiry
  BY DEF InTime, LicensingTypeOK
<1>4. c \in Known
  BY <1>2, <1>3 DEF Known
<1>5. /\ l.expiry \in Nat /\ c.start \in Nat /\ c.expiry \in Nat /\ o.start \in Nat /\ o.expiry \in Nat
      /\ c.rank \in Nat /\ l.rank \in Nat /\ HalfMargin \in Nat /\ now \in Nat
      /\ l.expiry <= now + HalfMargin
  BY <1>3, <1>4, KnownLicense, LicensingAssumption, HalfMarginType, HorizonAssumption
     DEF LicensingTypeOK, Due
<1>6. IsValidAt(o, now) /\ IsValidAt(c, now)
  BY <1>2, <1>3, <1>5 DEF IsValidAt
<1> DEFINE match == [license |-> c, parent |-> o.uid]
           best == BestMatch(installed, now)
<1>7. match \in FilterValid(installed, now)
  BY <1>2, <1>3, <1>6, FilterValidIs
<1>8. NotBetter(match, best)
  BY <1>3, <1>7, BestMatchIs
<1>9. match.license = c
  OBVIOUS
<1> HIDE DEF match, best, installed
<1>10. best.license # l
  BY <1>2, <1>5, <1>8, <1>9 DEF NotBetter
<1> QED
  BY <1>7, <1>10 DEF best, installed, EnterpriseLicenses

\* A match is a known license, valid now.
LEMMA MatchIsValid ==
  ASSUME LicensingTypeOK, FilterValid(EnterpriseLicenses, now) # {}
  PROVE  /\ BestMatch(EnterpriseLicenses, now) \in [license : Known, parent : {0} \cup {o.uid : o \in Offers}]
         /\ BestMatch(EnterpriseLicenses, now).license # NoLicense
         /\ IsValidAt(BestMatch(EnterpriseLicenses, now).license, now)
<1> DEFINE best == BestMatch(EnterpriseLicenses, now)
<1>1. DOMAIN offers \subseteq Offers /\ IsFiniteSet(DOMAIN offers)
  BY DEF LicensingTypeOK
<1>2. best \in FilterValid(DOMAIN offers, now)
  BY <1>1, BestMatchIs DEF EnterpriseLicenses
<1>3. PICK o \in DOMAIN offers : \E c \in o.clusters :
        IsValidAt(c, now) /\ best = [license |-> c, parent |-> o.uid]
  BY <1>1, <1>2, FilterValidIs
<1>4. PICK c \in o.clusters : IsValidAt(c, now) /\ best = [license |-> c, parent |-> o.uid]
  BY <1>3
<1>5. o \in Offers /\ c \in Known /\ best.license = c
  BY <1>1, <1>4 DEF Known
<1>6. now \in Nat
  BY HorizonAssumption DEF LicensingTypeOK
<1>7. c # NoLicense
  BY <1>4, <1>6 DEF IsValidAt, NoLicense
<1> QED
  BY <1>4, <1>5, <1>7

\* An outage shorter than half the margin is over before the license is.
LEMMA DueIsAlive ==
  ASSUME LicensingTypeOK, NEW l \in Known, InOutage(l), MaxOutage < HalfMargin
  PROVE  now < l.expiry
<1>1. /\ now \in Nat /\ HalfMargin \in Nat /\ outage \in Nat /\ outage <= MaxOutage /\ MaxOutage \in Nat
      /\ l.expiry \in Nat
  BY KnownLicense, HalfMarginType, HorizonAssumption, LicensingAssumption DEF LicensingTypeOK
<1> QED
  BY <1>1 DEF InOutage

-----------------------------------------------------------------------------
(***************************************************************************)
(* Each step keeps the invariant.                                          *)
(***************************************************************************)
\* A step of which only the queues show something, and take nothing from the work of
\* the cluster.
LEMMA QueueFrame ==
  ASSUME LicensingInv, LicensingTypeOK',
         UNCHANGED <<now, offers, linked, applied, licenseTimer, licenseRetry, operatorUp, outage>>,
         licenseBudget'.lag <=> licenseBudget.lag,
         Cluster \in licenseQueue => Cluster \in licenseQueue',
         esQueue => esQueue'
  PROVE  LicensingInv'
<1>1. Scheduled' /\ LinkedStarted'
  BY DEF LicensingInv, Scheduled, LinkedStarted, EnterpriseLicenses
<1>2. LinkedRenewed => LinkedRenewed'
  BY DEF LinkedRenewed, Due, InOutage
<1>3. (AppliedIsLinked => AppliedIsLinked') /\ (AppliedRenewed => AppliedRenewed')
  BY DEF AppliedIsLinked, AppliedRenewed, Due, InOutage
<1> QED
  BY <1>1, <1>2, <1>3 DEF LicensingInv

LEMMA RequestFailedIs ==
  ASSUME LicensingTypeOK, RequestFailed
  PROVE  /\ licenseBudget' \in [changes : Nat, events : Nat, stops : Nat, faults : Nat, lag : BOOLEAN]
         /\ licenseBudget'.lag <=> licenseBudget.lag
<1>1. licenseBudget.faults - 1 \in Nat
  BY DEF LicensingTypeOK, RequestFailed
<1> QED
  BY <1>1 DEF LicensingTypeOK, RequestFailed

LEMMA MatchedKeeps ==
  ASSUME LicensingInv, UNCHANGED now, ReconcileClusterLicense,
         FilterValid(EnterpriseLicenses, now) # {}, licenseBudget' = licenseBudget,
         LET match == BestMatch(EnterpriseLicenses, now)
         IN ReconcileSecret(match) /\ NextReconcile(match.license.expiry),
         licenseQueue' = licenseQueue \ {Cluster}
  PROVE  LicensingInv'
<1> DEFINE match == BestMatch(EnterpriseLicenses, now)
<1>1. LicensingTypeOK
  BY DEF LicensingInv
<1>2. /\ match \in [license : Known, parent : {0} \cup {o.uid : o \in Offers}]
      /\ match.license \in Known /\ match.license # NoLicense /\ IsValidAt(match.license, now)
  BY <1>1, MatchIsValid
<1>3. ReconcileSecret(match) /\ NextReconcile(match.license.expiry)
  OBVIOUS
<1>4. /\ UNCHANGED <<offers, applied, observed, operatorUp, outage>> /\ Cluster \in licenseQueue
  BY DEF ReconcileClusterLicense
<1>5. ~Due(match.license)
  BY <1>1, <1>2, DueIsMatched DEF IsValidAt
<1>6. /\ now \in Nat /\ HalfMargin \in Nat /\ licenseTimer \in Nat /\ licenseTimer > now
      /\ match.license.expiry \in Nat /\ match.license.start \in Nat
  BY <1>1, <1>2, KnownLicense, HalfMarginType, HorizonAssumption DEF LicensingTypeOK, LicensingInv, Scheduled
<1>7. applied # NoLicense /\ Due(applied) /\ InOutage(applied) /\ MaxOutage < HalfMargin
      => match.license # applied
  BY <1>1, DueIsAlive, DueIsMatched DEF LicensingTypeOK
<1> HIDE DEF match
<1>8. /\ linked' \in [license : Known, parent : {0} \cup {o.uid : o \in Offers}]
      /\ linked'.license = match.license
      /\ esQueue' <=> (esQueue \/ linked' # linked)
      /\ esQueue' \in BOOLEAN
  BY <1>1, <1>2, <1>3 DEF LicensingTypeOK, ReconcileSecret
<1>9. /\ licenseTimer' \in Nat /\ licenseTimer' > now
      /\ \/ licenseRetry' = TRUE
         \/ licenseRetry' = FALSE /\ licenseTimer' + HalfMargin <= match.license.expiry
  <2>1. CASE match.license.expiry > now + HalfMargin
    <3>1. licenseTimer' = Delayed(match.license.expiry - HalfMargin) /\ licenseRetry' = FALSE
      BY <1>3, <2>1 DEF NextReconcile
    <3>2. /\ licenseTimer' \in {licenseTimer, match.license.expiry - HalfMargin}
          /\ licenseTimer' <= match.license.expiry - HalfMargin
      BY <1>6, <3>1 DEF Delayed
    <3> QED
      BY <1>6, <2>1, <3>1, <3>2
  <2>2. CASE ~(match.license.expiry > now + HalfMargin)
    BY <1>3, <1>6, <2>2 DEF NextReconcile
  <2> QED
    BY <2>1, <2>2
<1>10. LicensingTypeOK'
  BY <1>1, <1>4, <1>8, <1>9 DEF LicensingTypeOK
<1>11. Scheduled' /\ LinkedStarted'
  BY <1>2, <1>8, <1>9 DEF Scheduled, LinkedStarted, IsValidAt
<1>12. LinkedRenewed'
  BY <1>4, <1>5, <1>8 DEF LinkedRenewed, Due
<1>13. AppliedIsLinked => AppliedIsLinked'
  BY <1>2, <1>4, <1>8 DEF AppliedIsLinked
<1>14. AppliedIsLinked /\ AppliedRenewed /\ MaxOutage < HalfMargin => AppliedRenewed'
  <2>1. SUFFICES ASSUME AppliedIsLinked, AppliedRenewed, MaxOutage < HalfMargin,
                        applied # NoLicense, Due(applied)
                 PROVE  /\ InOutage(applied)
                        /\ operatorUp => /\ esQueue' /\ match.license \notin {NoLicense, applied}
                                         /\ match.license.expiry > now
    BY <1>4, <1>8 DEF AppliedRenewed, Due, InOutage
  <2>2. InOutage(applied) /\ match.license # applied
    BY <2>1, <1>7 DEF AppliedRenewed
  <2>3. operatorUp => esQueue'
    BY <2>1, <2>2, <1>8 DEF AppliedIsLinked
  <2> QED
    BY <2>2, <2>3, <1>2, <1>6 DEF IsValidAt
<1> QED
  BY <1>10, <1>11, <1>12, <1>13, <1>14 DEF LicensingInv

LEMMA UnmatchedKeeps ==
  ASSUME LicensingInv, UNCHANGED now, ReconcileClusterLicense,
         FilterValid(EnterpriseLicenses, now) = {}, licenseRetry' = TRUE,
         licenseQueue' = licenseQueue \ {Cluster},
         UNCHANGED <<linked, esQueue, licenseTimer, licenseBudget>>
  PROVE  LicensingInv'
<1>1. LicensingTypeOK
  BY DEF LicensingInv
<1>2. UNCHANGED <<offers, applied, observed, operatorUp, outage>>
  BY DEF ReconcileClusterLicense
<1>3. LicensingTypeOK'
  BY <1>1, <1>2 DEF LicensingTypeOK
<1>4. Scheduled' /\ LinkedStarted'
  BY <1>2 DEF LicensingInv, Scheduled, LinkedStarted, EnterpriseLicenses
<1>5. ASSUME NEW l \in Known, Due(l), InOutage(l), MaxOutage < HalfMargin
      PROVE  FALSE
  BY <1>1, <1>5, DueIsAlive, DueIsMatched
<1>6. linked.license \in Known /\ applied \in Known
  BY <1>1 DEF LicensingTypeOK
<1>7. MaxOutage < HalfMargin /\ LinkedRenewed => LinkedRenewed'
  BY <1>2, <1>5, <1>6 DEF LinkedRenewed, Due
<1>8. MaxOutage < HalfMargin /\ AppliedRenewed => AppliedRenewed'
  BY <1>2, <1>5, <1>6 DEF AppliedRenewed, Due
<1>9. AppliedIsLinked => AppliedIsLinked'
  BY <1>2 DEF AppliedIsLinked
<1> QED
  BY <1>3, <1>4, <1>7, <1>8, <1>9 DEF LicensingInv

LEMMA ReconcileKeeps ==
  ASSUME LicensingInv, ReconcileClusterLicense, UNCHANGED now
  PROVE  LicensingInv'
<1>1. CASE RequestFailed /\ UNCHANGED <<linked, esQueue, licenseQueue, licenseTimer, licenseRetry>>
  <2>1. LicensingTypeOK /\ UNCHANGED <<offers, applied, observed, operatorUp, outage>>
    BY DEF LicensingInv, ReconcileClusterLicense
  <2>2. LicensingTypeOK'
    BY <1>1, <2>1, RequestFailedIs DEF LicensingTypeOK
  <2> QED
    BY <1>1, <2>1, <2>2, RequestFailedIs, QueueFrame
<1> QED
  BY <1>1, MatchedKeeps, UnmatchedKeeps DEF ReconcileClusterLicense

\* What is sent is not due, or the cluster is about to be looked at.
LEMMA ApplyKeeps ==
  ASSUME LicensingInv, ApplyLinkedLicense, UNCHANGED now
  PROVE  LicensingInv'
<1>1. LicensingTypeOK /\ operatorUp /\ esQueue
  BY DEF LicensingInv, ApplyLinkedLicense
<1>2. /\ UNCHANGED <<offers, linked, observed, licenseQueue, licenseTimer, licenseRetry, operatorUp, outage>>
      /\ applied' = IF ToApply THEN linked.license ELSE applied
      /\ ~licenseBudget.lag => observed \in {NoLicense, applied}
  BY DEF ApplyLinkedLicense
<1>3. /\ licenseBudget' \in [changes : Nat, events : Nat, stops : Nat, faults : Nat, lag : BOOLEAN]
      /\ licenseBudget'.lag <=> licenseBudget.lag
      /\ esQueue' \in BOOLEAN
      /\ esQueue' => ToApply
  BY <1>1, RequestFailedIs DEF ApplyLinkedLicense, LicensingTypeOK
<1>4. linked.license \in Known /\ applied \in Known /\ observed \in Known
  BY <1>1 DEF LicensingTypeOK
<1>5. LicensingTypeOK'
  BY <1>1, <1>2, <1>3, <1>4 DEF LicensingTypeOK
<1>6. Scheduled' /\ LinkedStarted'
  BY <1>2 DEF LicensingInv, Scheduled, LinkedStarted, EnterpriseLicenses
<1>7. LinkedRenewed => LinkedRenewed'
  BY <1>2 DEF LinkedRenewed, Due, InOutage
<1>8. ~ToApply /\ ~licenseBudget.lag => linked.license = NoLicense \/ linked.license = applied
  <2>1. NoLicense.uid = 0
    BY DEF NoLicense
  <2> QED
    BY <2>1, <1>2, <1>4, KnownLicense, SameUid DEF ToApply
<1>9. ASSUME ~licenseBudget.lag, AppliedIsLinked
      PROVE  AppliedIsLinked'
  BY <1>2, <1>8, <1>9, KnownLicense, <1>4 DEF AppliedIsLinked, ToApply
<1>10. ASSUME ~licenseBudget.lag, AppliedRenewed, LinkedRenewed
       PROVE  AppliedRenewed'
  <2>1. CASE ToApply
    <3>1. applied' = linked.license
      BY <1>2, <2>1
    <3> QED
      BY <1>1, <1>2, <1>10, <3>1 DEF LinkedRenewed, AppliedRenewed, Due, InOutage
  <2>2. CASE ~ToApply
    BY <1>1, <1>2, <1>8, <1>10, <2>2 DEF AppliedRenewed, Due, InOutage
  <2> QED
    BY <2>1, <2>2
<1> QED
  BY <1>3, <1>5, <1>6, <1>7, <1>9, <1>10 DEF LicensingInv

LEMMA OtherQueuesKeep ==
  ASSUME LicensingInv, UNCHANGED now, ReconcileNoCluster \/ ObserveLicense \/ LicensedClusterEvent
  PROVE  LicensingInv'
<1>1. LicensingTypeOK
  BY DEF LicensingInv
<1>2. CASE ReconcileNoCluster
  <2>1. LicensingTypeOK'
    BY <1>1, <1>2 DEF LicensingTypeOK, ReconcileNoCluster
  <2> QED
    BY <1>2, <2>1, QueueFrame DEF ReconcileNoCluster
<1>3. CASE ObserveLicense
  <2>1. LicensingTypeOK'
    BY <1>1, <1>3 DEF LicensingTypeOK, ObserveLicense
  <2> QED
    BY <1>3, <2>1, QueueFrame DEF ObserveLicense
<1>4. CASE LicensedClusterEvent
  <2>1. licenseBudget.events - 1 \in Nat
    BY <1>1, <1>4 DEF LicensingTypeOK, LicensedClusterEvent
  <2>2. /\ licenseBudget' \in [changes : Nat, events : Nat, stops : Nat, faults : Nat, lag : BOOLEAN]
        /\ licenseBudget'.lag <=> licenseBudget.lag
    BY <1>1, <1>4, <2>1 DEF LicensingTypeOK, LicensedClusterEvent
  <2>3. LicensingTypeOK'
    BY <1>1, <1>4, <2>2 DEF LicensingTypeOK, LicensedClusterEvent
  <2> QED
    BY <1>4, <2>2, <2>3, QueueFrame DEF LicensedClusterEvent
<1> QED
  BY <1>2, <1>3, <1>4

\* A license that is installed now is too late for one that is due.
LEMMA ChangeKeepsDue ==
  ASSUME LicensingTypeOK, LicensingTypeOK', UNCHANGED now, NEW o \in Offers, Install(o) \/ Remove(o),
         NEW l \in Known
  PROVE  l.expiry <= now + HalfMargin /\ Successors(offers', l) # {} => Successors(offers, l) # {}
<1> SUFFICES ASSUME l.expiry <= now + HalfMargin, NEW c \in Successors(offers', l)
             PROVE  c \in Successors(offers, l)
  OBVIOUS
<1>1. PICK e \in InTime(offers', l) :
        /\ c \in e.clusters /\ c.start + HalfMargin < l.expiry
        /\ c.rank >= l.rank /\ c.expiry > l.expiry
  BY DEF Successors
<1>2. /\ e \in DOMAIN offers' /\ offers'[e] + HalfMargin < l.expiry
      /\ e.start + HalfMargin < l.expiry /\ l.expiry < e.expiry
  BY <1>1 DEF InTime
<1>3. now \in Nat /\ l.expiry \in Nat /\ HalfMargin \in Nat
  BY KnownLicense, HalfMarginType, HorizonAssumption DEF LicensingTypeOK
<1>4. ~(now + HalfMargin < l.expiry)
  BY <1>3
<1>5. e \in DOMAIN offers /\ offers'[e] = offers[e]
  <2>1. CASE Install(o)
    BY <1>2, <1>4, <2>1 DEF Install
  <2>2. CASE Remove(o)
    BY <1>2, <2>2 DEF Remove
  <2> QED
    BY <2>1, <2>2
<1>6. e \in InTime(offers, l)
  BY <1>2, <1>5 DEF InTime
<1> QED
  BY <1>1, <1>6 DEF Successors

LEMMA ChangeKeeps ==
  ASSUME LicensingInv, ChangeOffers, UNCHANGED now
  PROVE  LicensingInv'
<1>1. LicensingTypeOK
  BY DEF LicensingInv
<1>2. PICK o \in Offers : (Install(o) \/ Remove(o)) /\ LicenseChanged(o.uid)
  BY DEF ChangeOffers
<1>3. /\ UNCHANGED <<linked, applied, observed, licenseTimer, licenseRetry, esQueue, operatorUp, outage>>
      /\ licenseBudget.changes > 0
      /\ licenseBudget' = [licenseBudget EXCEPT !.changes = @ - 1]
  BY DEF ChangeOffers
<1>4. /\ licenseBudget' \in [changes : Nat, events : Nat, stops : Nat, faults : Nat, lag : BOOLEAN]
      /\ licenseBudget'.lag <=> licenseBudget.lag
  <2>1. licenseBudget.changes - 1 \in Nat
    BY <1>1, <1>3 DEF LicensingTypeOK
  <2> QED
    BY <1>1, <1>3, <2>1 DEF LicensingTypeOK
<1>5. /\ DOMAIN offers' \subseteq Offers /\ IsFiniteSet(DOMAIN offers')
      /\ \A p \in DOMAIN offers' : offers'[p] \in Nat
  <2>1. /\ DOMAIN offers \subseteq Offers /\ IsFiniteSet(DOMAIN offers) /\ now \in Nat
        /\ \A p \in DOMAIN offers : offers[p] \in Nat
    BY <1>1, HorizonAssumption DEF LicensingTypeOK
  <2>2. CASE Install(o)
    BY <2>1, <2>2, FS_AddElement DEF Install
  <2>3. CASE Remove(o)
    BY <2>1, <2>3, FS_RemoveElement DEF Remove
  <2> QED
    BY <1>2, <2>2, <2>3
<1>6. /\ licenseQueue \subseteq licenseQueue'
      /\ licenseQueue' \subseteq licenseQueue \cup {Cluster, LicenseSecretName}
      /\ operatorUp /\ licenseRetry => Cluster \in licenseQueue'
  BY <1>2 DEF LicenseChanged, ListAffectedLicenses
<1>7. LicensingTypeOK'
  BY <1>1, <1>3, <1>4, <1>5, <1>6 DEF LicensingTypeOK
<1>8. Scheduled' /\ LinkedStarted'
  BY <1>3, <1>6 DEF LicensingInv, Scheduled, LinkedStarted
<1>9. linked.license \in Known /\ applied \in Known
  BY <1>1 DEF LicensingTypeOK
<1>10. ASSUME NEW l \in Known, l.expiry <= now + HalfMargin, Successors(offers', l) # {}
       PROVE  Due(l)
  BY <1>1, <1>2, <1>7, <1>10, ChangeKeepsDue DEF Due
<1>11. LinkedRenewed => LinkedRenewed'
  BY <1>3, <1>6, <1>9, <1>10 DEF LinkedRenewed, Due, InOutage
<1>12. AppliedRenewed => AppliedRenewed'
  BY <1>3, <1>6, <1>9, <1>10 DEF AppliedRenewed, Due, InOutage
<1>13. AppliedIsLinked => AppliedIsLinked'
  BY <1>3 DEF AppliedIsLinked
<1> QED
  BY <1>4, <1>7, <1>8, <1>11, <1>12, <1>13 DEF LicensingInv

LEMMA StopKeeps ==
  ASSUME LicensingInv, StopLicensing, UNCHANGED now
  PROVE  LicensingInv'
<1>1. LicensingTypeOK /\ licenseBudget.stops - 1 \in Nat
  BY DEF LicensingInv, LicensingTypeOK, StopLicensing
<1>2. /\ UNCHANGED <<offers, linked, applied, outage>> /\ operatorUp' = FALSE
      /\ licenseTimer' = Never /\ observed' = NoLicense
  BY DEF StopLicensing
<1>3. /\ licenseBudget' \in [changes : Nat, events : Nat, stops : Nat, faults : Nat, lag : BOOLEAN]
      /\ licenseBudget'.lag <=> licenseBudget.lag
  BY <1>1 DEF LicensingTypeOK, StopLicensing
<1>4. Never \in Nat /\ Never > now /\ NoLicense \in Known
  BY <1>1, HorizonAssumption DEF Never, LicensingTypeOK, Known
<1>5. LicensingTypeOK'
  BY <1>1, <1>2, <1>3, <1>4 DEF LicensingTypeOK, StopLicensing
<1>6. Scheduled' /\ LinkedStarted'
  BY <1>2, <1>4 DEF LicensingInv, Scheduled, LinkedStarted
<1>7. LinkedRenewed => LinkedRenewed'
  BY <1>2 DEF LinkedRenewed, Due, InOutage
<1>8. (AppliedIsLinked => AppliedIsLinked') /\ (AppliedRenewed => AppliedRenewed')
  BY <1>2 DEF AppliedIsLinked, AppliedRenewed, Due, InOutage
<1> QED
  BY <1>3, <1>5, <1>6, <1>7, <1>8 DEF LicensingInv

LEMMA StartKeeps ==
  ASSUME LicensingInv, StartLicensing, UNCHANGED now
  PROVE  LicensingInv'
<1>1. LicensingTypeOK
  BY DEF LicensingInv
<1>2. /\ UNCHANGED <<offers, linked, applied, observed, licenseTimer, licenseRetry, outage, licenseBudget>>
      /\ Cluster \in licenseQueue' /\ esQueue' = TRUE
  BY DEF StartLicensing
<1>3. LicensingTypeOK'
  BY <1>1 DEF LicensingTypeOK, StartLicensing
<1>4. Scheduled' /\ LinkedStarted'
  BY <1>2 DEF LicensingInv, Scheduled, LinkedStarted
<1>5. LinkedRenewed => LinkedRenewed'
  BY <1>2 DEF LinkedRenewed, Due, InOutage
<1>6. (AppliedIsLinked => AppliedIsLinked') /\ (AppliedRenewed => AppliedRenewed')
  BY <1>2 DEF AppliedIsLinked, AppliedRenewed, Due, InOutage
<1> QED
  BY <1>2, <1>3, <1>4, <1>5, <1>6 DEF LicensingInv

\* Time passes with nothing left to do: what is due is as it was, and what becomes due
\* is looked at.
LEMMA TickKeeps ==
  ASSUME LicensingInv, LicensingTick
  PROVE  LicensingInv'
<1>1. LicensingTypeOK
  BY DEF LicensingInv
<1>2. /\ now \in Nat /\ HalfMargin \in Nat /\ licenseTimer \in Nat /\ Never \in Nat /\ outage \in Nat
      /\ MaxOutage \in Nat /\ Never > now + 1 /\ now' = now + 1 /\ now + 1 \in 0 .. Horizon
  BY <1>1, HalfMarginType, HorizonAssumption, LicensingAssumption
     DEF LicensingTypeOK, Never, LicensingTick, Advance
<1>3. UNCHANGED <<offers, linked, applied, observed, licenseRetry, esQueue, operatorUp, licenseBudget>>
  BY DEF LicensingTick
<1>4. /\ licenseTimer' \in Nat /\ licenseTimer' > now'
      /\ licenseQueue' \in {licenseQueue, {Cluster}}
      /\ licenseRetry \/ licenseTimer <= now' => Cluster \in licenseQueue'
      /\ licenseTimer' # licenseTimer => Cluster \in licenseQueue'
      /\ Cluster \in licenseQueue => Cluster \in licenseQueue'
  BY <1>2 DEF LicensingTick
<1>5. /\ outage' \in 0 .. MaxOutage
      /\ operatorUp => LicensingIdle /\ outage' = 0
      /\ ~operatorUp => outage' = outage + 1
  BY <1>1, <1>2 DEF LicensingTick, LicensingTypeOK
<1>6. LicensingTypeOK'
  BY <1>1, <1>2, <1>3, <1>4, <1>5 DEF LicensingTypeOK
<1>7. /\ linked.license \in Known /\ applied \in Known
      /\ linked.license.expiry \in Nat /\ linked.license.start \in Nat /\ applied.expiry \in Nat
  BY <1>1, KnownLicense DEF LicensingTypeOK
<1>8. Scheduled' /\ LinkedStarted'
  BY <1>2, <1>3, <1>4, <1>7 DEF LicensingInv, Scheduled, LinkedStarted
<1>9. operatorUp => Cluster \notin licenseQueue
  BY <1>5 DEF LicensingIdle
<1>10. operatorUp /\ linked.license.expiry <= now' + HalfMargin => Cluster \in licenseQueue'
  BY <1>2, <1>4, <1>7, <1>9 DEF LicensingInv, Scheduled
<1>11. ASSUME LinkedRenewed PROVE LinkedRenewed'
  <2> SUFFICES ASSUME linked.license # NoLicense, linked.license.expiry <= now' + HalfMargin,
                      Successors(offers, linked.license) # {}
               PROVE  now' + HalfMargin <= linked.license.expiry + outage'
    BY <1>3, <1>10 DEF LinkedRenewed, Due, InOutage
  <2>1. CASE linked.license.expiry <= now + HalfMargin
    <3>1. ~operatorUp /\ now + HalfMargin <= linked.license.expiry + outage
      BY <1>9, <1>11, <2>1 DEF LinkedRenewed, Due, InOutage
    <3> QED
      BY <1>2, <1>5, <1>7, <3>1
  <2>2. CASE ~(linked.license.expiry <= now + HalfMargin)
    BY <1>2, <1>5, <1>7, <2>2
  <2> QED
    BY <2>1, <2>2
<1>12. AppliedIsLinked => AppliedIsLinked'
  BY <1>3 DEF AppliedIsLinked
\* What the cluster has to send, it can.
<1>13. ASSUME operatorUp, esQueue, linked.license \notin {NoLicense, applied}, linked.license.expiry > now
       PROVE  FALSE
  <2>1. Refused /\ observed = applied
    BY <1>5, <1>13 DEF LicensingIdle
  <2> QED
    BY <2>1, <1>13 DEF Refused, IsValidAt, LicensingInv, LinkedStarted
<1>14. ASSUME AppliedIsLinked, operatorUp, applied # NoLicense, applied.expiry <= now' + HalfMargin,
              ~(applied.expiry <= now + HalfMargin)
       PROVE  Cluster \in licenseQueue'
  <2>1. CASE applied = linked.license
    BY <2>1, <1>10, <1>14
  <2>2. CASE applied # linked.license
    <3>1. esQueue /\ linked.license # NoLicense
      BY <1>14, <2>2 DEF AppliedIsLinked
    <3>2. ~(linked.license.expiry > now)
      BY <1>13, <1>14, <2>2, <3>1
    <3> QED
      BY <1>2, <1>7, <1>10, <1>14, <3>2
  <2> QED
    BY <2>1, <2>2
<1>15. ASSUME AppliedIsLinked, AppliedRenewed PROVE AppliedRenewed'
  <2> SUFFICES ASSUME applied # NoLicense, applied.expiry <= now' + HalfMargin,
                      Successors(offers, applied) # {}
               PROVE  /\ now' + HalfMargin <= applied.expiry + outage'
                      /\ operatorUp => Cluster \in licenseQueue'
    BY <1>3 DEF AppliedRenewed, Due, InOutage
  <2>1. CASE applied.expiry <= now + HalfMargin
    <3>1. ~operatorUp /\ now + HalfMargin <= applied.expiry + outage
      BY <1>9, <1>13, <1>15, <2>1 DEF AppliedRenewed, Due, InOutage
    <3> QED
      BY <1>2, <1>5, <1>7, <3>1
  <2>2. CASE ~(applied.expiry <= now + HalfMargin)
    <3>1. operatorUp => Cluster \in licenseQueue'
      BY <1>14, <1>15, <2>2
    <3> QED
      BY <1>2, <1>5, <1>7, <2>2, <3>1
  <2> QED
    BY <2>1, <2>2
<1> QED
  BY <1>3, <1>6, <1>8, <1>11, <1>12, <1>15 DEF LicensingInv

LEMMA LicensingInvNext ==
  ASSUME LicensingInv, [LicensingNext]_<<licensingVars, now>>
  PROVE  LicensingInv'
<1>1. CASE LicensingTick
  BY <1>1, TickKeeps
<1>2. CASE UNCHANGED <<licensingVars, now>>
  <2>1. LicensingTypeOK'
    BY <1>2 DEF LicensingInv, LicensingTypeOK, licensingVars
  <2> QED
    BY <1>2, <2>1, QueueFrame DEF licensingVars
<1>3. CASE /\ UNCHANGED now
           /\ \/ ReconcileClusterLicense \/ ReconcileNoCluster \/ ApplyLinkedLicense
              \/ ObserveLicense \/ ChangeOffers \/ LicensedClusterEvent \/ StopLicensing \/ StartLicensing
  BY <1>3, ReconcileKeeps, OtherQueuesKeep, ApplyKeeps, ChangeKeeps, StopKeeps, StartKeeps
<1> QED
  BY <1>1, <1>2, <1>3 DEF LicensingNext

-----------------------------------------------------------------------------
\* Whatever fails, and whenever the operator stops, an expired license has given way to
\* a valid one when both controllers have nothing left to do, unless the observation they
\* rely on was late (reconcileInternal, updateLicense).
THEOREM ExpiredGivesWay == LicensingSpec => [](~licenseBudget.lag => FallsBack)
<1>1. now = 0 /\ LicensingInit => LicensingInv
  BY LicensingInvInit
<1>2. LicensingInv /\ [LicensingNext]_<<licensingVars, now>> => LicensingInv'
  BY LicensingInvNext
<1>3. LicensingInv => (~licenseBudget.lag => FallsBack)
  <2> SUFFICES ASSUME LicensingInv, ~licenseBudget.lag, operatorUp, LicensingIdle,
                      applied # NoLicense, applied.expiry <= now,
                      FilterValid(EnterpriseLicenses, now) # {}
               PROVE  FALSE
    BY DEF FallsBack
  <2>1. LicensingTypeOK /\ Scheduled /\ AppliedIsLinked /\ LinkedStarted
    BY DEF LicensingInv
  <2>2. /\ linked.license.expiry \in Nat /\ now \in Nat /\ HalfMargin \in Nat /\ licenseTimer \in Nat
    BY <2>1, KnownLicense, HalfMarginType, HorizonAssumption DEF LicensingTypeOK
  <2>3. linked.license.expiry > now
    BY <2>1, <2>2 DEF LicensingIdle, Scheduled
  <2>4. ~Refused
    BY <2>1, <2>3 DEF Refused, IsValidAt, LinkedStarted
  <2>5. applied = linked.license
    BY <2>1, <2>4 DEF AppliedIsLinked, LicensingIdle
  <2> QED
    BY <2>2, <2>3, <2>5
<1> QED
  BY <1>1, <1>2, <1>3, PTL DEF LicensingSpec

\* A successor installed half the safety margin before a license expires is the
\* cluster's by then, for any margin and however often the operator is stopped, if never
\* for half the margin before it gets to work again (nextReconcileRelativeTo).
THEOREM RenewedInTime ==
  MaxOutage < HalfMargin => (LicensingSpec => [](~licenseBudget.lag => RenewedBeforeExpiry))
<1> SUFFICES ASSUME MaxOutage < HalfMargin
             PROVE  LicensingSpec => [](~licenseBudget.lag => RenewedBeforeExpiry)
  OBVIOUS
<1>1. now = 0 /\ LicensingInit => LicensingInv
  BY LicensingInvInit
<1>2. LicensingInv /\ [LicensingNext]_<<licensingVars, now>> => LicensingInv'
  BY LicensingInvNext
<1>3. LicensingInv => (~licenseBudget.lag => RenewedBeforeExpiry)
  <2> SUFFICES ASSUME LicensingInv, ~licenseBudget.lag, applied # NoLicense, applied.expiry <= now,
                      Successors(offers, applied) # {}
               PROVE  FALSE
    BY DEF RenewedBeforeExpiry
  <2>1. LicensingTypeOK /\ AppliedRenewed /\ applied \in Known
    BY DEF LicensingInv, LicensingTypeOK
  <2>2. applied.expiry \in Nat /\ now \in Nat /\ HalfMargin \in Nat
    BY <2>1, KnownLicense, HalfMarginType, HorizonAssumption DEF LicensingTypeOK
  <2>3. InOutage(applied)
    BY <2>1, <2>2 DEF AppliedRenewed, Due
  <2> QED
    BY <2>1, <2>2, <2>3, DueIsAlive
<1> QED
  BY <1>1, <1>2, <1>3, PTL DEF LicensingSpec
=============================================================================
