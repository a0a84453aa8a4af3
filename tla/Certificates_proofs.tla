-------------------------- MODULE Certificates_proofs --------------------------
(***************************************************************************)
(* The promises about certificates, for any number of nodes, validity and  *)
(* margin, and number of changes, failures and stops.                      *)
(***************************************************************************)
EXTENDS CertificatesProperties, Integers, TLAPS

-----------------------------------------------------------------------------
(***************************************************************************)
(* Types.                                                                  *)
(***************************************************************************)
CAs == [serial : Nat, expiry : Nat]
Subjects == {"nobody", "user", "names1", "names2"} \cup IPs
Certs == [key : Nat, issuer : CAs, expiry : Nat, for : Subjects]
CertBudgets ==
  [edits : Nat, contents : Nat, pods : Nat, deletions : Nat, faults : Nat, stops : Nat,
   race : BOOLEAN]

\* A certificate is kept with its key and with the CA that signed it.
HttpSecrets ==
  {s \in [key : Nat, cert : Certs, ca : CAs] :
     /\ s.cert.issuer = s.ca /\ s.cert.key = s.key
     /\ s.key = 0 => s.cert.for = "nobody"
     /\ s.cert.for \notin IPs}

\* What the secret of the nodes holds of one of them.
NodeCerts == {c \in Certs : c.for \in IPs \cup {"nobody"} /\ (c.for = "nobody" => c = NoCert)}

CertPcs ==
  {"idle", "http-ca", "http-get", "http", "http-public", "transport-ca",
   "transport-public", "transport", "finish"}

CertPasses == [pc : CertPcs, ca : CAs, custom : Nat, http : HttpSecrets, requeue : Nat]

SecretsType ==
  /\ httpCA \in CAs /\ transportCA \in CAs /\ transportPublic \in CAs
  /\ httpCerts \in HttpSecrets
  /\ httpPublic \in [cert : Certs, ca : CAs]
  /\ transportCerts \in [ca : CAs, cert : [CertNodes -> NodeCerts]]

InputsType ==
  /\ certOwner \in Owners
  /\ tls \in [custom : BOOLEAN, disabled : BOOLEAN, san : {"names1", "names2"}]
  /\ customCert \in Nat \ {0}
  /\ certPods \in [CertNodes -> {"absent", "pending"} \cup IPs]
  /\ ~ElasticsearchCertificates => \A p \in CertNodes : certPods[p] = "absent"

ControlType ==
  /\ certQueue \in BOOLEAN /\ certTimer \in Nat
  /\ certUp \in BOOLEAN /\ certOutage \in 0 .. MaxCertOutage
  /\ certServed \in BOOLEAN /\ certBudget \in CertBudgets

CertTypeOK ==
  /\ SecretsType /\ InputsType /\ ControlType
  /\ certWatched \in BOOLEAN
  /\ certPass \in CertPasses
  /\ now \in 0 .. Horizon

-----------------------------------------------------------------------------
(***************************************************************************)
(* How far a pass has made the secrets consistent, while nothing it relies *)
(* on has changed since it started.                                        *)
(***************************************************************************)
Certified ==
  ElasticsearchCertificates \/ KibanaCertificates \/ LogstashCertificates \/ ApmServerCertificates

CertDone(pcs) == certPass.pc \in pcs \cup {"finish", "idle"}

CustomRead == certPass.custom = IF tls.custom THEN customCert ELSE 0

\* The secret of the HTTP certificate holds what it should.
HTTPCertificateRight ==
  /\ tls.custom => certWatched /\ httpCerts = CustomCertificate(customCert)
  /\ ~tls.custom => /\ httpCerts.cert.issuer = httpCA /\ httpCerts.ca = httpCA
                    /\ httpCerts.cert.key = httpCerts.key /\ httpCerts.cert.for = tls.san

HTTPPublicRight == httpPublic = [cert |-> httpCerts.cert, ca |-> httpCerts.ca]

HTTPProgress ==
  /\ certPass.pc \in {"http-get", "http"} => certPass.ca = httpCA
  /\ certPass.pc = "http" => CustomRead
  /\ certPass.pc = "http-public" => certPass.http = httpCerts
  /\ CertDone({"http-public", "transport-ca", "transport-public", "transport"}) =>
       HTTPCertificateRight
  /\ CertDone({"transport-ca", "transport-public", "transport"}) => HTTPPublicRight

TransportProgress ==
  /\ certPass.pc \in {"transport-public", "transport"} => certPass.ca = transportCA
  /\ CertDone({"transport"}) => transportPublic = transportCA
  /\ CertDone({}) => TransportConsistent

\* The owner's pass is under way, or there is nothing to do.
Undisturbed == certUp /\ ~certQueue

ConsistencyInv ==
  Undisturbed /\ Certified /\ ~certBudget.race =>
    HTTPProgress /\ (ElasticsearchCertificates => TransportProgress)

-----------------------------------------------------------------------------
(***************************************************************************)
(* When the certificates that are served are looked at again.              *)
(***************************************************************************)
\* When the timer for a CA is due, and whether a CA may still be used.
CheckAt(ca) == ca.expiry - (CaRotateBefore - 1)
UsedAt(ca, t) == t <= ca.expiry - CaRotateBefore

MadeBy(ca, t) == ca.expiry <= t + CaValidity

SelfMade(c) == c # NoCert /\ c.for # "user"

\* A certificate lives at least as long as its CA.
Outlives(c) == c.issuer.expiry <= c.expiry

\* In the course of a pass: what it goes on with is good, and its timer is in time.
GoodFor(pass, ca) == ca # NoCA /\ UsedAt(ca, now) /\ pass.requeue <= CheckAt(ca)

CertificatesMade ==
  /\ MadeBy(httpCA, now) /\ MadeBy(transportCA, now) /\ MadeBy(certPass.ca, now)
  /\ \A c \in ServedCertificates :
       /\ c.for = "user" => c.expiry = NotDue
       /\ SelfMade(c) => Outlives(c)

PassProgress ==
  /\ ~certUp => certPass.pc = "idle"
  /\ certPass.pc \in {"http-get", "http"} => GoodFor(certPass, certPass.ca)
  /\ certPass.pc \in {"transport-public", "transport"} => GoodFor(certPass, certPass.ca)
  /\ certPass.pc \in {"http-public", "transport-ca", "transport-public", "transport"} =>
       /\ certPass.ca # NoCA
       /\ SelfMade(httpCerts.cert) => GoodFor(certPass, httpCerts.cert.issuer)
  /\ certPass.pc = "finish" /\ certPass.ca # NoCA =>
       \A c \in ServedCertificates : SelfMade(c) => GoodFor(certPass, c.issuer)

\* A stop is noticed in what is left to a CA.
InCertOutage(ca) == now <= CheckAt(ca) + certOutage

ServedWatched ==
  certServed =>
    \A c \in ServedCertificates : SelfMade(c) =>
      /\ InCertOutage(c.issuer)
      /\ certUp /\ ~certQueue /\ certPass.pc = "idle" => certTimer <= CheckAt(c.issuer)

ValidityInv == CertificatesMade /\ PassProgress /\ ServedWatched

CertificatesInv == CertTypeOK /\ ConsistencyInv /\ (CaValidity <= CertValidity => ValidityInv)
-----------------------------------------------------------------------------
(***************************************************************************)
(* What the operators return.                                              *)
(***************************************************************************)
LEMMA Rotation ==
  /\ CaValidity \in Nat /\ CaRotateBefore \in Nat \ {0} /\ CaRotateBefore <= CaValidity
  /\ CertValidity \in Nat /\ CertRotateBefore \in Nat \ {0} /\ CertRotateBefore <= CertValidity
  /\ MaxCertOutage \in Nat /\ Horizon \in Nat /\ NotDue \in Nat
  BY CertificatesAssumption, HorizonAssumption DEF NotDue

LEMMA NothingMade ==
  /\ NoCA \in CAs /\ NoCA.expiry = 0
  /\ NoCert \in NodeCerts /\ NoCert \in Certs /\ NoCert.for = "nobody" /\ NoCert.expiry = 0
  /\ NoCert.issuer = NoCA /\ NoHttpCerts \in HttpSecrets
  /\ IdleCertPass \in CertPasses
<1>1. NoCA \in CAs /\ NoCA.expiry = 0
  BY DEF NoCA, CAs
<1>2. NoCert \in Certs /\ NoCert.for = "nobody" /\ NoCert.expiry = 0 /\ NoCert.issuer = NoCA /\ NoCert.key = 0
  BY <1>1 DEF NoCert, Certs, Subjects
<1>3. NoCert \in NodeCerts
  BY <1>2 DEF NodeCerts
<1>4. NoHttpCerts \in HttpSecrets
  BY <1>1, <1>2 DEF NoHttpCerts, HttpSecrets, IPs
<1>5. IdleCertPass \in CertPasses
  BY <1>1, <1>4, Rotation DEF IdleCertPass, CertPasses, CertPcs
<1> QED
  BY <1>1, <1>2, <1>3, <1>4, <1>5

\* A CA the operator goes on with is one it may use.
LEMMA CAIsUsed ==
  ASSUME CertTypeOK, NEW ca \in CAs
  PROVE  /\ ReconcileCA(ca) \in CAs /\ ReconcileCA(ca) # NoCA
         /\ UsedAt(ReconcileCA(ca), now)
         /\ MadeBy(ca, now) => MadeBy(ReconcileCA(ca), now)
<1>1. now \in Nat /\ certBudget.deletions \in Nat
  BY Rotation DEF CertTypeOK, ControlType, CertBudgets
<1>2. CASE CanReuseCA(ca)
  <2>1. ReconcileCA(ca) = ca /\ ca # NoCA /\ now <= ca.expiry - CaRotateBefore
    BY <1>2 DEF ReconcileCA, CanReuseCA, CertIsValid
  <2> QED
    BY <2>1 DEF UsedAt
<1>3. CASE ~CanReuseCA(ca)
  <2>1. ReconcileCA(ca) = [serial |-> certBudget.deletions, expiry |-> now + CaValidity]
    BY <1>3 DEF ReconcileCA, NewSelfSignedCA
  <2>2. ReconcileCA(ca) \in CAs /\ ReconcileCA(ca).expiry = now + CaValidity
    BY <1>1, <2>1, Rotation DEF CAs
  <2>3. ReconcileCA(ca).expiry # 0
    BY <1>1, <2>2, Rotation
  <2> QED
    BY <1>1, <2>2, <2>3, Rotation, NothingMade DEF UsedAt, MadeBy
<1> QED
  BY <1>2, <1>3

\* The timer that a pass leaves for a CA it may use.
LEMMA CheckedInTime ==
  ASSUME CertTypeOK, NEW ca \in CAs, UsedAt(ca, now)
  PROVE  ShouldRotateIn(ca) = CheckAt(ca) /\ CheckAt(ca) \in Nat /\ now < CheckAt(ca)
<1>1. now \in Nat /\ ca.expiry \in Nat
  BY Rotation DEF CertTypeOK, CAs
<1>2. now < CheckAt(ca) /\ CheckAt(ca) \in Nat
  BY <1>1, Rotation DEF UsedAt, CheckAt
<1> QED
  BY <1>1, <1>2, Rotation DEF ShouldRotateIn, CheckAt

LEMMA SoonerIs ==
  ASSUME NEW t \in Nat, NEW u \in Nat
  PROVE  Sooner(t, u) \in Nat /\ Sooner(t, u) <= t /\ Sooner(t, u) <= u
  BY DEF Sooner

LEMMA IssuedCertificate ==
  ASSUME CertTypeOK, NEW ca \in CAs, NEW key \in Nat, NEW validity \in Nat, NEW for \in Subjects
  PROVE  /\ CreateCertificate(ca, key, validity, for) \in Certs
         /\ CreateCertificate(ca, key, validity, for).key = key
         /\ CreateCertificate(ca, key, validity, for).issuer = ca
         /\ CreateCertificate(ca, key, validity, for).expiry = now + validity
         /\ CreateCertificate(ca, key, validity, for).for = for
  BY Rotation DEF CreateCertificate, Certs, CertTypeOK

LEMMA CustomIs ==
  ASSUME NEW content \in Nat \ {0}
  PROVE  /\ CustomCertificate(content) \in HttpSecrets
         /\ CustomCertificate(content).cert.for = "user"
         /\ CustomCertificate(content).cert.expiry = NotDue
<1>1. [key |-> content, issuer |-> NoCA, expiry |-> NotDue, for |-> "user"] \in Certs
  BY Rotation, NothingMade DEF Certs, Subjects
<1> QED
  BY <1>1, NothingMade DEF CustomCertificate, HttpSecrets, IPs

\* What a pass makes of the secret of the HTTP certificate without one of the user's.
LEMMA SelfSignedIs ==
  ASSUME CertTypeOK, NEW secret \in HttpSecrets, NEW ca \in CAs
  PROVE  LET made == SelfSigned(secret, ca) IN
         /\ made \in HttpSecrets
         /\ made.ca = ca /\ made.cert.issuer = ca
         /\ made.cert.for = tls.san /\ made.cert.key = made.key
         /\ made.cert = secret.cert \/ made.cert.expiry = now + CaValidity
<1> DEFINE key == IF secret.key # 0 THEN secret.key ELSE OwnKey
           made == SelfSigned(secret, ca)
           issued == ValidatedHTTPCertificate(ca, key)
<1>1. secret.key \in Nat /\ key \in Nat /\ key # 0
  BY DEF HttpSecrets, OwnKey
<1>2. tls.san \in Subjects /\ tls.san # "nobody" /\ tls.san \notin IPs
  BY DEF CertTypeOK, InputsType, Subjects, IPs
<1>3. CASE ShouldIssueNewHTTPCertificate(secret, ca)
  <2>1. made = [key |-> key, cert |-> issued, ca |-> ca]
    BY <1>3 DEF SelfSigned
  <2>2. issued \in Certs /\ issued.key = key /\ issued.issuer = ca
        /\ issued.expiry = now + CaValidity /\ issued.for = tls.san
    BY <1>1, <1>2, Rotation, IssuedCertificate DEF ValidatedHTTPCertificate
  <2> HIDE DEF issued, key, made
  <2> QED
    BY <1>1, <1>2, <2>1, <2>2 DEF HttpSecrets, made
<1>4. CASE ~ShouldIssueNewHTTPCertificate(secret, ca)
  <2>1. secret.cert.issuer = ca /\ secret.cert.for = tls.san
    BY <1>4 DEF ShouldIssueNewHTTPCertificate, Verifies
  <2>2. secret.key # 0
    BY <1>2, <2>1 DEF HttpSecrets
  <2>3. made = [secret EXCEPT !.key = secret.key]
    BY <1>4, <2>2 DEF SelfSigned
  <2>4. made = secret
    BY <2>3 DEF HttpSecrets
  <2> QED
    BY <2>1, <2>4 DEF HttpSecrets
<1> HIDE DEF made
<1> QED
  BY <1>3, <1>4 DEF made

LEMMA NodeCertIs ==
  ASSUME CertTypeOK, NEW c \in NodeCerts, NEW ca \in CAs, NEW p \in CertNodes, HasIP(p)
  PROVE  LET made == ContentsForPod(c, ca, p) IN
         /\ made \in NodeCerts
         /\ made.issuer = ca /\ made.for = certPods[p]
         /\ made = c \/ made.expiry = now + CertValidity
<1> DEFINE made == ContentsForPod(c, ca, p)
<1>1. certPods[p] \in Subjects /\ certPods[p] \in IPs /\ certPods[p] # "nobody"
  BY DEF HasIP, Subjects, IPs
<1>2. CASE ShouldIssueNewCertificate(c, ca, p)
  <2>1. made = CreateCertificate(ca, OwnKey, CertValidity, certPods[p])
    BY <1>2 DEF ContentsForPod, ValidatedCertificate, GeneralNames
  <2>2. OwnKey \in Nat
    BY DEF OwnKey
  <2> HIDE DEF made
  <2>3. made \in Certs /\ made.issuer = ca /\ made.expiry = now + CertValidity /\ made.for = certPods[p]
    BY <1>1, <2>1, <2>2, Rotation, IssuedCertificate
  <2> QED
    BY <1>1, <2>3 DEF NodeCerts, made
<1>3. CASE ~ShouldIssueNewCertificate(c, ca, p)
  BY <1>3 DEF ContentsForPod, ShouldIssueNewCertificate, Verifies, GeneralNames
<1> QED
  BY <1>2, <1>3

\* How a step of a pass ends.
LEMMA StepEnds ==
  ASSUME CertTypeOK, NEW outcome \in CertOutcomes, NEW pass \in CertPasses,
         CertContinue(outcome, pass)
  PROVE  /\ certPass' \in CertPasses /\ certQueue' \in BOOLEAN
         /\ certBudget' \in CertBudgets /\ certBudget'.race = certBudget.race
         /\ outcome = "done" => certPass' = pass /\ certQueue' = certQueue
         /\ outcome # "done" => certPass' = IdleCertPass /\ certQueue' = TRUE
<1>1. certQueue \in BOOLEAN /\ certBudget \in CertBudgets
  BY DEF CertTypeOK, ControlType
<1>2. CASE outcome = "done"
  <2>1. certPass' = pass /\ certQueue' = certQueue /\ certBudget' = certBudget
    BY <1>2 DEF CertContinue
  <2> QED
    BY <1>1, <1>2, <2>1
<1>3. CASE outcome # "done"
  <2>1. certPass' = IdleCertPass /\ certQueue' = TRUE
        /\ certBudget' = [certBudget EXCEPT !.faults = @ - 1]
    BY <1>3 DEF CertContinue
  <2>2. certBudget.faults > 0
    BY <1>3 DEF CertOutcomes
  <2>3. certBudget' \in CertBudgets /\ certBudget'.race = certBudget.race
    BY <1>1, <2>1, <2>2 DEF CertBudgets
  <2> QED
    BY <1>3, <2>1, <2>3, NothingMade
<1> QED
  BY <1>2, <1>3

LEMMA CertSpent ==
  ASSUME CertTypeOK, NEW counter \in {"edits", "contents", "pods", "deletions", "faults", "stops"},
         CertSpend(counter)
  PROVE  certBudget' \in CertBudgets /\ certBudget'.race = certBudget.race
<1>1. certBudget \in CertBudgets /\ certBudget[counter] > 0
  BY DEF CertTypeOK, ControlType, CertSpend
<1>2. certBudget' = [certBudget EXCEPT ![counter] = @ - 1]
  BY DEF CertSpend
<1> QED
  BY <1>1, <1>2 DEF CertBudgets
-----------------------------------------------------------------------------
(***************************************************************************)
(* What is served.                                                         *)
(***************************************************************************)
LEMMA ServedIs ==
  ASSUME NEW c
  PROVE  c \in ServedCertificates <=>
           c = httpCerts.cert \/ \E p \in CertNodes : Own(p) /\ c = transportCerts.cert[p]
  BY DEF ServedCertificates

LEMMA ServedTyped ==
  ASSUME CertTypeOK, NEW c \in ServedCertificates
  PROVE  c \in Certs /\ c.issuer \in CAs /\ c.issuer.expiry \in Nat /\ c.expiry \in Nat
<1>1. httpCerts.cert \in Certs
  BY DEF CertTypeOK, SecretsType, HttpSecrets
<1>2. \A p \in CertNodes : transportCerts.cert[p] \in Certs
  BY DEF CertTypeOK, SecretsType, NodeCerts
<1>3. c \in Certs
  BY <1>1, <1>2 DEF ServedCertificates
<1> QED
  BY <1>3 DEF Certs, CAs

\* The owners without nodes serve the HTTP certificate.
LEMMA NoNodes ==
  ASSUME CertTypeOK, ~ElasticsearchCertificates
  PROVE  \A c \in ServedCertificates : c = httpCerts.cert
<1>1. \A p \in CertNodes : certPods[p] = "absent" /\ transportCerts.cert[p].for # "absent"
  BY DEF CertTypeOK, InputsType, SecretsType, NodeCerts, IPs
<1> QED
  BY <1>1, ServedIs DEF Own

\* The same certificates are served, or fewer, when the secrets do not change and a Pod
\* gets no address that its old certificate is for.
LEMMA ServedSame ==
  ASSUME httpCerts' = httpCerts, transportCerts' = transportCerts, certPods' = certPods
  PROVE  ServedCertificates' = ServedCertificates
  BY DEF ServedCertificates, Own

\* Without a change of what is served or of the clock, validity is that of the pass
\* and of the timer.
LEMMA ValidityFrame ==
  ASSUME CertTypeOK, ValidityInv, ServedCertificates' \subseteq ServedCertificates, now' = now,
         MadeBy(httpCA', now), MadeBy(transportCA', now), MadeBy(certPass'.ca, now),
         PassProgress', certServed' = certServed, certOutage' = certOutage,
         \/ ~(certUp' /\ ~certQueue' /\ certPass'.pc = "idle")
         \/ UNCHANGED <<certUp, certQueue, certPass, certTimer>>
  PROVE  ValidityInv'
<1>1. CertificatesMade'
  BY DEF ValidityInv, CertificatesMade, MadeBy, SelfMade, Outlives
<1>2. ServedWatched'
  BY DEF ValidityInv, ServedWatched, SelfMade, InCertOutage, CheckAt
<1> QED
  BY <1>1, <1>2 DEF ValidityInv

\* A pass that ends early leaves its owner queued.
LEMMA CutShort ==
  ASSUME CertTypeOK, certPass' = IdleCertPass
  PROVE  PassProgress' /\ MadeBy(certPass'.ca, now)
<1>1. certPass'.pc = "idle" /\ certPass'.ca = NoCA
  BY DEF IdleCertPass
<1>2. now \in Nat
  BY Rotation DEF CertTypeOK
<1> QED
  BY <1>1, <1>2, NothingMade, Rotation DEF PassProgress, MadeBy

-----------------------------------------------------------------------------
(***************************************************************************)
(* The steps of a pass.                                                    *)
(***************************************************************************)
LEMMA StartCertPassKeeps ==
  ASSUME CertificatesInv, StartCertPass
  PROVE  CertificatesInv'
<1>1. CertTypeOK /\ certUp = TRUE
  BY DEF CertificatesInv, StartCertPass
<1>2. /\ UNCHANGED <<certSecrets, certWatched, certBudget, certInputs, certTimer, certUp, certOutage,
                     certServed, now>>
      /\ certQueue' = FALSE
  BY DEF StartCertPass, CertOthers
<1>3. \/ Certified /\ certPass' = [IdleCertPass EXCEPT !.pc = "http-ca"]
      \/ ~Certified /\ certPass' = [IdleCertPass EXCEPT !.pc = "finish"]
  BY DEF StartCertPass, Certified
<1>4. certPass' \in CertPasses /\ certPass'.pc \in {"http-ca", "finish"} /\ certPass'.ca = NoCA
      /\ (Certified => certPass'.pc = "http-ca")
  BY <1>3, NothingMade DEF CertPasses, CertPcs, IdleCertPass
<1>5. CertTypeOK'
  BY <1>1, <1>2, <1>4
     DEF CertTypeOK, SecretsType, InputsType, ControlType, certSecrets, certInputs, ElasticsearchCertificates
<1>6. ConsistencyInv'
  <2>1. Certified' <=> Certified
    BY <1>2 DEF Certified, certInputs, ElasticsearchCertificates, KibanaCertificates,
                LogstashCertificates, ApmServerCertificates
  <2>2. Certified => HTTPProgress' /\ TransportProgress'
    BY <1>4 DEF HTTPProgress, TransportProgress, CertDone
  <2> QED
    BY <2>1, <2>2 DEF ConsistencyInv
<1>7. ASSUME CaValidity <= CertValidity PROVE ValidityInv'
  <2>1. ValidityInv
    BY <1>7 DEF CertificatesInv
  <2>2. ServedCertificates' = ServedCertificates
    BY <1>2, ServedSame DEF certSecrets, certInputs
  <2>3. PassProgress'
    BY <1>1, <1>2, <1>4 DEF PassProgress
  <2>4. MadeBy(httpCA', now) /\ MadeBy(transportCA', now) /\ MadeBy(certPass'.ca, now)
    BY <1>1, <1>2, <1>4, <2>1, NothingMade, Rotation
       DEF ValidityInv, CertificatesMade, certSecrets, MadeBy, CertTypeOK
  <2> QED
    BY <1>1, <1>2, <1>4, <2>1, <2>2, <2>3, <2>4, ValidityFrame
<1> QED
  BY <1>5, <1>6, <1>7 DEF CertificatesInv

LEMMA ReconcileHTTPCAKeeps ==
  ASSUME CertificatesInv, ReconcileHTTPCA
  PROVE  CertificatesInv'
<1> DEFINE ca == ReconcileCA(httpCA)
           pass == [certPass EXCEPT !.pc = "http-get", !.ca = ca,
                                    !.requeue = Sooner(@, ShouldRotateIn(ca))]
<1>1. CertTypeOK /\ httpCA \in CAs /\ certPass \in CertPasses /\ certPass.requeue \in Nat
  BY DEF CertificatesInv, CertTypeOK, SecretsType, CertPasses
<1>2. UNCHANGED <<transportCA, httpCerts, httpPublic, transportCerts, transportPublic, certWatched,
                  certInputs, certTimer, certUp, certOutage, certServed, now>>
  BY DEF ReconcileHTTPCA, CertOthers
<1>3. PICK outcome \in CertOutcomes :
        httpCA' = Written(outcome, httpCA, ca) /\ CertContinue(outcome, pass)
  BY DEF ReconcileHTTPCA
<1>4. /\ ca \in CAs /\ ca # NoCA /\ UsedAt(ca, now)
      /\ MadeBy(httpCA, now) => MadeBy(ca, now)
      /\ ShouldRotateIn(ca) = CheckAt(ca) /\ CheckAt(ca) \in Nat
  BY <1>1, CAIsUsed, CheckedInTime
<1> HIDE DEF ca
<1>5. /\ pass \in CertPasses /\ pass.pc = "http-get" /\ pass.ca = ca
      /\ pass.requeue <= CheckAt(ca)
  <2>1. Sooner(certPass.requeue, ShouldRotateIn(ca)) \in Nat
        /\ Sooner(certPass.requeue, ShouldRotateIn(ca)) <= CheckAt(ca)
    BY <1>1, <1>4, SoonerIs
  <2> QED
    BY <1>1, <1>4, <2>1 DEF CertPasses, CertPcs
<1> HIDE DEF pass
<1>6. /\ certPass' \in CertPasses /\ certQueue' \in BOOLEAN
      /\ certBudget' \in CertBudgets /\ certBudget'.race = certBudget.race
      /\ \/ certPass' = pass /\ certQueue' = certQueue /\ httpCA' = ca
         \/ certPass' = IdleCertPass /\ certQueue' = TRUE /\ httpCA' \in {httpCA, ca}
  BY <1>1, <1>3, <1>5, StepEnds DEF Written
<1>7. CertTypeOK'
  <2>1. httpCA' \in CAs
    BY <1>1, <1>4, <1>6
  <2> QED
    BY <1>1, <1>2, <1>6, <2>1 DEF CertTypeOK, SecretsType, InputsType, ControlType, certInputs, ElasticsearchCertificates
<1>8. ConsistencyInv'
  <2>1. CASE certPass' = pass /\ httpCA' = ca
    BY <1>5, <2>1 DEF ConsistencyInv, HTTPProgress, TransportProgress, CertDone
  <2>2. CASE certQueue' = TRUE
    BY <2>2 DEF ConsistencyInv, Undisturbed
  <2> QED
    BY <1>6, <2>1, <2>2
<1>9. ASSUME CaValidity <= CertValidity PROVE ValidityInv'
  <2>1. ValidityInv /\ PassProgress /\ CertificatesMade
    BY <1>9 DEF CertificatesInv, ValidityInv
  <2>2. ServedCertificates' = ServedCertificates
    BY <1>2, ServedSame DEF certInputs
  <2>3. certUp /\ certPass.pc = "http-ca"
    BY <2>1 DEF ReconcileHTTPCA, PassProgress
  <2>4. MadeBy(httpCA', now) /\ MadeBy(transportCA', now) /\ MadeBy(ca, now)
    BY <1>2, <1>4, <1>6, <2>1 DEF CertificatesMade
  <2>5. CASE certPass' = pass
    <3>1. PassProgress'
      BY <1>2, <1>4, <1>5, <2>3, <2>5 DEF PassProgress, GoodFor, UsedAt, CheckAt
    <3> QED
      BY <1>1, <1>2, <1>5, <2>1, <2>2, <2>4, <2>5, <3>1, ValidityFrame
  <2>6. CASE certPass' = IdleCertPass /\ certQueue' = TRUE
    BY <1>1, <1>2, <2>1, <2>2, <2>4, <2>6, CutShort, ValidityFrame
  <2> QED
    BY <1>6, <2>5, <2>6
<1> QED
  BY <1>7, <1>8, <1>9 DEF CertificatesInv

LEMMA GetCustomCertificatesKeeps ==
  ASSUME CertificatesInv, GetCustomCertificates
  PROVE  CertificatesInv'
<1> DEFINE pass == [certPass EXCEPT !.pc = "http", !.custom = IF tls.custom THEN customCert ELSE 0]
<1>1. CertTypeOK /\ certPass \in CertPasses /\ tls.custom \in BOOLEAN /\ customCert \in Nat
  BY DEF CertificatesInv, CertTypeOK, InputsType
<1>2. UNCHANGED <<certSecrets, certWatched, certInputs, certTimer, certUp, certOutage, certServed, now>>
  BY DEF GetCustomCertificates, CertOthers
<1>3. PICK outcome \in CertOutcomes : CertContinue(outcome, pass)
  BY DEF GetCustomCertificates
<1>4. /\ pass \in CertPasses /\ pass.pc = "http" /\ pass.ca = certPass.ca
      /\ pass.requeue = certPass.requeue /\ pass.custom = IF tls.custom THEN customCert ELSE 0
  BY <1>1 DEF CertPasses, CertPcs
<1> HIDE DEF pass
<1>5. /\ certPass' \in CertPasses /\ certQueue' \in BOOLEAN
      /\ certBudget' \in CertBudgets /\ certBudget'.race = certBudget.race
      /\ \/ certPass' = pass /\ certQueue' = certQueue
         \/ certPass' = IdleCertPass /\ certQueue' = TRUE
  BY <1>1, <1>3, <1>4, StepEnds
<1>6. CertTypeOK'
  BY <1>1, <1>2, <1>5 DEF CertTypeOK, SecretsType, InputsType, ControlType, certSecrets, certInputs, ElasticsearchCertificates
<1>7. ConsistencyInv'
  <2>1. CASE certPass' = pass /\ certQueue' = certQueue
    <3>1. SUFFICES ASSUME Undisturbed, Certified, ~certBudget.race
                   PROVE  HTTPProgress' /\ TransportProgress'
      BY <1>2, <1>5, <2>1
         DEF ConsistencyInv, Undisturbed, Certified, certInputs, ElasticsearchCertificates,
             KibanaCertificates, LogstashCertificates, ApmServerCertificates
    <3>2. HTTPProgress
      BY <3>1 DEF CertificatesInv, ConsistencyInv
    <3> QED
      BY <1>2, <1>4, <2>1, <3>2
         DEF HTTPProgress, TransportProgress, CertDone, CustomRead, GetCustomCertificates,
             certSecrets, certInputs
  <2>2. CASE certQueue' = TRUE
    BY <2>2 DEF ConsistencyInv, Undisturbed
  <2> QED
    BY <1>5, <2>1, <2>2
<1>8. ASSUME CaValidity <= CertValidity PROVE ValidityInv'
  <2>1. ValidityInv /\ PassProgress /\ CertificatesMade
    BY <1>8 DEF CertificatesInv, ValidityInv
  <2>2. ServedCertificates' = ServedCertificates
    BY <1>2, ServedSame DEF certInputs, certSecrets
  <2>3. certUp /\ certPass.pc = "http-get"
    BY <2>1 DEF GetCustomCertificates, PassProgress
  <2>4. MadeBy(httpCA', now) /\ MadeBy(transportCA', now) /\ MadeBy(certPass.ca, now)
    BY <1>2, <2>1 DEF CertificatesMade, certSecrets
  <2>5. CASE certPass' = pass
    <3>1. PassProgress'
      BY <1>2, <1>4, <2>1, <2>3, <2>5 DEF PassProgress, GoodFor
    <3> QED
      BY <1>1, <1>2, <1>4, <2>1, <2>2, <2>4, <2>5, <3>1, ValidityFrame
  <2>6. CASE certPass' = IdleCertPass /\ certQueue' = TRUE
    BY <1>1, <1>2, <2>1, <2>2, <2>4, <2>6, CutShort, ValidityFrame
  <2> QED
    BY <1>5, <2>5, <2>6
<1> QED
  BY <1>6, <1>7, <1>8 DEF CertificatesInv

\* The secret that a pass writes for HTTP.
LEMMA HTTPSecretIs ==
  ASSUME CertTypeOK, NEW secret \in HttpSecrets, NEW custom \in Nat, NEW ca \in CAs
  PROVE  LET made == HTTPInternalCertificates(secret, custom, ca) IN
         /\ made \in HttpSecrets
         /\ custom # 0 => made = CustomCertificate(custom)
         /\ custom = 0 => /\ made.ca = ca /\ made.cert.issuer = ca
                          /\ made.cert.for = tls.san /\ made.cert.key = made.key
                          /\ made.cert = secret.cert \/ made.cert.expiry = now + CaValidity
<1>1. CASE custom # 0
  BY <1>1, CustomIs DEF HTTPInternalCertificates
<1>2. CASE custom = 0
  BY <1>2, SelfSignedIs DEF HTTPInternalCertificates
<1> QED
  BY <1>1, <1>2

LEMMA ReconcileHTTPCertificatesKeeps ==
  ASSUME CertificatesInv, ReconcileHTTPCertificates
  PROVE  CertificatesInv'
<1> DEFINE certs == HTTPInternalCertificates(httpCerts, certPass.custom, certPass.ca)
           pass == [certPass EXCEPT !.pc = "http-public", !.http = certs]
<1>1. /\ CertTypeOK /\ certPass \in CertPasses /\ httpCerts \in HttpSecrets
      /\ certPass.custom \in Nat /\ certPass.ca \in CAs /\ customCert \in Nat \ {0} /\ tls.custom \in BOOLEAN
  BY DEF CertificatesInv, CertTypeOK, SecretsType, InputsType, CertPasses
<1>2. /\ UNCHANGED <<httpCA, transportCA, httpPublic, transportCerts, transportPublic, certInputs,
                     certTimer, certUp, certOutage, certServed, now>>
      /\ certWatched' = tls.custom
  BY DEF ReconcileHTTPCertificates, CertOthers
<1>3. PICK outcome \in CertOutcomes :
        httpCerts' = Written(outcome, httpCerts, certs) /\ CertContinue(outcome, pass)
  BY DEF ReconcileHTTPCertificates
<1>4. /\ certs \in HttpSecrets
      /\ certPass.custom # 0 => certs = CustomCertificate(certPass.custom)
      /\ certPass.custom = 0 =>
           /\ certs.ca = certPass.ca /\ certs.cert.issuer = certPass.ca
           /\ certs.cert.for = tls.san /\ certs.cert.key = certs.key
           /\ certs.cert = httpCerts.cert \/ certs.cert.expiry = now + CaValidity
  BY <1>1, HTTPSecretIs
<1> HIDE DEF certs
<1>5. /\ pass \in CertPasses /\ pass.pc = "http-public" /\ pass.ca = certPass.ca
      /\ pass.requeue = certPass.requeue /\ pass.http = certs
  BY <1>1, <1>4 DEF CertPasses, CertPcs
<1> HIDE DEF pass
<1>6. /\ certPass' \in CertPasses /\ certQueue' \in BOOLEAN
      /\ certBudget' \in CertBudgets /\ certBudget'.race = certBudget.race
      /\ \/ certPass' = pass /\ certQueue' = certQueue /\ httpCerts' = certs
         \/ certPass' = IdleCertPass /\ certQueue' = TRUE /\ httpCerts' \in {httpCerts, certs}
  BY <1>1, <1>3, <1>5, StepEnds DEF Written
<1>7. CertTypeOK'
  <2>1. httpCerts' \in HttpSecrets
    BY <1>1, <1>4, <1>6
  <2> QED
    BY <1>1, <1>2, <1>6, <2>1 DEF CertTypeOK, SecretsType, InputsType, ControlType, certInputs, ElasticsearchCertificates
<1>8. ConsistencyInv'
  <2>1. CASE certPass' = pass /\ certQueue' = certQueue /\ httpCerts' = certs
    <3>1. SUFFICES ASSUME Undisturbed, Certified, ~certBudget.race
                   PROVE  HTTPProgress' /\ TransportProgress'
      BY <1>2, <1>6, <2>1
         DEF ConsistencyInv, Undisturbed, Certified, certInputs, ElasticsearchCertificates,
             KibanaCertificates, LogstashCertificates, ApmServerCertificates
    <3>2. certPass.ca = httpCA /\ CustomRead
      BY <3>1 DEF CertificatesInv, ConsistencyInv, HTTPProgress, ReconcileHTTPCertificates
    <3>3. /\ tls.custom => certs = CustomCertificate(customCert)
          /\ ~tls.custom => /\ certs.cert.issuer = httpCA /\ certs.ca = httpCA
                            /\ certs.cert.key = certs.key /\ certs.cert.for = tls.san
      BY <1>1, <1>4, <3>2 DEF CustomRead
    <3>4. HTTPCertificateRight'
      BY <1>2, <2>1, <3>3 DEF HTTPCertificateRight, certInputs, CustomCertificate
    <3> QED
      BY <1>5, <2>1, <3>4 DEF HTTPProgress, TransportProgress, CertDone
  <2>2. CASE certQueue' = TRUE
    BY <2>2 DEF ConsistencyInv, Undisturbed
  <2> QED
    BY <1>6, <2>1, <2>2
<1>9. ASSUME CaValidity <= CertValidity PROVE ValidityInv'
  <2>1. ValidityInv /\ PassProgress /\ CertificatesMade /\ ServedWatched
    BY <1>9 DEF CertificatesInv, ValidityInv
  <2>2. certUp /\ certPass.pc = "http" /\ GoodFor(certPass, certPass.ca)
    BY <2>1 DEF ReconcileHTTPCertificates, PassProgress
  <2>3. MadeBy(httpCA', now) /\ MadeBy(transportCA', now) /\ MadeBy(certPass.ca, now)
    BY <1>2, <2>1 DEF CertificatesMade
  <2>4. httpCerts.cert \in ServedCertificates
    BY ServedIs
  <2>5. /\ certs.cert.for = "user" => certs.cert.expiry = NotDue
        /\ SelfMade(certs.cert) => certs.cert.issuer = certPass.ca /\ Outlives(certs.cert)
    <3>1. CASE certPass.custom # 0
      BY <1>1, <1>4, <3>1, CustomIs DEF SelfMade
    <3>2. CASE certPass.custom = 0
      <4>1. certs.cert.for # "user"
        BY <1>1, <1>4, <3>2 DEF CertTypeOK, InputsType
      <4>2. SelfMade(certs.cert) => Outlives(certs.cert)
        BY <1>4, <2>1, <2>3, <2>4, <3>2 DEF CertificatesMade, MadeBy, Outlives
      <4> QED
        BY <1>4, <3>2, <4>1, <4>2
    <3> QED
      BY <3>1, <3>2
  <2>6. ASSUME NEW c \in ServedCertificates'
        PROVE  c \in ServedCertificates \/ c = certs.cert
    <3>1. \A p \in CertNodes : Own(p)' <=> Own(p)
      BY <1>2 DEF Own, certInputs
    <3>2. c = httpCerts'.cert \/ \E p \in CertNodes : Own(p)' /\ c = transportCerts'.cert[p]
      BY <2>6 DEF ServedCertificates
    <3>3. CASE c = httpCerts'.cert
      BY <1>6, <3>3, <2>4
    <3>4. CASE \E p \in CertNodes : Own(p)' /\ c = transportCerts'.cert[p]
      BY <1>2, <3>1, <3>4, ServedIs
    <3> QED
      BY <3>2, <3>3, <3>4
  <2>7. CertificatesMade'
    <3>1. MadeBy(httpCA', now') /\ MadeBy(transportCA', now') /\ MadeBy(certPass'.ca, now')
      BY <1>1, <1>2, <1>5, <1>6, <2>3, CutShort
    <3>2. \A c \in ServedCertificates' :
            /\ c.for = "user" => c.expiry = NotDue
            /\ SelfMade(c) => Outlives(c)
      BY <2>1, <2>5, <2>6 DEF CertificatesMade
    <3> QED
      BY <3>1, <3>2 DEF CertificatesMade
  <2>8. PassProgress'
    <3>1. CASE certPass' = pass /\ httpCerts' = certs
      BY <1>2, <1>5, <2>2, <2>5, <3>1 DEF PassProgress, GoodFor
    <3>2. CASE certPass' = IdleCertPass
      BY <1>1, <3>2, CutShort
    <3> QED
      BY <1>6, <3>1, <3>2
  <2>9. ServedWatched'
    <3>1. ASSUME NEW c \in ServedCertificates', SelfMade(c), certServed PROVE InCertOutage(c.issuer)
      <4>1. CASE c \in ServedCertificates
        BY <2>1, <3>1, <4>1 DEF ServedWatched
      <4>2. CASE c = certs.cert
        <5>1. UsedAt(c.issuer, now) /\ c.issuer = certPass.ca
          BY <2>2, <2>5, <3>1, <4>2 DEF GoodFor
        <5>2. c.issuer.expiry \in Nat /\ now \in Nat /\ certOutage \in Nat
          BY <1>1, <5>1, Rotation DEF CertTypeOK, ControlType, CAs
        <5> QED
          BY <5>1, <5>2, Rotation DEF UsedAt, InCertOutage, CheckAt
      <4> QED
        BY <2>6, <4>1, <4>2
    <3>2. ~(certUp' /\ ~certQueue' /\ certPass'.pc = "idle")
      BY <1>5, <1>6
    <3> QED
      BY <1>2, <3>1, <3>2 DEF ServedWatched, InCertOutage, SelfMade
  <2> QED
    BY <2>7, <2>8, <2>9 DEF ValidityInv
<1> QED
  BY <1>7, <1>8, <1>9 DEF CertificatesInv

LEMMA ReconcileHTTPPublicKeeps ==
  ASSUME CertificatesInv, ReconcileHTTPPublic
  PROVE  CertificatesInv'
<1> DEFINE public == [cert |-> certPass.http.cert, ca |-> certPass.http.ca]
           pass == [certPass EXCEPT !.pc = IF ElasticsearchCertificates THEN "transport-ca" ELSE "finish"]
<1>1. /\ CertTypeOK /\ certPass \in CertPasses /\ certPass.http \in HttpSecrets
      /\ httpPublic \in [cert : Certs, ca : CAs]
  BY DEF CertificatesInv, CertTypeOK, SecretsType, CertPasses
<1>2. UNCHANGED <<httpCA, transportCA, httpCerts, transportCerts, transportPublic, certWatched,
                  certInputs, certTimer, certUp, certOutage, certServed, now>>
  BY DEF ReconcileHTTPPublic, CertOthers
<1>3. PICK outcome \in CertOutcomes :
        httpPublic' = Written(outcome, httpPublic, public) /\ CertContinue(outcome, pass)
  BY DEF ReconcileHTTPPublic
<1>4. public \in [cert : Certs, ca : CAs]
  BY <1>1 DEF HttpSecrets
<1> HIDE DEF public
<1>5. /\ pass \in CertPasses /\ pass.ca = certPass.ca /\ pass.requeue = certPass.requeue
      /\ pass.pc = IF ElasticsearchCertificates THEN "transport-ca" ELSE "finish"
  BY <1>1 DEF CertPasses, CertPcs
<1> HIDE DEF pass
<1>6. /\ certPass' \in CertPasses /\ certQueue' \in BOOLEAN
      /\ certBudget' \in CertBudgets /\ certBudget'.race = certBudget.race
      /\ \/ certPass' = pass /\ certQueue' = certQueue /\ httpPublic' = public
         \/ certPass' = IdleCertPass /\ certQueue' = TRUE /\ httpPublic' \in {httpPublic, public}
  BY <1>1, <1>3, <1>5, StepEnds DEF Written
<1>7. CertTypeOK'
  <2>1. httpPublic' \in [cert : Certs, ca : CAs]
    BY <1>1, <1>4, <1>6
  <2> QED
    BY <1>1, <1>2, <1>6, <2>1 DEF CertTypeOK, SecretsType, InputsType, ControlType, certInputs, ElasticsearchCertificates
<1>8. ConsistencyInv'
  <2>1. CASE certPass' = pass /\ certQueue' = certQueue /\ httpPublic' = public
    <3>1. SUFFICES ASSUME Undisturbed, Certified, ~certBudget.race
                   PROVE  HTTPProgress' /\ (ElasticsearchCertificates => TransportProgress')
      BY <1>2, <1>6, <2>1
         DEF ConsistencyInv, Undisturbed, Certified, certInputs, ElasticsearchCertificates,
             KibanaCertificates, LogstashCertificates, ApmServerCertificates
    <3>2. HTTPCertificateRight /\ certPass.http = httpCerts
      BY <3>1 DEF CertificatesInv, ConsistencyInv, HTTPProgress, CertDone, ReconcileHTTPPublic
    <3>3. HTTPCertificateRight' /\ HTTPPublicRight'
      BY <1>2, <2>1, <3>2 DEF HTTPCertificateRight, HTTPPublicRight, certInputs, public, CustomCertificate
    <3> QED
      BY <1>5, <2>1, <3>3 DEF HTTPProgress, TransportProgress, CertDone
  <2>2. CASE certQueue' = TRUE
    BY <2>2 DEF ConsistencyInv, Undisturbed
  <2> QED
    BY <1>6, <2>1, <2>2
<1>9. ASSUME CaValidity <= CertValidity PROVE ValidityInv'
  <2>1. ValidityInv /\ PassProgress /\ CertificatesMade
    BY <1>9 DEF CertificatesInv, ValidityInv
  <2>2. ServedCertificates' = ServedCertificates
    BY <1>2, ServedSame DEF certInputs
  <2>3. /\ certUp /\ certPass.pc = "http-public" /\ certPass.ca # NoCA
        /\ SelfMade(httpCerts.cert) => GoodFor(certPass, httpCerts.cert.issuer)
    BY <2>1 DEF ReconcileHTTPPublic, PassProgress
  <2>4. MadeBy(httpCA', now) /\ MadeBy(transportCA', now) /\ MadeBy(certPass.ca, now)
    BY <1>2, <2>1 DEF CertificatesMade
  <2>5. CASE certPass' = pass
    <3>1. CASE ElasticsearchCertificates
      <4>1. PassProgress'
        BY <1>2, <1>5, <2>3, <2>5, <3>1 DEF PassProgress, GoodFor
      <4> QED
        BY <1>1, <1>2, <1>5, <2>1, <2>2, <2>4, <2>5, <3>1, <4>1, ValidityFrame
    <3>2. CASE ~ElasticsearchCertificates
      <4>1. \A c \in ServedCertificates : c = httpCerts.cert
        BY <1>1, <3>2, NoNodes
      <4>2. PassProgress'
        BY <1>2, <1>5, <2>2, <2>3, <2>5, <3>2, <4>1 DEF PassProgress, GoodFor, certInputs
      <4> QED
        BY <1>1, <1>2, <1>5, <2>1, <2>2, <2>4, <2>5, <3>2, <4>2, ValidityFrame
    <3> QED
      BY <3>1, <3>2
  <2>6. CASE certPass' = IdleCertPass /\ certQueue' = TRUE
    BY <1>1, <1>2, <2>1, <2>2, <2>4, <2>6, CutShort, ValidityFrame
  <2> QED
    BY <1>6, <2>5, <2>6
<1> QED
  BY <1>7, <1>8, <1>9 DEF CertificatesInv

LEMMA ReconcileTransportCAKeeps ==
  ASSUME CertificatesInv, ReconcileTransportCA
  PROVE  CertificatesInv'
<1> DEFINE ca == ReconcileCA(transportCA)
           pass == [certPass EXCEPT !.pc = "transport-public", !.ca = ca,
                                    !.requeue = Sooner(@, ShouldRotateIn(ca))]
<1>1. CertTypeOK /\ transportCA \in CAs /\ certPass \in CertPasses /\ certPass.requeue \in Nat
  BY DEF CertificatesInv, CertTypeOK, SecretsType, CertPasses
<1>2. UNCHANGED <<httpCA, httpCerts, httpPublic, transportCerts, transportPublic, certWatched,
                  certInputs, certTimer, certUp, certOutage, certServed, now>>
  BY DEF ReconcileTransportCA, CertOthers
<1>3. PICK outcome \in CertOutcomes :
        transportCA' = Written(outcome, transportCA, ca) /\ CertContinue(outcome, pass)
  BY DEF ReconcileTransportCA
<1>4. /\ ca \in CAs /\ ca # NoCA /\ UsedAt(ca, now)
      /\ MadeBy(transportCA, now) => MadeBy(ca, now)
      /\ ShouldRotateIn(ca) = CheckAt(ca) /\ CheckAt(ca) \in Nat
  BY <1>1, CAIsUsed, CheckedInTime
<1> HIDE DEF ca
<1>5. /\ pass \in CertPasses /\ pass.pc = "transport-public" /\ pass.ca = ca
      /\ pass.requeue <= CheckAt(ca) /\ pass.requeue <= certPass.requeue
  <2>1. Sooner(certPass.requeue, ShouldRotateIn(ca)) \in Nat
        /\ Sooner(certPass.requeue, ShouldRotateIn(ca)) <= CheckAt(ca)
        /\ Sooner(certPass.requeue, ShouldRotateIn(ca)) <= certPass.requeue
    BY <1>1, <1>4, SoonerIs
  <2> QED
    BY <1>1, <1>4, <2>1 DEF CertPasses, CertPcs
<1> HIDE DEF pass
<1>6. /\ certPass' \in CertPasses /\ certQueue' \in BOOLEAN
      /\ certBudget' \in CertBudgets /\ certBudget'.race = certBudget.race
      /\ \/ certPass' = pass /\ certQueue' = certQueue /\ transportCA' = ca
         \/ certPass' = IdleCertPass /\ certQueue' = TRUE /\ transportCA' \in {transportCA, ca}
  BY <1>1, <1>3, <1>5, StepEnds DEF Written
<1>7. CertTypeOK'
  <2>1. transportCA' \in CAs
    BY <1>1, <1>4, <1>6
  <2> QED
    BY <1>1, <1>2, <1>6, <2>1 DEF CertTypeOK, SecretsType, InputsType, ControlType, certInputs, ElasticsearchCertificates
<1>8. ConsistencyInv'
  <2>1. CASE certPass' = pass /\ certQueue' = certQueue /\ transportCA' = ca
    <3>1. SUFFICES ASSUME Undisturbed, Certified, ~certBudget.race
                   PROVE  HTTPProgress' /\ TransportProgress'
      BY <1>2, <1>6, <2>1
         DEF ConsistencyInv, Undisturbed, Certified, certInputs, ElasticsearchCertificates,
             KibanaCertificates, LogstashCertificates, ApmServerCertificates
    <3>2. HTTPCertificateRight /\ HTTPPublicRight
      BY <3>1 DEF CertificatesInv, ConsistencyInv, HTTPProgress, CertDone, ReconcileTransportCA
    <3>3. HTTPCertificateRight' /\ HTTPPublicRight'
      BY <1>2, <3>2 DEF HTTPCertificateRight, HTTPPublicRight, certInputs, CustomCertificate
    <3> QED
      BY <1>5, <2>1, <3>3 DEF HTTPProgress, TransportProgress, CertDone
  <2>2. CASE certQueue' = TRUE
    BY <2>2 DEF ConsistencyInv, Undisturbed
  <2> QED
    BY <1>6, <2>1, <2>2
<1>9. ASSUME CaValidity <= CertValidity PROVE ValidityInv'
  <2>1. ValidityInv /\ PassProgress /\ CertificatesMade
    BY <1>9 DEF CertificatesInv, ValidityInv
  <2>2. ServedCertificates' = ServedCertificates
    BY <1>2, ServedSame DEF certInputs
  <2>3. /\ certUp /\ certPass.pc = "transport-ca"
        /\ SelfMade(httpCerts.cert) => GoodFor(certPass, httpCerts.cert.issuer)
    BY <2>1 DEF ReconcileTransportCA, PassProgress
  <2>4. MadeBy(httpCA', now) /\ MadeBy(transportCA', now) /\ MadeBy(ca, now)
    BY <1>2, <1>4, <1>6, <2>1 DEF CertificatesMade
  <2>5. CASE certPass' = pass
    <3>1. SelfMade(httpCerts.cert) => GoodFor(pass, httpCerts.cert.issuer)
      <4>1. httpCerts.cert.issuer \in CAs
        BY <1>1, ServedIs, ServedTyped
      <4>2. httpCerts.cert.issuer.expiry \in Nat /\ pass.requeue \in Nat /\ certPass.requeue \in Nat
        BY <1>1, <1>5, <4>1 DEF CAs, CertPasses
      <4> QED
        BY <1>5, <2>3, <4>2, Rotation DEF GoodFor, CheckAt
    <3>2. GoodFor(pass, ca)
      BY <1>4, <1>5 DEF GoodFor
    <3>3. PassProgress'
      BY <1>2, <1>4, <1>5, <2>3, <2>5, <3>1, <3>2 DEF PassProgress, GoodFor, UsedAt, CheckAt, SelfMade
    <3> QED
      BY <1>1, <1>2, <1>5, <2>1, <2>2, <2>4, <2>5, <3>3, ValidityFrame
  <2>6. CASE certPass' = IdleCertPass /\ certQueue' = TRUE
    BY <1>1, <1>2, <2>1, <2>2, <2>4, <2>6, CutShort, ValidityFrame
  <2> QED
    BY <1>6, <2>5, <2>6
<1> QED
  BY <1>7, <1>8, <1>9 DEF CertificatesInv

LEMMA ReconcileTransportPublicKeeps ==
  ASSUME CertificatesInv, ReconcileTransportPublic
  PROVE  CertificatesInv'
<1> DEFINE pass == [certPass EXCEPT !.pc = "transport"]
<1>1. CertTypeOK /\ transportPublic \in CAs /\ certPass \in CertPasses /\ certPass.ca \in CAs
  BY DEF CertificatesInv, CertTypeOK, SecretsType, CertPasses
<1>2. UNCHANGED <<httpCA, transportCA, httpCerts, httpPublic, transportCerts, certWatched,
                  certInputs, certTimer, certUp, certOutage, certServed, now>>
  BY DEF ReconcileTransportPublic, CertOthers
<1>3. PICK outcome \in CertOutcomes :
        transportPublic' = Written(outcome, transportPublic, certPass.ca) /\ CertContinue(outcome, pass)
  BY DEF ReconcileTransportPublic
<1>5. /\ pass \in CertPasses /\ pass.pc = "transport" /\ pass.ca = certPass.ca
      /\ pass.requeue = certPass.requeue
  BY <1>1 DEF CertPasses, CertPcs
<1> HIDE DEF pass
<1>6. /\ certPass' \in CertPasses /\ certQueue' \in BOOLEAN
      /\ certBudget' \in CertBudgets /\ certBudget'.race = certBudget.race
      /\ \/ certPass' = pass /\ certQueue' = certQueue /\ transportPublic' = certPass.ca
         \/ certPass' = IdleCertPass /\ certQueue' = TRUE /\ transportPublic' \in {transportPublic, certPass.ca}
  BY <1>1, <1>3, <1>5, StepEnds DEF Written
<1>7. CertTypeOK'
  <2>1. transportPublic' \in CAs
    BY <1>1, <1>6
  <2> QED
    BY <1>1, <1>2, <1>6, <2>1 DEF CertTypeOK, SecretsType, InputsType, ControlType, certInputs, ElasticsearchCertificates
<1>8. ConsistencyInv'
  <2>1. CASE certPass' = pass /\ certQueue' = certQueue /\ transportPublic' = certPass.ca
    <3>1. SUFFICES ASSUME Undisturbed, Certified, ~certBudget.race
                   PROVE  HTTPProgress' /\ (ElasticsearchCertificates => TransportProgress')
      BY <1>2, <1>6, <2>1
         DEF ConsistencyInv, Undisturbed, Certified, certInputs, ElasticsearchCertificates,
             KibanaCertificates, LogstashCertificates, ApmServerCertificates
    <3>2. /\ HTTPCertificateRight /\ HTTPPublicRight
          /\ ElasticsearchCertificates => certPass.ca = transportCA
      BY <3>1 DEF CertificatesInv, ConsistencyInv, HTTPProgress, TransportProgress, CertDone,
                  ReconcileTransportPublic
    <3>3. HTTPCertificateRight' /\ HTTPPublicRight'
      BY <1>2, <3>2 DEF HTTPCertificateRight, HTTPPublicRight, certInputs, CustomCertificate
    <3> QED
      BY <1>2, <1>5, <2>1, <3>2, <3>3 DEF HTTPProgress, TransportProgress, CertDone
  <2>2. CASE certQueue' = TRUE
    BY <2>2 DEF ConsistencyInv, Undisturbed
  <2> QED
    BY <1>6, <2>1, <2>2
<1>9. ASSUME CaValidity <= CertValidity PROVE ValidityInv'
  <2>1. ValidityInv /\ PassProgress /\ CertificatesMade
    BY <1>9 DEF CertificatesInv, ValidityInv
  <2>2. ServedCertificates' = ServedCertificates
    BY <1>2, ServedSame DEF certInputs
  <2>3. /\ certUp /\ certPass.pc = "transport-public" /\ GoodFor(certPass, certPass.ca)
        /\ SelfMade(httpCerts.cert) => GoodFor(certPass, httpCerts.cert.issuer)
    BY <2>1 DEF ReconcileTransportPublic, PassProgress
  <2>4. MadeBy(httpCA', now) /\ MadeBy(transportCA', now) /\ MadeBy(certPass.ca, now)
    BY <1>2, <2>1 DEF CertificatesMade
  <2>5. CASE certPass' = pass
    <3>1. PassProgress'
      BY <1>2, <1>5, <2>3, <2>5 DEF PassProgress, GoodFor
    <3> QED
      BY <1>1, <1>2, <1>5, <2>1, <2>2, <2>4, <2>5, <3>1, ValidityFrame
  <2>6. CASE certPass' = IdleCertPass /\ certQueue' = TRUE
    BY <1>1, <1>2, <2>1, <2>2, <2>4, <2>6, CutShort, ValidityFrame
  <2> QED
    BY <1>6, <2>5, <2>6
<1> QED
  BY <1>7, <1>8, <1>9 DEF CertificatesInv

\* The secret that a pass writes for the nodes.
LEMMA NodeSecretIs ==
  ASSUME CertTypeOK, NEW ca \in CAs
  PROVE  LET made == TransportCertificates(transportCerts, ca) IN
         /\ made \in [ca : CAs, cert : [CertNodes -> NodeCerts]]
         /\ made.ca = ca
         /\ \A p \in CertNodes :
              /\ HasIP(p) => /\ made.cert[p].issuer = ca /\ made.cert[p].for = certPods[p]
                             /\ \/ made.cert[p] = transportCerts.cert[p]
                                \/ made.cert[p].expiry = now + CertValidity
              /\ certPods[p] = "absent" => made.cert[p] = NoCert
              /\ ~HasIP(p) => made.cert[p] \in {NoCert, transportCerts.cert[p]}
<1> DEFINE made == TransportCertificates(transportCerts, ca)
           for(p) == IF certPods[p] = "absent" THEN NoCert
                     ELSE IF HasIP(p) THEN ContentsForPod(transportCerts.cert[p], ca, p)
                     ELSE transportCerts.cert[p]
<1>1. \A p \in CertNodes : transportCerts.cert[p] \in NodeCerts
  BY DEF CertTypeOK, SecretsType
<1>2. \A p \in CertNodes : HasIP(p) => certPods[p] # "absent"
  BY DEF HasIP, IPs
<1>3. ASSUME NEW p \in CertNodes
      PROVE  /\ for(p) \in NodeCerts
             /\ HasIP(p) => /\ for(p).issuer = ca /\ for(p).for = certPods[p]
                            /\ \/ for(p) = transportCerts.cert[p]
                               \/ for(p).expiry = now + CertValidity
             /\ certPods[p] = "absent" => for(p) = NoCert
             /\ ~HasIP(p) => for(p) \in {NoCert, transportCerts.cert[p]}
  <2>1. CASE HasIP(p)
    BY <1>1, <1>2, <2>1, NodeCertIs
  <2>2. CASE ~HasIP(p)
    BY <1>1, <2>2, NothingMade
  <2> QED
    BY <2>1, <2>2
<1>4. made.ca = ca /\ made = [ca |-> ca, cert |-> [p \in CertNodes |-> for(p)]]
  BY DEF TransportCertificates
<1> HIDE DEF for, made
<1>5. \A p \in CertNodes : made.cert[p] = for(p)
  BY <1>4
<1>6. made \in [ca : CAs, cert : [CertNodes -> NodeCerts]]
  BY <1>3, <1>4
<1> QED
  BY <1>3, <1>4, <1>5, <1>6 DEF made

LEMMA ReconcileTransportCertificatesKeeps ==
  ASSUME CertificatesInv, ReconcileTransportCertificates
  PROVE  CertificatesInv'
<1> DEFINE certs == TransportCertificates(transportCerts, certPass.ca)
           pass == [certPass EXCEPT !.pc = "finish"]
<1>1. /\ CertTypeOK /\ certPass \in CertPasses /\ certPass.ca \in CAs
      /\ transportCerts \in [ca : CAs, cert : [CertNodes -> NodeCerts]]
  BY DEF CertificatesInv, CertTypeOK, SecretsType, CertPasses
<1>2. UNCHANGED <<httpCA, transportCA, httpCerts, httpPublic, transportPublic, certWatched,
                  certInputs, certTimer, certUp, certOutage, certServed, now>>
  BY DEF ReconcileTransportCertificates, CertOthers
<1>3. PICK outcome \in CertOutcomes :
        transportCerts' = Written(outcome, transportCerts, certs) /\ CertContinue(outcome, pass)
  BY DEF ReconcileTransportCertificates
<1>4. /\ certs \in [ca : CAs, cert : [CertNodes -> NodeCerts]]
      /\ certs.ca = certPass.ca
      /\ \A p \in CertNodes :
           /\ HasIP(p) => /\ certs.cert[p].issuer = certPass.ca /\ certs.cert[p].for = certPods[p]
                          /\ \/ certs.cert[p] = transportCerts.cert[p]
                             \/ certs.cert[p].expiry = now + CertValidity
           /\ certPods[p] = "absent" => certs.cert[p] = NoCert
           /\ ~HasIP(p) => certs.cert[p] \in {NoCert, transportCerts.cert[p]}
  BY <1>1, NodeSecretIs
<1> HIDE DEF certs
<1>5. /\ pass \in CertPasses /\ pass.pc = "finish" /\ pass.ca = certPass.ca
      /\ pass.requeue = certPass.requeue
  BY <1>1 DEF CertPasses, CertPcs
<1> HIDE DEF pass
<1>6. /\ certPass' \in CertPasses /\ certQueue' \in BOOLEAN
      /\ certBudget' \in CertBudgets /\ certBudget'.race = certBudget.race
      /\ \/ certPass' = pass /\ certQueue' = certQueue /\ transportCerts' = certs
         \/ certPass' = IdleCertPass /\ certQueue' = TRUE /\ transportCerts' \in {transportCerts, certs}
  BY <1>1, <1>3, <1>5, StepEnds DEF Written
<1>7. CertTypeOK'
  <2>1. transportCerts' \in [ca : CAs, cert : [CertNodes -> NodeCerts]]
    BY <1>1, <1>4, <1>6
  <2> QED
    BY <1>1, <1>2, <1>6, <2>1 DEF CertTypeOK, SecretsType, InputsType, ControlType, certInputs, ElasticsearchCertificates
<1>8. ConsistencyInv'
  <2>1. CASE certPass' = pass /\ certQueue' = certQueue /\ transportCerts' = certs
    <3>1. SUFFICES ASSUME Undisturbed, Certified, ~certBudget.race
                   PROVE  HTTPProgress' /\ (ElasticsearchCertificates => TransportProgress')
      BY <1>2, <1>6, <2>1
         DEF ConsistencyInv, Undisturbed, Certified, certInputs, ElasticsearchCertificates,
             KibanaCertificates, LogstashCertificates, ApmServerCertificates
    <3>2. /\ HTTPCertificateRight /\ HTTPPublicRight
          /\ ElasticsearchCertificates => certPass.ca = transportCA /\ transportPublic = transportCA
      BY <3>1 DEF CertificatesInv, ConsistencyInv, HTTPProgress, TransportProgress, CertDone,
                  ReconcileTransportCertificates
    <3>3. HTTPCertificateRight' /\ HTTPPublicRight'
      BY <1>2, <3>2 DEF HTTPCertificateRight, HTTPPublicRight, certInputs, CustomCertificate
    <3>4. \A p \in CertNodes : (HasIP(p)' <=> HasIP(p)) /\ certPods'[p] = certPods[p]
      BY <1>2 DEF HasIP, certInputs
    <3>5. ElasticsearchCertificates => TransportConsistent'
      BY <1>2, <1>4, <2>1, <3>2, <3>4 DEF TransportConsistent
    <3> QED
      BY <1>2, <1>5, <2>1, <3>2, <3>3, <3>5 DEF HTTPProgress, TransportProgress, CertDone
  <2>2. CASE certQueue' = TRUE
    BY <2>2 DEF ConsistencyInv, Undisturbed
  <2> QED
    BY <1>6, <2>1, <2>2
<1>9. ASSUME CaValidity <= CertValidity PROVE ValidityInv'
  <2>1. ValidityInv /\ PassProgress /\ CertificatesMade /\ ServedWatched
    BY <1>9 DEF CertificatesInv, ValidityInv
  <2>2. /\ certUp /\ certPass.pc = "transport" /\ GoodFor(certPass, certPass.ca) /\ certPass.ca # NoCA
        /\ SelfMade(httpCerts.cert) => GoodFor(certPass, httpCerts.cert.issuer)
    BY <2>1 DEF ReconcileTransportCertificates, PassProgress
  <2>3. MadeBy(httpCA', now) /\ MadeBy(transportCA', now) /\ MadeBy(certPass.ca, now)
    BY <1>2, <2>1 DEF CertificatesMade
  <2>4. httpCerts.cert \in ServedCertificates
    BY ServedIs
  <2>5. ASSUME NEW p \in CertNodes, certs.cert[p].for = certPods[p]
        PROVE  /\ certs.cert[p].issuer = certPass.ca /\ certs.cert[p].for # "user"
               /\ certs.cert[p] \in ServedCertificates \/ Outlives(certs.cert[p])
    <3>1. certs.cert[p].for \in IPs \cup {"nobody"} /\ certPods[p] \in {"absent", "pending"} \cup IPs
      BY <1>1, <1>4 DEF NodeCerts, CertTypeOK, InputsType
    <3>2. certPods[p] \in IPs /\ certs.cert[p].for # "user"
      BY <2>5, <3>1 DEF IPs
    <3>3. HasIP(p)
      BY <3>2 DEF HasIP
    <3>4. certs.cert[p].issuer = certPass.ca
      BY <1>4, <3>3
    <3>5. CASE certs.cert[p] = transportCerts.cert[p]
      BY <2>5, <3>2, <3>4, <3>5, ServedIs DEF Own
    <3>6. CASE certs.cert[p].expiry = now + CertValidity
      <4>1. certPass.ca.expiry \in Nat /\ now \in Nat
        BY <1>1, Rotation DEF CAs, CertTypeOK
      <4> QED
        BY <1>9, <2>3, <3>2, <3>4, <3>6, <4>1, Rotation DEF MadeBy, Outlives
    <3> QED
      BY <1>4, <3>2, <3>3, <3>4, <3>5, <3>6
  <2>6. ASSUME NEW c \in ServedCertificates'
        PROVE  \/ c = httpCerts.cert
               \/ /\ transportCerts' = transportCerts /\ c \in ServedCertificates
               \/ \E p \in CertNodes : c = certs.cert[p] /\ certs.cert[p].for = certPods[p]
    <3>1. c = httpCerts'.cert \/ \E p \in CertNodes : Own(p)' /\ c = transportCerts'.cert[p]
      BY <2>6 DEF ServedCertificates
    <3>2. CASE c = httpCerts'.cert
      BY <1>2, <3>2
    <3>3. CASE \E p \in CertNodes : Own(p)' /\ c = transportCerts'.cert[p]
      BY <1>2, <1>6, <3>3, ServedIs DEF Own, certInputs
    <3> QED
      BY <3>1, <3>2, <3>3
  <2>7. CertificatesMade'
    <3>1. MadeBy(httpCA', now') /\ MadeBy(transportCA', now') /\ MadeBy(certPass'.ca, now')
      BY <1>1, <1>2, <1>5, <1>6, <2>3, CutShort
    <3>2. \A c \in ServedCertificates' :
            /\ c.for = "user" => c.expiry = NotDue
            /\ SelfMade(c) => Outlives(c)
      BY <2>1, <2>4, <2>5, <2>6 DEF CertificatesMade
    <3> QED
      BY <3>1, <3>2 DEF CertificatesMade
  <2>8. PassProgress'
    <3>1. CASE certPass' = pass /\ transportCerts' = certs
      <4>1. \A c \in ServedCertificates' : SelfMade(c) => GoodFor(certPass, c.issuer)
        <5> TAKE c \in ServedCertificates'
        <5>1. CASE c = httpCerts.cert
          BY <2>2, <5>1
        <5>2. CASE \E p \in CertNodes : c = certs.cert[p] /\ certs.cert[p].for = certPods[p]
          BY <2>2, <2>5, <5>2
        <5>3. CASE transportCerts' = transportCerts /\ c \in ServedCertificates
          <6>1. c = httpCerts.cert \/ \E p \in CertNodes : Own(p) /\ c = transportCerts.cert[p]
            BY <5>3, ServedIs
          <6> QED
            BY <2>2, <2>5, <3>1, <5>3, <6>1 DEF Own
        <5> QED
          BY <2>6, <5>1, <5>2, <5>3
      <4> QED
        BY <1>2, <1>5, <2>2, <3>1, <4>1 DEF PassProgress, GoodFor, SelfMade
    <3>2. CASE certPass' = IdleCertPass
      BY <1>1, <3>2, CutShort
    <3> QED
      BY <1>6, <3>1, <3>2
  <2>9. ServedWatched'
    <3>1. ASSUME NEW c \in ServedCertificates', SelfMade(c), certServed PROVE InCertOutage(c.issuer)
      <4>1. CASE c \in ServedCertificates
        BY <2>1, <3>1, <4>1 DEF ServedWatched
      <4>2. CASE \E p \in CertNodes : c = certs.cert[p] /\ certs.cert[p].for = certPods[p]
        <5>1. UsedAt(c.issuer, now) /\ c.issuer = certPass.ca
          BY <2>2, <2>5, <4>2 DEF GoodFor
        <5>2. c.issuer.expiry \in Nat /\ now \in Nat /\ certOutage \in Nat
          BY <1>1, <5>1, Rotation DEF CertTypeOK, ControlType, CAs
        <5> QED
          BY <5>1, <5>2, Rotation DEF UsedAt, InCertOutage, CheckAt
      <4> QED
        BY <2>4, <2>6, <4>1, <4>2
    <3>2. ~(certUp' /\ ~certQueue' /\ certPass'.pc = "idle")
      BY <1>5, <1>6
    <3> QED
      BY <1>2, <3>1, <3>2 DEF ServedWatched, InCertOutage, SelfMade
  <2> QED
    BY <2>7, <2>8, <2>9 DEF ValidityInv
<1> QED
  BY <1>7, <1>8, <1>9 DEF CertificatesInv

LEMMA FinishCertPassKeeps ==
  ASSUME CertificatesInv, FinishCertPass
  PROVE  CertificatesInv'
<1>1. /\ CertTypeOK /\ certPass.requeue \in Nat /\ certTimer \in Nat /\ certPass.pc = "finish"
  BY DEF CertificatesInv, CertTypeOK, CertPasses, ControlType, FinishCertPass
<1>2. /\ UNCHANGED <<certSecrets, certInputs, certWatched, certQueue, certUp, certBudget, now>>
      /\ certPass' = IdleCertPass /\ certPass'.pc = "idle"
      /\ certTimer' = Sooner(certTimer, certPass.requeue)
      /\ certOutage' = 0 /\ certServed' = (certPass.ca # NoCA)
  BY DEF FinishCertPass, IdleCertPass
<1>3. certTimer' \in Nat /\ certTimer' <= certPass.requeue
  BY <1>1, <1>2, SoonerIs
<1>4. CertTypeOK'
  BY <1>1, <1>2, <1>3, NothingMade, Rotation
     DEF CertTypeOK, SecretsType, InputsType, ControlType, certSecrets, certInputs, ElasticsearchCertificates
<1>5. ConsistencyInv'
  <2>1. SUFFICES ASSUME Undisturbed, Certified, ~certBudget.race
                 PROVE  HTTPProgress' /\ (ElasticsearchCertificates => TransportProgress')
    BY <1>2
       DEF ConsistencyInv, Undisturbed, Certified, certInputs, ElasticsearchCertificates, KibanaCertificates,
         LogstashCertificates, ApmServerCertificates
  <2>2. /\ HTTPCertificateRight /\ HTTPPublicRight
        /\ ElasticsearchCertificates => TransportConsistent /\ transportPublic = transportCA
    BY <1>1, <2>1 DEF CertificatesInv, ConsistencyInv, HTTPProgress, TransportProgress, CertDone
  <2>3. HTTPCertificateRight' /\ HTTPPublicRight'
    BY <1>2, <2>2 DEF HTTPCertificateRight, HTTPPublicRight, certInputs, certSecrets, CustomCertificate
  <2>4. ElasticsearchCertificates => TransportConsistent'
    BY <1>2, <2>2 DEF TransportConsistent, HasIP, certInputs, certSecrets
  <2> QED
    BY <1>2, <2>2, <2>3, <2>4 DEF HTTPProgress, TransportProgress, CertDone, certSecrets
<1>6. ASSUME CaValidity <= CertValidity PROVE ValidityInv'
  <2>1. ValidityInv /\ PassProgress /\ CertificatesMade
    BY <1>6 DEF CertificatesInv, ValidityInv
  <2>2. ServedCertificates' = ServedCertificates
    BY <1>2, ServedSame DEF certInputs, certSecrets
  <2>3. certPass.ca # NoCA => \A c \in ServedCertificates : SelfMade(c) => GoodFor(certPass, c.issuer)
    BY <1>1, <2>1 DEF PassProgress
  <2>4. CertificatesMade' /\ PassProgress'
    BY <1>1, <1>2, <2>1, <2>2, CutShort DEF CertificatesMade, certSecrets, MadeBy, SelfMade, Outlives
  <2>5. ASSUME certServed', NEW c \in ServedCertificates', SelfMade(c)
        PROVE  /\ now <= CheckAt(c.issuer)
               /\ certTimer' <= CheckAt(c.issuer)
    <3>1. c \in ServedCertificates
      BY <2>2, <2>5
    <3>2. GoodFor(certPass, c.issuer)
      BY <1>2, <2>3, <2>5, <3>1
    <3>3. c.issuer.expiry \in Nat /\ now \in Nat
      BY <1>1, <3>1, ServedTyped, Rotation DEF CertTypeOK
    <3>4. CheckAt(c.issuer) \in Int /\ now <= CheckAt(c.issuer) /\ certPass.requeue <= CheckAt(c.issuer)
      BY <3>2, <3>3, Rotation DEF GoodFor, UsedAt, CheckAt
    <3> QED
      BY <1>1, <1>3, <3>4
  <2>6. ServedWatched'
    <3>1. ASSUME certServed', NEW c \in ServedCertificates', SelfMade(c) PROVE InCertOutage(c.issuer)'
      <4>1. c.issuer.expiry \in Nat /\ now \in Nat
        BY <1>1, <2>2, <3>1, ServedTyped, Rotation DEF CertTypeOK
      <4> QED
        BY <1>2, <2>5, <3>1, <4>1, Rotation DEF InCertOutage, CheckAt
    <3> QED
      BY <2>5, <3>1 DEF ServedWatched, CheckAt, SelfMade
  <2> QED
    BY <2>4, <2>6 DEF ValidityInv
<1> QED
  BY <1>4, <1>5, <1>6 DEF CertificatesInv

LEMMA CertTimerFiresKeeps ==
  ASSUME CertificatesInv, CertTimerFires
  PROVE  CertificatesInv'
<1>1. CertTypeOK
  BY DEF CertificatesInv
<1>2. /\ UNCHANGED <<certSecrets, certInputs, certWatched, certPass, certUp, certOutage,
                     certServed, certBudget, now>>
      /\ certQueue' = TRUE /\ certTimer' = NotDue
  BY DEF CertTimerFires
<1>3. CertTypeOK'
  BY <1>1, <1>2, Rotation
     DEF CertTypeOK, SecretsType, InputsType, ControlType, certSecrets, certInputs, ElasticsearchCertificates
<1>4. ConsistencyInv'
  BY <1>2 DEF ConsistencyInv, Undisturbed
<1>5. ASSUME CaValidity <= CertValidity PROVE ValidityInv'
  <2>1. ValidityInv /\ CertificatesMade /\ PassProgress
    BY <1>5 DEF CertificatesInv, ValidityInv
  <2>2. ServedCertificates' = ServedCertificates
    BY <1>2, ServedSame DEF certInputs, certSecrets
  <2>3. PassProgress'
    BY <1>2, <2>1, <2>2 DEF PassProgress, GoodFor, certSecrets, SelfMade
  <2> QED
    BY <1>1, <1>2, <2>1, <2>2, <2>3, ValidityFrame DEF CertificatesMade, certSecrets
<1> QED
  BY <1>3, <1>4, <1>5 DEF CertificatesInv

-----------------------------------------------------------------------------
(***************************************************************************)
(* The user, Kubernetes and the operator's process.                        *)
(***************************************************************************)
\* A change that leaves the pass and what is served alone, or serves less of it.
LEMMA EnvironmentKeepsValidity ==
  ASSUME CertTypeOK, ValidityInv, ServedCertificates' \subseteq ServedCertificates,
         UNCHANGED CertEnvironment, httpCerts' = httpCerts,
         httpCA' \in {httpCA, NoCA}, transportCA' \in {transportCA, NoCA},
         certUp => certQueue' = TRUE \/ certQueue' = certQueue
  PROVE  ValidityInv'
<1>1. UNCHANGED <<certPass, certTimer, certUp, certOutage, certServed, now>>
  BY DEF CertEnvironment
<1>2. MadeBy(httpCA', now) /\ MadeBy(transportCA', now) /\ MadeBy(certPass'.ca, now)
  BY <1>1, NothingMade, Rotation DEF ValidityInv, CertificatesMade, MadeBy, CertTypeOK
<1>3. PassProgress'
  BY <1>1 DEF ValidityInv, PassProgress, GoodFor, SelfMade
<1> QED
  BY <1>1, <1>2, <1>3, ValidityFrame

LEMMA EditTLSKeeps ==
  ASSUME CertificatesInv, EditTLS
  PROVE  CertificatesInv'
<1>1. CertTypeOK
  BY DEF CertificatesInv
<1>2. /\ UNCHANGED <<certSecrets, certOwner, customCert, certPods, CertEnvironment>>
      /\ certQueue' = (certQueue \/ certUp)
      /\ CertSpend("edits")
  BY DEF EditTLS, CertEnqueue
<1>3. tls' \in [custom : BOOLEAN, disabled : BOOLEAN, san : {"names1", "names2"}]
  BY <1>1 DEF EditTLS, CertTypeOK, InputsType
<1>4. certBudget' \in CertBudgets
  BY <1>1, <1>2, CertSpent
<1>5. CertTypeOK'
  BY <1>1, <1>2, <1>3, <1>4
     DEF CertTypeOK, SecretsType, InputsType, ControlType, certSecrets, certInputs, ElasticsearchCertificates, CertEnvironment
<1>6. ConsistencyInv'
  BY <1>2 DEF ConsistencyInv, Undisturbed, CertEnvironment
<1>7. ASSUME CaValidity <= CertValidity PROVE ValidityInv'
  <2>1. ServedCertificates' = ServedCertificates
    BY <1>2, ServedSame DEF certSecrets
  <2>2. certQueue \in BOOLEAN /\ certUp \in BOOLEAN
    BY <1>1 DEF CertTypeOK, ControlType
  <2> QED
    BY <1>1, <1>2, <1>7, <2>1, <2>2, EnvironmentKeepsValidity DEF certSecrets, CertificatesInv
<1> QED
  BY <1>5, <1>6, <1>7 DEF CertificatesInv

\* A new content matters to a pass that has read it, and then the secret is watched.
LEMMA ChangeCustomCertificateKeeps ==
  ASSUME CertificatesInv, ChangeCustomCertificate
  PROVE  CertificatesInv'
<1>1. CertTypeOK
  BY DEF CertificatesInv
<1>2. /\ UNCHANGED <<certSecrets, certOwner, tls, certPods, CertEnvironment>>
      /\ certQueue' = (certQueue \/ (certUp /\ certWatched))
      /\ customCert' = customCert + 1
      /\ CertSpend("contents")
      /\ certBudget.race \/ certWatched \/ certPass.pc # "http"
  BY DEF ChangeCustomCertificate
<1>3. certBudget' \in CertBudgets /\ certBudget'.race = certBudget.race
  BY <1>1, <1>2, CertSpent
<1>4. CertTypeOK'
  <2>1. customCert' \in Nat \ {0} /\ certQueue' \in BOOLEAN
    BY <1>1, <1>2 DEF CertTypeOK, InputsType, ControlType
  <2> QED
    BY <1>1, <1>2, <1>3, <2>1
       DEF CertTypeOK, SecretsType, InputsType, ControlType, certSecrets, certInputs, ElasticsearchCertificates, CertEnvironment
<1>5. ConsistencyInv'
  <2>1. SUFFICES ASSUME Undisturbed', Certified', ~certBudget'.race
                 PROVE  HTTPProgress' /\ (ElasticsearchCertificates' => TransportProgress')
    BY DEF ConsistencyInv
  <2>2. Undisturbed /\ ~certWatched /\ certPass.pc # "http"
    BY <1>1, <1>2, <1>3, <2>1 DEF Undisturbed, CertEnvironment
  <2>3. Certified /\ (ElasticsearchCertificates' <=> ElasticsearchCertificates)
    BY <1>2, <2>1 DEF Certified, certInputs, ElasticsearchCertificates, KibanaCertificates,
         LogstashCertificates, ApmServerCertificates
  <2>4. HTTPProgress /\ (ElasticsearchCertificates => TransportProgress)
    BY <1>3, <2>1, <2>2, <2>3 DEF CertificatesInv, ConsistencyInv
  <2>5. HTTPCertificateRight => HTTPCertificateRight'
    BY <1>2, <2>2 DEF HTTPCertificateRight, certSecrets
  <2>6. HTTPProgress'
    BY <1>2, <2>2, <2>4, <2>5 DEF HTTPProgress, HTTPPublicRight, CertDone, certSecrets, CertEnvironment
  <2>7. TransportProgress => TransportProgress'
    BY <1>2 DEF TransportProgress, TransportConsistent, HasIP, CertDone, certSecrets, CertEnvironment
  <2> QED
    BY <2>3, <2>4, <2>6, <2>7
<1>6. ASSUME CaValidity <= CertValidity PROVE ValidityInv'
  <2>1. ServedCertificates' = ServedCertificates
    BY <1>2, ServedSame DEF certSecrets
  <2>2. certQueue \in BOOLEAN /\ certUp \in BOOLEAN /\ certWatched \in BOOLEAN
    BY <1>1 DEF CertTypeOK, ControlType
  <2> QED
    BY <1>1, <1>2, <1>6, <2>1, <2>2, EnvironmentKeepsValidity DEF certSecrets, CertificatesInv
<1> QED
  BY <1>4, <1>5, <1>6 DEF CertificatesInv

\* A Pod that comes or goes serves no certificate until a pass has issued one for it.
LEMMA ChangePodKeeps ==
  ASSUME CertificatesInv, NEW p \in CertNodes, ChangePod(p)
  PROVE  CertificatesInv'
<1>1. CertTypeOK
  BY DEF CertificatesInv
<1>2. /\ UNCHANGED <<certSecrets, certOwner, tls, customCert, CertEnvironment>>
      /\ certQueue' = (certQueue \/ certUp)
      /\ CertSpend("pods") /\ ElasticsearchCertificates
  BY DEF ChangePod, CertEnqueue
<1>3. PICK net \in {"absent", "pending"} \cup (IPs \ {transportCerts.cert[p].for}) :
        certPods' = [certPods EXCEPT ![p] = net]
  BY DEF ChangePod
<1>4. certBudget' \in CertBudgets
  BY <1>1, <1>2, CertSpent
<1>5. CertTypeOK'
  BY <1>1, <1>2, <1>3, <1>4
     DEF CertTypeOK, SecretsType, InputsType, ControlType, certSecrets, certInputs, ElasticsearchCertificates, CertEnvironment
<1>6. ConsistencyInv'
  BY <1>2 DEF ConsistencyInv, Undisturbed, CertEnvironment
<1>7. ASSUME CaValidity <= CertValidity PROVE ValidityInv'
  <2>1. ASSUME NEW c \in ServedCertificates' PROVE c \in ServedCertificates
    <3>1. CASE c = httpCerts'.cert
      BY <1>2, <3>1, ServedIs DEF certSecrets
    <3>2. CASE \E q \in CertNodes : Own(q)' /\ c = transportCerts'.cert[q]
      <4>1. PICK q \in CertNodes : transportCerts.cert[q].for = certPods'[q] /\ c = transportCerts.cert[q]
        BY <1>2, <3>2 DEF Own, certSecrets
      <4>2. q # p
        <5>1. transportCerts.cert[p].for \in IPs \cup {"nobody"}
          BY <1>1 DEF CertTypeOK, SecretsType, NodeCerts
        <5>2. certPods'[p] = net
          BY <1>1, <1>3 DEF CertTypeOK, InputsType
        <5> QED
          BY <1>3, <4>1, <5>1, <5>2 DEF IPs
      <4>3. certPods'[q] = certPods[q]
        BY <1>1, <1>3, <4>2 DEF CertTypeOK, InputsType
      <4> QED
        BY <4>1, <4>3, ServedIs DEF Own
    <3> QED
      BY <2>1, <3>1, <3>2 DEF ServedCertificates
  <2>2. certQueue \in BOOLEAN /\ certUp \in BOOLEAN
    BY <1>1 DEF CertTypeOK, ControlType
  <2> QED
    BY <1>1, <1>2, <1>7, <2>1, <2>2, EnvironmentKeepsValidity DEF certSecrets, CertificatesInv
<1> QED
  BY <1>5, <1>6, <1>7 DEF CertificatesInv

LEMMA DeleteCAKeeps ==
  ASSUME CertificatesInv, DeleteCA
  PROVE  CertificatesInv'
<1>1. CertTypeOK
  BY DEF CertificatesInv
<1>2. /\ UNCHANGED <<httpCerts, httpPublic, transportCerts, transportPublic, certInputs, CertEnvironment>>
      /\ certQueue' = (certQueue \/ certUp)
      /\ CertSpend("deletions")
      /\ httpCA' \in {httpCA, NoCA} /\ transportCA' \in {transportCA, NoCA}
  BY DEF DeleteCA, CertEnqueue
<1>3. certBudget' \in CertBudgets
  BY <1>1, <1>2, CertSpent
<1>4. CertTypeOK'
  <2>1. httpCA' \in CAs /\ transportCA' \in CAs
    BY <1>1, <1>2, NothingMade DEF CertTypeOK, SecretsType
  <2> QED
    BY <1>1, <1>2, <1>3, <2>1
       DEF CertTypeOK, SecretsType, InputsType, ControlType, certSecrets, certInputs, ElasticsearchCertificates, CertEnvironment
<1>5. ConsistencyInv'
  BY <1>2 DEF ConsistencyInv, Undisturbed, CertEnvironment
<1>6. ASSUME CaValidity <= CertValidity PROVE ValidityInv'
  <2>1. ServedCertificates' = ServedCertificates
    BY <1>2, ServedSame DEF certInputs
  <2>2. certQueue \in BOOLEAN /\ certUp \in BOOLEAN
    BY <1>1 DEF CertTypeOK, ControlType
  <2> QED
    BY <1>1, <1>2, <1>6, <2>1, <2>2, EnvironmentKeepsValidity DEF CertificatesInv
<1> QED
  BY <1>4, <1>5, <1>6 DEF CertificatesInv

LEMMA StopCertificatesKeeps ==
  ASSUME CertificatesInv, StopCertificates
  PROVE  CertificatesInv'
<1>1. CertTypeOK
  BY DEF CertificatesInv
<1>2. /\ UNCHANGED <<certSecrets, certInputs, certOutage, certServed, now>>
      /\ certUp' = FALSE /\ certPass' = IdleCertPass
      /\ certQueue' = FALSE /\ certTimer' = NotDue /\ certWatched' = FALSE
      /\ CertSpend("stops")
  BY DEF StopCertificates
<1>3. certBudget' \in CertBudgets
  BY <1>1, <1>2, CertSpent
<1>4. CertTypeOK'
  BY <1>1, <1>2, <1>3, NothingMade, Rotation
     DEF CertTypeOK, SecretsType, InputsType, ControlType, certSecrets, certInputs, ElasticsearchCertificates
<1>5. ConsistencyInv'
  BY <1>2 DEF ConsistencyInv, Undisturbed
<1>6. ASSUME CaValidity <= CertValidity PROVE ValidityInv'
  <2>1. ServedCertificates' = ServedCertificates
    BY <1>2, ServedSame DEF certSecrets, certInputs
  <2>2. ValidityInv /\ MadeBy(httpCA', now) /\ MadeBy(transportCA', now)
    BY <1>2, <1>6 DEF CertificatesInv, ValidityInv, CertificatesMade, certSecrets
  <2>3. PassProgress' /\ MadeBy(certPass'.ca, now)
    BY <1>1, <1>2, CutShort
  <2> QED
    BY <1>1, <1>2, <2>1, <2>2, <2>3, ValidityFrame
<1> QED
  BY <1>4, <1>5, <1>6 DEF CertificatesInv

LEMMA StartCertificatesKeeps ==
  ASSUME CertificatesInv, StartCertificates
  PROVE  CertificatesInv'
<1>1. CertTypeOK
  BY DEF CertificatesInv
<1>2. /\ UNCHANGED <<certSecrets, certInputs, certWatched, certPass, certTimer, certOutage,
                     certServed, certBudget, now>>
      /\ certUp' = TRUE /\ certQueue' = TRUE
  BY DEF StartCertificates
<1>3. CertTypeOK'
  BY <1>1, <1>2
     DEF CertTypeOK, SecretsType, InputsType, ControlType, certSecrets, certInputs, ElasticsearchCertificates
<1>4. ConsistencyInv'
  BY <1>2 DEF ConsistencyInv, Undisturbed
<1>5. ASSUME CaValidity <= CertValidity PROVE ValidityInv'
  <2>1. ServedCertificates' = ServedCertificates
    BY <1>2, ServedSame DEF certSecrets, certInputs
  <2>2. ValidityInv /\ MadeBy(httpCA', now) /\ MadeBy(transportCA', now) /\ MadeBy(certPass'.ca, now)
    BY <1>2, <1>5 DEF CertificatesInv, ValidityInv, CertificatesMade, certSecrets
  <2>3. PassProgress'
    BY <1>2, <2>1, <2>2 DEF ValidityInv, PassProgress, GoodFor, SelfMade, certSecrets
  <2> QED
    BY <1>1, <1>2, <2>1, <2>2, <2>3, ValidityFrame
<1> QED
  BY <1>3, <1>4, <1>5 DEF CertificatesInv

\* Time stops short of the timer while the operator waits, and is counted while it is
\* stopped.
LEMMA CertTickKeeps ==
  ASSUME CertificatesInv, CertTick
  PROVE  CertificatesInv'
<1>1. CertTypeOK /\ now \in Nat /\ certOutage \in Nat /\ certTimer \in Nat
  BY Rotation DEF CertificatesInv, CertTypeOK, ControlType
<1>2. /\ UNCHANGED <<certSecrets, certInputs, certWatched, certPass, certQueue, certTimer,
                     certUp, certServed, certBudget>>
      /\ now < Horizon /\ now' = now + 1
      /\ \/ /\ certUp /\ certPass.pc = "idle" /\ ~certQueue /\ certTimer > now
            /\ certOutage' = certOutage
         \/ ~certUp /\ certOutage < MaxCertOutage /\ certOutage' = certOutage + 1
  BY DEF CertTick, Advance
<1>3. CertTypeOK'
  <2>1. now' \in 0 .. Horizon /\ certOutage' \in 0 .. MaxCertOutage
    BY <1>1, <1>2, Rotation DEF CertTypeOK, ControlType
  <2> QED
    BY <1>1, <1>2, <2>1
       DEF CertTypeOK, SecretsType, InputsType, ControlType, certSecrets, certInputs, ElasticsearchCertificates
<1>4. ConsistencyInv'
  BY <1>2
     DEF CertificatesInv, ConsistencyInv, Undisturbed, Certified, certInputs, ElasticsearchCertificates, KibanaCertificates,
         LogstashCertificates, ApmServerCertificates,
         HTTPProgress, TransportProgress, CertDone, CustomRead, HTTPCertificateRight, HTTPPublicRight,
         TransportConsistent, HasIP, CustomCertificate, certSecrets
<1>5. ASSUME CaValidity <= CertValidity PROVE ValidityInv'
  <2>1. CertificatesMade /\ PassProgress /\ ServedWatched
    BY <1>5 DEF CertificatesInv, ValidityInv
  <2>2. ServedCertificates' = ServedCertificates
    BY <1>2, ServedSame DEF certSecrets, certInputs
  <2>3. PassProgress' /\ certPass.pc = "idle"
    BY <1>2, <2>1 DEF PassProgress
  <2>4. MadeBy(httpCA', now') /\ MadeBy(transportCA', now') /\ MadeBy(certPass'.ca, now')
    <3>1. httpCA.expiry \in Nat /\ transportCA.expiry \in Nat /\ certPass.ca.expiry \in Nat
      BY <1>1 DEF CertTypeOK, SecretsType, CAs, CertPasses
    <3> QED
      BY <1>1, <1>2, <2>1, <3>1, Rotation DEF CertificatesMade, MadeBy, certSecrets
  <2>5. CertificatesMade'
    BY <2>1, <2>2, <2>4 DEF CertificatesMade, SelfMade, Outlives
  <2>6. ASSUME certServed, NEW c \in ServedCertificates, SelfMade(c)
        PROVE  now + 1 <= CheckAt(c.issuer) + certOutage'
    <3>1. CheckAt(c.issuer) \in Int
      BY <1>1, ServedTyped, Rotation DEF CheckAt
    <3>2. CASE certUp
      <4>1. certTimer > now /\ certTimer <= CheckAt(c.issuer) /\ certOutage' = certOutage
        BY <1>2, <2>1, <2>6, <3>2 DEF ServedWatched
      <4> QED
        BY <1>1, <3>1, <4>1
    <3>3. CASE ~certUp
      <4>1. now <= CheckAt(c.issuer) + certOutage /\ certOutage' = certOutage + 1
        BY <1>2, <2>1, <2>6, <3>3 DEF ServedWatched, InCertOutage
      <4> QED
        BY <1>1, <3>1, <4>1
    <3> QED
      BY <3>2, <3>3
  <2>7. ServedWatched'
    <3>1. \A c \in ServedCertificates' : certServed' /\ SelfMade(c) => InCertOutage(c.issuer)'
      BY <1>2, <2>2, <2>6 DEF InCertOutage, CheckAt
    <3> QED
      BY <1>2, <2>1, <2>2, <3>1 DEF ServedWatched, SelfMade, CheckAt
  <2> QED
    BY <2>3, <2>5, <2>7 DEF ValidityInv
<1> QED
  BY <1>3, <1>4, <1>5 DEF CertificatesInv

-----------------------------------------------------------------------------
LEMMA CertificatesInvInit == now = 0 /\ CertificatesInit => CertificatesInv
<1> SUFFICES ASSUME now = 0, CertificatesInit PROVE CertificatesInv
  OBVIOUS
<1>1. PICK s \in CertScenarios :
        /\ certOwner = s.owner
        /\ tls = [custom |-> FALSE, disabled |-> s.disabled, san |-> "names1"]
        /\ certBudget = s.budget
  BY DEF CertificatesInit
<1>2. s.owner \in Owners /\ s.disabled \in BOOLEAN /\ s.budget \in CertBudgets
  BY CertificatesAssumption DEF CertBudgets
<1>3. SecretsType
  BY NothingMade DEF CertificatesInit, SecretsType
<1>4. InputsType
  BY <1>1, <1>2 DEF CertificatesInit, InputsType
<1>5. certPass \in CertPasses /\ certPass.pc = "idle" /\ certPass.ca = NoCA
  BY NothingMade DEF CertificatesInit, IdleCertPass
<1>6. CertTypeOK
  <2>1. /\ certWatched = FALSE /\ certQueue = TRUE /\ certTimer = NotDue
        /\ certUp = TRUE /\ certOutage = 0 /\ certServed = FALSE
    BY DEF CertificatesInit
  <2>2. /\ certWatched \in BOOLEAN /\ certQueue \in BOOLEAN /\ certUp \in BOOLEAN
        /\ certServed \in BOOLEAN
    BY <2>1, Zenon
  <2>3. certTimer \in Nat /\ certOutage \in 0 .. MaxCertOutage /\ now \in 0 .. Horizon
    BY <2>1, Rotation
  <2>4. certBudget \in CertBudgets
    BY <1>1, <1>2
  <2>5. ControlType
    BY <2>2, <2>3, <2>4 DEF ControlType
  <2> QED
    BY <1>3, <1>4, <1>5, <2>2, <2>3, <2>5 DEF CertTypeOK
<1>7. ConsistencyInv
  BY DEF CertificatesInit, ConsistencyInv, Undisturbed
<1>8. ValidityInv
  <2>1. \A c \in ServedCertificates : c = NoCert
    BY ServedIs DEF CertificatesInit, NoHttpCerts
  <2>2. CertificatesMade
    BY <1>5, <2>1, NothingMade, Rotation DEF CertificatesInit, CertificatesMade, MadeBy, SelfMade
  <2>3. PassProgress /\ ServedWatched
    BY <1>5 DEF CertificatesInit, PassProgress, ServedWatched
  <2> QED
    BY <2>2, <2>3 DEF ValidityInv
<1> QED
  BY <1>6, <1>7, <1>8 DEF CertificatesInv

LEMMA CertificatesInvNext ==
  ASSUME CertificatesInv, [CertificatesNext]_<<certVars, now>>
  PROVE  CertificatesInv'
<1>1. CASE UNCHANGED <<certVars, now>>
  <2>1. CertTypeOK'
    BY <1>1 DEF CertificatesInv, certVars, certControl, CertTypeOK, SecretsType, InputsType, ControlType,
                certSecrets, certInputs, ElasticsearchCertificates
  <2>2. ConsistencyInv'
    BY <1>1
       DEF CertificatesInv, certVars, certControl, ConsistencyInv, Undisturbed, Certified, certInputs, ElasticsearchCertificates, KibanaCertificates,
         LogstashCertificates, ApmServerCertificates,
           HTTPProgress, TransportProgress, CertDone, CustomRead, HTTPCertificateRight, HTTPPublicRight,
           TransportConsistent, HasIP, CustomCertificate, certSecrets
  <2>3. ASSUME CaValidity <= CertValidity PROVE ValidityInv'
    <3>1. ServedCertificates' = ServedCertificates
      BY <1>1, ServedSame DEF certVars, certControl, certSecrets, certInputs
    <3> QED
      BY <1>1, <2>3, <3>1
         DEF CertificatesInv, certVars, certControl, certSecrets, ValidityInv, CertificatesMade, PassProgress,
             ServedWatched, MadeBy, SelfMade, Outlives, GoodFor, UsedAt, CheckAt, InCertOutage
  <2> QED
    BY <2>1, <2>2, <2>3 DEF CertificatesInv
<1>2. CASE \/ StartCertPass \/ ReconcileHTTPCA \/ GetCustomCertificates \/ ReconcileHTTPCertificates
           \/ ReconcileHTTPPublic \/ ReconcileTransportCA \/ ReconcileTransportPublic
           \/ ReconcileTransportCertificates \/ FinishCertPass \/ CertTimerFires
  BY <1>2, StartCertPassKeeps, ReconcileHTTPCAKeeps, GetCustomCertificatesKeeps,
     ReconcileHTTPCertificatesKeeps, ReconcileHTTPPublicKeeps, ReconcileTransportCAKeeps,
     ReconcileTransportPublicKeeps, ReconcileTransportCertificatesKeeps, FinishCertPassKeeps,
     CertTimerFiresKeeps
<1>3. CASE \/ EditTLS \/ ChangeCustomCertificate \/ DeleteCA
           \/ \E p \in CertNodes : ChangePod(p)
           \/ StopCertificates \/ StartCertificates \/ CertTick
  BY <1>3, EditTLSKeeps, ChangeCustomCertificateKeeps, DeleteCAKeeps, ChangePodKeeps,
     StopCertificatesKeeps, StartCertificatesKeeps, CertTickKeeps
<1> QED
  BY <1>1, <1>2, <1>3 DEF CertificatesNext

-----------------------------------------------------------------------------
\* Whatever calls fail, whenever the operator stops, and however often the specification,
\* the Pods, a CA or the user's certificate change, the secrets agree with each other and
\* with all of these when the operator has nothing left to do, unless the user's
\* certificate changed between its read and its first watch (reconcileDynamicWatches).
THEOREM SecretsAgree == CertificatesSpec => [](~certBudget.race => CertificatesConsistent)
<1>1. now = 0 /\ CertificatesInit => CertificatesInv
  BY CertificatesInvInit
<1>2. CertificatesInv /\ [CertificatesNext]_<<certVars, now>> => CertificatesInv'
  BY CertificatesInvNext
<1>3. CertificatesInv => (~certBudget.race => CertificatesConsistent)
  <2> SUFFICES ASSUME CertificatesInv, ~certBudget.race, CertificatesQuiet, ~tls.disabled
               PROVE  HTTPConsistent /\ (ElasticsearchCertificates => TransportConsistent)
    BY DEF CertificatesConsistent
  <2>1. Undisturbed /\ certPass.pc = "idle" /\ tls.custom \in BOOLEAN
    BY DEF CertificatesQuiet, Undisturbed, CertificatesInv, CertTypeOK, InputsType
  <2>2. Certified
    BY DEF CertificatesInv, CertTypeOK, InputsType, Owners, Certified, ElasticsearchCertificates,
           KibanaCertificates, LogstashCertificates, ApmServerCertificates
  <2>3. HTTPProgress /\ (ElasticsearchCertificates => TransportProgress)
    BY <2>1, <2>2 DEF CertificatesInv, ConsistencyInv
  <2> QED
    BY <2>1, <2>3
       DEF HTTPProgress, TransportProgress, CertDone, HTTPCertificateRight, HTTPPublicRight, HTTPConsistent
<1> QED
  BY <1>1, <1>2, <1>3, PTL DEF CertificatesSpec

\* Nothing that is served expires, for any rotation parameters that let the certificates
\* of the nodes outlive their CA, as long as the operator is never stopped for as much as
\* the margin less the second it is shortened by (ShouldRotateIn): a pass only asks to be
\* called again for the CAs, so that a shorter --cert-validity is not looked after.
THEOREM NothingServedExpires ==
  CaValidity <= CertValidity /\ MaxCertOutage + 1 < CaRotateBefore =>
    (CertificatesSpec => []CertificatesValid)
<1> SUFFICES ASSUME CaValidity <= CertValidity, MaxCertOutage + 1 < CaRotateBefore
             PROVE  CertificatesSpec => []CertificatesValid
  OBVIOUS
<1>1. now = 0 /\ CertificatesInit => CertificatesInv
  BY CertificatesInvInit
<1>2. CertificatesInv /\ [CertificatesNext]_<<certVars, now>> => CertificatesInv'
  BY CertificatesInvNext
<1>3. CertificatesInv => CertificatesValid
  <2> SUFFICES ASSUME CertificatesInv, certServed, NEW c \in ServedCertificates, c # NoCert
               PROVE  now < c.expiry /\ (c.for # "user" => now < c.issuer.expiry)
    BY DEF CertificatesValid
  <2>1. CertTypeOK /\ CertificatesMade /\ ServedWatched
    BY DEF CertificatesInv, ValidityInv
  <2>2. /\ c.expiry \in Nat /\ c.issuer.expiry \in Nat /\ now \in Nat /\ now <= Horizon
        /\ certOutage \in Nat /\ certOutage <= MaxCertOutage
    BY <2>1, ServedTyped, Rotation DEF CertTypeOK, ControlType
  <2>3. CASE c.for = "user"
    BY <2>1, <2>2, <2>3, Rotation DEF CertificatesMade, NotDue
  <2>4. CASE c.for # "user"
    <3>1. InCertOutage(c.issuer) /\ Outlives(c)
      BY <2>1, <2>4 DEF CertificatesMade, ServedWatched, SelfMade
    <3> QED
      BY <2>2, <2>4, <3>1, Rotation DEF InCertOutage, CheckAt, Outlives
  <2> QED
    BY <2>3, <2>4
<1> QED
  BY <1>1, <1>2, <1>3, PTL DEF CertificatesSpec
=============================================================================
