----------------------------- MODULE Certificates -----------------------------
(***************************************************************************)
(* The certificates of a cluster or of an application: a CA for HTTP and,  *)
(* for Elasticsearch, one for the transport between nodes, the             *)
(* certificates they sign, the public copies, and the certificate the user *)
(* may bring instead (common/certificates, elasticsearch/certificates and  *)
(* the certificates of Kibana, Logstash and the APM server).               *)
(*                                                                         *)
(* A pass is short beside a unit of time: time passes when the operator    *)
(* has nothing to do, or is stopped.  The second that ShouldRotateIn takes *)
(* off the margin is one unit of time here.  A CA is known by when it      *)
(* expires, and by how many were deleted before it.  A write made from an  *)
(* older copy of a secret conflicts and is retried, as one that fails.     *)
(***************************************************************************)
EXTENDS Clock

CONSTANTS
  CertNodes,       \* the Pods of the cluster
  CaValidity,      \* rotation parameters, of the CAs and HTTP certificates
  CaRotateBefore,
  CertValidity,    \* and of the transport certificates
  CertRotateBefore,
  MaxCertOutage,   \* bound on how long the operator may be stopped
  CertScenarios    \* owners, what they start from, and bounds on what may change

Owners == {"elasticsearch", "kibana", "logstash", "apm"}

\* ValidateCertExpirationFlags: a certificate lives longer than the margin.
ASSUME CertificatesAssumption ==
  /\ CaValidity \in Nat /\ CaRotateBefore \in 1 .. CaValidity
  /\ CertValidity \in Nat /\ CertRotateBefore \in 1 .. CertValidity
  /\ MaxCertOutage \in Nat
  /\ \A s \in CertScenarios :
       /\ s.owner \in Owners /\ s.disabled \in BOOLEAN
       /\ s.budget \in [edits : Nat, contents : Nat, pods : Nat, deletions : Nat,
                        faults : Nat, stops : Nat, race : BOOLEAN]

VARIABLES
  certOwner,       \* whose certificates, chosen once
  tls,             \* its specification: [custom, disabled, san]
  customCert,      \* the content of the user's secret, a number
  httpCA, transportCA,  \* [serial, expiry], expiry 0 when absent
  httpCerts,       \* the secret of the HTTP certificate: [key, cert, ca]
  httpPublic,      \* its public copy: [cert, ca]
  transportCerts,  \* the secret of the nodes' certificates: [ca, cert[p]]
  transportPublic, \* the public transport CA
  certPods,        \* certPods[p]: "absent", "pending" (no IP yet) or an IP
  certWatched,     \* whether the user's secret is watched
  certServed,      \* whether the Pods serve the certificates
  certPass,        \* the pass under way, and what it holds
  certQueue,       \* whether the owner is queued
  certTimer,       \* when it will be, by its delayed queue
  certUp, certOutage,
  certBudget

certSecrets == <<httpCA, transportCA, httpCerts, httpPublic, transportCerts, transportPublic>>
certInputs == <<certOwner, tls, customCert, certPods>>
certControl == <<certQueue, certTimer, certUp, certOutage, certServed, certBudget>>
certVars == <<certSecrets, certInputs, certWatched, certPass, certControl>>

NoCA == [serial |-> 0, expiry |-> 0]
NoCert == [key |-> 0, issuer |-> NoCA, expiry |-> 0, for |-> "nobody"]
NoHttpCerts == [key |-> 0, cert |-> NoCert, ca |-> NoCA]
NotDue == Horizon + 1
OwnKey == 100      \* a key the operator made
IPs == {"ip1", "ip2"}

IdleCertPass == [pc |-> "idle", ca |-> NoCA, custom |-> 0, http |-> NoHttpCerts, requeue |-> NotDue]

CertificatesInit ==
  /\ \E s \in CertScenarios :
       /\ certOwner = s.owner
       /\ tls = [custom |-> FALSE, disabled |-> s.disabled, san |-> "names1"]
       /\ certBudget = s.budget
  /\ customCert = 1
  /\ httpCA = NoCA /\ transportCA = NoCA
  /\ httpCerts = NoHttpCerts /\ httpPublic = [cert |-> NoCert, ca |-> NoCA]
  /\ transportCerts = [ca |-> NoCA, cert |-> [p \in CertNodes |-> NoCert]]
  /\ transportPublic = NoCA
  /\ certPods = [p \in CertNodes |-> "absent"]
  /\ certWatched = FALSE
  /\ certPass = IdleCertPass
  /\ certQueue = TRUE /\ certTimer = NotDue
  /\ certUp = TRUE /\ certOutage = 0 /\ certServed = FALSE

-----------------------------------------------------------------------------
(***************************************************************************)
(* common/certificates.                                                    *)
(***************************************************************************)
CertIsValid(ca) == now <= ca.expiry - CaRotateBefore

\* Seeded defect: the margin is not made shorter.
RotateAtMargin(ca) ==
  IF ca.expiry - CaRotateBefore > now THEN ca.expiry - CaRotateBefore ELSE NotDue

\* When a pass that ends now is to be followed by another; a delay of zero is none.
ShouldRotateIn(ca) ==
  IF ca.expiry - (CaRotateBefore - 1) > now THEN ca.expiry - (CaRotateBefore - 1) ELSE NotDue

\* NewSelfSignedCA
NewSelfSignedCA == [serial |-> certBudget.deletions, expiry |-> now + CaValidity]

\* ReconcileCAForOwner and renewCA: the CA the pass goes on with.
CanReuseCA(ca) == ca # NoCA /\ CertIsValid(ca)
ReconcileCA(ca) == IF CanReuseCA(ca) THEN ca ELSE NewSelfSignedCA

\* CreateCertificate
CreateCertificate(ca, key, validity, for) ==
  [key |-> key, issuer |-> ca, expiry |-> now + validity, for |-> for]

\* certificate.Verify and the margin: what makes a certificate be issued again.
Verifies(cert, ca, margin, for) ==
  /\ cert.issuer = ca /\ cert.for = for
  /\ now < cert.expiry /\ now <= cert.expiry - margin

-----------------------------------------------------------------------------
(***************************************************************************)
(* common/certificates/http.                                               *)
(***************************************************************************)
\* The certificate the user brings; it carries no CA here.
CustomCertificate(content) ==
  [key |-> content,
   cert |-> [key |-> content, issuer |-> NoCA, expiry |-> NotDue, for |-> "user"],
   ca |-> NoCA]

\* Seeded defect: only the names and the margin are looked at.
ShouldIssueUnverified(secret, ca) ==
  \/ secret.cert.for # tls.san
  \/ now > secret.cert.expiry - CaRotateBefore

ShouldIssueNewHTTPCertificate(secret, ca) ==
  ~Verifies(secret.cert, ca, CaRotateBefore, tls.san)

\* createValidatedHTTPCertificateTemplate, signed.
ValidatedHTTPCertificate(ca, key) == CreateCertificate(ca, key, CaValidity, tls.san)

\* ensureInternalSelfSignedCertificateSecretContents: a private key is kept,
\* whoever brought it.
SelfSigned(secret, ca) ==
  LET key == IF secret.key # 0 THEN secret.key ELSE OwnKey
  IN IF ShouldIssueNewHTTPCertificate(secret, ca)
     THEN [key |-> key, cert |-> ValidatedHTTPCertificate(ca, key), ca |-> ca]
     ELSE [secret EXCEPT !.key = key]

\* reconcileHTTPInternalCertificatesSecret
HTTPInternalCertificates(secret, custom, ca) ==
  IF custom # 0 THEN CustomCertificate(custom) ELSE SelfSigned(secret, ca)

-----------------------------------------------------------------------------
(***************************************************************************)
(* elasticsearch/certificates/transport.                                   *)
(***************************************************************************)
HasIP(p) == certPods[p] \in IPs

\* buildGeneralNames: what the certificate of a Pod is for.
GeneralNames(p) == certPods[p]

ShouldIssueNewCertificate(cert, ca, p) ==
  ~Verifies(cert, ca, CertRotateBefore, GeneralNames(p))

\* createValidatedCertificateTemplate, signed.
ValidatedCertificate(ca, p) == CreateCertificate(ca, OwnKey, CertValidity, GeneralNames(p))

\* ensureTransportCertificatesSecretContentsForPod
ContentsForPod(cert, ca, p) ==
  IF ShouldIssueNewCertificate(cert, ca, p) THEN ValidatedCertificate(ca, p) ELSE cert

\* Seeded defect: certificates of Pods that are gone are kept.
NothingPruned(secret, ca) ==
  [ca |-> ca,
   cert |-> [p \in CertNodes |-> IF HasIP(p) THEN ContentsForPod(secret.cert[p], ca, p)
                                 ELSE secret.cert[p]]]

\* ReconcileTransportCertificatesSecrets: a Pod without an IP is skipped, what is
\* there of a Pod that is gone is pruned.
TransportCertificates(secret, ca) ==
  [ca |-> ca,
   cert |-> [p \in CertNodes |-> IF certPods[p] = "absent" THEN NoCert
                                 ELSE IF HasIP(p) THEN ContentsForPod(secret.cert[p], ca, p)
                                 ELSE secret.cert[p]]]

-----------------------------------------------------------------------------
(***************************************************************************)
(* A pass: one step for each secret it writes.  A call that fails, or      *)
(* whose reply is lost, ends the pass; its owner is queued again.          *)
(***************************************************************************)
CertOutcomes == {"done"} \cup IF certBudget.faults > 0 THEN {"failed", "lost"} ELSE {}

Written(outcome, old, new) == IF outcome = "failed" THEN old ELSE new

CertContinue(outcome, pass) ==
  IF outcome = "done"
  THEN certPass' = pass /\ UNCHANGED <<certQueue, certBudget>>
  ELSE /\ certPass' = IdleCertPass
       /\ certQueue' = TRUE
       /\ certBudget' = [certBudget EXCEPT !.faults = @ - 1]

\* Results.Aggregate: the earliest of the delays a pass asks for.
Sooner(t, u) == IF t < u THEN t ELSE u

CertOthers == <<certInputs, certTimer, certUp, certOutage, certServed, now>>

\* The owner's Reconcile: the stateless ones have no certificate when TLS is disabled.
ElasticsearchCertificates == certOwner = "elasticsearch"
KibanaCertificates == certOwner = "kibana" /\ ~tls.disabled
LogstashCertificates == certOwner = "logstash" /\ ~tls.disabled
ApmServerCertificates == certOwner = "apm" /\ ~tls.disabled

StartCertPass ==
  /\ certUp /\ certQueue /\ certPass.pc = "idle"
  /\ certQueue' = FALSE
  /\ certPass' = IF \/ ElasticsearchCertificates \/ KibanaCertificates
                    \/ LogstashCertificates \/ ApmServerCertificates
                 THEN [IdleCertPass EXCEPT !.pc = "http-ca"]
                 ELSE [IdleCertPass EXCEPT !.pc = "finish"]
  /\ UNCHANGED <<certSecrets, certWatched, certBudget, CertOthers>>

ReconcileHTTPCA ==
  /\ certPass.pc = "http-ca"
  /\ LET ca == ReconcileCA(httpCA) IN
     \E outcome \in CertOutcomes :
       /\ httpCA' = Written(outcome, httpCA, ca)
       /\ CertContinue(outcome, [certPass EXCEPT !.pc = "http-get", !.ca = ca,
                                                 !.requeue = Sooner(@, ShouldRotateIn(ca))])
  /\ UNCHANGED <<transportCA, httpCerts, httpPublic, transportCerts, transportPublic,
                 certWatched, CertOthers>>

\* GetCustomCertificates
GetCustomCertificates ==
  /\ certPass.pc = "http-get"
  /\ \E outcome \in CertOutcomes \ {"lost"} :
       CertContinue(outcome, [certPass EXCEPT !.pc = "http",
                                              !.custom = IF tls.custom THEN customCert ELSE 0])
  /\ UNCHANGED <<certSecrets, certWatched, CertOthers>>

\* reconcileDynamicWatches, then the write of the secret.
ReconcileHTTPCertificates ==
  /\ certPass.pc = "http"
  /\ certWatched' = tls.custom
  /\ LET certs == HTTPInternalCertificates(httpCerts, certPass.custom, certPass.ca) IN
     \E outcome \in CertOutcomes :
       /\ httpCerts' = Written(outcome, httpCerts, certs)
       /\ CertContinue(outcome, [certPass EXCEPT !.pc = "http-public", !.http = certs])
  /\ UNCHANGED <<httpCA, transportCA, httpPublic, transportCerts, transportPublic, CertOthers>>

\* ReconcileHTTPCertsPublicSecret
ReconcileHTTPPublic ==
  /\ certPass.pc = "http-public"
  /\ \E outcome \in CertOutcomes :
       /\ httpPublic' = Written(outcome, httpPublic,
                                [cert |-> certPass.http.cert, ca |-> certPass.http.ca])
       /\ CertContinue(outcome, [certPass EXCEPT
            !.pc = IF ElasticsearchCertificates THEN "transport-ca" ELSE "finish"])
  /\ UNCHANGED <<httpCA, transportCA, httpCerts, transportCerts, transportPublic,
                 certWatched, CertOthers>>

ReconcileTransportCA ==
  /\ certPass.pc = "transport-ca"
  /\ LET ca == ReconcileCA(transportCA) IN
     \E outcome \in CertOutcomes :
       /\ transportCA' = Written(outcome, transportCA, ca)
       /\ CertContinue(outcome, [certPass EXCEPT !.pc = "transport-public", !.ca = ca,
                                                 !.requeue = Sooner(@, ShouldRotateIn(ca))])
  /\ UNCHANGED <<httpCA, httpCerts, httpPublic, transportCerts, transportPublic,
                 certWatched, CertOthers>>

\* ReconcileTransportCertsPublicSecret
ReconcileTransportPublic ==
  /\ certPass.pc = "transport-public"
  /\ \E outcome \in CertOutcomes :
       /\ transportPublic' = Written(outcome, transportPublic, certPass.ca)
       /\ CertContinue(outcome, [certPass EXCEPT !.pc = "transport"])
  /\ UNCHANGED <<httpCA, transportCA, httpCerts, httpPublic, transportCerts,
                 certWatched, CertOthers>>

\* ReconcileTransportCertificatesSecrets
ReconcileTransportCertificates ==
  /\ certPass.pc = "transport"
  /\ \E outcome \in CertOutcomes :
       /\ transportCerts' = Written(outcome, transportCerts,
                                    TransportCertificates(transportCerts, certPass.ca))
       /\ CertContinue(outcome, [certPass EXCEPT !.pc = "finish"])
  /\ UNCHANGED <<httpCA, transportCA, httpCerts, httpPublic, transportPublic,
                 certWatched, CertOthers>>

\* The Pods are made with the certificates, or without, after these; the owner
\* goes to the delayed queue, which keeps the earlier of two delays.
FinishCertPass ==
  /\ certPass.pc = "finish"
  /\ certPass' = IdleCertPass
  /\ certTimer' = Sooner(certTimer, certPass.requeue)
  /\ certOutage' = 0
  /\ certServed' = (certPass.ca # NoCA)
  /\ UNCHANGED <<certSecrets, certInputs, certWatched, certQueue, certUp, certBudget, now>>

CertTimerFires ==
  /\ certUp /\ certTimer <= now
  /\ certQueue' = TRUE /\ certTimer' = NotDue
  /\ UNCHANGED <<certSecrets, certInputs, certWatched, certPass, certUp, certOutage,
                 certServed, certBudget, now>>

-----------------------------------------------------------------------------
(***************************************************************************)
(* The user, Kubernetes and the operator's process.  What they change      *)
(* queues the owner while the operator runs; a start queues it anyway.     *)
(***************************************************************************)
CertSpend(counter) ==
  certBudget[counter] > 0 /\ certBudget' = [certBudget EXCEPT ![counter] = @ - 1]

CertEnqueue == certQueue' = (certQueue \/ certUp)

CertEnvironment == <<certWatched, certPass, certTimer, certUp, certOutage, certServed, now>>

EditTLS ==
  /\ CertSpend("edits")
  /\ \/ tls' = [tls EXCEPT !.custom = ~@]
     \/ tls' = [tls EXCEPT !.san = "names2"] /\ tls.san # "names2"
     \/ tls' = [tls EXCEPT !.disabled = ~@] /\ certOwner # "elasticsearch"
  /\ CertEnqueue
  /\ UNCHANGED <<certSecrets, certOwner, customCert, certPods, CertEnvironment>>

\* The owner is queued if the secret is watched.  Unless the budget allows the
\* race, not between the pass's read of the secret and its first watch of it.
ChangeCustomCertificate ==
  /\ CertSpend("contents")
  /\ certBudget.race \/ certWatched \/ certPass.pc # "http"
  /\ customCert' = customCert + 1
  /\ certQueue' = (certQueue \/ (certUp /\ certWatched))
  /\ UNCHANGED <<certSecrets, certOwner, tls, certPods, CertEnvironment>>

\* A Pod is created, gets an IP, or goes.  It does not get the IP that the
\* certificate of an earlier Pod of its name was for.
ChangePod(p) ==
  /\ CertSpend("pods")
  /\ ElasticsearchCertificates
  /\ \/ certPods[p] = "absent" /\ certPods' = [certPods EXCEPT ![p] = "pending"]
     \/ /\ certPods[p] = "pending"
        /\ \E ip \in IPs \ {transportCerts.cert[p].for} :
             certPods' = [certPods EXCEPT ![p] = ip]
     \/ HasIP(p) /\ certPods' = [certPods EXCEPT ![p] = "absent"]
  /\ CertEnqueue
  /\ UNCHANGED <<certSecrets, certOwner, tls, customCert, CertEnvironment>>

\* A CA secret is deleted.
DeleteCA ==
  /\ CertSpend("deletions")
  /\ \/ httpCA # NoCA /\ httpCA' = NoCA /\ UNCHANGED transportCA
     \/ transportCA # NoCA /\ transportCA' = NoCA /\ UNCHANGED httpCA
  /\ CertEnqueue
  /\ UNCHANGED <<httpCerts, httpPublic, transportCerts, transportPublic, certInputs,
                 CertEnvironment>>

StopCertificates ==
  /\ certUp /\ CertSpend("stops")
  /\ certUp' = FALSE /\ certPass' = IdleCertPass
  /\ certQueue' = FALSE /\ certTimer' = NotDue /\ certWatched' = FALSE
  /\ UNCHANGED <<certSecrets, certInputs, certOutage, certServed, now>>

StartCertificates ==
  /\ ~certUp
  /\ certUp' = TRUE /\ certQueue' = TRUE
  /\ UNCHANGED <<certSecrets, certInputs, certWatched, certPass, certTimer, certOutage,
                 certServed, certBudget, now>>

\* Time passes when the operator has nothing to do, or is stopped.
CertTick ==
  /\ Advance
  /\ \/ /\ certUp /\ certPass.pc = "idle" /\ ~certQueue /\ certTimer > now
        /\ UNCHANGED certOutage
     \/ ~certUp /\ certOutage < MaxCertOutage /\ certOutage' = certOutage + 1
  /\ UNCHANGED <<certSecrets, certInputs, certWatched, certPass, certQueue, certTimer,
                 certUp, certServed, certBudget>>

CertificatesNext ==
  \/ StartCertPass \/ ReconcileHTTPCA \/ GetCustomCertificates \/ ReconcileHTTPCertificates
  \/ ReconcileHTTPPublic \/ ReconcileTransportCA \/ ReconcileTransportPublic
  \/ ReconcileTransportCertificates \/ FinishCertPass \/ CertTimerFires
  \/ EditTLS \/ ChangeCustomCertificate \/ DeleteCA
  \/ \E p \in CertNodes : ChangePod(p)
  \/ StopCertificates \/ StartCertificates \/ CertTick

CertificatesSpec == CertificatesInit /\ now = 0 /\ [][CertificatesNext]_<<certVars, now>>
=============================================================================
