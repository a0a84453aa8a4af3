----------------------- MODULE CertificatesProperties -----------------------
(***************************************************************************)
(* What the certificates owe those who use them.                           *)
(***************************************************************************)
EXTENDS Certificates

CertificatesQuiet == certUp /\ certPass.pc = "idle" /\ ~certQueue

Own(p) == transportCerts.cert[p].for = certPods[p]
ServedCertificates == {httpCerts.cert} \cup {transportCerts.cert[p] : p \in {q \in CertNodes : Own(q)}}

\* No certificate that a node or an application serves, and no CA that signed one,
\* expires: not while the operator waits, nor while it is stopped for less than the
\* margin (ShouldRotateIn, certIsValid, the requeues of Reconcile).
CertificatesValid ==
  certServed =>
    \A c \in ServedCertificates \ {NoCert} :
      now < c.expiry /\ (c.for # "user" => now < c.issuer.expiry)

\* When the operator has nothing left to do, every secret agrees with the others:
\* certificates are signed by the CA of the moment for what they are used for, the
\* public copies show it, the user's certificate is the one served when there is
\* one, and nothing is kept of Pods that are gone.
HTTPConsistent ==
  /\ httpPublic = [cert |-> httpCerts.cert, ca |-> httpCerts.ca]
  /\ IF tls.custom
     THEN httpCerts = CustomCertificate(customCert)
     ELSE /\ httpCerts.cert.issuer = httpCA /\ httpCerts.ca = httpCA
          /\ httpCerts.cert.key = httpCerts.key /\ httpCerts.cert.for = tls.san

TransportConsistent ==
  /\ transportPublic = transportCA /\ transportCerts.ca = transportCA
  /\ \A p \in CertNodes :
       /\ HasIP(p) => /\ transportCerts.cert[p].issuer = transportCA
                      /\ transportCerts.cert[p].for = certPods[p]
       /\ certPods[p] = "absent" => transportCerts.cert[p] = NoCert

CertificatesConsistent ==
  CertificatesQuiet /\ ~tls.disabled =>
    HTTPConsistent /\ (ElasticsearchCertificates => TransportConsistent)
=============================================================================
