------------------------- MODULE LicensingProperties -------------------------
(***************************************************************************)
(* What the two controllers promise about the license of a cluster.        *)
(***************************************************************************)
EXTENDS Licensing

\* The enterprise licenses, installed when "since" says, that are in time to follow
\* license l: there and valid from half the safety margin before it expires.
InTime(since, l) ==
  {o \in DOMAIN since :
     /\ since[o] + HalfMargin < l.expiry
     /\ o.start + HalfMargin < l.expiry /\ l.expiry < o.expiry}

\* What they have for the cluster: of as good a type as l, and longer.
Successors(since, l) ==
  UNION {{c \in o.clusters : /\ c.start + HalfMargin < l.expiry
                             /\ c.rank >= l.rank /\ c.expiry > l.expiry} : o \in InTime(since, l)}

\* A cluster does not outlive its license when a successor has been installed at
\* least half the safety margin before, even if the operator was stopped for less
\* than that: nextReconcile, "to ensure we actually reissue a license on the next
\* attempt", and defaultSafetyMargin, "clusters will have enough runway".
RenewedBeforeExpiry ==
  applied # NoLicense /\ applied.expiry <= now => Successors(offers, applied) = {}

\* An expired license gives way to any valid one, of a lower type too, as soon as
\* both controllers have nothing left to do.
FallsBack ==
  (operatorUp /\ LicensingIdle /\ applied # NoLicense /\ applied.expiry <= now) =>
    FilterValid(EnterpriseLicenses, now) = {}

\* A change of an enterprise license is brought to the clusters that use it:
\* "enqueue a reconcile request for each cluster license found leveraging the fact
\* that cluster and license share the same name" (listAffectedLicenses).
ChangeReachesCluster ==
  (operatorUp /\ LicensingIdle /\ linked.license # NoLicense) =>
    \A m \in FilterValid({o \in DOMAIN offers : o.uid = linked.parent}, now) :
      NotBetter(m, [license |-> linked.license, parent |-> linked.parent])
=============================================================================
