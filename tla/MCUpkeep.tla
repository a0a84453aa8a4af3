------------------------------- MODULE MCUpkeep -------------------------------
(***************************************************************************)
(* What the operator keeps around the nodes of a cluster, one component at *)
(* a time: a behaviour is of the one chosen at its start, the others do    *)
(* not move.                                                               *)
(***************************************************************************)
EXTENDS TrialProperties, LicensingProperties, CertificatesProperties, LifecycleProperties

CONSTANTS n1, n2

TB(c, e, f, r) == [creations |-> c, edits |-> e, faults |-> f, crashes |-> r]
MCTrialBudgets == {TB(2, 2, 0, 0), TB(1, 1, 1, 0), TB(1, 1, 0, 1)}
\* A trial that is over as soon as it starts, or soon after, and one that is longer
\* than TrialLength.
MCTrialDates == {1, 9}

ClusterLicense(uid, rank, start, expiry) ==
  [uid |-> uid, rank |-> rank, start |-> start, expiry |-> expiry]
Enterprise(uid, start, expiry, clusters) ==
  [uid |-> uid, start |-> start, expiry |-> expiry, clusters |-> clusters]
MCPlatinum == Enterprise(1, 0, 8, {ClusterLicense(1, 4, 0, 5), ClusterLicense(2, 3, 0, 8)})
MCPlatinumLater == Enterprise(2, 0, 9, {ClusterLicense(3, 4, 2, 9)})
MCGold == Enterprise(3, 0, 9, {ClusterLicense(4, 3, 0, 9)})
MCPlatinumAgain == Enterprise(1, 0, 9, {ClusterLicense(1, 4, 0, 5), ClusterLicense(5, 4, 0, 9)})
MCOffers == {MCPlatinum, MCPlatinumLater, MCGold, MCPlatinumAgain, Enterprise(4, 0, 4, {})}

LB(c, e, s, f) == [changes |-> c, events |-> e, stops |-> s, faults |-> f, lag |-> FALSE]
MCLicensingBudgets == {LB(3, 0, 0, 0), LB(2, 1, 0, 1), LB(2, 0, 1, 1)}

CB(e, c, p, d, f, s) ==
  [edits |-> e, contents |-> c, pods |-> p, deletions |-> d, faults |-> f, stops |-> s,
   race |-> FALSE]
CertScenario(o, disabled, b) == [owner |-> o, disabled |-> disabled, budget |-> b]
MCCertScenarios ==
  {CertScenario("elasticsearch", FALSE, CB(0, 0, 3, 1, 1, 0)),
   CertScenario("elasticsearch", FALSE, CB(2, 1, 0, 0, 0, 0)),
   CertScenario("elasticsearch", FALSE, CB(0, 0, 4, 0, 0, 1)),
   CertScenario("elasticsearch", FALSE, CB(1, 0, 2, 0, 0, 1)),
   CertScenario("elasticsearch", FALSE, CB(2, 1, 0, 0, 0, 1)),
   CertScenario("kibana", FALSE, CB(1, 0, 0, 0, 1, 0)),
   CertScenario("logstash", TRUE, CB(1, 0, 0, 0, 0, 1)),
   CertScenario("apm", FALSE, CB(1, 1, 0, 1, 0, 0))}

LF(e, d, s, h, f, c) ==
  [edits |-> e, deletes |-> d, secrets |-> s, flaps |-> h, faults |-> f, crashes |-> c,
   lag |-> FALSE]
\* Two edits; a resource deleted and recreated; its secrets deleted, also with a
\* failing call and a restart; a change of health; a deletion with failures.
MCLifecycleBudgets ==
  {LF(2, 0, 0, 0, 0, 0), LF(0, 2, 0, 0, 0, 0), LF(0, 0, 2, 0, 0, 0), LF(0, 0, 1, 0, 1, 0),
   LF(0, 0, 1, 0, 0, 1), LF(1, 0, 0, 1, 0, 0), LF(0, 1, 0, 0, 1, 1)}

VARIABLE subject  \* the component a behaviour is about

upkeepVars == <<trialVars, licensingVars, certVars, lifecycleVars, now, subject>>

\* What the others start from is the same in every behaviour.
UpkeepInit ==
  /\ now = 0
  /\ TrialInit /\ LicensingInit /\ CertificatesInit /\ LifecycleInit
  /\ subject \in {"trial", "licensing", "certificates", "lifecycle"}
  /\ subject # "trial" => trialBudget = TB(2, 2, 0, 0)
  /\ subject # "licensing" => licenseBudget = LB(3, 0, 0, 0)
  /\ subject # "certificates" => certBudget = CB(2, 1, 0, 0, 0, 0)
  /\ subject # "lifecycle" => lifeBudget = LF(2, 0, 0, 0, 0, 0)

TrialStep == TrialNext /\ UNCHANGED <<licensingVars, certVars, lifecycleVars>>
LicensingStep == LicensingNext /\ UNCHANGED <<trialVars, certVars, lifecycleVars>>
CertificatesStep ==
  CertificatesNext /\ UNCHANGED <<trialVars, licensingVars, lifecycleVars>>
LifecycleStep ==
  LifecycleNext /\ UNCHANGED <<trialVars, licensingVars, certVars, now>>

UpkeepNext ==
  /\ UNCHANGED subject
  /\ \/ subject = "trial" /\ TrialStep
     \/ subject = "licensing" /\ LicensingStep
     \/ subject = "certificates" /\ CertificatesStep
     \/ subject = "lifecycle" /\ LifecycleStep

UpkeepSpec == UpkeepInit /\ [][UpkeepNext]_upkeepVars
===============================================================================
