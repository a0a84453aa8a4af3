--------------------------- MODULE TrialProperties ---------------------------
(***************************************************************************)
(* What the trial controller promises: it implements TrialPeriod.          *)
(***************************************************************************)
EXTENDS Trial

\* Signatures are verified with the key of the status secret, to which the key in
\* memory, while there is one, comes back.
VerificationKey == IF trialPubKey # 0 THEN trialPubKey ELSE PublicKeyFor

TrialRuns == ValidSignature(trialSecret, VerificationKey)

\* Between the two writes of InitTrial the trial is reserved.
TrialPhase ==
  IF TrialRuns THEN "running"
  ELSE IF trialPass.pc = "sign" THEN "reserved"
  ELSE IF trialStatus.key = 0 /\ trialPubKey = 0 THEN "unused"
  ELSE "spent"

TrialUntil == IF TrialRuns THEN trialSecret.expiry ELSE 0

Promise ==
  INSTANCE TrialPeriod
  WITH phase <- TrialPhase, until <- TrialUntil, asked <- trialSecret.expiry

\* There is one trial: through stale caches, conflicts, failed calls, lost
\* replies, restarts, and a user who deletes the license or the status secret, or
\* changes the key in it, no second one starts, and none is prolonged.  It ends
\* when its own license said, else a trial's length after its start at the latest
\* (populateTrialLicense, InitTrial, initTrial, reconcileTrialStatus).
TrialPromise == Promise!TrialPeriodSpec

TrialQuiet ==
  /\ trialPass.pc = "idle" /\ ~trialQueue
  /\ cTrialSecret = trialSecret /\ cTrialStatus = trialStatus

\* A key written into the status secret of a trial that runs is replaced by the
\* right one, whatever it conflicts with: trial_controller_integration_test.go,
\* "Manipulated secret has not been corrected" (reconcileTrialStatus).
TamperingUndone == (TrialQuiet /\ trialPubKey # 0) => trialStatus.key \in {0, trialPubKey}

\* The trial needs the user's acceptance of the EULA (validations.go,
\* trial_controller.go: "if the user has expressed intent to do so").
TrialNeedsEula == TrialRuns => trialSecret.eula
=============================================================================
