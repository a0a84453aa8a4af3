-------------------------------- MODULE Trial --------------------------------
(***************************************************************************)
(* license/trial and common/license/trial.go: the controller that starts   *)
(* an enterprise trial when its secret appears, and remembers in another   *)
(* secret, and in its memory, that the trial has been used.                *)
(*                                                                         *)
(* A key pair is a number, given to it when it is recorded in the status   *)
(* secret.  A signature is the number of the key it was made with, and     *)
(* holds for the license it is in, which the user does not forge.  The     *)
(* status secret is deleted while the key is in memory, and the operator   *)
(* restarted while it is recorded: what is remembered nowhere is           *)
(* forgotten.  A license may come with its dates; the user changes them by *)
(* deleting it and creating another.                                       *)
(***************************************************************************)
EXTENDS Clock

CONSTANTS
  TrialLength,   \* how long a trial lasts when its license has no dates
  TrialDates,    \* the ends that the user's licenses may come with
  TrialBudgets   \* bounds on the user's changes, failed calls and restarts

ASSUME TrialAssumption ==
  /\ TrialLength \in Nat /\ TrialDates \subseteq Nat \ {0}
  /\ TrialBudgets \subseteq [creations : Nat, edits : Nat, faults : Nat, crashes : Nat]

VARIABLES
  trialSecret,   \* the secret of the license: [uid (0: absent), trial (its label),
                 \* eula, expiry (0: no start or no end), signature (0: none)]
  trialStatus,   \* the status secret: [key (in it, 0: absent), version]
  cTrialSecret, cTrialStatus,  \* the same in the cache
  trialPubKey,   \* the key in the operator's memory, 0 when none
  trialPass,     \* the pass under way, and what it has read
  trialQueue,    \* whether the work queue holds the license
  trialBudget

trialResources == <<trialSecret, trialStatus>>
trialCaches == <<cTrialSecret, cTrialStatus>>
trialVars == <<trialResources, trialCaches, trialPubKey, trialPass, trialQueue,
               trialBudget>>

\* No key pair has this public key.
Garbage == 1

NoTrialSecret ==
  [uid |-> 0, trial |-> FALSE, eula |-> FALSE, expiry |-> 0, signature |-> 0]
NoTrialStatus == [key |-> 0, version |-> 0]
NoTrialPass ==
  [pc |-> "idle", secret |-> NoTrialSecret, status |-> NoTrialStatus, key |-> 0, expiry |-> 0]

TrialInit ==
  /\ trialSecret = NoTrialSecret /\ trialStatus = NoTrialStatus
  /\ cTrialSecret = NoTrialSecret /\ cTrialStatus = NoTrialStatus
  /\ trialPubKey = 0
  /\ trialPass = NoTrialPass
  /\ trialQueue = FALSE
  /\ trialBudget \in TrialBudgets

-----------------------------------------------------------------------------
(***************************************************************************)
(* The pass.  An error puts the request back on the queue.                 *)
(***************************************************************************)
TrialDone == trialPass' = NoTrialPass /\ trialQueue' = trialQueue
TrialRetry == trialPass' = NoTrialPass /\ trialQueue' = TRUE

TrialCallFails ==
  /\ trialBudget.faults > 0
  /\ trialBudget' = [trialBudget EXCEPT !.faults = @ - 1]

\* A key pair is made at random; a write of the status secret.
NewKey == trialStatus.version + 2
WithKey(key) == [key |-> key, version |-> trialStatus.version + 1]

\* An update made from what was read: the current secret, else a conflict.
TrialConflict == trialSecret # trialPass.secret

\* UpdateEnterpriseLicense replaces the data and the labels: the secret is not
\* one of a trial for the watch any more, nor for the validation.
Relabeled(secret) == [secret EXCEPT !.trial = FALSE]

\* ValidSignature: a license that was signed with the key.
ValidSignature(secret, key) == secret.signature # 0 /\ secret.signature = key

\* publicKeyFor a trial license.
PublicKeyFor == trialStatus.key

\* Sign
Sign(secret, expiry, key) == [Relabeled(secret) EXCEPT !.expiry = expiry, !.signature = key]

\* eulaAccepted
Violations(secret) == secret.trial /\ ~secret.eula

\* TrialLicense and Validate.  A secret that is not there is an error: retried.
FetchTrialLicense ==
  /\ trialPass.pc = "idle" /\ trialQueue
  /\ cTrialSecret.uid # 0
  /\ trialQueue' = FALSE
  /\ trialPass' = [NoTrialPass EXCEPT !.pc = IF Violations(cTrialSecret) THEN "refuse" ELSE "status",
                                      !.secret = cTrialSecret]
  /\ UNCHANGED <<trialResources, trialCaches, trialPubKey, trialBudget>>

\* The reason of the refusal is not written; the license is.
RefuseTrial ==
  /\ trialPass.pc = "refuse"
  /\ \/ /\ ~TrialConflict
        /\ trialSecret' = Relabeled(trialSecret)
        /\ TrialDone /\ UNCHANGED trialBudget
     \/ TrialConflict /\ TrialRetry /\ UNCHANGED <<trialSecret, trialBudget>>
     \/ TrialCallFails /\ TrialRetry /\ UNCHANGED trialSecret
  /\ UNCHANGED <<trialStatus, trialCaches, trialPubKey>>

IsTrialRunning == trialPubKey # 0

\* populateTrialLicense, setStartAndExpiry: dates that are there are kept.
ExpiryOf(secret) == IF secret.expiry # 0 THEN secret.expiry ELSE now + TrialLength

\* Seeded defect: a trial that runs is not looked for in memory.
InitTrialAgain ==
  trialPass' = [trialPass EXCEPT !.pc = "create", !.expiry = ExpiryOf(trialPass.secret)]

\* initTrial and the first half of InitTrial: a trial that runs is left alone.
InitTrial ==
  trialPass' = IF IsTrialRunning THEN [trialPass EXCEPT !.pc = "done"]
               ELSE [trialPass EXCEPT !.pc = "create", !.expiry = ExpiryOf(trialPass.secret)]

\* The status secret is read, later than the license.
ReadTrialStatus ==
  /\ trialPass.pc = "status"
  /\ \/ cTrialStatus.key = 0 /\ InitTrial
     \/ /\ cTrialStatus.key # 0
        /\ trialPass' = [trialPass EXCEPT !.pc = "correct", !.status = cTrialStatus]
  /\ UNCHANGED <<trialResources, trialCaches, trialPubKey, trialQueue, trialBudget>>

\* The trial is recorded as used first.
CreateTrialStatus ==
  /\ trialPass.pc = "create"
  /\ \/ /\ trialStatus.key = 0
        /\ trialStatus' = WithKey(NewKey)
        /\ \/ /\ trialPass' = [trialPass EXCEPT !.pc = "sign", !.key = NewKey]
              /\ UNCHANGED <<trialQueue, trialBudget>>
           \/ TrialCallFails /\ TrialRetry      \* the reply is lost
     \/ trialStatus.key # 0 /\ TrialRetry /\ UNCHANGED <<trialStatus, trialBudget>>
     \/ TrialCallFails /\ TrialRetry /\ UNCHANGED trialStatus
  /\ UNCHANGED <<trialSecret, trialCaches, trialPubKey>>

\* Then the license is filled in and signed; the key is kept in memory only when
\* this is known to have succeeded.
SignTrialLicense ==
  /\ trialPass.pc = "sign"
  /\ \/ /\ ~TrialConflict
        /\ trialSecret' = Sign(trialSecret, trialPass.expiry, trialPass.key)
        /\ \/ /\ TrialDone
              /\ trialPubKey' = trialPass.key
              /\ UNCHANGED trialBudget
           \/ TrialCallFails /\ TrialRetry /\ UNCHANGED trialPubKey
     \/ TrialConflict /\ TrialRetry /\ UNCHANGED <<trialSecret, trialPubKey, trialBudget>>
     \/ TrialCallFails /\ TrialRetry /\ UNCHANGED <<trialSecret, trialPubKey>>
  /\ UNCHANGED <<trialStatus, trialCaches>>

\* Seeded defect: an update that fails is not retried.
CorrectOnce ==
  /\ trialPass.pc = "correct"
  /\ \/ /\ trialStatus' = IF IsTrialRunning /\ trialStatus = trialPass.status THEN WithKey(trialPubKey)
                          ELSE trialStatus
        /\ UNCHANGED trialBudget
     \/ TrialCallFails /\ UNCHANGED trialStatus
  /\ TrialDone
  /\ UNCHANGED <<trialSecret, trialCaches, trialPubKey>>

\* reconcileTrialStatus: the key in the status secret is the one in memory.
ReconcileTrialStatus ==
  /\ trialPass.pc = "correct"
  /\ \/ /\ ~IsTrialRunning \/ trialPass.status.key = trialPubKey
        /\ TrialDone /\ UNCHANGED <<trialStatus, trialBudget>>
     \/ /\ IsTrialRunning /\ trialPass.status.key # trialPubKey
        /\ \/ /\ trialStatus = trialPass.status
              /\ trialStatus' = WithKey(trialPubKey)
              /\ TrialDone /\ UNCHANGED trialBudget
           \/ trialStatus # trialPass.status /\ TrialRetry /\ UNCHANGED <<trialStatus, trialBudget>>
           \/ TrialCallFails /\ TrialRetry /\ UNCHANGED trialStatus
  /\ UNCHANGED <<trialSecret, trialCaches, trialPubKey>>

TrialReturns ==
  /\ trialPass.pc = "done"
  /\ TrialDone
  /\ UNCHANGED <<trialResources, trialCaches, trialPubKey, trialBudget>>

ReconcileTrial ==
  \/ FetchTrialLicense \/ RefuseTrial \/ ReadTrialStatus \/ CreateTrialStatus
  \/ SignTrialLicense \/ ReconcileTrialStatus \/ TrialReturns

-----------------------------------------------------------------------------
(***************************************************************************)
(* The watch maps the secret of an event, both the old and the new one of  *)
(* an update: the license by its label, the status secret by its name.     *)
(***************************************************************************)
SyncTrialSecret ==
  /\ cTrialSecret # trialSecret
  /\ cTrialSecret' = trialSecret
  /\ trialQueue' = (trialQueue \/ cTrialSecret.trial \/ trialSecret.trial)
  /\ UNCHANGED <<trialResources, cTrialStatus, trialPubKey, trialPass, trialBudget>>

SyncTrialStatus ==
  /\ cTrialStatus # trialStatus
  /\ cTrialStatus' = trialStatus
  /\ trialQueue' = TRUE
  /\ UNCHANGED <<trialResources, cTrialSecret, trialPubKey, trialPass, trialBudget>>

\* CreateTrialLicense makes an empty secret; a user's holds a trial license, with or
\* without dates, and the annotation that accepts the EULA or not.
CreateTrialLicense ==
  /\ trialSecret.uid = 0
  /\ trialBudget.creations > 0
  /\ trialBudget' = [trialBudget EXCEPT !.creations = @ - 1]
  /\ \E eula \in BOOLEAN, expiry \in {0} \cup TrialDates :
       trialSecret' = [uid |-> trialBudget.creations, trial |-> TRUE, eula |-> eula,
                       expiry |-> expiry, signature |-> 0]
  /\ UNCHANGED <<trialStatus, trialCaches, trialPubKey, trialPass, trialQueue>>

EditTrialSecrets ==
  /\ trialBudget.edits > 0
  /\ trialBudget' = [trialBudget EXCEPT !.edits = @ - 1]
  /\ \/ trialSecret.uid # 0 /\ trialSecret' = NoTrialSecret /\ UNCHANGED trialStatus
     \/ /\ trialStatus.key \notin {0, Garbage}
        /\ trialStatus' = WithKey(Garbage)
        /\ UNCHANGED trialSecret
     \/ /\ trialStatus.key # 0 /\ trialPubKey # 0
        /\ trialStatus' = WithKey(0)
        /\ UNCHANGED trialSecret
  /\ UNCHANGED <<trialCaches, trialPubKey, trialPass, trialQueue>>

\* A restart: the caches are filled again and every secret is seen as new.
TrialCrash ==
  /\ trialBudget.crashes > 0
  /\ trialPubKey # 0 => trialStatus.key # 0
  /\ trialBudget' = [trialBudget EXCEPT !.crashes = @ - 1]
  /\ trialPubKey' = 0
  /\ trialPass' = NoTrialPass
  /\ cTrialSecret' = trialSecret /\ cTrialStatus' = trialStatus
  /\ trialQueue' = (trialSecret.trial \/ trialStatus.key # 0)
  /\ UNCHANGED <<trialResources>>

TrialNext ==
  \/ /\ \/ ReconcileTrial \/ SyncTrialSecret \/ SyncTrialStatus
        \/ CreateTrialLicense \/ EditTrialSecrets \/ TrialCrash
     /\ UNCHANGED now
  \/ Advance /\ UNCHANGED trialVars

TrialSpec == now = 0 /\ TrialInit /\ [][TrialNext]_<<trialVars, now>>
=============================================================================
