----------------------------- MODULE Trial_proofs -----------------------------
(***************************************************************************)
(* The trial controller implements TrialPeriod: there is one trial, and it *)
(* is not prolonged.  What makes it so is that a key is new when it is     *)
(* recorded, that the controller signs with it once, and that it changes   *)
(* the recorded key only to the one it has in memory.                      *)
(***************************************************************************)
EXTENDS TrialProperties, TLAPS

-----------------------------------------------------------------------------
TrialSecrets ==
  [uid : Nat, trial : BOOLEAN, eula : BOOLEAN, expiry : Nat, signature : Nat]
TrialStatuses == [key : Nat, version : Nat]
TrialPasses ==
  [pc : {"idle", "refuse", "status", "create", "sign", "correct", "done"},
   secret : TrialSecrets, status : TrialStatuses, key : Nat, expiry : Nat]

TrialTypeOK ==
  /\ now \in Nat
  /\ trialSecret \in TrialSecrets /\ cTrialSecret \in TrialSecrets
  /\ trialStatus \in TrialStatuses /\ cTrialStatus \in TrialStatuses
  /\ trialPubKey \in Nat
  /\ trialPass \in TrialPasses
  /\ trialBudget \in [creations : Nat, edits : Nat, faults : Nat, crashes : Nat]

\* The end to sign is the one in the license that was fetched, else not later than
\* that of a trial that starts now.
EndFixed ==
  trialPass.pc \in {"create", "sign"} =>
    IF trialPass.secret.expiry # 0 THEN trialPass.expiry = trialPass.secret.expiry
    ELSE trialPass.expiry <= now + TrialLength

\* The next key has signed nothing, and no signature is of the user's key.
NewKeyUnused ==
  /\ trialSecret.signature < NewKey
  /\ trialSecret.signature # Garbage

\* A trial is started with no key in memory, and signed once, with the key
\* that is in the status secret unless the user has changed it.
SigningInProgress ==
  /\ trialPass.pc \in {"create", "sign"} => trialPubKey = 0
  /\ trialPass.pc = "sign" =>
       /\ trialPass.key < NewKey /\ trialPass.key \notin {0, Garbage}
       /\ trialStatus.key \in {trialPass.key, Garbage}
       /\ trialSecret.signature # trialPass.key

\* The key in memory is the one recorded, unless the user has changed it.
MemoryMatches ==
  trialPubKey # 0 => trialStatus.key \in {0, trialPubKey, Garbage}

TrialInv ==
  TrialTypeOK /\ EndFixed /\ NewKeyUnused /\ SigningInProgress /\ MemoryMatches

-----------------------------------------------------------------------------
(***************************************************************************)
(* The invariant.                                                          *)
(***************************************************************************)
\* newReconciler: nothing has been read, recorded or signed.
LEMMA TrialInvInit == TrialInit /\ now = 0 => TrialInv
<1> SUFFICES ASSUME TrialInit, now = 0 PROVE TrialInv
  OBVIOUS
<1>1. TrialTypeOK
  BY TrialAssumption
     DEF TrialInit, TrialTypeOK, TrialSecrets, TrialStatuses, TrialPasses,
         NoTrialSecret, NoTrialStatus, NoTrialPass
<1>2. EndFixed /\ NewKeyUnused /\ SigningInProgress /\ MemoryMatches
  BY TrialAssumption
     DEF TrialInit, EndFixed, NewKeyUnused, SigningInProgress, MemoryMatches, NewKey,
         Garbage, NoTrialSecret, NoTrialStatus, NoTrialPass
<1> QED
  BY <1>1, <1>2 DEF TrialInv

\* A pass that ends, by itself or to be tried again.
LEMMA EndedPass ==
  ASSUME TrialDone \/ TrialRetry
  PROVE  /\ trialPass' = NoTrialPass
         /\ NoTrialPass \in TrialPasses
         /\ NoTrialPass.pc = "idle"
  BY DEF TrialDone, TrialRetry, NoTrialPass, TrialPasses, TrialSecrets, TrialStatuses,
         NoTrialSecret, NoTrialStatus

\* A call that fails spends the budget of faults.
LEMMA FailedCall ==
  ASSUME TrialTypeOK, TrialCallFails
  PROVE  trialBudget' \in [creations : Nat, edits : Nat, faults : Nat, crashes : Nat]
  BY DEF TrialTypeOK, TrialCallFails

LEMMA FetchKeepsInv ==
  ASSUME TrialInv, FetchTrialLicense, UNCHANGED now
  PROVE  TrialInv'
<1>1. trialPass' \in TrialPasses
  BY DEF TrialInv, TrialTypeOK, FetchTrialLicense, TrialPasses, TrialSecrets,
         TrialStatuses, NoTrialPass, NoTrialSecret, NoTrialStatus
<1>2. /\ trialPass'.pc \in {"refuse", "status"}
  BY DEF FetchTrialLicense, NoTrialPass
<1> QED
  BY <1>1, <1>2, TrialAssumption
     DEF FetchTrialLicense, trialResources, trialCaches, TrialInv, TrialTypeOK,
         EndFixed, NewKeyUnused, NewKey, SigningInProgress, MemoryMatches

LEMMA RefuseKeepsInv ==
  ASSUME TrialInv, RefuseTrial, UNCHANGED now
  PROVE  TrialInv'
<1>1. TrialDone \/ TrialRetry
  BY DEF RefuseTrial
<1>2. trialBudget' \in [creations : Nat, edits : Nat, faults : Nat, crashes : Nat]
  BY FailedCall DEF RefuseTrial, TrialInv, TrialTypeOK
<1>3. /\ trialSecret' \in TrialSecrets
      /\ trialSecret'.signature = trialSecret.signature
  BY DEF RefuseTrial, Relabeled, TrialInv, TrialTypeOK, TrialSecrets
<1> QED
  BY <1>1, <1>2, <1>3, EndedPass, TrialAssumption
     DEF RefuseTrial, trialCaches, TrialInv, TrialTypeOK,
         EndFixed, NewKeyUnused, NewKey, SigningInProgress, MemoryMatches

LEMMA ReadStatusKeepsInv ==
  ASSUME TrialInv, ReadTrialStatus, UNCHANGED now
  PROVE  TrialInv'
<1> DEFINE expiry == ExpiryOf(trialPass.secret)
<1>1. trialPass' \in TrialPasses
  <2>1. expiry \in Nat
    BY TrialAssumption DEF TrialInv, TrialTypeOK, TrialPasses, TrialSecrets, ExpiryOf
  <2>2. \/ trialPass' = [trialPass EXCEPT !.pc = "done"]
        \/ trialPass' = [trialPass EXCEPT !.pc = "create", !.expiry = expiry]
        \/ trialPass' = [trialPass EXCEPT !.pc = "correct", !.status = cTrialStatus]
    BY DEF ReadTrialStatus, InitTrial
  <2> HIDE DEF expiry
  <2> QED
    BY <2>1, <2>2 DEF TrialInv, TrialTypeOK, TrialPasses
<1>2. /\ trialPass'.pc \in {"create", "correct", "done"}
      /\ trialPass'.pc = "create" => trialPubKey = 0
      /\ trialPass'.secret = trialPass.secret
  BY DEF TrialInv, TrialTypeOK, TrialPasses, ReadTrialStatus, InitTrial, IsTrialRunning
<1>3. trialPass'.pc = "create" =>
        IF trialPass'.secret.expiry # 0 THEN trialPass'.expiry = trialPass'.secret.expiry
        ELSE trialPass'.expiry <= now + TrialLength
  <2>1. trialPass'.pc = "create" => trialPass'.expiry = ExpiryOf(trialPass.secret)
    BY DEF TrialInv, TrialTypeOK, TrialPasses, ReadTrialStatus, InitTrial
  <2>2. IF trialPass.secret.expiry # 0 THEN ExpiryOf(trialPass.secret) = trialPass.secret.expiry
        ELSE ExpiryOf(trialPass.secret) <= now + TrialLength
    BY TrialAssumption DEF TrialInv, TrialTypeOK, ExpiryOf
  <2> QED
    BY <1>2, <2>1, <2>2
<1> QED
  BY <1>1, <1>2, <1>3
     DEF ReadTrialStatus, trialResources, trialCaches, TrialInv, TrialTypeOK,
         EndFixed, NewKeyUnused, NewKey, SigningInProgress, MemoryMatches

\* The key of a new status secret is the next one.
LEMMA CreateKeepsInv ==
  ASSUME TrialInv, CreateTrialStatus, UNCHANGED now
  PROVE  TrialInv'
<1>1. trialBudget' \in [creations : Nat, edits : Nat, faults : Nat, crashes : Nat]
  BY FailedCall DEF CreateTrialStatus, TrialInv, TrialTypeOK
<1>2. trialPass.pc = "create" /\ trialPubKey = 0
  BY DEF CreateTrialStatus, TrialInv, SigningInProgress
<1>3. CASE UNCHANGED trialStatus /\ TrialRetry
  BY <1>1, <1>3, EndedPass, TrialAssumption
     DEF CreateTrialStatus, trialCaches, TrialInv, TrialTypeOK,
         EndFixed, NewKeyUnused, NewKey, SigningInProgress, MemoryMatches
<1>4. CASE trialStatus' = WithKey(NewKey)
  <2>1. /\ trialStatus' \in TrialStatuses
        /\ trialStatus'.key = NewKey /\ trialStatus'.version = trialStatus.version + 1
        /\ trialStatus.version \in Nat
    BY <1>4 DEF WithKey, NewKey, TrialInv, TrialTypeOK, TrialStatuses
  <2>k. NewKey \in Nat
    BY <2>1 DEF NewKey
  <2>2. CASE TrialRetry
    BY <1>1, <1>2, <2>1, <2>2, EndedPass, TrialAssumption
       DEF CreateTrialStatus, trialCaches, TrialInv, TrialTypeOK, TrialSecrets,
           EndFixed, NewKeyUnused, NewKey, Garbage, SigningInProgress, MemoryMatches
  <2>3. CASE trialPass' = [trialPass EXCEPT !.pc = "sign", !.key = NewKey]
    <3>1. /\ trialPass' \in TrialPasses
          /\ trialPass'.pc = "sign" /\ trialPass'.key = NewKey
          /\ trialPass'.expiry = trialPass.expiry /\ trialPass'.secret = trialPass.secret
      BY <2>k, <2>3 DEF TrialInv, TrialTypeOK, TrialPasses
    <3> QED
      BY <1>1, <1>2, <2>1, <3>1
         DEF CreateTrialStatus, trialCaches, TrialInv, TrialTypeOK, TrialSecrets,
             EndFixed, NewKeyUnused, NewKey, Garbage, SigningInProgress, MemoryMatches
  <2> QED
    BY <1>4, <2>2, <2>3 DEF CreateTrialStatus
<1> QED
  BY <1>3, <1>4 DEF CreateTrialStatus

\* What is signed is what was recorded.
LEMMA SignKeepsInv ==
  ASSUME TrialInv, SignTrialLicense, UNCHANGED now
  PROVE  TrialInv'
<1>1. trialBudget' \in [creations : Nat, edits : Nat, faults : Nat, crashes : Nat]
  BY FailedCall DEF SignTrialLicense, TrialInv, TrialTypeOK
<1>2. TrialDone \/ TrialRetry
  BY DEF SignTrialLicense
<1>3. /\ trialPass.pc = "sign" /\ trialPubKey = 0
      /\ trialPass.key \in Nat /\ trialPass.expiry \in Nat
  BY DEF SignTrialLicense, TrialInv, TrialTypeOK, TrialPasses, SigningInProgress
<1>4. CASE UNCHANGED <<trialSecret, trialPubKey>>
  BY <1>1, <1>2, <1>4, EndedPass, TrialAssumption
     DEF SignTrialLicense, trialCaches, TrialInv, TrialTypeOK,
         EndFixed, NewKeyUnused, NewKey, SigningInProgress, MemoryMatches
<1>5. CASE trialSecret' = Sign(trialSecret, trialPass.expiry, trialPass.key)
  <2>1. /\ trialSecret' \in TrialSecrets
        /\ trialSecret'.signature = trialPass.key
    BY <1>3, <1>5 DEF Sign, Relabeled, TrialInv, TrialTypeOK, TrialSecrets
  <2>2. trialPubKey' \in {trialPubKey, trialPass.key}
    BY DEF SignTrialLicense
  <2> QED
    BY <1>1, <1>2, <1>3, <2>1, <2>2, EndedPass, TrialAssumption
       DEF SignTrialLicense, trialCaches, TrialInv, TrialTypeOK,
           EndFixed, NewKeyUnused, NewKey, SigningInProgress, MemoryMatches
<1> QED
  BY <1>4, <1>5 DEF SignTrialLicense

LEMMA CorrectKeepsInv ==
  ASSUME TrialInv, ReconcileTrialStatus, UNCHANGED now
  PROVE  TrialInv'
<1>1. trialBudget' \in [creations : Nat, edits : Nat, faults : Nat, crashes : Nat]
  BY FailedCall DEF ReconcileTrialStatus, TrialInv, TrialTypeOK
<1>2. TrialDone \/ TrialRetry
  BY DEF ReconcileTrialStatus
<1>3. \/ UNCHANGED trialStatus
      \/ trialPubKey # 0 /\ trialStatus' = WithKey(trialPubKey)
  BY DEF ReconcileTrialStatus, IsTrialRunning
<1>4. /\ trialStatus' \in TrialStatuses
      /\ trialStatus'.version >= trialStatus.version
      /\ trialStatus.version \in Nat /\ trialStatus'.version \in Nat
      /\ trialPubKey # 0 => trialStatus'.key \in {trialStatus.key, trialPubKey}
  BY <1>3 DEF WithKey, TrialInv, TrialTypeOK, TrialStatuses
<1> QED
  BY <1>1, <1>2, <1>4, EndedPass, TrialAssumption
     DEF ReconcileTrialStatus, trialCaches, TrialInv, TrialTypeOK, TrialSecrets,
         EndFixed, NewKeyUnused, NewKey, SigningInProgress, MemoryMatches

LEMMA ReturnKeepsInv ==
  ASSUME TrialInv, TrialReturns, UNCHANGED now
  PROVE  TrialInv'
<1>1. TrialDone \/ TrialRetry
  BY DEF TrialReturns
<1> QED
  BY <1>1, EndedPass, TrialAssumption
     DEF TrialReturns, trialResources, trialCaches, TrialInv, TrialTypeOK,
         EndFixed, NewKeyUnused, NewKey, SigningInProgress, MemoryMatches

LEMMA SyncKeepsInv ==
  ASSUME TrialInv, SyncTrialSecret \/ SyncTrialStatus, UNCHANGED now
  PROVE  TrialInv'
<1>1. CASE SyncTrialSecret
  BY <1>1 DEF SyncTrialSecret, trialResources, TrialInv, TrialTypeOK,
              EndFixed, NewKeyUnused, NewKey, SigningInProgress, MemoryMatches
<1>2. CASE SyncTrialStatus
  BY <1>2 DEF SyncTrialStatus, trialResources, TrialInv, TrialTypeOK,
              EndFixed, NewKeyUnused, NewKey, SigningInProgress, MemoryMatches
<1> QED
  BY <1>1, <1>2

\* A new license is not signed, with dates or without.
LEMMA CreationKeepsInv ==
  ASSUME TrialInv, CreateTrialLicense, UNCHANGED now
  PROVE  TrialInv'
<1>1. /\ trialBudget.creations \in Nat
      /\ trialBudget' \in [creations : Nat, edits : Nat, faults : Nat, crashes : Nat]
  BY DEF CreateTrialLicense, TrialInv, TrialTypeOK
<1>2. /\ trialSecret' \in TrialSecrets
      /\ trialSecret'.signature = 0
  BY <1>1, TrialAssumption DEF CreateTrialLicense, TrialSecrets
<1> QED
  BY <1>1, <1>2, TrialAssumption
     DEF CreateTrialLicense, trialCaches, TrialInv, TrialTypeOK, TrialStatuses, TrialPasses,
         EndFixed, NewKeyUnused, NewKey, Garbage, SigningInProgress, MemoryMatches

\* The user deletes one of the secrets, or changes the key.
LEMMA EditKeepsInv ==
  ASSUME TrialInv, EditTrialSecrets, UNCHANGED now
  PROVE  TrialInv'
<1>1. trialBudget' \in [creations : Nat, edits : Nat, faults : Nat, crashes : Nat]
  BY DEF EditTrialSecrets, TrialInv, TrialTypeOK
<1>2. CASE trialSecret' = NoTrialSecret /\ UNCHANGED trialStatus
  <2>1. /\ trialSecret' \in TrialSecrets
        /\ trialSecret'.signature = 0
    BY <1>2 DEF NoTrialSecret, TrialSecrets
  <2> QED
    BY <1>1, <1>2, <2>1, TrialAssumption
       DEF EditTrialSecrets, trialCaches, TrialInv, TrialTypeOK, TrialStatuses, TrialPasses,
           EndFixed, NewKeyUnused, NewKey, Garbage, SigningInProgress, MemoryMatches
<1>3. CASE \E key \in {0, Garbage} :
             /\ key = 0 => trialPubKey # 0
             /\ trialStatus' = WithKey(key) /\ UNCHANGED trialSecret
  <2> PICK key \in {0, Garbage} :
        /\ key = 0 => trialPubKey # 0
        /\ trialStatus' = WithKey(key) /\ UNCHANGED trialSecret
    BY <1>3
  <2>1. /\ trialStatus' \in TrialStatuses
        /\ trialStatus'.key = key /\ trialStatus'.version = trialStatus.version + 1
        /\ trialStatus.version \in Nat
    BY DEF WithKey, Garbage, TrialInv, TrialTypeOK, TrialStatuses
  <2> QED
    BY <1>1, <2>1
       DEF EditTrialSecrets, trialCaches, TrialInv, TrialTypeOK, TrialSecrets, TrialPasses,
           EndFixed, NewKeyUnused, NewKey, SigningInProgress, MemoryMatches
<1> QED
  BY <1>2, <1>3 DEF EditTrialSecrets, Garbage

LEMMA CrashKeepsInv ==
  ASSUME TrialInv, TrialCrash, UNCHANGED now
  PROVE  TrialInv'
<1>1. trialBudget' \in [creations : Nat, edits : Nat, faults : Nat, crashes : Nat]
  BY DEF TrialCrash, TrialInv, TrialTypeOK
<1>2. NoTrialPass \in TrialPasses /\ NoTrialPass.pc = "idle"
  BY DEF NoTrialPass, NoTrialSecret, NoTrialStatus, TrialPasses, TrialSecrets, TrialStatuses
<1> QED
  BY <1>1, <1>2, TrialAssumption
     DEF TrialCrash, trialResources, TrialInv, TrialTypeOK,
         EndFixed, NewKeyUnused, NewKey, SigningInProgress, MemoryMatches

LEMMA TimeKeepsInv ==
  ASSUME TrialInv, Advance, UNCHANGED trialVars
  PROVE  TrialInv'
BY TrialAssumption
   DEF Advance, trialVars, trialResources, trialCaches, TrialInv, TrialTypeOK, TrialSecrets,
       TrialPasses, EndFixed, NewKeyUnused, NewKey, SigningInProgress, MemoryMatches

LEMMA TrialInvNext == TrialInv /\ [TrialNext]_<<trialVars, now>> => TrialInv'
<1> SUFFICES ASSUME TrialInv, [TrialNext]_<<trialVars, now>> PROVE TrialInv'
  OBVIOUS
<1>1. CASE Advance /\ UNCHANGED trialVars
  BY <1>1, TimeKeepsInv
<1>2. CASE UNCHANGED <<trialVars, now>>
  BY <1>2 DEF trialVars, trialResources, trialCaches, TrialInv, TrialTypeOK,
              EndFixed, NewKeyUnused, NewKey, SigningInProgress, MemoryMatches
<1>3. CASE ReconcileTrial /\ UNCHANGED now
  BY <1>3, FetchKeepsInv, RefuseKeepsInv, ReadStatusKeepsInv, CreateKeepsInv, SignKeepsInv,
     CorrectKeepsInv, ReturnKeepsInv DEF ReconcileTrial
<1>4. CASE (\/ SyncTrialSecret \/ SyncTrialStatus \/ CreateTrialLicense
            \/ EditTrialSecrets \/ TrialCrash) /\ UNCHANGED now
  BY <1>4, SyncKeepsInv, CreationKeepsInv, EditKeepsInv, CrashKeepsInv
<1> QED
  BY <1>1, <1>2, <1>3, <1>4 DEF TrialNext

THEOREM TrialInvariant == TrialSpec => []TrialInv
<1>1. TrialInit /\ now = 0 => TrialInv
  BY TrialInvInit
<1>2. TrialInv /\ [TrialNext]_<<trialVars, now>> => TrialInv'
  BY TrialInvNext
<1> QED
  BY <1>1, <1>2, PTL DEF TrialSpec

-----------------------------------------------------------------------------
(***************************************************************************)
(* The refinement: every step of the controller, of its caches, of its     *)
(* user and of the clock is a step of TrialPeriod, or leaves it alone.     *)
(***************************************************************************)
PromiseStep == Promise!TrialPeriodNext \/ UNCHANGED <<TrialPhase, TrialUntil, now>>

\* Nothing changes while the license is as valid as it was, the same write is
\* under way, and the trial is as recorded as it was.
LEMMA PhaseKept ==
  ASSUME UNCHANGED now,
         TrialRuns' <=> TrialRuns,
         TrialRuns => trialSecret'.expiry = trialSecret.expiry,
         (trialPass'.pc = "sign") = (trialPass.pc = "sign"),
         (trialStatus'.key = 0 /\ trialPubKey' = 0) = (trialStatus.key = 0 /\ trialPubKey = 0)
  PROVE  PromiseStep
<1>1. TrialPhase' = TrialPhase /\ TrialUntil' = TrialUntil
  BY DEF TrialPhase, TrialUntil
<1> QED
  BY <1>1 DEF PromiseStep

\* The same, said of what the phase is computed from.
LEMMA RecordsKept ==
  ASSUME UNCHANGED now,
         trialSecret'.signature = trialSecret.signature,
         trialSecret'.expiry = trialSecret.expiry,
         VerificationKey' = VerificationKey,
         (trialPass'.pc = "sign") = (trialPass.pc = "sign"),
         (trialStatus'.key = 0 /\ trialPubKey' = 0) = (trialStatus.key = 0 /\ trialPubKey = 0)
  PROVE  PromiseStep
<1>1. TrialRuns' <=> TrialRuns
  BY DEF TrialRuns, ValidSignature
<1> QED
  BY <1>1, PhaseKept

\* A trial that is recorded, does not run and is not about to is lost.
LEMMA PhaseLost ==
  ASSUME UNCHANGED now,
         ~TrialRuns', trialPass'.pc # "sign",
         trialStatus'.key # 0 \/ trialPubKey' # 0
  PROVE  PromiseStep
<1>1. TrialPhase' = "spent" /\ TrialUntil' = 0
  BY DEF TrialPhase, TrialUntil
<1> QED
  BY <1>1 DEF PromiseStep, Promise!TrialPeriodNext, Promise!Lose

\* What runs is recorded, and nothing runs between the two writes of InitTrial.
LEMMA WhatRuns ==
  ASSUME TrialInv
  PROVE  /\ TrialRuns => trialStatus.key # 0 \/ trialPubKey # 0
         /\ TrialRuns => trialPass.pc # "sign"
<1>1. TrialRuns => trialStatus.key # 0 \/ trialPubKey # 0
  BY DEF TrialRuns, ValidSignature, VerificationKey, PublicKeyFor
<1>2. TrialRuns => trialPass.pc # "sign"
  BY DEF TrialRuns, ValidSignature, VerificationKey, PublicKeyFor,
         TrialInv, SigningInProgress, NewKeyUnused
<1> QED
  BY <1>1, <1>2

\* Steps that neither sign nor change what has been recorded.
LEMMA QuietStep ==
  ASSUME TrialInv, UNCHANGED now,
         \/ FetchTrialLicense \/ RefuseTrial \/ ReadTrialStatus \/ TrialReturns
         \/ SyncTrialSecret \/ SyncTrialStatus
  PROVE  PromiseStep
<1>1. UNCHANGED <<trialStatus, trialPubKey>>
  BY DEF FetchTrialLicense, RefuseTrial, ReadTrialStatus, TrialReturns, SyncTrialSecret,
         SyncTrialStatus, trialResources
<1>2. /\ trialSecret'.signature = trialSecret.signature
      /\ trialSecret'.expiry = trialSecret.expiry
  <2>1. CASE RefuseTrial
    BY <2>1 DEF RefuseTrial, Relabeled, TrialInv, TrialTypeOK, TrialSecrets
  <2> QED
    BY <2>1 DEF FetchTrialLicense, ReadTrialStatus, TrialReturns, SyncTrialSecret,
                SyncTrialStatus, trialResources
<1>3. (trialPass'.pc = "sign") = (trialPass.pc = "sign")
  <2>1. CASE RefuseTrial \/ TrialReturns
    BY <2>1, EndedPass DEF RefuseTrial, TrialReturns
  <2>2. CASE FetchTrialLicense
    BY <2>2 DEF FetchTrialLicense, NoTrialPass
  <2>3. CASE ReadTrialStatus
    BY <2>3 DEF ReadTrialStatus, InitTrial, TrialInv, TrialTypeOK, TrialPasses
  <2>4. CASE SyncTrialSecret \/ SyncTrialStatus
    BY <2>4 DEF SyncTrialSecret, SyncTrialStatus
  <2> QED
    BY <2>1, <2>2, <2>3, <2>4
<1>4. VerificationKey' = VerificationKey
  BY <1>1 DEF VerificationKey, PublicKeyFor
<1> QED
  BY <1>1, <1>2, <1>3, <1>4, RecordsKept

\* reconcileTrialStatus writes the key that signatures are verified with.
LEMMA CorrectStep ==
  ASSUME TrialInv, ReconcileTrialStatus, UNCHANGED now
  PROVE  PromiseStep
<1>1. UNCHANGED <<trialSecret, trialPubKey>> /\ trialPass.pc # "sign" /\ trialPass'.pc # "sign"
  BY EndedPass DEF ReconcileTrialStatus
<1>2. \/ UNCHANGED trialStatus
      \/ trialPubKey # 0 /\ trialStatus' = WithKey(trialPubKey)
  BY DEF ReconcileTrialStatus, IsTrialRunning
<1>3. VerificationKey' = VerificationKey
  BY <1>1, <1>2 DEF VerificationKey, PublicKeyFor
<1>4. (trialStatus'.key = 0 /\ trialPubKey' = 0) = (trialStatus.key = 0 /\ trialPubKey = 0)
  BY <1>1, <1>2
<1> QED
  BY <1>1, <1>3, <1>4, RecordsKept

\* Reserve, or Lose when the reply is lost and the key with it.
LEMMA CreateStep ==
  ASSUME TrialInv, CreateTrialStatus, UNCHANGED now
  PROVE  PromiseStep
<1>1. /\ trialPass.pc = "create" /\ trialPubKey = 0
      /\ UNCHANGED <<trialSecret, trialPubKey>>
  BY DEF CreateTrialStatus, TrialInv, SigningInProgress
<1>2. CASE UNCHANGED trialStatus /\ TrialRetry
  <2>1. VerificationKey' = VerificationKey
    BY <1>1, <1>2 DEF VerificationKey, PublicKeyFor
  <2> QED
    BY <1>1, <1>2, <2>1, EndedPass, RecordsKept
<1>3. CASE trialStatus.key = 0 /\ trialStatus' = WithKey(NewKey)
  <2>1. trialStatus.version \in Nat /\ NewKey \in Nat /\ NewKey > 1
    BY DEF NewKey, TrialInv, TrialTypeOK, TrialStatuses
  <2>2. trialStatus'.key = NewKey /\ trialSecret'.signature # NewKey
    BY <1>1, <1>3, <2>1 DEF WithKey, TrialInv, TrialTypeOK, TrialSecrets, NewKeyUnused
  <2>3. ~TrialRuns /\ ~TrialRuns'
    BY <1>1, <1>3, <2>2 DEF TrialRuns, ValidSignature, VerificationKey, PublicKeyFor
  <2>4. CASE TrialRetry
    BY <1>1, <2>1, <2>2, <2>3, <2>4, EndedPass, PhaseLost
  <2>5. CASE trialPass' = [trialPass EXCEPT !.pc = "sign", !.key = NewKey]
    <3>1. trialPass'.pc = "sign"
      BY <2>5 DEF TrialInv, TrialTypeOK, TrialPasses
    <3>2. /\ TrialPhase = "unused" /\ TrialPhase' = "reserved"
          /\ TrialUntil = 0 /\ TrialUntil' = 0
      BY <1>1, <1>3, <2>3, <3>1 DEF TrialPhase, TrialUntil
    <3> QED
      BY <3>2 DEF PromiseStep, Promise!TrialPeriodNext, Promise!Reserve
  <2> QED
    BY <1>3, <2>4, <2>5, <1>1, <2>2, <2>1 DEF CreateTrialStatus
<1> QED
  BY <1>2, <1>3 DEF CreateTrialStatus

\* Begin, or Lose when the license is not signed or its key is known to nobody.
LEMMA SignStep ==
  ASSUME TrialInv, SignTrialLicense, UNCHANGED now
  PROVE  PromiseStep
<1>1. /\ trialPass.pc = "sign" /\ trialPubKey = 0 /\ UNCHANGED trialStatus
      /\ trialPass'.pc # "sign"
      /\ trialPass.key \in Nat /\ trialPass.expiry \in Nat /\ now \in Nat
  BY EndedPass DEF SignTrialLicense, TrialInv, TrialTypeOK, TrialPasses, SigningInProgress
<1>2. /\ trialPass.key \notin {0, Garbage}
      /\ trialStatus.key \in {trialPass.key, Garbage} /\ Garbage # 0
      /\ IF trialPass.secret.expiry # 0 THEN trialPass.expiry = trialPass.secret.expiry
         ELSE trialPass.expiry <= now + TrialLength
  BY <1>1 DEF Garbage, TrialInv, SigningInProgress, EndFixed
<1>3. ~TrialRuns /\ TrialPhase = "reserved" /\ TrialUntil = 0
  BY <1>1, WhatRuns DEF TrialPhase, TrialUntil
<1>4. CASE UNCHANGED <<trialSecret, trialPubKey>>
  <2>1. ~TrialRuns'
    BY <1>1, <1>3, <1>4 DEF TrialRuns, ValidSignature, VerificationKey, PublicKeyFor
  <2> QED
    BY <1>1, <1>2, <2>1, PhaseLost
<1>5. CASE /\ ~TrialConflict
           /\ trialSecret' = Sign(trialSecret, trialPass.expiry, trialPass.key)
           /\ trialPubKey' \in {0, trialPass.key}
  <2>1. trialSecret'.signature = trialPass.key /\ trialSecret'.expiry = trialPass.expiry
    BY <1>5 DEF Sign, Relabeled, TrialInv, TrialTypeOK, TrialSecrets
  <2>2. CASE TrialRuns'
    <3>1. TrialPhase' = "running" /\ TrialUntil' = trialPass.expiry
      BY <2>1, <2>2 DEF TrialPhase, TrialUntil
    <3>2. trialPass.expiry \in (IF trialSecret.expiry # 0 THEN {trialSecret.expiry}
                                ELSE 0 .. now + TrialLength)
      BY <1>1, <1>2, <1>5, TrialAssumption DEF TrialConflict
    <3> QED
      BY <1>3, <3>1, <3>2 DEF PromiseStep, Promise!TrialPeriodNext, Promise!Begin
  <2>3. CASE ~TrialRuns'
    BY <1>1, <1>2, <2>3, PhaseLost
  <2> QED
    BY <2>2, <2>3
<1> QED
  BY <1>1, <1>4, <1>5 DEF SignTrialLicense

\* A license that is not signed any more: if it ran, the trial is lost.
LEMMA UnsignedStep ==
  ASSUME TrialInv, trialSecret'.signature = 0,
         UNCHANGED <<trialStatus, trialPubKey, trialPass, now>>
  PROVE  PromiseStep
<1>1. ~TrialRuns'
  BY DEF TrialRuns, ValidSignature
<1>2. CASE TrialRuns
  BY <1>1, <1>2, WhatRuns, PhaseLost
<1>3. CASE ~TrialRuns
  BY <1>1, <1>3, PhaseKept
<1> QED
  BY <1>2, <1>3

LEMMA EditStep ==
  ASSUME TrialInv, EditTrialSecrets, UNCHANGED now
  PROVE  PromiseStep
<1>1. UNCHANGED <<trialPubKey, trialPass>>
  BY DEF EditTrialSecrets
<1>2. CASE trialSecret' = NoTrialSecret /\ UNCHANGED trialStatus
  BY <1>1, <1>2, UnsignedStep DEF NoTrialSecret
<1>3. CASE UNCHANGED trialSecret /\ trialPubKey # 0
  <2>1. VerificationKey' = VerificationKey
    BY <1>1, <1>3 DEF VerificationKey
  <2> QED
    BY <1>1, <1>3, <2>1, RecordsKept
<1>4. CASE /\ UNCHANGED trialSecret /\ trialPubKey = 0
           /\ trialStatus.key # 0 /\ trialStatus' = WithKey(Garbage)
  <2>1. trialStatus'.key = Garbage /\ Garbage # 0
    BY <1>4 DEF WithKey, Garbage
  <2>2. ~TrialRuns'
    BY <1>1, <1>4, <2>1 DEF TrialRuns, ValidSignature, VerificationKey, PublicKeyFor,
                            TrialInv, NewKeyUnused
  <2>3. CASE TrialRuns
    BY <1>1, <2>1, <2>2, <2>3, WhatRuns, PhaseLost
  <2>4. CASE ~TrialRuns
    BY <1>1, <1>4, <2>1, <2>2, <2>4, PhaseKept
  <2> QED
    BY <2>3, <2>4
<1> QED
  BY <1>2, <1>3, <1>4 DEF EditTrialSecrets

\* What was in memory only is lost.
LEMMA CrashStep ==
  ASSUME TrialInv, TrialCrash, UNCHANGED now
  PROVE  PromiseStep
<1>1. /\ trialPubKey # 0 => trialStatus.key # 0
      /\ trialPubKey' = 0 /\ trialPass'.pc # "sign"
      /\ UNCHANGED <<trialSecret, trialStatus>>
  BY DEF TrialCrash, trialResources, NoTrialPass
<1>2. VerificationKey' = trialStatus.key
  BY <1>1 DEF VerificationKey, PublicKeyFor
<1>3. CASE trialPass.pc = "sign"
  <2>1. trialPubKey = 0 /\ trialStatus.key # 0
    BY <1>3 DEF TrialInv, SigningInProgress, Garbage
  <2>2. ~TrialRuns'
    BY <1>1, <1>2, <1>3, <2>1, WhatRuns DEF TrialRuns, ValidSignature, VerificationKey, PublicKeyFor
  <2> QED
    BY <1>1, <2>1, <2>2, PhaseLost
<1>4. CASE trialPass.pc # "sign" /\ trialStatus.key = VerificationKey
  BY <1>1, <1>2, <1>4, RecordsKept
<1>5. CASE trialStatus.key # VerificationKey
  <2>1. trialStatus.key = Garbage /\ Garbage # 0
    BY <1>1, <1>5 DEF VerificationKey, PublicKeyFor, TrialInv, MemoryMatches, Garbage
  <2>2. ~TrialRuns'
    BY <1>1, <1>2, <2>1 DEF TrialRuns, ValidSignature, TrialInv, NewKeyUnused
  <2> QED
    BY <1>1, <2>1, <2>2, PhaseLost
<1> QED
  BY <1>3, <1>4, <1>5

LEMMA PromiseNext ==
  TrialInv /\ [TrialNext]_<<trialVars, now>>
    => [Promise!TrialPeriodNext]_<<TrialPhase, TrialUntil, now>>
<1> SUFFICES ASSUME TrialInv, [TrialNext]_<<trialVars, now>> PROVE PromiseStep
  BY DEF PromiseStep
<1>1. CASE UNCHANGED trialVars
  <2>1. UNCHANGED <<TrialPhase, TrialUntil>>
    BY <1>1 DEF trialVars, trialResources, TrialPhase, TrialUntil, TrialRuns, ValidSignature,
                VerificationKey, PublicKeyFor
  <2> QED
    BY <2>1, <1>1 DEF PromiseStep, Promise!TrialPeriodNext, Promise!Pass, Promise!Advance, Advance,
                 TrialNext
<1>2. CASE UNCHANGED now /\ (ReconcileTrial \/ SyncTrialSecret \/ SyncTrialStatus)
  BY <1>2, QuietStep, CorrectStep, CreateStep, SignStep DEF ReconcileTrial
<1>3. CASE UNCHANGED now /\ CreateTrialLicense
  <2>1. trialSecret'.signature = 0
    BY <1>3 DEF CreateTrialLicense
  <2> QED
    BY <1>3, <2>1, UnsignedStep DEF CreateTrialLicense
<1>4. CASE UNCHANGED now /\ (EditTrialSecrets \/ TrialCrash)
  BY <1>4, EditStep, CrashStep
<1> QED
  BY <1>1, <1>2, <1>3, <1>4 DEF TrialNext

\* Whatever the length of a trial, the dates its license comes with, the failed calls
\* and the restarts, there is one trial, and it is not prolonged: it ends when its
\* license said, else a trial's length after its start at the latest.
THEOREM TrialPromiseKept == TrialSpec => TrialPromise
<1>1. TrialInit /\ now = 0 => Promise!TrialPeriodInit
  BY DEF TrialInit, NoTrialSecret, NoTrialStatus, NoTrialPass, Promise!TrialPeriodInit, TrialPhase,
         TrialUntil, TrialRuns, ValidSignature, VerificationKey, PublicKeyFor
<1>2. TrialInv /\ [TrialNext]_<<trialVars, now>>
        => [Promise!TrialPeriodNext]_<<TrialPhase, TrialUntil, now>>
  BY PromiseNext
<1> QED
  BY <1>1, <1>2, TrialInvariant, PTL
  DEF TrialSpec, TrialPromise, Promise!TrialPeriodSpec, Promise!trialPeriodVars

-----------------------------------------------------------------------------
(***************************************************************************)
(* A changed key is corrected: while it is there, and the cache shows it,  *)
(* a pass that will see it is under way, queued, or bound to be queued by  *)
(* the license that the pass before has refused.                           *)
(***************************************************************************)
\* Caches are behind: in the status secret a version is written once, and a license
\* created again has another uid.
CachesBehind ==
  /\ cTrialStatus.version <= trialStatus.version
  /\ cTrialSecret.uid # 0 => trialBudget.creations < cTrialSecret.uid
  /\ trialSecret.uid # 0 => trialBudget.creations < trialSecret.uid

\* A status secret that appears while a trial is started is an event, and so is a
\* change of the license that is being refused.
EventsKept ==
  /\ trialPass.pc \in {"create", "sign"} /\ cTrialStatus.key # 0 => trialQueue
  /\ trialPass.pc = "refuse" =>
       trialPass.secret.trial /\ (cTrialSecret # trialPass.secret => trialQueue)

\* The write of a refusal takes the label away, which the cache has yet to show.
RefusalUnseen == cTrialSecret # trialSecret /\ cTrialSecret.trial

Tampered == trialPubKey # 0 /\ trialStatus.key \notin {0, trialPubKey}

CorrectionComes ==
  Tampered /\ cTrialStatus = trialStatus =>
    \/ trialQueue \/ RefusalUnseen
    \/ trialPass.pc \in {"status", "refuse"}
    \/ trialPass.pc = "correct" /\ trialPass.status = cTrialStatus

TamperInv == CachesBehind /\ EventsKept /\ CorrectionComes

\* A write of the status secret makes a version no cache has.
LEMMA NewVersion ==
  ASSUME TrialInv, CachesBehind, NEW key, trialStatus' = WithKey(key)
  PROVE  /\ trialStatus'.key = key
         /\ trialStatus.version <= trialStatus'.version
         /\ cTrialStatus.version <= trialStatus'.version
         /\ trialStatus' # cTrialStatus
<1>1. trialStatus.version \in Nat /\ cTrialStatus.version \in Nat
  BY DEF TrialInv, TrialTypeOK, TrialStatuses
<1>2. trialStatus'.key = key /\ trialStatus'.version = trialStatus.version + 1
  BY DEF WithKey
<1> QED
  BY <1>1, <1>2 DEF CachesBehind

\* A call that fails leaves the budget of creations alone.
LEMMA CreationsKept ==
  ASSUME TrialInv, TrialCallFails \/ UNCHANGED trialBudget
  PROVE  trialBudget'.creations = trialBudget.creations
  BY DEF TrialCallFails, TrialInv, TrialTypeOK

LEMMA TamperInvInit == TrialInit => TamperInv
BY DEF TrialInit, NoTrialSecret, NoTrialStatus, NoTrialPass, TamperInv, CachesBehind, EventsKept,
       CorrectionComes, Tampered

LEMMA FetchKeepsEvents ==
  ASSUME TrialInv, TamperInv, FetchTrialLicense
  PROVE  TamperInv'
<1>1. /\ trialPass'.pc \in {"refuse", "status"}
      /\ trialPass'.secret = cTrialSecret
      /\ trialPass'.pc = "refuse" => cTrialSecret.trial
  BY DEF FetchTrialLicense, NoTrialPass, Violations
<1> QED
  BY <1>1 DEF FetchTrialLicense, trialResources, trialCaches, TamperInv, CachesBehind, EventsKept,
              CorrectionComes, Tampered, RefusalUnseen

\* A license that is refused loses its label, or has changed since it was fetched.
LEMMA RefuseKeepsEvents ==
  ASSUME TrialInv, TamperInv, RefuseTrial
  PROVE  TamperInv'
<1>1. trialBudget'.creations = trialBudget.creations
  BY CreationsKept DEF RefuseTrial
<1>2. trialPass'.pc = "idle"
  BY EndedPass DEF RefuseTrial
<1>3. trialSecret'.uid = trialSecret.uid
  BY DEF RefuseTrial, Relabeled, TrialInv, TrialTypeOK, TrialSecrets
<1>4. trialQueue' \/ RefusalUnseen'
  <2>1. CASE TrialRetry
    BY <2>1 DEF TrialRetry
  <2>2. CASE /\ ~TrialConflict /\ TrialDone
             /\ trialSecret' = Relabeled(trialSecret)
    <3>1. trialSecret = trialPass.secret /\ trialSecret.trial = TRUE
      BY <2>2 DEF TrialConflict, TamperInv, EventsKept, RefuseTrial, TrialInv, TrialTypeOK,
                  TrialSecrets
    <3>2. trialSecret'.trial = FALSE
      BY <2>2 DEF Relabeled, TrialInv, TrialTypeOK, TrialSecrets
    <3>3. CASE cTrialSecret = trialPass.secret
      BY <3>1, <3>2, <3>3 DEF RefusalUnseen, RefuseTrial, trialCaches
    <3>4. CASE cTrialSecret # trialPass.secret
      BY <2>2, <3>4 DEF RefuseTrial, TamperInv, EventsKept, TrialDone
    <3> QED
      BY <3>3, <3>4
  <2> QED
    BY <2>1, <2>2 DEF RefuseTrial
<1> QED
  BY <1>1, <1>2, <1>3, <1>4
     DEF RefuseTrial, trialCaches, TamperInv, CachesBehind, EventsKept, CorrectionComes

LEMMA ReadKeepsEvents ==
  ASSUME TrialInv, TamperInv, ReadTrialStatus
  PROVE  TamperInv'
<1>1. \/ cTrialStatus.key = 0 /\ trialPass'.pc \in {"done", "create"}
      \/ trialPass'.pc = "correct" /\ trialPass'.status = cTrialStatus
  BY DEF ReadTrialStatus, InitTrial, TrialInv, TrialTypeOK, TrialPasses
<1> QED
  BY <1>1 DEF ReadTrialStatus, trialResources, trialCaches, TamperInv, CachesBehind, EventsKept,
              CorrectionComes, Tampered, RefusalUnseen

LEMMA CreateKeepsEvents ==
  ASSUME TrialInv, TamperInv, CreateTrialStatus
  PROVE  TamperInv'
<1>1. trialBudget'.creations = trialBudget.creations
  BY CreationsKept DEF CreateTrialStatus
<1>2. trialPass.pc = "create" /\ trialPubKey' = 0 /\ ~Tampered'
  BY DEF CreateTrialStatus, TrialInv, SigningInProgress, Tampered
<1>3. cTrialStatus.version <= trialStatus'.version
  <2>1. UNCHANGED trialStatus \/ trialStatus' = WithKey(NewKey)
    BY DEF CreateTrialStatus
  <2> QED
    BY <2>1, NewVersion DEF TamperInv, CachesBehind
<1>4. \/ trialPass'.pc = "idle"
      \/ trialPass'.pc = "sign" /\ UNCHANGED trialQueue
  <2>1. CASE TrialRetry
    BY <2>1, EndedPass
  <2>2. CASE trialPass' = [trialPass EXCEPT !.pc = "sign", !.key = NewKey] /\ UNCHANGED trialQueue
    BY <2>2 DEF TrialInv, TrialTypeOK, TrialPasses
  <2> QED
    BY <2>1, <2>2 DEF CreateTrialStatus
<1> QED
  BY <1>1, <1>2, <1>3, <1>4
     DEF CreateTrialStatus, trialCaches, TamperInv, CachesBehind, EventsKept, CorrectionComes

\* A key changed while the license was being signed has been an event since.
LEMMA SignKeepsEvents ==
  ASSUME TrialInv, TamperInv, SignTrialLicense
  PROVE  TamperInv'
<1>1. trialBudget'.creations = trialBudget.creations
  BY CreationsKept DEF SignTrialLicense
<1>2. trialPass'.pc = "idle" /\ (trialQueue => trialQueue')
  <2>1. TrialDone \/ TrialRetry
    BY DEF SignTrialLicense
  <2>2. trialPass'.pc = "idle"
    BY <2>1, EndedPass
  <2>3. trialQueue => trialQueue'
    BY <2>1 DEF TrialDone, TrialRetry
  <2> QED
    BY <2>2, <2>3
<1>3. trialSecret'.uid = trialSecret.uid
  BY DEF SignTrialLicense, Sign, Relabeled, TrialInv, TrialTypeOK, TrialSecrets
<1>4. cTrialStatus.key # 0 => trialQueue
  BY DEF SignTrialLicense, TamperInv, EventsKept
<1>5. Tampered' /\ cTrialStatus = trialStatus => trialQueue'
  BY <1>2, <1>4 DEF SignTrialLicense, Tampered
<1> QED
  BY <1>1, <1>2, <1>3, <1>4, <1>5
     DEF SignTrialLicense, trialCaches, TamperInv, CachesBehind, EventsKept, CorrectionComes,
         Tampered

\* A pass that has read the changed key corrects it, or is run again.
LEMMA CorrectKeepsEvents ==
  ASSUME TrialInv, TamperInv, ReconcileTrialStatus
  PROVE  TamperInv'
<1>1. trialBudget'.creations = trialBudget.creations
  BY CreationsKept DEF ReconcileTrialStatus
<1>2. trialPass'.pc = "idle" /\ (trialQueue => trialQueue')
  <2>1. TrialDone \/ TrialRetry
    BY DEF ReconcileTrialStatus
  <2>2. trialPass'.pc = "idle"
    BY <2>1, EndedPass
  <2>3. trialQueue => trialQueue'
    BY <2>1 DEF TrialDone, TrialRetry
  <2> QED
    BY <2>2, <2>3
<1>3. CASE UNCHANGED trialStatus
  <2>1. CASE TrialRetry
    BY <1>1, <1>2, <1>3, <2>1
       DEF ReconcileTrialStatus, trialCaches, TrialRetry, TamperInv, CachesBehind, EventsKept,
           CorrectionComes
  <2>2. CASE ~IsTrialRunning \/ trialPass.status.key = trialPubKey
    BY <1>1, <1>2, <1>3, <2>2
       DEF ReconcileTrialStatus, IsTrialRunning, trialCaches, TamperInv, CachesBehind, EventsKept,
           CorrectionComes, Tampered, RefusalUnseen
  <2>3. CASE trialStatus = trialPass.status /\ trialStatus' = WithKey(trialPubKey)
    BY <1>3, <2>3, NewVersion DEF TamperInv, CachesBehind, WithKey, TrialInv, TrialTypeOK,
                                  TrialStatuses
  <2> QED
    BY <2>1, <2>2, <2>3 DEF ReconcileTrialStatus
<1>4. CASE trialStatus' = WithKey(trialPubKey)
  <2>1. ~Tampered' /\ cTrialStatus.version <= trialStatus'.version
    BY <1>4, NewVersion DEF ReconcileTrialStatus, Tampered, TamperInv
  <2> QED
    BY <1>1, <1>2, <2>1
       DEF ReconcileTrialStatus, trialCaches, TamperInv, CachesBehind, EventsKept, CorrectionComes
<1> QED
  BY <1>3, <1>4 DEF ReconcileTrialStatus

LEMMA ReturnKeepsEvents ==
  ASSUME TrialInv, TamperInv, TrialReturns
  PROVE  TamperInv'
<1>1. trialPass'.pc = "idle" /\ UNCHANGED trialQueue
  BY EndedPass DEF TrialReturns, TrialDone
<1> QED
  BY <1>1 DEF TrialReturns, trialResources, trialCaches, TamperInv, CachesBehind, EventsKept,
              CorrectionComes, Tampered, RefusalUnseen

\* The watch sees the label on the license as it was, and as it is.
LEMMA SyncKeepsEvents ==
  ASSUME TrialInv, TamperInv, SyncTrialSecret \/ SyncTrialStatus
  PROVE  TamperInv'
<1>1. CASE SyncTrialSecret
  <2>1. UNCHANGED <<trialResources, cTrialStatus, trialPubKey, trialPass, trialBudget>>
    BY <1>1 DEF SyncTrialSecret
  <2>2. /\ cTrialSecret' = trialSecret
        /\ trialQueue => trialQueue'
        /\ cTrialSecret.trial => trialQueue'
    BY <1>1 DEF SyncTrialSecret
  <2>3. CachesBehind'
    BY <2>1, <2>2 DEF trialResources, TamperInv, CachesBehind
  <2>4. EventsKept'
    BY <2>1, <2>2 DEF TamperInv, EventsKept
  <2>5. CorrectionComes'
    BY <2>1, <2>2 DEF trialResources, TamperInv, CorrectionComes, RefusalUnseen, Tampered
  <2> QED
    BY <2>3, <2>4, <2>5 DEF TamperInv
<1>2. CASE SyncTrialStatus
  BY <1>2 DEF SyncTrialStatus, trialResources, TamperInv, CachesBehind, EventsKept, CorrectionComes,
              TrialInv, TrialTypeOK, TrialStatuses
<1> QED
  BY <1>1, <1>2

\* A license that is created again is not the one the cache has.
LEMMA CreationKeepsEvents ==
  ASSUME TrialInv, TamperInv, CreateTrialLicense
  PROVE  TamperInv'
<1>1. /\ trialBudget.creations \in Nat \ {0}
      /\ trialBudget'.creations = trialBudget.creations - 1
      /\ cTrialSecret.uid \in Nat
  BY DEF CreateTrialLicense, TrialInv, TrialTypeOK, TrialSecrets
<1>2. trialSecret'.uid = trialBudget.creations
  BY DEF CreateTrialLicense
<1>3. CachesBehind'
  BY <1>1, <1>2 DEF CreateTrialLicense, trialCaches, TamperInv, CachesBehind
<1>4. trialSecret' # cTrialSecret
  BY <1>1, <1>2 DEF TamperInv, CachesBehind
<1> QED
  BY <1>3, <1>4
     DEF CreateTrialLicense, trialCaches, TamperInv, EventsKept, CorrectionComes, RefusalUnseen,
         Tampered

LEMMA EditKeepsEvents ==
  ASSUME TrialInv, TamperInv, EditTrialSecrets
  PROVE  TamperInv'
<1>1. trialBudget'.creations = trialBudget.creations
  BY DEF EditTrialSecrets, TrialInv, TrialTypeOK
<1>2. EventsKept'
  BY DEF EditTrialSecrets, trialCaches, TamperInv, EventsKept
<1>3. CASE trialSecret' = NoTrialSecret /\ UNCHANGED trialStatus
  <2>1. NoTrialSecret.uid = 0 /\ NoTrialSecret.trial = FALSE
    BY DEF NoTrialSecret
  <2>2. CachesBehind'
    BY <1>1, <1>3, <2>1 DEF EditTrialSecrets, trialCaches, TamperInv, CachesBehind
  <2>3. RefusalUnseen => RefusalUnseen'
    BY <1>3, <2>1 DEF EditTrialSecrets, trialCaches, RefusalUnseen
  <2> QED
    BY <1>2, <1>3, <2>2, <2>3
       DEF EditTrialSecrets, trialCaches, TamperInv, CorrectionComes, Tampered
<1>4. CASE UNCHANGED trialSecret /\ \E key \in {0, Garbage} : trialStatus' = WithKey(key)
  <2>1. cTrialStatus.version <= trialStatus'.version /\ trialStatus' # cTrialStatus
    BY <1>4, NewVersion DEF TamperInv
  <2> QED
    BY <1>1, <1>2, <1>4, <2>1 DEF EditTrialSecrets, trialCaches, TamperInv, CachesBehind,
                                  CorrectionComes
<1> QED
  BY <1>3, <1>4 DEF EditTrialSecrets, Garbage

LEMMA CrashKeepsEvents ==
  ASSUME TrialInv, TamperInv, TrialCrash
  PROVE  TamperInv'
<1>1. trialBudget'.creations = trialBudget.creations
  BY DEF TrialCrash, TrialInv, TrialTypeOK
<1>2. trialPass'.pc = "idle" /\ ~Tampered'
  BY DEF TrialCrash, NoTrialPass, Tampered
<1> QED
  BY <1>1, <1>2 DEF TrialCrash, trialResources, TamperInv, CachesBehind, EventsKept,
                    CorrectionComes, TrialInv, TrialTypeOK, TrialStatuses

LEMMA TamperInvNext == TrialInv /\ TamperInv /\ [TrialNext]_<<trialVars, now>> => TamperInv'
<1> SUFFICES ASSUME TrialInv, TamperInv, [TrialNext]_<<trialVars, now>> PROVE TamperInv'
  OBVIOUS
<1>1. CASE UNCHANGED trialVars
  BY <1>1 DEF trialVars, trialResources, trialCaches, TamperInv, CachesBehind, EventsKept,
              CorrectionComes, Tampered, RefusalUnseen
<1>2. CASE ReconcileTrial
  BY <1>2, FetchKeepsEvents, RefuseKeepsEvents, ReadKeepsEvents, CreateKeepsEvents,
     SignKeepsEvents, CorrectKeepsEvents, ReturnKeepsEvents DEF ReconcileTrial
<1>3. CASE \/ SyncTrialSecret \/ SyncTrialStatus
           \/ CreateTrialLicense \/ EditTrialSecrets \/ TrialCrash
  BY <1>3, SyncKeepsEvents, CreationKeepsEvents, EditKeepsEvents, CrashKeepsEvents
<1> QED
  BY <1>1, <1>2, <1>3 DEF TrialNext

\* The key in the status secret comes back to the one in memory, through conflicts,
\* failed calls and licenses that are refused, deleted and created again.
THEOREM TamperingIsUndone == TrialSpec => []TamperingUndone
<1>1. TrialInit /\ now = 0 => TamperInv
  BY TamperInvInit
<1>2. TrialInv /\ TamperInv /\ [TrialNext]_<<trialVars, now>> => TamperInv'
  BY TamperInvNext
<1>3. TrialInv /\ TamperInv => TamperingUndone
  BY DEF TamperInv, CorrectionComes, RefusalUnseen, Tampered, TamperingUndone, TrialQuiet
<1> QED
  BY <1>1, <1>2, <1>3, TrialInvariant, PTL DEF TrialSpec
=============================================================================
