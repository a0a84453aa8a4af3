----------------------------- MODULE TrialPeriod -----------------------------
(***************************************************************************)
(* What a trial license promises: one trial, whose end is fixed when it    *)
(* begins, and which nothing prolongs and nothing starts again.            *)
(***************************************************************************)
EXTENDS Clock

CONSTANT TrialLength   \* of a trial whose license asks for no end

VARIABLES
  phase,  \* of the trial
  until,  \* the end of a running trial, 0 otherwise
  asked   \* the end that the user's license asks for, 0 when none

\* What is asked for is an input.
trialPeriodVars == <<phase, until, now>>

TrialPeriodInit == phase = "unused" /\ until = 0 /\ now = 0

\* The trial is recorded as used before it is granted.
Reserve == phase = "unused" /\ phase' = "reserved" /\ UNCHANGED <<until, now>>

Begin ==
  /\ phase = "reserved" /\ phase' = "running"
  /\ until' \in (IF asked # 0 THEN {asked} ELSE 0 .. now + TrialLength)
  /\ UNCHANGED now

\* Before it begins, or while it runs, it may be lost; it may be used up without
\* ever having been granted.
Lose ==
  /\ phase' = "spent" /\ until' = 0
  /\ UNCHANGED now

Pass == Advance /\ UNCHANGED <<phase, until>>

TrialPeriodNext == Reserve \/ Begin \/ Lose \/ Pass

TrialPeriodSpec == TrialPeriodInit /\ [][TrialPeriodNext]_trialPeriodVars
=============================================================================
