---------------------------- MODULE Expectations ----------------------------
(***************************************************************************)
(* common/expectations: what the operator remembers, in memory only, of    *)
(* its own writes, so that it does not act on a cache that does not show   *)
(* them yet.  A generation is kept for each StatefulSet UID, a UID for     *)
(* each Pod whose deletion it requested.                                   *)
(***************************************************************************)
EXTENDS Elasticsearch

VARIABLES
  generations,  \* generations[s]: the UID and the generation expected of s
  deletions     \* deletions[p]: the UIDs of p expected to be gone, at most one

expectationsVars == <<generations, deletions>>

-----------------------------------------------------------------------------
NoExpectations ==
  /\ generations = [s \in NodeSets |-> [uid |-> 0, gen |-> 0]]
  /\ deletions = [p \in Pods |-> {}]

ForgetExpectations ==
  /\ generations' = [s \in NodeSets |-> [uid |-> 0, gen |-> 0]]
  /\ deletions' = [p \in Pods |-> {}]

\* Seeded defect: the generation of a write that changed nothing is expected to
\* increase as well.
ExpectNextGeneration(s, meta) ==
  generations' = [generations EXCEPT ![s] = [uid |-> meta.uid, gen |-> meta.gen + 1]]

\* ExpectGeneration records the generation the write of s returned.
ExpectGeneration(s, meta) ==
  generations' = [generations EXCEPT ![s] = [uid |-> meta.uid, gen |-> meta.gen]]

\* SatisfiedGenerations over the listed StatefulSets: a listed one is behind
\* only when it is the object the write returned.
SatisfiedGenerations(ssets) ==
  \A s \in NodeSets :
    ssets[s].exists /\ ssets[s].uid = generations[s].uid
      => ssets[s].gen >= generations[s].gen

ExpectDeletion(p, uid) == deletions' = [deletions EXCEPT ![p] = {uid}]
CancelExpectedDeletion(p) == deletions' = [deletions EXCEPT ![p] = {}]

\* canRemoveExpectation: the cache no longer holds that incarnation of p.
CanRemoveExpectation(p) ==
  \A uid \in deletions[p] : ~cPod[p].exists \/ cPod[p].uid # uid

\* SatisfiedDeletions also drops the expectations it finds satisfied.  The code
\* stops at the first unsatisfied one of a map; those it leaves behind remain
\* satisfied, so dropping them as well shows no difference.
SatisfiedDeletions == \A p \in Pods : CanRemoveExpectation(p)
DropSatisfiedDeletions ==
  deletions' = [p \in Pods |-> IF CanRemoveExpectation(p) THEN {} ELSE deletions[p]]

\* PodReconciliationDone: the cached Pods of each listed StatefulSet are exactly
\* the ones its replicas ask for.
PodReconciliationDone(ssets) ==
  \A s \in NodeSets : ssets[s].exists
    => {p \in Existing(cPod) : p[1] = s} = PodNames(ssets, s)

\* expectationsMet (driver): the deletions are looked at last.
ExpectationsMet(ssets) ==
  /\ SatisfiedGenerations(ssets)
  /\ PodReconciliationDone(ssets)
  /\ SatisfiedDeletions

CheckExpectations(ssets) ==
  IF SatisfiedGenerations(ssets) /\ PodReconciliationDone(ssets)
    THEN DropSatisfiedDeletions
    ELSE UNCHANGED deletions

ExpectationsTypeOK ==
  /\ generations \in [NodeSets -> [uid : Uids, gen : Nat]]
  /\ deletions \in [Pods -> SUBSET Uids]
=============================================================================
