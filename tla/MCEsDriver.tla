----------------------------- MODULE MCEsDriver -----------------------------
(***************************************************************************)
(* Instances of EsDriver for TLC: templates, specifications and scenarios. *)
(***************************************************************************)
EXTENDS EsProperties

CONSTANTS s1, noRevision

Tmpl(master, data, major, rev) ==
  [master |-> master, data |-> data, major |-> major, rev |-> rev]
MD6 == Tmpl(TRUE, TRUE, 6, 0)
M7 == Tmpl(TRUE, FALSE, 7, 0)
M7b == Tmpl(TRUE, FALSE, 7, 1)
D7 == Tmpl(FALSE, TRUE, 7, 0)
D7b == Tmpl(FALSE, TRUE, 7, 1)
MD7 == Tmpl(TRUE, TRUE, 7, 0)
MD7b == Tmpl(TRUE, TRUE, 7, 1)

\* Counts and templates of nodeSets 0, 1, ..., 0 for a nodeSet that is not there.
MkSpec(counts, tmpls) ==
  LET idx(s) == s + 1
      there == {s \in NodeSets : counts[idx(s)] > 0}
  IN [sets |-> there, count |-> [s \in NodeSets |-> counts[idx(s)]],
      tmpl |-> [s \in NodeSets |-> IF s \in there THEN tmpls[idx(s)] ELSE SomeTemplate]]

OneSet == {0}
TwoSets == {0, 1}
Unbounded == -1

\* Removing one of two nodes.
PairInitial == MkSpec(<<2>>, <<MD7>>)
PairSpecs == {PairInitial, MkSpec(<<1>>, <<MD7>>)}
PairTemplates == {MD7}
\* The same, with a change of the template.
LoseSpecs == {PairInitial, MkSpec(<<1>>, <<MD7b>>)}
LoseTemplates == {MD7, MD7b}
\* Rolling a change through three nodes: one or two masters, the others data nodes.
RollInitial == MkSpec(<<1, 2>>, <<M7, D7>>)
RollSpecs == {RollInitial, MkSpec(<<1, 2>>, <<M7b, D7b>>)}
RollTemplates == {M7, M7b, D7, D7b}
MastersInitial == MkSpec(<<2, 1>>, <<M7, D7>>)
MastersSpecs == {MastersInitial, MkSpec(<<2, 1>>, <<M7b, D7b>>)}
\* The same, or with the masters and the data node trading roles.
BudgetInitial == MastersInitial
BudgetSpecs == MastersSpecs \cup {MkSpec(<<2, 1>>, <<D7b, MD7b>>)}
BudgetTemplates == RollTemplates \cup {MD7b}
\* The only master, and the data, move to another nodeSet.
MoveInitial == MkSpec(<<1, 0>>, <<MD7, MD7>>)
MoveSpecs == {MoveInitial, MkSpec(<<0, 1>>, <<MD7, MD7>>)}
MoveTemplates == {MD7}

\* A new cluster whose masters are of two nodeSets: one each, or one and two.
CreateInitial == MkSpec(<<1, 1>>, <<MD7, MD7>>)
CreateSpecs == {CreateInitial}
CreateTemplates == {MD7}
BootstrapInitial == MkSpec(<<1, 2>>, <<MD7, MD7>>)
BootstrapSpecs == {BootstrapInitial}
\* Until every node has read its configuration, or the cluster is annotated.
UntilStarted ==
  ~es.uuid /\ \E p \in InitialPods : ~pod[p].exists \/ pod[p].phase = "Pending"

\* Beside masters with data, a data nodeSet grows as they shrink, or goes.
ShiftInitial == MkSpec(<<2, 1>>, <<MD7, D7>>)
ShiftSpecs ==
  {ShiftInitial, MkSpec(<<1, 2>>, <<MD7, D7>>), MkSpec(<<1, 0>>, <<MD7, D7>>)}
ShiftTemplates == {MD7, D7}

\* minimum_master_nodes: two masters leave one by one, and come back.
ZenInitial == MkSpec(<<3>>, <<MD6>>)
ZenSpecs == {ZenInitial, MkSpec(<<1>>, <<MD6>>)}
ZenTemplates == {MD6}

\* One of three masters leaves while their template changes.
LeavingInitial == MkSpec(<<3, 1>>, <<MD7, D7>>)
LeavingSpecs == {LeavingInitial, MkSpec(<<2, 1>>, <<MD7b, D7>>)}
LeavingTemplates == {MD7, MD7b, D7}

\* A nodeSet with a master is added.
GrowInitial == MkSpec(<<1, 0>>, <<MD7, MD7>>)
GrowSpecs == {GrowInitial, MkSpec(<<1, 1>>, <<MD7, MD7>>)}
\* A nodeSet of three masters shrinks to one node that only holds data.
RoleInitial == MkSpec(<<3, 1>>, <<M7, MD7>>)
RoleSpecs == {RoleInitial, MkSpec(<<1, 1>>, <<D7, MD7>>)}
RoleTemplates == {M7, MD7, D7}
=============================================================================
