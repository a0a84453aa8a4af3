------------------------------- MODULE MCStack -------------------------------
EXTENDS StackProperties

CONSTANTS e1, e2
MCNamespaceOf == [e \in {e1, e2} |-> IF e = e1 THEN "apps" ELSE "data"]
MCBudget(ed, ev, f, c) == [edits |-> ed, events |-> ev, faults |-> f, crashes |-> c]
MCScenario(k, new, clusters, b) ==
  [kind |-> k, new |-> new, ref |-> e1, clusters |-> clusters, budget |-> b]
\* A new application: alone, with a restart, with a failing call, and waiting for
\* its cluster.  An established one: an edit and an event, an edit and a failing
\* call, two events, an event and a restart.
MCScenarios ==
  {MCScenario("kibana", TRUE, {e1}, MCBudget(0, 0, 0, 1)),
   MCScenario("kibana", TRUE, {e1}, MCBudget(0, 0, 1, 0)),
   MCScenario("kibana", TRUE, {}, MCBudget(0, 1, 0, 0)),
   MCScenario("kibana", FALSE, {e1}, MCBudget(1, 1, 0, 0)),
   MCScenario("kibana", FALSE, {e1, e2}, MCBudget(1, 0, 1, 0)),
   MCScenario("logstash", TRUE, {e1}, MCBudget(0, 0, 0, 0)),
   MCScenario("logstash", FALSE, {e1}, MCBudget(0, 1, 0, 1)),
   MCScenario("logstash", FALSE, {e1, e2}, MCBudget(1, 0, 0, 0)),
   MCScenario("apm", TRUE, {e1}, MCBudget(0, 0, 0, 0)),
   MCScenario("apm", FALSE, {e1, e2}, MCBudget(1, 0, 0, 0)),
   MCScenario("apm", FALSE, {e1}, MCBudget(0, 1, 0, 0))}
=============================================================================
