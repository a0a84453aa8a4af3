SPECIFICATION Spec
CONSTANTS
  s1 = s1
  noRevision = noRevision
  NoRevision = noRevision
  NodeSets <- TwoSets
  MaxReplicas = 2
  MaxIncarnations = 3
  Templates <- BudgetTemplates
  Specs <- BudgetSpecs
  InitialSpec <- BudgetInitial
  Bootstrapped = TRUE
  MaxSurge <- Unbounded
  MaxUnavailable = 2
  Shards = {s1}
  Copies = 1
  MaxSpecChanges = 1
  FaultKinds = {"error", "lost", "restart"}
  MaxFaults = 0
  MaxCrashes = 0
CHECK_DEADLOCK FALSE
PROPERTIES
  OneMasterRestartsAtATime
