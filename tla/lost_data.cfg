SPECIFICATION Spec
CONSTANTS
  s1 = s1
  noRevision = noRevision
  NoRevision = noRevision
  NodeSets <- OneSet
  MaxReplicas = 2
  MaxIncarnations = 3
  Templates <- LoseTemplates
  Specs <- LoseSpecs
  InitialSpec <- PairInitial
  Bootstrapped = TRUE
  MaxSurge <- Unbounded
  MaxUnavailable = 1
  Shards = {s1}
  Copies = 1
  MaxSpecChanges = 1
  FaultKinds = {"error", "lost", "restart"}
  MaxFaults = 0
  MaxCrashes = 0
CHECK_DEADLOCK FALSE
PROPERTIES
  RemovedAfterMigration
