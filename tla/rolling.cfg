SPECIFICATION FairSpec
CONSTANTS
  s1 = s1
  noRevision = noRevision
  NoRevision = noRevision
  NodeSets <- TwoSets
  MaxReplicas = 2
  MaxIncarnations = 3
  Templates <- RollTemplates
  Specs <- RollSpecs
  InitialSpec <- RollInitial
  Bootstrapped = TRUE
  MaxSurge <- Unbounded
  MaxUnavailable = 1
  Shards = {s1}
  Copies = 2
  MaxSpecChanges = 1
  FaultKinds = {"error", "lost", "restart"}
  MaxFaults = 0
  MaxCrashes = 0
CHECK_DEADLOCK FALSE
PROPERTIES
  RestartKeepsAvailable
  AllocationEnabledWhenBack
  EventuallySettled
