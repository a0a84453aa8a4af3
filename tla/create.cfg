SPECIFICATION Spec
CONSTANTS
  s1 = s1
  noRevision = noRevision
  NoRevision = noRevision
  NodeSets <- TwoSets
  MaxReplicas = 1
  MaxIncarnations = 1
  Templates <- CreateTemplates
  Specs <- CreateSpecs
  InitialSpec <- CreateInitial
  Bootstrapped = FALSE
  MaxSurge <- Unbounded
  MaxUnavailable = 1
  Shards = {}
  Copies = 1
  MaxSpecChanges = 0
  FaultKinds = {"error", "lost", "restart"}
  MaxFaults = 0
  MaxCrashes = 0
CHECK_DEADLOCK FALSE
CONSTRAINT UntilStarted
INVARIANTS
  BootstrapQuorumsIntersect
