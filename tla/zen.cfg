SPECIFICATION Spec
CONSTANTS
  s1 = s1
  noRevision = noRevision
  NoRevision = noRevision
  NodeSets <- OneSet
  MaxReplicas = 3
  MaxIncarnations = 3
  Templates <- ZenTemplates
  Specs <- ZenSpecs
  InitialSpec <- ZenInitial
  Bootstrapped = TRUE
  MaxSurge <- Unbounded
  MaxUnavailable = 1
  Shards = {}
  Copies = 1
  MaxSpecChanges = 2
  FaultKinds = {"error", "lost", "restart"}
  MaxFaults = 0
  MaxCrashes = 1
CHECK_DEADLOCK FALSE
INVARIANTS
  TypeOK
  CanElect
  OneMasterLeavesAtATime
PROPERTIES
  OneMasterJoinsAtATime
