SPECIFICATION Spec
CONSTANTS
  s1 = s1
  noRevision = noRevision
  NoRevision = noRevision
  NodeSets <- TwoSets
  MaxReplicas = 1
  MaxIncarnations = 1
  Templates <- MoveTemplates
  Specs <- GrowSpecs
  InitialSpec <- GrowInitial
  Bootstrapped = TRUE
  MaxSurge <- Unbounded
  MaxUnavailable = 1
  Shards = {}
  Copies = 1
  MaxSpecChanges = 1
  FaultKinds = {}
  MaxFaults = 0
  MaxCrashes = 0
CHECK_DEADLOCK FALSE
PROPERTIES
  UpscaleNeverRemoves
