SPECIFICATION Spec
CONSTANTS
  s1 = s1
  noRevision = noRevision
  NoRevision = noRevision
  NodeSets <- TwoSets
  MaxReplicas = 2
  MaxIncarnations = 3
  Templates <- ShiftTemplates
  Specs <- ShiftSpecs
  InitialSpec <- ShiftInitial
  Bootstrapped = TRUE
  MaxSurge = 1
  MaxUnavailable = 0
  Shards = {s1}
  Copies = 2
  MaxSpecChanges = 1
  FaultKinds = {"error", "restart"}
  MaxFaults = 1
  MaxCrashes = 0
CHECK_DEADLOCK FALSE
PROPERTIES
  RemovedAfterMigration
  DownscaleKeepsAvailable
  UpscaleNeverRemoves
  ReadyMeansApplied
INVARIANTS
  LeavingMastersExcluded
