SPECIFICATION FairSpec
CONSTANTS
  s1 = s1
  noRevision = noRevision
  NoRevision = noRevision
  NodeSets <- OneSet
  MaxReplicas = 2
  MaxIncarnations = 3
  Templates <- PairTemplates
  Specs <- PairSpecs
  InitialSpec <- PairInitial
  Bootstrapped = TRUE
  MaxSurge <- Unbounded
  MaxUnavailable = 1
  Shards = {s1}
  Copies = 1
  MaxSpecChanges = 2
  FaultKinds = {"error", "lost", "restart"}
  MaxFaults = 1
  MaxCrashes = 0
CHECK_DEADLOCK FALSE
INVARIANTS
  ExpectationsSatisfiable
  NoDataLoss
PROPERTIES
  EventuallySettled
