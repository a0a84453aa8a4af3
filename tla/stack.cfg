SPECIFICATION StackSpec
CONSTANTS
  e1 = e1
  e2 = e2
  Clusters = {e1, e2}
  Home = "apps"
  NamespaceOf <- MCNamespaceOf
  NoCluster = NoCluster
  FirstCluster = e1
  Scenarios <- MCScenarios
CHECK_DEADLOCK FALSE
INVARIANTS
  EstablishedWhenQuiet
  UserWhenQuiet
  CredentialsAccepted
  TemplateCurrent
  NeverMarkedUnknown
