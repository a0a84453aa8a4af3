SPECIFICATION UpkeepSpec
CONSTANTS
  n1 = n1
  n2 = n2
  Horizon = 10
  TrialLength = 2
  TrialDates <- MCTrialDates
  TrialBudgets <- MCTrialBudgets
  SafetyMargin = 4
  MaxOutage = 1
  Offers <- MCOffers
  LicensingBudgets <- MCLicensingBudgets
  CertNodes = {n1, n2}
  CaValidity = 6
  CaRotateBefore = 3
  CertValidity = 7
  CertRotateBefore = 2
  MaxCertOutage = 1
  CertScenarios <- MCCertScenarios
  MaxNodes = 2
  OtherNodes = 3
  LifecycleBudgets <- MCLifecycleBudgets
CHECK_DEADLOCK FALSE
INVARIANT ChangeReachesCluster
