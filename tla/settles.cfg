SPECIFICATION FairSpec
CONSTANTS
  Tags <- MCTags
  NoVersion = ""
  InstalledTag = "v1.0.0"
  VPrefixed <- MCVPrefixed
  Compatible <- MCCompatible
  Targets = {"v1.0.1"}
  AutoRollbacks = {TRUE}
  Namespaces = {"own", "foreign"}
  FaultKinds = {"crash", "deletion", "expiry"}
  MaxFaults = 1
  MaxEdits = 0
  MaxIncarnations = 1
  MaxDeletions = 1
  FailingJobs = {"UpgradingNetworkFabric", "RollingBack"}
  UsedJobsExpire = FALSE
CHECK_DEADLOCK FALSE
PROPERTIES
  UpgradeSettles
  DeletionCompletes
