SPECIFICATION Spec
CONSTANTS
  Tags <- MCTags
  NoVersion = ""
  InstalledTag = "v1.0.0"
  VPrefixed <- MCVPrefixed
  Compatible <- MCCompatible
  Targets = {"v1.0.1"}
  AutoRollbacks = {TRUE}
  Namespaces = {"own"}
  FaultKinds = {}
  MaxFaults = 0
  MaxEdits = 0
  MaxIncarnations = 1
  MaxDeletions = 0
  FailingJobs = {"FreezingOperations", "UpgradingCRDs", "UpgradingControllerManager", "UpgradingNetworkFabric", "RollingBack"}
  UsedJobsExpire = TRUE
CHECK_DEADLOCK FALSE
INVARIANTS
  CompletedRunsTarget
