SPECIFICATION Spec
CONSTANTS
  Tags <- MCTags
  NoVersion = ""
  InstalledTag = "v1.0.0"
  VPrefixed <- MCVPrefixed
  Compatible <- MCCompatible
  Targets = {"v1.0.1", "1.0.1"}
  AutoRollbacks = {TRUE, FALSE}
  Namespaces = {"own", "foreign"}
  FaultKinds = {}
  MaxFaults = 0
  MaxEdits = 2
  MaxIncarnations = 1
  MaxDeletions = 0
  FailingJobs = {"FreezingOperations", "UpgradingCRDs", "UpgradingControllerManager", "UpgradingNetworkFabric", "RollingBack"}
  UsedJobsExpire = FALSE
CHECK_DEADLOCK FALSE
INVARIANTS
  OneJobAtATime
  RolledBackMeansRestored
PROPERTIES
  CompletionChecksCurrentTarget
