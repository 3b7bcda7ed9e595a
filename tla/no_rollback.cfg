SPECIFICATION Spec
CONSTANTS
  Tags <- MCTags
  NoVersion = ""
  InstalledTag = "v1.0.0"
  VPrefixed <- MCVPrefixed
  Compatible <- MCCompatible
  Targets = {"v1.0.1"}
  AutoRollbacks = {TRUE}
  Namespaces = {"own"}
  FaultKinds = {"error"}
  MaxFaults = 1
  MaxEdits = 0
  MaxIncarnations = 1
  MaxDeletions = 0
  FailingJobs = {}
  UsedJobsExpire = TRUE
CHECK_DEADLOCK FALSE
INVARIANTS
  FailedWasRolledBack
