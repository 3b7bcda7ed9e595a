SPECIFICATION Spec
CONSTANTS
  Tags <- MCTags
  NoVersion = ""
  InstalledTag = "v1.0.0"
  VPrefixed <- MCVPrefixed
  Compatible <- MCCompatible
  Targets = {"v1.0.1"}
  AutoRollbacks = {FALSE}
  Namespaces = {"own"}
  FaultKinds = {}
  MaxFaults = 0
  MaxEdits = 0
  MaxIncarnations = 2
  MaxDeletions = 1
  FailingJobs = {}
  UsedJobsExpire = FALSE
CHECK_DEADLOCK FALSE
INVARIANTS
  InOrder
PROPERTIES
  ImplementsLifecycle
