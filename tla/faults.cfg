SPECIFICATION Spec
CONSTANTS
  Tags <- MCTags
  NoVersion = ""
  InstalledTag = "v1.0.0"
  VPrefixed <- MCVPrefixed
  Compatible <- MCCompatible
  Targets = {"v1.0.1"}
  AutoRollbacks = {TRUE}
  Namespaces = {"own"}
  FaultKinds = {"crash", "error", "lost"}
  MaxFaults = 2
  MaxEdits = 0
  MaxIncarnations = 1
  MaxDeletions = 0
  FailingJobs = {"UpgradingCRDs", "UpgradingNetworkFabric"}
  UsedJobsExpire = TRUE
CHECK_DEADLOCK FALSE
INVARIANTS
  TypeOK
  OneJobAtATime
  StagesInOrder
  CompletedMeansAllStagesRan
  LastSuccessfulPhaseIsHonest
  PreviousVersionIsInstalled
  RollbackKnowsVersion
  RolledBackMeansRestored
  StagesHaveBackup
  Coherent
  Remembered
PROPERTIES
  PhaseOnlyAdvances
  PreviousVersionFrozen
  NoStageRepeats
  ImplementsLifecycle
