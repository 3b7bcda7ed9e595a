SPECIFICATION Spec
CONSTANTS
  a = a
  b = b
  Names = {a, b}
  Versions = {"v1.0.0", "v1.0.1", "v1.0.2"}
  NoVersion = ""
  InstalledVersion = "v1.0.0"
  Compatible <- MCCompatible
  Targets = {"v1.0.1", "v1.0.2"}
  AutoRollbacks = {TRUE, FALSE}
  FailingJobs = {"UpgradingNetworkFabric"}
  MaxDeletions = 1
SYMMETRY SameNames
CHECK_DEADLOCK FALSE
INVARIANTS
  TypeOK
  Coherent
  CompletedHolds
  RolledBackHolds
PROPERTIES
  EachKeepsLifecycle
