SPECIFICATION FairSpec
CONSTANTS
  Tags <- MCTags
  Previous = "v1.0.0"
  Target = "v1.0.1"
  Contains <- MCContains
  CRDs = {"networks", "peerings"}
  Templates = {"client", "server"}
  Installed = {"ipam", "proxy", "fabric"}
  Gateways = {"gw-a", "gw-b"}
  Kind <- MCKind
  Missing = "missing"
  MaxFaults = 2
CHECK_DEADLOCK FALSE
INVARIANTS
  TypeOK
  NewCodeNeedsNewCRDs
  FaultsAccountFor
  MissedTwice
  RollbackMissesOnlyFaulted
PROPERTIES
  RecreatedFromNewTemplate
  KeepsContract
  GatewaysConverge
