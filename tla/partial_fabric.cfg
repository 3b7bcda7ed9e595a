SPECIFICATION Spec
CONSTANTS
  Tags <- MCTags
  Previous = "v1.0.0"
  Target = "v1.0.1"
  Contains <- MCContains
  CRDs = {"networks", "peerings"}
  Templates = {"client", "server"}
  Installed = {"ipam", "proxy", "fabric"}
  Gateways = {"gw-a", "gw-b"}
  Kind <- MCKind
  Missing = "missing"
  MaxFaults = 0
CHECK_DEADLOCK FALSE
INVARIANTS
  FailedFabricIsRolledBack
