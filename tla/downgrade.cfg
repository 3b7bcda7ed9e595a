SPECIFICATION Spec
CONSTANTS
  Parts <- MCParts
  Number <- MCNumber
  NoVersion = NoVersion
  Images <- MCImages
  Remotes <- MCRemotes
  Matrices <- MCMatrices
  Targets <- MCTargets
CHECK_DEADLOCK FALSE
INVARIANTS
  OnlyForward
