SPECIFICATION Spec
CONSTANTS
  MaxGroupDepth = 2
  Inputs <- MCInputs
INVARIANTS
  TypeOK
  OneOwner
  OnlyGroupsLeak
  DepthIsTracked
  TreeIsOfPattern
  FirstErrorIsReported
