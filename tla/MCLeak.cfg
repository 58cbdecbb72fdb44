SPECIFICATION Spec
CONSTANTS
  MaxGroupDepth = 2
  Inputs <- MCInputs
INVARIANTS
  NothingLeaks
