SPECIFICATION Spec
CONSTANTS
  MaxNfaStates = 3
  MaxDfaStates = 4
INVARIANTS
  MemoryIsSafe
  NothingElseStays
  ObjectIsWhole
PROPERTIES
  OutTellsResult
