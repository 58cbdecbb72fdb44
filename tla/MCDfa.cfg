SPECIFICATION Spec
CONSTANTS
  AlphabetSize = 3
  MaxTextLen = 3
  StateLimit = 7
  Buckets = {0, 1}
  Hash <- MCHash
  Compiled <- MCCompiled
INVARIANTS
  TypeOK
  OneStatePerSet
  TransitionsFollowSets
  StatesAreReachable
  BuiltRepresents
  SizesAreExact
  NothingForgotten
  SplitsAreNeeded
  MinimizedRepresents
  RunFollowsText
PROPERTIES
  KeepsPromise
  Returns
