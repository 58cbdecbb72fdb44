SPECIFICATION Spec
CONSTANTS
  AlphabetSize = 3
  MaxTextLen = 2
  StateLimit = 20
  Buckets = {0, 1}
  Hash <- MCHash
  Compiled <- MCCompiled
INVARIANTS
  EquivalentStatesMerged
