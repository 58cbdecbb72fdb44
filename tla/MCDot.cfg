SPECIFICATION Spec
CONSTANTS
  AlphabetSize = 3
  MaxTextLen = 3
  StateLimit = 7
  Buckets = {0, 1}
  Hash <- MCHash
  Compiled <- MCCompiled
INVARIANTS
  GraphIsOfDfa
