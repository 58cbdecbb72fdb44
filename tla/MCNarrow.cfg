SPECIFICATION Spec
CONSTANTS
  AlphabetSize = 2
  MaxTextLen = 4
  IntBits = 3
  SizeBits = 5
  Compiled <- MCCompiled
INVARIANTS
  NothingMissed
