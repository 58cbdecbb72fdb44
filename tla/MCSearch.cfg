SPECIFICATION Spec
CONSTANTS
  AlphabetSize = 2
  MaxTextLen = 4
  IntBits = 8
  SizeBits = 12
  Compiled <- MCCompiled
INVARIANTS
  TypeOK
  NothingMissed
PROPERTIES
  KeepsContract
  Returns
