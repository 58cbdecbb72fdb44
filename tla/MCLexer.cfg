SPECIFICATION Spec
CONSTANTS
  RepeatLimit = 10000
  Patterns <- MCPatterns
INVARIANTS
  TypeOK
  ClassesAreDenoted
  BoundsAreExact
  TokensAreContiguous
