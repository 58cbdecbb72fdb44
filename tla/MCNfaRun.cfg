SPECIFICATION Spec
CONSTANTS
  AlphabetSize = 2
  MaxTextLen = 3
  Compiled <- MCCompiled
  Tree <- MCNodes
INVARIANTS
  TypeOK
  SetsAreLive
  AnswerIsDenoted
PROPERTIES
  KeepsPromise
  Returns
