SPECIFICATION Spec
CONSTANTS
  AlphabetSize = 2
  MaxTextLen = 3
  Compiled <- MCCompiled
INVARIANTS
  NothingLost
  GroupsAreOfOnePath
  GroupsAreDenoted
PROPERTIES
  Returns
