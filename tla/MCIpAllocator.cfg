\* Every subnet of a space of 16 addresses, and every set of used addresses.
SPECIFICATION Spec
CONSTANTS
  Bytes = 2
  Bits = 2
INVARIANTS
  AnswerIsLowestFree
  AllocInv
PROPERTY
  SearchEnds
CHECK_DEADLOCK FALSE
