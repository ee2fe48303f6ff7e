SPECIFICATION Spec
CONSTANTS
  Word = 4096
  NUMBUFSIZ = 5
  NumOf <- MCNumOf
  Calls <- MCShort
INVARIANTS
  NumberInFull
CHECK_DEADLOCK FALSE
