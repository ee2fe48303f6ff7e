SPECIFICATION Spec
CONSTANTS
  Word = 4096
  NUMBUFSIZ = 5
  NumOf <- MCNumOf
  Calls <- MCCalls
INVARIANTS
  Rendered
  NumbufFits
CHECK_DEADLOCK FALSE
