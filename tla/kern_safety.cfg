SPECIFICATION Spec
CONSTANTS
  Algorithms = {0, 1, 2, 7, 41, 42}
  NPROCS = 3
  Word = 2
  Priorities = {0, 1}
  Shares = {0, 1}
  Tickets = {0, 1}
  Statuses = {0, 1}
  Chars = {c1}
  Unhandled = {54}
  COLS = 1
  ROWS = 1
  VideoCells = 2
  ClockChoices = {TRUE}
  Blank = Blank
  KernelText = KernelText
  Context <- MCTwoContexts
  InitContext <- MCInitContext
INVARIANTS TypeOK RunsRunnable
PROPERTIES KeepsContexts ExitIsFinal HaltsForAReason
