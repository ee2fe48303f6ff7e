SPECIFICATION FairSpec
CONSTANTS
  Algorithms = {42}
  NPROCS = 3
  Word = 3
  Priorities = {0}
  Shares = {0, 1}
  Tickets = {1}
  Statuses = {0}
  Chars = {c1}
  Unhandled = {}
  COLS = 1
  ROWS = 1
  VideoCells = 1
  ClockChoices = {TRUE}
  Blank = Blank
  KernelText = KernelText
  Context <- MCContext
  InitContext <- MCInitContext
PROPERTIES PicksARunnable
