SPECIFICATION Spec
CONSTANTS
  Algorithms = {7}
  NPROCS = 5
  Word = 16
  Priorities = {0}
  Shares = {1}
  Tickets = {1, 2}
  Statuses = {0}
  Chars = {c1}
  Unhandled = {}
  COLS = 1
  ROWS = 1
  VideoCells = 1
  ClockChoices = {TRUE}
  Blank = Blank
  KernelText = KernelText
  Context <- MCContext
  InitContext <- MCInitContext
INVARIANTS LotteryMonotone
