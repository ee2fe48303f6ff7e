SPECIFICATION MCFairDrawSpec
CONSTANTS
  Algorithms = {0, 2, 7, 41, 42}
  NPROCS = 5
  Word = 16
  Priorities = {0, 1}
  Shares = {0, 1, 2}
  Tickets = {1, 3}
  Statuses = {0}
  Chars = {c1}
  Unhandled = {}
  COLS = 1
  ROWS = 1
  VideoCells = 1
  ClockChoices = {TRUE}
  Blank = Blank
  KernelText = KernelText
  Context <- MCContext
  InitContext <- MCInitContext
INVARIANTS LotteryExact ShareWithinAmount
PROPERTIES RoundRobinFair EqualPriorityFair ShareFair ImplementsFairPolicy
