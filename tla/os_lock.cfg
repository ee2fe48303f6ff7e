SPECIFICATION FairDrawSpec
CONSTANTS
  Algorithms = {0, 2, 7, 41, 42}
  NPROCS = 3
  RUNCOUNT = 2
  Builds = {TRUE, FALSE}
  ClockChoices = {TRUE}
  SetupCalls <- MCCallOrNot
  SetupArg <- MCOneTwo
  Word = 4
  COLS = 2
  ROWS = 2
  VideoCells = 5
  Blank = Blank
  KernelText = KernelText
INVARIANTS TypeOK MutualExclusion NothingLost
PROPERTIES AllExit ImplementsKern
