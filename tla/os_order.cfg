SPECIFICATION FairSpec
CONSTANTS
  Algorithms = {0, 2, 41}
  NPROCS = 4
  RUNCOUNT = 2
  Builds = {TRUE}
  ClockChoices = {TRUE, FALSE}
  SetupCalls <- MCCallOfExercise
  SetupArg <- MCTwoOne
  Word = 4
  COLS = 3
  ROWS = 2
  VideoCells = 8
  Blank = Blank
  KernelText = KernelText
INVARIANTS StaysOnScreen CooperativeOutput StrictOutput PriorityOutput
PROPERTIES AllExit
