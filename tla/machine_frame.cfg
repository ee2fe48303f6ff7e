SPECIFICATION Spec
CONSTANTS
  Procs = {1, 2}
  First = 1
  Values = {0, 1}
  DataSelector <- MCDataSelector
  ClockChoices = {TRUE, FALSE}
  Interrupts = {32, 53, 54}
  Exceptions = {"divide_error", "protection"}
  Devices = {0, 1, 14}
INVARIANTS FrameIsRegisters
