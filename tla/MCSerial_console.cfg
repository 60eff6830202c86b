SPECIFICATION FairSpec
CONSTANTS
  DATA_WIDTH = 7
  DELAY_CLOCKS = 217
  MEMORY_DEPTH = 4
  CONSOLE_DELAY = 1
  CONSOLE_DEPTH = 3
  LISTEN_CLOCKS = 2
  RESET_CLOCKS = 1048574
  Words = {85, 170}
  MaxBytes = 4
  MaxTyped = 0
  ResetInputs = {FALSE}
  Value <- MCValue
INVARIANTS
  AcceptedNotDropped
  HeardInOrder
PROPERTIES
  EventuallyHeard
  AccessesComplete
