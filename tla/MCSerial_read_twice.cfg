SPECIFICATION Spec
CONSTANTS
  DATA_WIDTH = 2
  DELAY_CLOCKS = 2
  MEMORY_DEPTH = 4
  CONSOLE_DELAY = 1
  CONSOLE_DEPTH = 2
  LISTEN_CLOCKS = 2
  RESET_CLOCKS = 8
  Words = {1}
  MaxBytes = 0
  MaxTyped = 3
  ResetInputs = {FALSE}
  Value <- MCValue
INVARIANT
  ReadInOrder
