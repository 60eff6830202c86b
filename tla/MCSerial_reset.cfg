SPECIFICATION Spec
CONSTANTS
  DATA_WIDTH = 1
  DELAY_CLOCKS = 1
  MEMORY_DEPTH = 4
  CONSOLE_DELAY = 1
  CONSOLE_DEPTH = 3
  LISTEN_CLOCKS = 2
  RESET_CLOCKS = 6
  Words = {1, 2}
  MaxBytes = 2
  MaxTyped = 1
  ResetInputs = {TRUE, FALSE}
  Value <- MCValue
INVARIANTS
  TypeOK
  HeardAfterReset
  StoredOnce
