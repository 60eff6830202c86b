SPECIFICATION Spec
CONSTANTS
  NWords = 8
  Byte <- MCByte
  InitialRam <- MCInitialRam
  Programs <- LoadInterrupted
  ResetInputs = {FALSE}
  TimerInputs = {TRUE, FALSE}
INVARIANTS
  LoadTakesOwnData
