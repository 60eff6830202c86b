SPECIFICATION FairSpec
CONSTANTS
  NWords = 4
  Byte <- MCByte
  InitialRam <- MCInitialRam
  Programs <- IsaPrograms
  ResetInputs = {FALSE}
  TimerInputs = {TRUE, FALSE}
INVARIANTS
  LoadReady
  LoadTakesOwnData
PROPERTIES
  ImplementsIsa
  InstructionsComplete
