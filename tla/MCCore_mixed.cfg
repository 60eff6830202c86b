SPECIFICATION Spec
CONSTANTS
  NWords = 4
  Byte <- MCByte
  InitialRam <- MCInitialRam
  Programs <- MixedPrograms
  ResetInputs = {TRUE, FALSE}
  TimerInputs = {TRUE, FALSE}
INVARIANTS
  TypeOK
  FetchedFromPC
  AckedRequestServed
  AcceptedIsCurrent
PROPERTIES
  NoStrayWrites
