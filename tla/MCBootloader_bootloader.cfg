SPECIFICATION Spec
CONSTANTS
  A = A
  B = B
  CR = CR
  NUL = NUL
  P = P
  Char = {A, B, CR, NUL, P}
  BufferSize = 3
  Commands <- MCCommands
  Depth = 2
INVARIANT
  TypeOK
PROPERTIES
  DetectsWhatIsTyped
  OverrunReported
  Prompts
