SPECIFICATION Spec
CONSTANTS
  ByteBits = 4
  NRegs = 1
  MaxI = 2000
  SIZE = 1048576
  Operand <- MCOperand
INVARIANTS
  AgreesWithGolden
  BranchesAgree
PROPERTY
  SoundBlocksPass
CHECK_DEADLOCK FALSE
