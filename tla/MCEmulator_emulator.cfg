SPECIFICATION Spec
CONSTANTS
  ByteBits = 2
  NRegs = 3
  RamSize = 23
  FifoSize = 2
  MaxSpins = 30
  Decode <- MCDecode
  Images <- MCImages
  Variants = {"model_verify", "modelsim"}
INVARIANTS
  TypeOK
  OneInFlight
  OneInstructionPerCycle
PROPERTIES
  ImplementsIsa
  CycleReturns
CHECK_DEADLOCK FALSE
