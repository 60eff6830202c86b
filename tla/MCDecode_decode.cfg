SPECIFICATION Spec
CONSTANT Instructions <- MCInstructions
INVARIANTS
  DecodeInvertsAssemble
  DecodersAgree
  RowsExclusive
CHECK_DEADLOCK FALSE
