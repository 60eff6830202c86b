SPECIFICATION Spec
CONSTANTS
  MEMORY_DEPTH = 4
  Value = {0, 1, 2}
INVARIANTS
  TypeOK
  PointersAgree
PROPERTIES
  ImplementsQueue
