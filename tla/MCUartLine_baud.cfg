SPECIFICATION Spec
CONSTANTS
  DATA_WIDTH = 7
  DELAY_CLOCKS = 217
  MEMORY_DEPTH = 4
  Periods = {205, 217, 218}
  Sent = {0, 85, 127, 170, 255}
  MaxFrames = 2
  Value <- MCValue
INVARIANTS
  FramesReceived
  StoredInTime
