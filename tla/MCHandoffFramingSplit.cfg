SPECIFICATION Spec
CONSTANTS
  Sizes <- MCSizes
  MaxRecords = 3
  SplitFrames = FALSE
  BufInit = 12
  BufLow = 2
  BufGrow = 8
INVARIANT FramesIntact
CHECK_DEADLOCK FALSE
