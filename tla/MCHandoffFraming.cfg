SPECIFICATION Spec
CONSTANTS
  Sizes <- MCSizes
  MaxRecords = 3
  SplitFrames = FALSE
  BufInit = 60
  BufLow = 2
  BufGrow = 8
INVARIANT FramesIntact
PROPERTY AllRecordsHandled
CHECK_DEADLOCK FALSE
