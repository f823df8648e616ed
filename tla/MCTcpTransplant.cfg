SPECIFICATION Spec
CONSTANTS
  MaxBytes = 2
  NoRecord = NoRecord
  MaxHandoffs = 2
  QuiescentExport = TRUE
  NDEBUG = FALSE
  UseTLS = TRUE
  TsMod = 8
  MaxTicks = 2
  SndWscale = 7
  RcvWscale = 2
INVARIANT StreamSynchronized
INVARIANT RepairNotLeaked
INVARIANT ClientAcceptsSegments
PROPERTY BytesDelivered
CHECK_DEADLOCK FALSE
