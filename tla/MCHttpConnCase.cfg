SPECIFICATION Spec
CONSTANTS
  HdrSizes = {1, 2}
  BodySizes = {0, 1, 2}
  MaxReqs = 2
  Serial = TRUE
  SplitHeaders = FALSE
  BadRequests = FALSE
  AnyCase = TRUE
  Tls = FALSE
  FalseStart = FALSE
  Handoffs = FALSE
INVARIANT NeverClosed
