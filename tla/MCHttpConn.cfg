SPECIFICATION Spec
CONSTANTS
  HdrSizes = {1, 2}
  BodySizes = {0, 1, 2}
  MaxReqs = 2
  Serial = TRUE
  SplitHeaders = FALSE
  BadRequests = FALSE
  AnyCase = FALSE
  Tls = TRUE
  FalseStart = FALSE
  Handoffs = TRUE
INVARIANT TypeOK
INVARIANT ServedInOrder
INVARIANT NeverClosed
INVARIANT HandlerSeesRequest
PROPERTY NoRequestLost
CHECK_DEADLOCK FALSE
