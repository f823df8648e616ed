SPECIFICATION Spec
CONSTANTS
  s1 = s1
  s2 = s2
  s3 = s3
  p1 = p1
  Peers = {p1}
  Servers = {s1, s2, s3}
  Frontend = s1
  Addr <- MCAddr
  NoEntry = NoEntry
  MaxRetries = 0
  LossyNetwork = FALSE
  TimelyNetwork = TRUE
  HeaderWords <- MCHeaderWords
  IpOf <- MCIpOf
  PortOf <- MCPortOf
  MaxRequests = 2
  MaxHops = 2
INVARIANT TypeOK
INVARIANT RoutingSafe
INVARIANT ServingReachable
 
INVARIANT NoLeakedEntry
INVARIANT SegmentsIntact
PROPERTY RequestAnswered
PROPERTY ConnectionReleased
PROPERTY FlowOwnershipSpec
CHECK_DEADLOCK FALSE
