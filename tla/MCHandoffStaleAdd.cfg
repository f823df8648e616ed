SPECIFICATION Spec
CONSTANTS
  s1 = s1
  s2 = s2
  s3 = s3
  p1 = p1
  Peers = {p1}
  Servers = {s1, s2, s3}
  Frontend = s1
  Addr <- MCAddr
  NoEntry = NoEntry
  MaxRequests = 2
  MaxHops = 2
  MaxRetries = 1
  LossyNetwork = FALSE
  TimelyNetwork = FALSE
  HeaderWords <- MCHeaderWords
  IpOf <- MCIpOf
  PortOf <- MCPortOf
INVARIANT NoLeakedEntry
CHECK_DEADLOCK FALSE
