CONSTANTS
  N = 2
  Ip <- MCIp
  MyIp <- MCMyIp
  Hosts <- MCHosts
  NoFrame = NoFrame
  RouteOf <- MCRouteOf
  InitialArp <- MCArp
  ROOM = 4
  Misread <- MCMisread
  Loops = {1, 5}
  MaxTtl = 3
  MaxFrames = 2
SPECIFICATION FairSpec
INVARIANTS LoopsDie ArpIntact ForwardedRight
PROPERTY Quiesces
\* The hosts stop sending.
CHECK_DEADLOCK FALSE
