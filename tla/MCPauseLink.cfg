SPECIFICATION LFairSpec
CONSTANTS
  a1 = a1
  b1 = b1
  a2 = a2
  c2 = c2
  f1 = f1
  f2 = f2
  Idle = Idle
  Dev <- MCDev
  Node <- MCNode
  Flows <- MCFlows
  Vfid <- MCVfid
  Route <- MCRoute
  Offered <- MCOffered
  PfcFrom = {}
  AckOut = {}
  DataQ = {3, 4}
  W = 2
  PrevQ = {3, 4}
  BloomLen = 2
  CounterMod = 64
  Bloom0 <- MCBloom0
  Counter0 <- MCCounter0
  Received0 <- MCReceived0
  Threshold = 1
  MaxQueue = 4
  MaxCtl = 1
  Joined <- MCJoined
  Peer <- MCPeer
  Arrivals <- MCArrivals
  MaxLink <- MCMaxLink
  MaxLoss = 1
INVARIANTS
  NoStalePause
  PausedForPackets
PROPERTIES
  AllDelivered
  AllResumed
CHECK_DEADLOCK FALSE
