SPECIFICATION Spec
CONSTANTS
  a = a
  b = b
  c = c
  f1 = f1
  f2 = f2
  f3 = f3
  Idle = Idle
  None = None
  Dev <- MCDev
  Node <- MCNode
  Flows <- MCFlows
  Vfid <- MCVfid
  Route <- MCRoute
  Offered <- MCOffered
  PfcFrom <- MCPfcFrom
  AckOut = {}
  DataQ = {3, 4}
  W = 2
  PrevQ = {3, 5}
  BloomLen = 1
  CounterMod = 64
  Bloom0 <- MCBloom0
  Counter0 <- MCCounter0
  Received0 <- MCReceived0
  Threshold = 1
  MaxQueue = 2
  MaxCtl = 1
PROPERTY VirtualFlowsAreFifo
