SPECIFICATION FairSpec
CONSTANTS
  f1 = f1
  f2 = f2
  f3 = f3
  Idle = Idle
  None = None
  Flow <- MCFlow
  Packets <- MCPackets
  Queues = {1, 2}
  Keys = {0, 1, 2}
  BufCap = 3
  Pace = 1
  BloomLen = 2
  PauseSets <- MCPauseSets
  Configs <- MCConfigs
  MaxFlight = 2
  MaxLoss = 1
INVARIANTS
  TypeOK
  QueuesConserved
  ActiveHoldsPacket
  UnreceivedIsBuffered
  EntryFreed
  InTransitExact
PROPERTIES
  WindowObeyed
  DeliverySpec
  AllFinish
CHECK_DEADLOCK FALSE
