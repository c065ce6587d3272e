SPECIFICATION FairSpec
CONSTANTS
  f1 = f1
  f2 = f2
  f3 = f3
  Idle = Idle
  None = None
  Flow <- OneFlow
  Packets <- OnePackets
  Queues = {1}
  Keys = {0}
  BufCap = 4
  Pace = 1
  BloomLen = 2
  PauseSets = {{}}
  Configs <- OneConfig
  MaxFlight = 2
  MaxLoss = 1
PROPERTY RecoveredAreSent
CHECK_DEADLOCK FALSE
