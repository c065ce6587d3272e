SPECIFICATION FSpec
CONSTANTS
  NQ = 6
  W = 2
  Packets = {"small", "big"}
  Size <- MCSize
  MaxBytes = 5
  InitArr <- MCZeroed
INVARIANTS
  TypeOK
  ActiveExact
  ServedQueueHoldsPacket
  WorkConserving
  BytesExact
  BoundedBypass
