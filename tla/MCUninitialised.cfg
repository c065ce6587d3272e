SPECIFICATION Spec
CONSTANTS
  NQ = 4
  W = 2
  Packets = {"small"}
  Size <- MCSize
  MaxBytes = 3
  InitArr <- MCAnyBitmap
INVARIANT ServedQueueHoldsPacket
