SPECIFICATION Spec
CONSTANTS
  Port <- MCPort
  Queue <- MCQueue
  Traffic <- MCTraffic
  Sizes <- MCSizes
  Guarantee = 6
  SpLimit = 9
  Wrap = 64
  MaxHeld = 4
INVARIANTS
  TypeOK
  IngressExact
  HeadroomCovered
  EgressExact
  WrapsByLessThanAPacket
