SPECIFICATION FairSpec
CONSTANTS
  QLen = 2
  IdxMod = 4
  Device = {"kbd", "tablet"}
  RING = 2
  MaxEvents = 5
  Touched = {"known"}
INVARIANTS
  TypeOK
  BuffersConserved
  NoLostEdge
  InOrder
PROPERTIES
  RingIsFifo
  Delivered
