SPECIFICATION FairSpec
CONSTANTS
  QLen = 2
  IdxMod = 4
  Device = {"kbd"}
  RING = 2
  MaxEvents = 3
  Touched = {"enabled", "known"}
PROPERTIES
  Delivered
