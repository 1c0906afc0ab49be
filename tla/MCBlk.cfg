SPECIFICATION FairSpec
CONSTANTS
  QLen = 1
  IdxMod = 2
  Task = {"desktop", "services"}
  Sector = {1, 2}
  Value = {"a", "b"}
  Callers = {"fs"}
  MaxCalls = 3
INVARIANTS
  TypeOK
  NoStrayTransfer
PROPERTIES
  IsSynchronous
  CallsReturn
