SPECIFICATION Spec
CONSTANTS
  QLen = 2
  IdxMod = 4
  Task = {"desktop", "services"}
  Sector = {1, 2}
  Value = {"a", "b"}
  Callers = {"fs","vfs"}
  MaxCalls = 2
INVARIANTS
  NoStrayTransfer
