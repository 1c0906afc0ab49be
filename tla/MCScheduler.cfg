SPECIFICATION FairSpec
CONSTANTS
  NFrames = 12
  MaxSlots = 4
  MaxPid = 5
  KSTACK_FRAMES = 2
  PlanLen = 4
  PlanPages <- MCPlanPages
INVARIANTS
  TypeOK
  SomewhereToSwitch
  FramesPartitioned
  CpuFramesLive
  ScanFindsNextFit
PROPERTIES
  Lifecycle
  ReadyRuns
  ZombieReaped
