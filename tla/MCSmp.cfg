SPECIFICATION FairSpec
CONSTANTS
  Worker = {"core1", "core2"}
  Primary = "core0"
  N = 3
CHECK_DEADLOCK FALSE
INVARIANTS
  TypeOK
  JoinExact
  NobodySleepsOverTheJob
PROPERTIES
  Joins
