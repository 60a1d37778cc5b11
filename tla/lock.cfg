SPECIFICATION FairSpec
CONSTANTS
  Procs = {p1, p2, p3}
  NoProc = NoProc
  MaxCalls = 1
  MaxCrashes = 2
INVARIANTS
  TypeOK
  NothingLeftBehind
PROPERTIES
  SurvivorAcquires
CHECK_DEADLOCK FALSE
