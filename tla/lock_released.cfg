SPECIFICATION Spec
CONSTANTS
  Procs = {p1, p2}
  NoProc = NoProc
  MaxCalls = 2
  MaxCrashes = 0
INVARIANTS
  MutualExclusion
CHECK_DEADLOCK FALSE
