SPECIFICATION Spec
CONSTANTS
  Runs = {r1}
  LaunchKeys = {l1}
  CancelKeys = {c1}
  RecoverKeys = {k1, k2}
  Params = {p1}
  None = None
  BatchSize = 2
  TerminationAvailable = TRUE
  IoFaults = FALSE
  MaxProgress = 0
  MaxCrashes = 2
SYMMETRY KeySymmetry
INVARIANTS
  AuditFollowsState
  AuditsCaughtUp
  StartupNeverRefuses
  HistoryFits
