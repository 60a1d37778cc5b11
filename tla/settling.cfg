SPECIFICATION FairSpec
CONSTANTS
  Runs = {r1}
  LaunchKeys = {l1}
  CancelKeys = {c1}
  RecoverKeys = {}
  Params = {p1}
  None = None
  BatchSize = 2
  TerminationAvailable = FALSE
  IoFaults = FALSE
  MaxProgress = 2
  MaxCrashes = 1
PROPERTIES
  CancelSettles
  ExitSettles
INVARIANTS
  HistoryShape
