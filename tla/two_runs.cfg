SPECIFICATION Spec
CONSTANTS
  Runs = {r1, r2}
  LaunchKeys = {l1, l2}
  CancelKeys = {}
  RecoverKeys = {}
  Params = {p1, p2}
  None = None
  BatchSize = 2
  TerminationAvailable = FALSE
  IoFaults = FALSE
  MaxProgress = 0
  MaxCrashes = 1
SYMMETRY KeySymmetry
INVARIANTS
  OneRunPerKey
PROPERTIES
  NeverRelaunched
