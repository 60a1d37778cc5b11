SPECIFICATION Spec
CONSTANTS
  Runs = {r1}
  LaunchKeys = {l1}
  CancelKeys = {c1}
  RecoverKeys = {k1}
  Params = {p1}
  None = None
  BatchSize = 2
  TerminationAvailable = FALSE
  IoFaults = TRUE
  MaxProgress = 0
  MaxCrashes = 1
SYMMETRY KeySymmetry
INVARIANTS
  TypeOK
  CancellationWins
  ConfirmedIsTrue
  OutcomeMeansExited
  NoSignalBeforeAcceptance
PROPERTIES
  TerminalFrozen
  ImplementsLifecycle
