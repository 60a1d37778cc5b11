SPECIFICATION Spec
CONSTANTS
  Procs = {"launch", "reconcile"}
  Lines = {u1, u2}
  MaxFiles = 6
  Depth = 2
  MaxEdits = 2
  MaxLaunches = 2
  MaxCrashes = 1
  MaxOthers = 1
CONSTRAINT Followed
INVARIANTS
  SavedWorkSurvives
  OwnedUntilClean
  ReadersHaveSelector
CHECK_DEADLOCK FALSE
