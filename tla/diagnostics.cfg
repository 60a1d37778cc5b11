SPECIFICATION Spec
CONSTANTS
  Producers = {"stdout", "stderr"}
  Capacity = 3
  MaxBytes = 4
  MaxCrashes = 1
INVARIANTS
  TypeOK
  ExposedIsReceived
  OutcomeRangesReadable
CHECK_DEADLOCK FALSE
