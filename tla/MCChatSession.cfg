CONSTANTS
  MaxTurns = 3
  MaxCrashes = 1
  MaxFailures = 0
  UserWaits = FALSE
SPECIFICATION Spec
INVARIANTS
  SessionLock
  OneExecutionPerQuestion
  CancelledNeverRuns
CHECK_DEADLOCK FALSE
