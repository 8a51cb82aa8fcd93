CONSTANTS
  MaxTurns = 3
  MaxCrashes = 1
  MaxFailures = 1
  UserWaits = TRUE
SPECIFICATION FairSpec
INVARIANTS
  QuestionSurvivesRestart
  ClearForgets
PROPERTY
  LockReleased
CHECK_DEADLOCK FALSE
