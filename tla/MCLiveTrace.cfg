CONSTANTS
  MaxStarted = 3
  MaxTraces = 2
  MaxEvents = 2
  QueueSize = 2
  MaxSequence = 4
  EventStatuses = {"", "needs_confirm", "completed"}
  FinalStatuses = {"failed"}
SPECIFICATION FairSpec
INVARIANTS
  RegistryBounded
  SilentTracesGoFirst
  NoUpdateLost
PROPERTY
  ViewerCatchesUp
CHECK_DEADLOCK FALSE
