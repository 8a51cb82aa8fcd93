CONSTANTS
  write = write
  delete = delete
  search = search
  p1 = p1
  rewritten = rewritten
  None = None
  Caps <- MCCaps
  CommandTools <- MCCommandTools
  McpTools <- MCMcpTools
  HighRisk <- MCHighRisk
  Params <- MCParams
  Rewritten <- rewritten
  Targets <- MCTargets
  Plans <- MCPlans
  MaxSteps = 3
  MaxRepeatActions = 2
  MaxVerifyAttempts = 1
  MaxResumes = 1
SPECIFICATION Spec
PROPERTY
  ApprovalHonoured
CHECK_DEADLOCK FALSE
