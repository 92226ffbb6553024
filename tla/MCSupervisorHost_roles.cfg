SPECIFICATION MCSpec
CONSTANTS
  p1 = p1
  p2 = p2
  modelA = modelA
  modelB = modelB
  None = None
  Pid <- Two
  Gates <- Installed
  HasLock = TRUE
  MaxAttempts = 1
  Window = 2
  StartTimeout = 1
  BackoffBase = 1
  BackoffCap = 1
  Grace = 1
  Target <- Both
  MaxPlans = 2
  MaxRestarts = 1
  MaxLaunches = 1
INVARIANTS
  OwnedOrRecorded
  
PROPERTIES
  NoResurrection
  PlanIsFollowed
CHECK_DEADLOCK FALSE
