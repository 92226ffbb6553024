SPECIFICATION MCSpec
CONSTANTS
  Nothing = Nothing
  Scope <- Scopes
  Lag = 1
  Skew = 1
  Window = 1
  Capacity = 2
  Drain = 1
  Idle = 2
  MaxTime = 3
  Budgets <- All
INVARIANTS
  WordsLandOnView
PROPERTIES
  DisarmSettles
CHECK_DEADLOCK FALSE
