SPECIFICATION MCSpec
CONSTANTS
  t1 = t1
  t2 = t2
  c1 = c1
  Nobody = Nobody
  Task = {t1, t2}
  Command = {c1}
  Lane <- Lanes
  Budget = 1
  Restorer = t2
  Long = {}
INVARIANTS
  FinalStepsAreAlone
PROPERTIES
  QuietQuitEnds
CHECK_DEADLOCK FALSE
