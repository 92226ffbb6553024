SPECIFICATION MCSpec
CONSTANTS
  p = p
  q = q
  d1 = d1
  d2 = d2
  r1 = r1
  Local = {d1}
  Remote = {r1}
  Thread = {p, q}
  Duty <- Everyone
  Places = {"writable", "unwritable", "offline"}
  MaxTries = 2
  MaxMoves = 3
  MaxEdits = 1
  MaxCrashes = 0
  Ticker = p
INVARIANTS
  CleanMeansMirrored
  AdjacentScrubbed
PROPERTIES
  NeverDestroy
CHECK_DEADLOCK FALSE
