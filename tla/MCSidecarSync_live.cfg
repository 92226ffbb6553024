SPECIFICATION ShellSpec
CONSTANTS
  p = p
  q = q
  d1 = d1
  d2 = d2
  r1 = r1
  Local = {d1}
  Remote = {}
  Thread = {p, q}
  Duty <- TwoFlushers
  Places = {"writable", "unwritable", "offline"}
  MaxTries = 3
  MaxMoves = 2
  MaxEdits = 0
  MaxCrashes = 1
  Ticker = p
PROPERTIES
  EventuallyMirrored
CHECK_DEADLOCK FALSE
