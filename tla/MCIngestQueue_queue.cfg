SPECIFICATION Spec
CONSTANTS
  Model = {"clip", "siglip"}
  Kind = {"plain", "heic"}
  MaxAuto = 2
  MaxLifetime = 3
  MaxWords = 1
  MaxFaults = 1
  MaxMoves = 1
CHECK_DEADLOCK FALSE
INVARIANTS
  DoneIsFresh
PROPERTIES
  Settles
