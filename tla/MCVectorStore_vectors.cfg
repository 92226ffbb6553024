SPECIFICATION MCSpec
CONSTANTS
  u1 = u1
  u2 = u2
  Unit <- Two
  MaxCalls = 2
  MaxCrash = 1
INVARIANTS
  LiveRowIsOwn
  RedactionHolds
PROPERTIES
  EventuallyEmbedded
CHECK_DEADLOCK FALSE
