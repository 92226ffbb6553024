SPECIFICATION MCSpec
CONSTANTS
    Model = {"m1", "m2"}
    Known = {"m1", "m2"}
    NoModel = NoModel
    MaxAttempts = 2
    MaxMoves = 2
INVARIANTS ReadyIsServed
CHECK_DEADLOCK FALSE
PROPERTIES BuildSettles
