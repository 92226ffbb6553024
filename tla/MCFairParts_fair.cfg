SPECIFICATION FairSpec
CONSTANTS
    Path = {1}
    Content = {"x", "y"}
    Missing = Missing
    World <- HalvesOnly
    Id = {1, 2, 3, 4, 5}
    MaxChanges = 2
    MaxUpsets = 1
    Image = {"i", "j"}
    Embedder = {"m1", "m2"}
    MaxLoads = 2
    MaxFaults = 2
    Wanted = {"w", "x"}
    Off = Off
    MaxEnqueued = 2
    MaxVerifies = 1
    Seats = {1}
    Ready = {"image", "text"}
    MaxRows = 2
    MaxTurns = 2
INVARIANTS DoneHasVector MicPreempts
PROPERTIES IndexConverges RepairFollows DownloadSettles NoLaneStarves WakeIsReconciled
CHECK_DEADLOCK FALSE
