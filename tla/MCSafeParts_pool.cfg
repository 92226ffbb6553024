SPECIFICATION PoolSpec
CONSTANTS
    p1 = p1
    p2 = p2
    None = None
    Pid <- Two
    Gates = {"installed", "downloading", "notConfigured"}
    HasLock = TRUE
    MaxAttempts = 2
    Window = 5
    StartTimeout = 1
    BackoffBase = 1
    BackoffCap = 2
    Grace = 1
    Model = {"m1"}
    Wait = 1
    Unpause = 1
    MaxJobs = 3
    MaxTime = 2
    MaxLosses = 2
    Weights = {"w", "x"}
    Nothing = Nothing
    Unreadable = Unreadable
    AtRest = AtRest
    MaxVersion = 2
    MaxMishaps = 3
    Name = {1, 2}
    No = No
    Still = Still
    Foreign <- MCForeign
    Torn = Torn
    Newer = Newer
    MaxEdits = 2
    MaxSlips = 2
    Path = {1, 2}
    Content = {"x", "y"}
    Systems <- AllWorlds
    Id = {1, 2, 3, 4, 5, 6, 7, 8}
    MaxChanges = 2
    MaxUpsets = 1
    d1 = d1
    d2 = d2
    t1 = t1
    t2 = t2
    t3 = t3
    Drain = {d1, d2}
    Thread = {t1, t2}
    Widths = {1, 2}
    MaxRows = 3
PROPERTY DrainEnds
CHECK_DEADLOCK FALSE
