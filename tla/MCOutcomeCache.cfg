SPECIFICATION MCSpec
CONSTANTS
    Procs = {p1, p2}
    Second = p2
    Configs = {"strict", "lax"}
    Modes = {"format", "check"}
    Contents = {"raw", "once", "neat", "broken", "generated"}
    Failed = {"broken"}
    Generated = {"generated"}
    Format <- MCFormat
    Coarse <- MCCoarse
    SETTLE = 2
    BUDGET = 2
    MaxClock = 3
    MaxEdits = 2
INVARIANTS
    StoreCoherent
    HitNeedsNoWrite
    HitIsCurrent
PROPERTIES
    CleanMeansSaved
CHECK_DEADLOCK FALSE
