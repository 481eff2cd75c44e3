SPECIFICATION Spec
CONSTANTS
    None = None
    Dirs <- MCDirs
    Paths <- MCPaths
    Sources <- MCSources
    HEAD <- MCHead
    Texts <- MCTexts
    Silent <- MCSilent
    Contents <- MCContents
    Scopes <- ScopedScopes
    Backends = {}
    Coarse <- MCCoarse
    KEEPS = {}
    SETTLE = 1
    BUDGET = 3
    REPORTS = 4
    SUSPECTS = 1
    MaxClock = 4
    MaxEvents = 1
    MaxRuns = 3
INVARIANT FindsAllAlways
CHECK_DEADLOCK FALSE
