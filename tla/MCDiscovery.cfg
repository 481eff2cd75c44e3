SPECIFICATION MCSpec
CONSTANTS
    None = None
    Dirs <- MCDirs
    Paths <- MCPaths
    Sources <- MCSources
    HEAD <- MCHead
    Texts <- MCTexts
    Silent <- MCSilent
    Contents <- MCContents
    Scopes <- MCScopes
    Backends = {"inotify", "kqueue"}
    Coarse <- MCCoarse
    KEEPS = {}
    SETTLE = 1
    BUDGET = 3
    REPORTS = 4
    SUSPECTS = 1
    MaxClock = 4
    MaxEvents = 1
    MaxRuns = 3
INVARIANT FindsAll
CHECK_DEADLOCK FALSE
