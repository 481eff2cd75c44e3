SPECIFICATION MCSpec
CONSTANTS
    None = None
    Configs = {"a", "b", "c"}
    Scripts = {"s"}
    GoFiles <- MCGoFiles
    Texts = {"raw", "shared", "split", "tight", "neat", "lint", "long", "gen", "big", "bad"}
    Lintables = {"s"}
    Scored = {"s", "g"}
    Holds <- MCHolds
    Broken = {"bad"}
    Generated = {"gen"}
    Fix <- MCFix
    Finds <- MCFinds
    Layout <- MCLayout
    GoLayout <- MCGoLayout
    GoViolates <- MCGoViolates
    Score <- MCScore
    LIMIT = 3
    Allow = {"s", "h"}
    Jobs = 1
    Large = {"big"}
    Asked <- MCAsked
    BadLint = {"c"}
    VET = TRUE
    MaxFaults = 1
    MaxRuns = 2
INVARIANTS ReportsTruth FormattedPassesCheck
PROPERTIES ScriptsFinish RunEnds
CHECK_DEADLOCK FALSE
