SPECIFICATION MCSpec
CONSTANTS
    Servers = {s1, s2}
    Callers = {c1, c2}
    SecondServer = s2
    SecondCaller = c2
    Environments = {a, b}
    Version <- MCVersion
    MaxExe = 2
INVARIANTS
    SameResult
    AnsweredMeansRun
    NoNeedlessRerun
PROPERTIES
    EveryCallEnds
    ReplacedServerStops
CHECK_DEADLOCK FALSE
