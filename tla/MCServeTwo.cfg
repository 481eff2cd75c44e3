SPECIFICATION MCSpec
CONSTANTS
    Servers = {s1, s2}
    Callers = {c1, c2}
    SecondServer = s2
    SecondCaller = c2
    Environments = {a, b}
    Version <- MCVersion
    MaxExe = 2
INVARIANT OneServer
CHECK_DEADLOCK FALSE
