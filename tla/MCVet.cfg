SPECIFICATION Spec
CONSTANTS
    a = a
    b = b
    x = x
    y = y
    Files = {a, b}
    Contents = {x, y}
    Passing <- MCPassing
    Absent = Absent
    Unseen = Unseen
    SETTLE = 2
    MARKS = 2
    MaxNow = 5
    Coarse <- MCCoarse
    KEEPS = FALSE
    FINE = FALSE
    CREATES = FALSE
INVARIANTS
    VerdictSound
