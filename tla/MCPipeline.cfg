SPECIFICATION FairSpec
CONSTANTS
    Texts = {t1, t2, t3}
    Prints = {p, q}
    Steps <- MCShortSteps
    FULL <- MCShort
    EXTRA_ROUNDS = 3
    STABLE_BUDGET = 2
    Unknown = Unknown
    Fails = Fails
    Broken = Broken
    None = None
INVARIANTS
    SameProgram
    Idempotent
    AppliedExact
PROPERTIES
    Terminates
CHECK_DEADLOCK FALSE
