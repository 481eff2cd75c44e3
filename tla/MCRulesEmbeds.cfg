SPECIFICATION SpecRules
CONSTANTS
    ByteA = ByteA
    ByteB = ByteB
    ByteX = ByteX
    Bytes = {ByteA, ByteB, ByteX}
    Source <- MCSource
    Inserted <- MCInserted
    MaxEdits = 3
    Rules = {"file"}
CHECK_DEADLOCK FALSE
INVARIANT DirectivesRepaired
