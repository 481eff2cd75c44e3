SPECIFICATION SpecRules
CONSTANTS
    ByteA = ByteA
    ByteB = ByteB
    ByteX = ByteX
    Bytes = {ByteA, ByteB, ByteX}
    Source <- MCSource
    Inserted <- MCInserted
    MaxEdits = 3
    Rules = {"edits", "file", "list", "markup", "rounds", "markdown", "fences", "frame", "statements", "class",
             "bodies", "calls", "chain", "fingerprint", "sorting", "directives", "scores", "gofile", "plan", "workspace", "vetted",
             "call", "linter", "lint", "template"}
CHECK_DEADLOCK FALSE
INVARIANTS ConflictExact SpacingSound HostsKeepContent CodecsAgree PassesSound
    FingerprintSound SortSound ScoresExact GoReports LintAsConfigured
PROPERTIES EditsKeepMeaning RetainsMaximal
