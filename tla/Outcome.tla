------------------------------ MODULE Outcome -------------------------------
(***************************************************************************)
(* What one file becomes in a run and what a run makes of it: the script   *)
(* lane's transform and the Go lane's finish (crates/engine/src), the      *)
(* FileOutcome and its verdict (crates/core/src/outcome.rs, engine's       *)
(* verdict), and the complexity findings with the staleness rules of the   *)
(* allow list (crates/engine/src/complexity.rs).                           *)
(*                                                                         *)
(* Linter, formatters, helper and scorer are functions on texts; nothing   *)
(* is assumed of what they make of a text they wrote themselves.  A file's *)
(* name is its key in the allow list; a text has at most one function.     *)
(***************************************************************************)
EXTENDS Naturals, FiniteSets, Sequences, Functions

CONSTANTS
    None,
    Configs,          \* configurations
    Scripts,          \* the script and host files
    GoFiles,          \* the Go files, in the order discovery found them
    Lintables,        \* the script files of a language the linter knows
    Scored,           \* the files that are scored: no test, no declaration file
    Texts,            \* what a file may hold
    Large,            \* texts too large for a frame of the helper
    Broken,           \* texts that no formatter accepts
    Generated,        \* texts marked as generated
    Fix(_, _, _),     \* linter, file, text: the text after the linter's fixes
    Finds(_, _, _),   \* linter, file, text: the severities the linter reports
    Layout(_, _),     \* configuration, text: the text after the formatter
    GoLayout(_),      \* the text after the helper's steps
    GoViolates(_),    \* whether the helper reports violations of a text
    Score(_),         \* the score of the text's function; 0: it has none
    LIMIT,            \* the limit on scores; 0: the metric is off
    Allow             \* the files whose function is allowed

ASSUME FilesAssumption ==
    /\ GoFiles \in Seq(Range(GoFiles)) /\ Scripts \cap Range(GoFiles) = {}
    /\ Lintables \subseteq Scripts
    /\ Large \cup Broken \cup Generated \subseteq Texts
    /\ None \notin Configs \cup Texts \cup {"failed", "read", "write"}
    /\ LIMIT \in Nat

\* What the tools return.  Laying out a text leaves its function in it: the lane
\* asks for a changed file's scores again only where the reply had some.
ASSUME TextAssumption ==
    \A t \in Texts :
        /\ GoLayout(t) \in Texts /\ GoViolates(t) \in BOOLEAN /\ Score(t) \in Nat
        /\ t \notin Broken /\ Score(GoLayout(t)) = 0 => Score(t) = 0
        /\ \A config \in Configs : Layout(config, t) \in Texts
        /\ \A linter \in Configs, f \in Lintables :
              Fix(linter, f, t) \in Texts /\ Finds(linter, f, t) \subseteq {"error", "warning"}

Files == Scripts \cup Range(GoFiles)

\* The scores of a file's text, and the text whose lines they name.
scores_of(f, t) ==
    IF f \notin Scored \/ Score(t) = 0 THEN None ELSE [value |-> Score(t), at |-> t]

\* FileOutcome, of which None is no value.
FileOutcomes == [error : {None, "failed", "read", "write"}, changed : BOOLEAN,
                 lint : SUBSET {"error", "warning"}, violations : BOOLEAN,
                 scores : {None} \cup [value : Nat, at : Texts]]
ASSUME OutcomeAssumption == None \notin FileOutcomes /\ None \notin [value : Nat, at : Texts]

\* FileOutcome::new and failed.
NewOutcome == [error |-> None, changed |-> FALSE, lint |-> {}, violations |-> FALSE, scores |-> None]
FailedOutcome == [NewOutcome EXCEPT !.error = "failed"]

\* The linter looks at the languages it knows.
fixed(linter, f, t) == IF f \in Lintables THEN Fix(linter, f, t) ELSE t
found(linter, f, t) == IF f \in Lintables THEN Finds(linter, f, t) ELSE {}

\* script_lane::transform: fixes, formatter, diagnostics.  Check mode reports
\* on the text on disk.
output(config, linter, f, t) == Layout(config, fixed(linter, f, t))
lints(config, linter, mode, f, t) ==
    LET mended == fixed(linter, f, t)  out == output(config, linter, f, t) IN
    IF mode = "check" /\ mended # t THEN found(linter, f, t)
    ELSE IF mode = "check" \/ found(linter, f, mended) = {} \/ out = mended
    THEN found(linter, f, mended) ELSE found(linter, f, out)

transform(config, linter, mode, f, t) ==
    IF t \in Broken THEN FailedOutcome
    ELSE LET out == output(config, linter, f, t) IN
    [NewOutcome EXCEPT !.changed = (out # t), !.lint = lints(config, linter, mode, f, t),
                       !.scores = scores_of(f, IF mode = "check" THEN t ELSE out)]

\* go_lane::finish on the helper's reply, which reports violations whether or not
\* the text changed, and scores the text it made.
reply_outcome(f, t) ==
    IF t \in Broken THEN FailedOutcome
    ELSE LET out == GoLayout(t) IN
    [NewOutcome EXCEPT !.changed = (out # t), !.violations = GoViolates(t),
                       !.scores = scores_of(f, out)]

\* What is stored for the text that was just written.
clean(o) == [o EXCEPT !.changed = FALSE, !.violations = FALSE]

\* What the lanes report on a file that holds t, nothing being stored.
Reference(config, mode, f, t) ==
    IF t \in Generated THEN None
    ELSE IF f \in Scripts THEN transform(config, config, mode, f, t)
    ELSE IF t \in Large THEN FailedOutcome
    ELSE IF mode = "check" /\ t \notin Broken
    THEN [reply_outcome(f, t) EXCEPT !.scores = scores_of(f, t)]
    ELSE reply_outcome(f, t)

-----------------------------------------------------------------------------
(* outcomes maps the files of the report to their outcomes *)

\* breach: a limit of zero turns the metric off.
Breaches(outcomes) ==
    {f \in DOMAIN outcomes : /\ f \notin Allow /\ LIMIT > 0
                              /\ outcomes[f].scores # None /\ outcomes[f].scores.value > LIMIT}

\* stale_entries: an entry of a selected lane that matches no function, in a
\* file this run scores or that is gone.
LaneOf(f) == IF f \in Scripts THEN "ts" ELSE "go"
Stale(outcomes, lanes, scope, present) ==
    LET matched == {f \in DOMAIN outcomes : outcomes[f].scores # None}
        failed  == {f \in DOMAIN outcomes : outcomes[f].error # None} IN
    {f \in Allow : /\ LaneOf(f) \in lanes /\ f \notin matched
                   /\ f \in (scope \cap Scored) \ failed \/ f \notin present}

evaluate(outcomes, lanes, scope, present) ==
    Breaches(outcomes) \cup Stale(outcomes, lanes, scope, present)

\* Files that changed decide first.
verdict_FixedFirst(mode, outcomes, findings, vet) ==
    IF mode = "format" /\ \E f \in DOMAIN outcomes : outcomes[f].changed THEN "fixed"
    ELSE IF findings # {} \/ vet = "errors" \/ \E f \in DOMAIN outcomes : outcomes[f].changed
    THEN "fail" ELSE "pass"

\* verdict: warnings never fail a run; violations fail a check.
verdict(mode, outcomes, findings, vet) ==
    LET reported == {outcomes[f] : f \in DOMAIN outcomes}
        unresolved == {o \in reported : o.error # None \/ "error" \in o.lint
                                           \/ (mode = "check" /\ o.violations)} IN
    IF unresolved # {} \/ findings # {} \/ vet = "errors" THEN "fail"
    ELSE IF \A o \in reported : ~o.changed THEN "pass"
    ELSE IF mode = "check" THEN "fail" ELSE "fixed"
=============================================================================
