------------------------------ MODULE Pipeline ------------------------------
(***************************************************************************)
(* The formatting of one script: rounds of a schedule of steps, each step  *)
(* checked by a parse and a fingerprint, until a round changes nothing     *)
(* (crates/ts/src/pipeline.rs).                                            *)
(*                                                                         *)
(* A text is a model value.  What a step makes of a text, and what a text  *)
(* parses to, are functions the model knows nothing about: `does' and      *)
(* `reads' remember the answers given so far, and a question asked for the *)
(* first time has any answer.  The code relies on the same: its passes,    *)
(* oxc_formatter and its parser are deterministic, and no more is assumed. *)
(*                                                                         *)
(* `nth' counts the calls of format_source: a file formatted by one run of *)
(* the program is found formatted by the next one.                         *)
(***************************************************************************)
EXTENDS Naturals, Sequences, FiniteSets

CONSTANTS
    Texts,          \* the texts a file may have
    Prints,         \* the fingerprints of programs
    Steps,          \* the passes, and oxc_formatter
    FULL,           \* the schedule: a sequence of [step, budget]
    EXTRA_ROUNDS,   \* the rounds that may follow the first
    Unknown,        \* a question not asked yet
    Fails,          \* a step that gives up: conflicting edits, no output
    Broken,         \* a text that does not parse
    None            \* Rust's None

ASSUME StepsAssumption ==
    /\ FULL \in Seq([step : Steps, budget : Nat \ {0}])
    /\ EXTRA_ROUNDS \in Nat

ASSUME ValuesAssumption ==
    /\ Unknown \notin Texts \cup {Fails} \cup Prints \cup {Broken}
    /\ Fails \notin Texts
    /\ Broken \notin Prints
    /\ None \notin Texts \cup Prints \cup {Broken} \cup Steps

VARIABLES
    does,           \* what a step makes of a text
    reads,          \* the fingerprint of a text
    declaration,    \* the file is a declaration file
    score,          \* complexity scores were asked for
    nth,            \* the calls of format_source
    pc,             \* where the call is
    inputs,         \* the inputs of its rounds; the first is the source
    text,           \* the text of the round
    cursor,         \* the stage, and how often its step ran
    last,           \* the step that changed the text last
    expected,       \* the fingerprint of the round's input
    applied,        \* the steps that changed the text in this round
    formatted,      \* the steps that did in the rounds before
    result          \* what the call returned

file == <<declaration, score, nth>>
round == <<inputs, text, cursor, last, expected, applied, formatted>>
vars == <<does, reads, file, pc, round, result>>

source == inputs[1]
input == inputs[Len(inputs)]

\* A declaration file has no schedule: it is parsed and scored.
schedule == IF declaration THEN <<>> ELSE FULL
stage == schedule[cursor.stage]

Budgets == {FULL[i].budget : i \in DOMAIN FULL}
Errors == {"syntax", "invariant", "idempotency"}
Ok(output, steps, scored) == [ok |-> TRUE, output |-> output, applied |-> steps, complexity |-> scored]
Err(why) == [ok |-> FALSE, why |-> why]
Results ==
    [ok : {TRUE}, output : Texts, applied : SUBSET Steps, complexity : Texts \cup {None}]
        \cup [ok : {FALSE}, why : Errors]

TypeOK ==
    /\ does \in [Steps \X Texts -> Texts \cup {Fails, Unknown}]
    /\ reads \in [Texts -> Prints \cup {Broken, Unknown}]
    /\ declaration \in BOOLEAN
    /\ score \in BOOLEAN
    /\ nth \in 1 .. 2
    /\ pc \in {"parse", "stages", "end"}
    /\ inputs \in Seq(Texts)
    /\ Len(inputs) \in 1 .. EXTRA_ROUNDS + 1
    /\ text \in Texts
    /\ cursor \in [stage : 1 .. Len(schedule) + 1, runs : Nat]
    /\ cursor.stage \in DOMAIN schedule => cursor.runs <= stage.budget
    /\ last \in Steps \cup {None}
    /\ expected \in Prints \cup {None}
    /\ applied \in SUBSET Steps
    /\ formatted \in SUBSET Steps
    /\ result \in Results \cup {None}

Init ==
    /\ does = [q \in Steps \X Texts |-> Unknown]
    /\ reads = [t \in Texts |-> Unknown]
    /\ declaration \in BOOLEAN
    /\ score \in BOOLEAN
    /\ nth = 1
    /\ pc = "parse"
    /\ \E t \in Texts : inputs = <<t>> /\ text = t
    /\ cursor = [stage |-> 1, runs |-> 0]
    /\ last = None
    /\ expected = None
    /\ applied = {}
    /\ formatted = {}
    /\ result = None

(***************************************************************************)
(* Asking the parser and the steps.                                        *)
(***************************************************************************)
Reads(t, p) ==
    /\ reads[t] \in {Unknown, p}
    /\ reads' = [reads EXCEPT ![t] = p]
    /\ UNCHANGED does

Does(s, t, out) ==
    /\ does[<<s, t>>] \in {Unknown, out}
    /\ does' = [does EXCEPT ![<<s, t>>] = out]
    /\ UNCHANGED reads

End(r) ==
    /\ pc' = "end"
    /\ result' = r
    /\ UNCHANGED <<file, round>>

(***************************************************************************)
(* The check of the text a step produced, and of the source.               *)
(***************************************************************************)
Unparsed ==
    /\ pc = "parse"
    /\ Reads(text, Broken)
    /\ End(Err(IF last = None THEN "syntax" ELSE "invariant"))

Differs_Never(p) == FALSE

Differs(p) == expected # None /\ last # None /\ expected # p

OtherProgram ==
    /\ pc = "parse"
    /\ \E p \in Prints : Reads(text, p) /\ Differs(p)
    /\ End(Err("invariant"))

Parsed ==
    /\ pc = "parse"
    /\ \E p \in Prints :
          /\ Reads(text, p)
          /\ ~Differs(p)
          /\ expected' = IF expected = None THEN p ELSE expected
    /\ pc' = "stages"
    /\ UNCHANGED <<file, inputs, text, cursor, last, applied, formatted, result>>

(***************************************************************************)
(* The stages, until one changes the text.                                 *)
(***************************************************************************)
InStage == pc = "stages" /\ cursor.stage \in DOMAIN schedule

NextStage_Same == [stage |-> cursor.stage, runs |-> 0]

NextStage == [stage |-> cursor.stage + 1, runs |-> 0]

Spent == cursor.runs >= stage.budget

Exhausted ==
    /\ InStage
    /\ Spent
    /\ cursor' = NextStage
    /\ UNCHANGED <<does, reads, file, pc, inputs, text, last, expected, applied, formatted, result>>

StepFails ==
    /\ InStage
    /\ ~Spent
    /\ Does(stage.step, text, Fails)
    /\ End(Err("invariant"))

StepIdle ==
    /\ InStage
    /\ ~Spent
    /\ Does(stage.step, text, text)
    /\ cursor' = NextStage
    /\ UNCHANGED <<file, pc, inputs, text, last, expected, applied, formatted, result>>

StepChanges ==
    /\ InStage
    /\ ~Spent
    /\ \E out \in Texts \ {text} : Does(stage.step, text, out) /\ text' = out
    /\ cursor' = [cursor EXCEPT !.runs = @ + 1]
    /\ last' = stage.step
    /\ applied' = applied \cup {stage.step}
    /\ pc' = "parse"
    /\ UNCHANGED <<file, inputs, expected, formatted, result>>

(***************************************************************************)
(* The end of a round, and what fixed_point makes of it.  A round that     *)
(* changed the text and changed it back has applied nothing.               *)
(***************************************************************************)
RoundOver == pc = "stages" /\ cursor.stage \notin DOMAIN schedule

Applied == IF text = input THEN {} ELSE applied

Complexity == IF score /\ Applied = {} THEN text ELSE None

Union_Last == Applied

\* The steps of the rounds before the one that changed nothing.
Union == formatted

MayRetry == Len(inputs) <= EXTRA_ROUNDS

Stable_OrLast == Applied = {} \/ ~MayRetry

Stable == Applied = {}

Settled ==
    /\ RoundOver
    /\ Stable
    /\ End(Ok(text, Union, Complexity))
    /\ UNCHANGED <<does, reads>>

GiveUp ==
    /\ RoundOver
    /\ ~Stable
    /\ ~MayRetry
    /\ End(Err("idempotency"))
    /\ UNCHANGED <<does, reads>>

\* A round over t.
Fresh(t, before) ==
    /\ text' = t
    /\ inputs' = Append(before, t)
    /\ cursor' = [stage |-> 1, runs |-> 0]
    /\ last' = None
    /\ expected' = None
    /\ applied' = {}
    /\ pc' = "parse"
    /\ UNCHANGED <<does, reads, declaration, score>>

Again ==
    /\ RoundOver
    /\ ~Stable
    /\ MayRetry
    /\ Fresh(text, inputs)
    /\ formatted' = formatted \cup Applied
    /\ UNCHANGED <<nth, result>>

(***************************************************************************)
(* A later run of the program formats the file it left formatted.          *)
(***************************************************************************)
Reformat ==
    /\ pc = "end"
    /\ nth = 1
    /\ result.ok
    /\ nth' = 2
    /\ Fresh(result.output, <<>>)
    /\ formatted' = {}
    /\ result' = None

Next ==
    \/ Unparsed \/ OtherProgram \/ Parsed
    \/ Exhausted \/ StepFails \/ StepIdle \/ StepChanges
    \/ Settled \/ GiveUp \/ Again \/ Reformat

Spec == Init /\ [][Next]_vars

\* format_source is a loop with nothing to wait for.
FairSpec == Spec /\ WF_vars(Next)

-----------------------------------------------------------------------------
(***************************************************************************)
(* Properties.                                                             *)
(***************************************************************************)

\* What format_source returns parses to the program it was given, although
\* each round compares only with its own input.
SameProgram ==
    (pc = "end" /\ result.ok) =>
        /\ reads[result.output] \in Prints
        /\ reads[result.output] = reads[source]

\* A formatted file is found formatted: the next call succeeds, applies
\* nothing and returns it as it is.  The cache relies on this when it stores
\* the rewritten file as clean (crates/engine/src/script_lane.rs).
Idempotent ==
    (nth = 2 /\ pc = "end") => (result.ok /\ result.output = source /\ result.applied = {})

\* `applied' is empty exactly when the output equals the input, over all the
\* rounds together.
AppliedExact ==
    (pc = "end" /\ result.ok) => (result.applied = {} <=> result.output = source)

\* The scores returned are scores of the output, whichever round ended the call.
ScoresOutput ==
    (pc = "end" /\ result.ok /\ score) => result.complexity = result.output

\* The pipeline gives up only on a text that every round really changed: a
\* round whose steps undid each other is a fixed point.
GivesUpOnChange ==
    (pc = "end" /\ ~result.ok /\ result.why = "idempotency") =>
        /\ Len(inputs) = EXTRA_ROUNDS + 1
        /\ \A i \in 1 .. EXTRA_ROUNDS : inputs[i] # inputs[i + 1]
        /\ text # input

\* Every call ends, also when the steps undo each other for ever.
Terminates == pc # "end" ~> pc = "end"

=============================================================================
