------------------------------- MODULE MCRules -------------------------------
(* The algorithms on texts, trees, lists and bytes, each on all inputs of a   *)
(* small set: a behaviour starts with a task and one step carries it out.     *)
(* The task "edits" is EditSet, which takes steps of its own.                 *)
EXTENDS EditSet, FiniteSets

LOCAL INSTANCE SequencesExt

Go == INSTANCE MCGo WITH MaxFrame <- 120
Ho == INSTANCE MCHosts
Pa == INSTANCE MCPasses
Li == INSTANCE MCLint
Sc == INSTANCE MCScoring
Vp == INSTANCE MCVetPlan

CONSTANTS
    ByteA, ByteB, ByteX,
    Rules           \* the rules that tasks are taken from

MCSource == <<ByteA, ByteB, ByteA>>
MCInserted == {<<>>, <<ByteX>>, <<ByteA>>}

VARIABLES
    task,
    done,
    answer

allVars == <<vars, task, done, answer>>

Pick(rule, inputs) == rule \in Rules /\ \E input \in inputs : task = [rule |-> rule, in |-> input]

InitRules ==
    /\ Init
    /\ \/ Pick("edits", {0})
       \/ Pick("file", Go!Files)
       \/ Pick("list", Go!Lists \X Go!Imports)
       \/ Pick("markup", [lang : {"vue", "html"}, doc : Ho!Documents, printer : Ho!Printers, blocks : {<<>>}])
       \/ Pick("markup", [lang : {"vue"}, doc : Ho!Pieces, printer : {"lines"}, blocks : Ho!Embedded])
       \/ Pick("rounds", Ho!Rounds)
       \/ Pick("markdown", Ho!MarkdownRounds)
       \/ Pick("fences", [fence : Ho!Fences, lines : Ho!FenceLines])
       \/ \E frame \in Go!Frames : Pick("frame", [frame : {frame}, bytes : Go!Damaged(Go!encode(frame))])
       \/ Pick("statements", Pa!Lists)
       \/ Pick("class", [members : Pa!Classes, tail : BOOLEAN])
       \/ Pick("bodies", Pa!Nested)
       \/ Pick("calls", Pa!CallTrees)
       \/ Pick("chain", Pa!Links)
       \/ Pick("fingerprint", {0})
       \/ Pick("sorting", Li!Jobs)
       \/ Pick("directives", Li!Remarks)
       \/ Pick("scores", Sc!Programs)
       \/ Pick("gofile", Go!Requests)
       \/ Pick("plan", Vp!Plans)
       \/ Pick("workspace", Vp!WorkTasks)
       \/ Pick("vetted", Vp!OutputTasks)
       \/ Pick("call", Li!Calls)
       \/ Pick("linter", Li!LintTasks)
       \/ Pick("lint", Li!FileTasks)
       \/ Pick("template", Pa!Templates)
    /\ done = FALSE
    /\ answer = <<>>

EditTexts == task.rule = "edits" /\ Next /\ UNCHANGED <<task, done, answer>>

Carry(rule, result) ==
    /\ task.rule = rule /\ ~done
    /\ done' = TRUE /\ answer' = result
    /\ UNCHANGED <<vars, task>>

SpaceFile == Carry("file", Go!Apply(task.in))
SpaceList == Carry("list", Go!InsertGaps(task.in[1], Go!buildImportAliases(task.in[2])))
FormatMarkup == Carry("markup", Ho!Markup(task.in.lang, task.in.doc, task.in.printer, task.in.blocks))
FormatRounds == Carry("rounds", Ho!format_with(Ho!RoundOf(task.in), 1))
FormatMarkdown == Carry("markdown", Ho!format_with(Ho!MarkdownRoundOf(task.in), 1))
FormatFence == Carry("fences", Ho!format_fences(<<task.in.fence>>, <<task.in.lines>>)[1])
ReadBytes == Carry("frame", [rust |-> Go!decode(task.in.bytes), go |-> Go!GoRead(task.in.bytes)])
ReorderStatements == Carry("statements", Pa!Segment(task.in))
ReorderClass == Carry("class", Pa!BlankLine(Pa!ClassReorder(task.in.members, task.in.tail)))
WrapBodies == Carry("bodies", Pa!Wrapped(task.in))
ExpandCalls == Carry("calls", Pa!Expanded(task.in))
BreakChain == Carry("chain", Pa!FluentChain(task.in))
TakeFingerprints == Carry("fingerprint", Pa!Judgements)
SortList == Carry("sorting", Li!lint(task.in.options, task.in.mode, task.in.list, {}, Li!MAX_FIX_ROUNDS))
ReadDirectives == Carry("directives", Li!disabled_lines(Li!Ended(task.in), "this"))
ScoreProgram == Carry("scores", Sc!score_program(task.in))
FormatGo == Carry("gofile", Go!Process(task.in))
PlanVet == Carry("plan", Vp!Planned(task.in))
ReadWorkspace == Carry("workspace", Vp!outside_workspace(Vp!WorkTree(task.in), task.in.module))
ReadVet == Carry("vetted", Vp!Ran(task.in))
PrepareCall == Carry("call", Li!prepare(task.in.call, task.in.disk))
BuildLinter == Carry("linter", Li!Built(task.in))
LintFile == Carry("lint", Li!Linted(task.in))
FormatTemplate == Carry("template", Pa!dispatcher(task.in.request, task.in.formats, task.in.ts))

NextRules ==
    \/ EditTexts
    \/ SpaceFile \/ SpaceList
    \/ FormatMarkup \/ FormatRounds \/ FormatMarkdown \/ FormatFence
    \/ ReadBytes
    \/ ReorderStatements \/ ReorderClass \/ WrapBodies \/ ExpandCalls \/ BreakChain
    \/ TakeFingerprints
    \/ SortList \/ ReadDirectives
    \/ ScoreProgram
    \/ FormatGo \/ PlanVet \/ ReadWorkspace \/ ReadVet
    \/ PrepareCall \/ BuildLinter \/ LintFile
    \/ FormatTemplate

SpecRules == InitRules /\ [][NextRules]_allVars

Answered(rule) == done /\ task.rule = rule

--------------------------------------------------------------------------------

\* What a set of edits means, offset by offset, as a reference for apply,
\* normalize and retain_non_overlapping.
Texts(s) == FlattenSeq([k \in DOMAIN s |-> s[k].text])
Insertions(i) == SelectSeq(edits, LAMBDA e : e.start = i /\ e.end = i)
Replacements(i) == SelectSeq(edits, LAMBDA e : e.start = i /\ e.end > i)
Replaced(i) == \E k \in DOMAIN edits : edits[k].start <= i /\ i < edits[k].end
Byte(i) == IF i = Len(Source) \/ Replaced(i) THEN <<>> ELSE <<Source[i + 1]>>

Meaning ==
    FlattenSeq([n \in 1 .. Len(Source) + 1 |->
        Texts(Insertions(n - 1)) \o Texts(Replacements(n - 1)) \o Byte(n - 1)])

Distinct == IsInjective(edits)

\* What apply returns is what the edits say, offset by offset: the
\* insertions there in push order, then the replacement that starts there,
\* then the byte unless it is replaced.  normalize does not change what a set
\* of distinct edits that can be applied means.
EditsKeepMeaning ==
    [][/\ (Apply /\ out'.ok) => out'.text = Meaning
       /\ (Normalize /\ Disjoint /\ Distinct) => Meaning' = Meaning]_vars

\* The Go spacing rule loses and duplicates no line of a file, and a second
\* run has nothing to report, when each go:embed group has a var to go to and
\* one that has to move stands between blank lines.  In a statement list a
\* gap grows by one line at most, and only statements that share a line with
\* the one before are still reported (Apply, Gaps.apply, TypeOrder.rewrite,
\* Embeds.repair).
SpacingSound ==
    /\ Answered("file") =>
          /\ Go!KeepsLines(task.in, answer)
          /\ Go!Placed(task.in) => Go!Clean(Go!newFileContext(answer))
    /\ Answered("list") => Go!Spaced(task.in[1], Go!buildImportAliases(task.in[2]), answer)

\* A go:embed directive group that belongs to a var stands immediately above
\* it in the answer, which is what repair promises.
DirectivesRepaired == Answered("file") => Go!Attached(task.in, answer)

\* Whatever the markup printer does, the bodies of raw blocks come out as
\* they went in, and offsets in the masked text lead to the place meant in
\* the document (raw::mask, restore, original_offset).  A document that is
\* returned as formatted is a fixed point of its rounds, and names the steps
\* that changed it (format_with, markdown::format).  No line of a formatted
\* fence can end it (splice).  A template in a script keeps its lines, and a
\* Markdown one its fences and what is in them (dispatcher, tilde_fences,
\* into_ir, has_multiple_roots).
HostsKeepContent ==
    /\ Answered("markup") => Ho!RawKept(task.in.lang, task.in.doc, answer)
    /\ Answered("rounds") => Ho!Settles(Ho!RoundOf(task.in), 1, answer)
    /\ Answered("markdown") => Ho!Settles(Ho!MarkdownRoundOf(task.in), 1, answer)
    /\ (Answered("fences") /\ answer # task.in.fence) => Ho!Closed(answer)
    /\ Answered("template") => Pa!Dispatched(task.in, answer)

\* The two codecs agree on every frame and on what is left of one that was
\* cut or damaged: both refuse it, or both read the same frame, texts that
\* are not UTF-8 apart.  A whole frame is read as it was written, whichever
\* side wrote it, and a part of one is refused (proto.rs decode, proto.go
\* ReadFrame and Decode*).
CodecsAgree ==
    Answered("frame") =>
        /\ Go!SameReading(answer.rust, answer.go)
        /\ task.in.bytes = Go!encode(task.in.frame) =>
              answer.go.ok /\ answer.go.frame = task.in.frame /\ Go!AppendFrame(task.in.frame) = task.in.bytes
        /\ Len(task.in.bytes) < Len(Go!encode(task.in.frame)) => ~answer.rust.ok

\* The passes that move code keep what it does: a const stays behind the
\* consts it reads, effects stay in order, class members keep their order
\* within their kind and none runs into the next, a wrapped body runs when it
\* ran before; and the fingerprint, which would stop the pipeline, is the
\* same.
PassesKeepProgram ==
    /\ Answered("statements") => Pa!KeepsList(task.in, answer)
    /\ Answered("class") => Pa!KeepsClass(task.in.members, answer)
    /\ Answered("bodies") => Pa!KeepsControl(task.in, answer)

\* The passes reach a text they leave alone, within the runs the pipeline
\* allows: no body without braces, no blank line missing, every call laid out
\* as it has to be, every chain broken whole or not at all.
PassesSettle ==
    /\ Answered("statements") => Pa!SettlesList(answer)
    /\ Answered("class") => Pa!BlankLine(Pa!ClassReorder(answer, task.in.tail)) = answer
    /\ Answered("bodies") => ~Pa!Bare(answer)
    /\ Answered("calls") => Pa!ExpandedCall(answer, <<>>) = answer /\ Pa!Laid(answer, <<>>)
    /\ Answered("chain") => Pa!Broken(task.in, answer)

\* Both: what the passes move means what it meant, and stays where it is put.
PassesSound == PassesKeepProgram /\ PassesSettle

\* Programs with one fingerprint do the same, for every value of what they
\* read: the normalisations that let the formatter drop parentheses, regroup
\* logical chains, add braces and drop empty statements hide no other change
\* (fingerprint.rs mode, close, enter_node).
FingerprintSound == Answered("fingerprint") => Cardinality(answer) = Cardinality({pair[1] : pair \in answer})

\* Fixing a list with the sorting rules loses no element, puts every element
\* behind what it needs, ends in a list the fix does not change, and one that
\* is not reported again, cycles and disabled lines apart; a rule is disabled
\* on the lines its comments mean (Report::run, fix, sort_by_dependencies,
\* lint, disabled_lines).
SortSound ==
    /\ Answered("sorting") => Li!Sorted(task.in, answer)
    /\ Answered("directives") => Li!DisabledExact(task.in, answer)

\* The one walk over a program reports for every function what a walk of its
\* own would count: its branches without those of the functions in it, its
\* cognitive cost with theirs, each as deep as it lies; and no function
\* reports under the key of another (open, close, named, logical_chain).
ScoresExact == Answered("scores") => Sc!Scored(task.in, answer)

\* A failing step of the Go formatter gives the file back as it came, and the
\* steps a reply names made its output of the source (Process, failed).  go
\* vet is run on every package in scope, from the module that owns it, and
\* with a workspace only where the workspace has the module; when it fails
\* the run has errors, with everything it said (plan_files, workspace_uses,
\* parse, diagnostics).
GoReports ==
    /\ Answered("gofile") => Go!Faithful(task.in, answer)
    /\ Answered("plan") => Vp!PlanExact(task.in, answer)
    /\ Answered("workspace") => Vp!WorkspaceExact(task.in, answer)
    /\ Answered("vetted") => Vp!OutputKept(task.in, answer)

\* A run has the settings that were asked for: a configuration that was named
\* is read or the run fails, the first number of workers given counts, and
\* settings with one hash treat a file alike (load_from, resolve_jobs, hash).
\* The linter gives each rule the level last written for it under any of its
\* names, and an error names a rule at fault (build, rule_key,
\* attribute_error).  What it reports stands where it was found, in the
\* section it was found in, one that does not parse silencing no other; the
\* fixes it applies do not touch, and none is left out without a reason
\* (run, line_col, apply_fixes).
LintAsConfigured ==
    /\ Answered("call") => Li!Prepared(task.in, answer)
    /\ Answered("linter") => Li!Configured(task.in, answer)
    /\ Answered("lint") => Li!Passed(task.in, answer)
==============================================================================
