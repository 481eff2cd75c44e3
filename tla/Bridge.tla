------------------------------- MODULE Bridge --------------------------------
(* One lint pass over a file, section by section, and the fixes taken from it *)
(* (run of crates/lint/src/oxc_bridge.rs, apply_fixes and sorted of lib.rs,   *)
(* LineIndex of crates/core/src/lines.rs).                                    *)
(*                                                                            *)
(* A file has a length, the offsets of its newlines, and script sections.  A  *)
(* section starts somewhere in the file; everything the parser and the rules  *)
(* say of it counts from there.  It has the places of its syntax errors (<<>> *)
(* for one without a label), what the native rules find, and what oxc_linter  *)
(* finds.                                                                     *)
EXTENDS Naturals, Sequences

LOCAL INSTANCE SequencesExt
LOCAL INSTANCE FiniteSetsExt

SYNTAX_RULE == "syntax"

--------------------------------------------------------------------------------
(* Offsets and lines.                                                         *)

LineIndex(file) == <<0>> \o [k \in DOMAIN file.newlines |-> file.newlines[k] + 1]

\* How many lines start at or before the offset.
line(index, offset) == Len(SelectSeq(index, LAMBDA start : start <= offset))
line_col(index, offset) == [line |-> line(index, offset), column |-> offset - index[line(index, offset)] + 1]

--------------------------------------------------------------------------------
(* Edits that are applied together, and the range they cover.                 *)

FixUnit(edits) ==
    IF edits = <<>> THEN <<>>
    ELSE <<[start |-> Min({e.start : e \in ToSet(edits)}), end |-> Max({e.end : e \in ToSet(edits)}), edits |-> edits]>>

Shifted_Inside(edits, by) == edits

Shifted(edits, by) == [k \in DOMAIN edits |-> [start |-> edits[k].start + by, end |-> edits[k].end + by]]

\* oxlint applies the first of several possible fixes, and none that replaces
\* nothing with nothing.
oxc_fix(message) ==
    IF message.fixes = <<>> \/ Head(message.fixes).nothing THEN <<>>
    ELSE FixUnit(<<[start |-> Head(message.fixes).start, end |-> Head(message.fixes).end]>>)

--------------------------------------------------------------------------------
(* The pass.                                                                  *)

\* A Vue file is linted in its script blocks, any other as a whole.
sections(lang, file) == IF lang = "vue" THEN file.scripts ELSE <<file.whole>>

Parses(section) == section.errors = <<>>

push_syntax_errors(index, section) ==
    [k \in DOMAIN section.errors |->
        [rule |-> SYNTAX_RULE, severity |-> "error",
         at |-> line_col(index, section.start + IF section.errors[k] = <<>> THEN 0 ELSE section.errors[k][1])]]

\* The findings no comment of the section disables.
Heard(section) == SelectSeq(section.found, LAMBDA finding : ~finding.disabled)

Reported(index, section, severities) ==
    LET heard == Heard(section)
    IN  [k \in DOMAIN heard |-> [rule |-> heard[k].rule, severity |-> severities[heard[k].rule],
                                 at |-> line_col(index, heard[k].start + section.start)]]

Fixes(section) ==
    LET heard == Heard(section)
    IN  FlattenSeq([k \in DOMAIN heard |-> FixUnit(Shifted(heard[k].fix, section.start))])

\* oxc_linter is given the sections that parse, each with its start, and
\* places its messages in the file; it says nothing of what is disabled.
oxc_run(hosts) ==
    FlattenSeq([h \in DOMAIN hosts |->
        [k \in DOMAIN hosts[h].messages |->
            [hosts[h].messages[k] EXCEPT !.start = @ + hosts[h].start,
                                         !.fixes = [f \in DOMAIN @ |-> [@[f] EXCEPT !.start = @ + hosts[h].start, !.end = @ + hosts[h].start]]]]])

to_diagnostic(index, message) == [rule |-> message.rule, severity |-> message.severity, at |-> line_col(index, message.start)]

\* What one section adds to the pass before oxc_linter runs.
Section(pass, index, section, severities, fix) ==
    IF Parses(section)
    THEN [pass EXCEPT !.diagnostics = @ \o Reported(index, section, severities),
                      !.fixes = IF fix THEN @ \o Fixes(section) ELSE @,
                      !.hosts = Append(@, section)]
    ELSE [pass EXCEPT !.diagnostics = @ \o push_syntax_errors(index, section), !.syntax_error = TRUE]

run(lang, file, severities, fix) ==
    LET index == LineIndex(file)
        natives == FoldLeft(LAMBDA pass, section : Section(pass, index, section, severities, fix),
                            [diagnostics |-> <<>>, fixes |-> <<>>, syntax_error |-> FALSE, hosts |-> <<>>], sections(lang, file))
        messages == oxc_run(natives.hosts)
    IN  [diagnostics |-> natives.diagnostics \o [k \in DOMAIN messages |-> to_diagnostic(index, messages[k])],
         fixes |-> natives.fixes \o IF fix THEN FlattenSeq([k \in DOMAIN messages |-> oxc_fix(messages[k])]) ELSE <<>>,
         syntax_error |-> natives.syntax_error]

--------------------------------------------------------------------------------
(* What becomes of a pass.                                                    *)

\* The units that are applied, in order of start and end: each that starts
\* behind the ones before it.
Take_Touching(taken, unit) ==
    IF taken # <<>> /\ unit.start < Last(taken).end THEN taken ELSE Append(taken, unit)

Take(taken, unit) ==
    IF taken # <<>> /\ unit.start <= Last(taken).end THEN taken ELSE Append(taken, unit)

apply_fixes(fixes) ==
    FoldLeft(Take, <<>>, SortSeq(fixes, LAMBDA u, v : u.start < v.start \/ (u.start = v.start /\ u.end < v.end)))
==============================================================================
