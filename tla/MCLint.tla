------------------------------- MODULE MCLint --------------------------------
(* Lists for the sorting rules, calls and configurations, and files to lint,  *)
(* and what the answers are held against.                                     *)
EXTENDS Sorting, Bridge

LOCAL INSTANCE TLC
LOCAL INSTANCE SequencesExt
LOCAL INSTANCE FiniteSetsExt

Asc == [kind |-> "sorted", order |-> "asc", by |-> "name"]
ByValue == [Asc EXCEPT !.by = "value", !.order = "desc"]
Options(groups, sort, between, newline) ==
    [groups |-> groups, sort |-> sort, between |-> between, inside |-> "between", inside_count |-> 0,
     comments |-> TRUE, newline |-> newline, by_value |-> "if_numeric"]
Plain == Options(<<>>, Asc, Ignore, FALSE)
Parted == Options(<<>>, Asc, Ignore, TRUE)
Grouped == Options(<<[names |-> {"m"}, sort |-> ByValue, count |-> 0]>>, Asc, 1, FALSE)
Separated ==
    Options(<<[names |-> {"m"}, sort |-> Asc, count |-> 0], [names |-> {}, sort |-> Asc, count |-> 2],
              [names |-> {"u"}, sort |-> [Asc EXCEPT !.kind = "unsorted"], count |-> 0]>>, Asc, 1, FALSE)

Element(i, name) ==
    [id |-> i, name |-> name, value |-> name, group |-> "u", disabled |-> FALSE, binds |-> {i}, needs |-> <<>>,
     gap |-> 0, mark |-> "", trailing |-> FALSE]
Names == 1 .. 2
Needs(i) == {<<>>} \cup {<<j>> : j \in 1 .. 3 \ {i}}
Triples(of(_)) == {<<p, q, r>> : p \in of(1), q \in of(2), r \in of(3)}

\* Elements that depend on each other, apart or parted by a comment.
Dependent(i) == {[Element(i, n) EXCEPT !.needs = needs, !.mark = mark] : n \in Names, needs \in Needs(i), mark \in {"", "comment"}}

\* Elements in groups, with blank lines above, disabled, or commented.
Kinds(i) ==
    {[Element(i, n) EXCEPT !.group = group, !.gap = s.gap, !.disabled = s.disabled, !.trailing = s.trailing] :
        n \in Names, group \in {"m", "u"},
        s \in [gap : 0 .. 1, disabled : BOOLEAN, trailing : {FALSE}] \cup [gap : {0}, disabled : {FALSE}, trailing : {TRUE}]}
Few(i) == {e \in Kinds(i) : ~(e.disabled /\ e.gap = 1)}
Spaced(i) == {e \in Few(i) : ~e.disabled /\ ~e.trailing}

\* Members with values, some of which are no numbers, and references.
Valued(i) == {[Element(i, n) EXCEPT !.value = v, !.needs = needs] : n \in Names, v \in 0 .. 2, needs \in {<<>>, <<(i % 3) + 1>>}}

Jobs ==
    {objects(o, list) : o \in {Plain, Parted}, list \in Triples(Dependent)}
        \cup {objects(Grouped, list) : list \in Triples(Few)}
        \cup {enums([Plain EXCEPT !.by_value = v], list) : v \in {"if_numeric", "always"}, list \in Triples(Valued)}
        \cup {object_types(o, list) : o \in {Grouped, [Plain EXCEPT !.sort = ByValue]}, list \in Triples(Spaced)}
        \cup {heritage(Separated, list) : list \in Triples(Spaced)}
        \cup {jsx_props(o, list) : o \in {Parted, Grouped}, list \in Triples(Spaced)}

--------------------------------------------------------------------------------

Ids(list) == {list[i].id : i \in DOMAIN list}

\* No element stands before one it needs, unless that one is on a cycle or
\* the rule is disabled on its line.
Resolved(answer) ==
    \A i \in DOMAIN answer : \A j \in 1 .. i - 1 :
        depends(answer[i], answer[j]) => answer[i] \in circular(answer) \/ answer[i].disabled

\* The places that stay reported: the element is needed earlier, and is on a
\* cycle, which the sort leaves alone.
Excused(list) ==
    {i \in DOMAIN list : \E j \in 1 .. i - 1 : depends(list[i], list[j]) /\ list[i] \in circular(list)}

Quiet(job, answer) ==
    (\A i \in DOMAIN job.list : ~job.list[i].disabled) =>
        EnabledProblems(job.options, job.mode, answer) \subseteq Excused(answer)

Sorted(job, answer) ==
    /\ Ids(answer) = Ids(job.list) /\ Len(answer) = Len(job.list)
    /\ job.mode \in {"objects", "enum", "enum_value"} => Resolved(answer)
    /\ Quiet(job, answer)
    /\ EnabledProblems(job.options, job.mode, answer) = {} \/ fix(job.options, job.mode, answer) = answer

--------------------------------------------------------------------------------
(* Comments on lines that go up, and the lines they mean.                     *)

Comments ==
    [does : {"line", "next line", "disable", "enable"}, rules : {{}, {"this", "that"}, {"that"}}, from : 1 .. 2, to : {0}]
Remarks ==
    {<<p, [q EXCEPT !.from = p.from + @ - 1], [r EXCEPT !.from = p.from + q.from + @ - 2]>> : p, q, r \in Comments}
Ended(remarks) == [i \in DOMAIN remarks |-> [remarks[i] EXCEPT !.to = remarks[i].from]]

\* A line is disabled by a comment on it or above it, or between a disable
\* and the enable that ends it: one that nothing ends disables no line.
Meant(remarks, row) ==
    LET said(i, does) == remarks[i].does = does /\ (remarks[i].rules = {} \/ "this" \in remarks[i].rules)
        on(i) == remarks[i].from
    IN \/ \E i \in DOMAIN remarks : said(i, "line") /\ on(i) = row
       \/ \E i \in DOMAIN remarks : said(i, "next line") /\ on(i) = row - 1
       \/ \E i, j \in DOMAIN remarks :
             /\ i < j /\ on(i) < row /\ row <= on(j)
             /\ said(i, "disable") /\ said(j, "enable")
             /\ \A k \in i .. j : ~(k < j /\ said(k, "enable"))
DisabledExact(remarks, lines) == \A n \in 1 .. 9 : n \in lines <=> Meant(remarks, n)

--------------------------------------------------------------------------------

\* Calls over a few files, and configurations of up to two rules on top of
\* three policies.
String(w) == [kind |-> "string", word |-> w]
Number(w) == [kind |-> "number", word |-> w]

WrittenPrefixes == <<"@typescript-eslint", "", "eslint", "native", "nope", "typescript", "typescript", "">>
RuleNames == <<"a", "b", "b", "n", "c", "a", "b", "z">>

INSTANCE Settings WITH
    Names <- [k \in DOMAIN WrittenPrefixes |-> <<WrittenPrefixes[k], RuleNames[k]>>],
    Natives <- {<<"native", "n">>},
    Canonical <- [p \in ToSet(WrittenPrefixes) |-> IF p = "eslint" THEN "" ELSE IF p = "@typescript-eslint" THEN "typescript" ELSE p],
    Plugins <- {"typescript"},
    Shipped <- {<<"eslint", "b">>, <<"typescript", "a">>},
    Rejected <- {String("bad")},
    Cpus <- 8

AllNames == {<<WrittenPrefixes[k], RuleNames[k]>> : k \in DOMAIN WrittenPrefixes}

--------------------------------------------------------------------------------

Text(given) == [is |-> "text", text |-> given]
Absent(is) == [is |-> is, text |-> <<>>]
Key(marked) == [key |-> "f", hash |-> marked]
Loud == <<"", "b">> :> [items |-> <<String("loud")>>]

Contents ==
    {Absent("nothing"), Absent("unreadable"), Text(<<>>), Text([jobs |-> 3]), Text([jobs |-> 0]), Text([tab_width |-> 0]),
     Text([unknown |-> 0]), Text([rules |-> Loud, print_width |-> 80]), Text([allow |-> <<Key(FALSE)>>]),
     Text([allow |-> <<Key(TRUE), Key(TRUE)>>]), Text([allow |-> <<Key(TRUE)>>, exclude |-> <<>>]), Text([resolve_imports |-> TRUE])}

Root == <<"root", "fmtkit.toml">>
Asked(explicit) == [explicit : {explicit}, jobs : {<<>>, <<0>>, <<7>>}, variable : {<<>>, <<Junk>>, <<0>>, <<5>>},
                    resolve_imports : BOOLEAN, go : {FALSE}, ts : BOOLEAN]
Named == {<<[absolute |-> absolute, name |-> "my.toml"]>> : absolute \in BOOLEAN}
Calls ==
    {[call |-> call, disk |-> Root :> file] : call \in Asked(None), file \in Contents}
        \cup UNION {{[call |-> call, disk |-> (Root :> Text([jobs |-> 2])) @@ (Path(explicit) :> file)] : call \in Asked(explicit), file \in Contents}
                       : explicit \in Named}

Settled == {parse(file.text).config : file \in {f \in Contents : f.is = "text" /\ parse(f.text).error = "ok"}}

\* Nothing that was asked for is dropped: a file that was named is read, its
\* settings are the run's, and the number of workers is the one given first.
\* Runs whose settings have one hash treat a file alike, whatever flags made
\* the settings.
Prepared(task, answer) ==
    LET call == task.call
        file == task.disk[Path(call.explicit)]
    IN  answer.error = "ok" =>
            /\ call.explicit # None \/ file.is = "unreadable" => file.is = "text"
            /\ \A key \in DOMAIN file.text : key # "resolve_imports" => answer.config[key] = file.text[key]
            /\ answer.config.resolve_imports = (call.resolve_imports \/ file.text = [resolve_imports |-> TRUE])
            /\ call.variable # <<Junk>>
            /\ answer.jobs = IF call.jobs # <<>> /\ call.jobs[1] > 0 THEN call.jobs[1]
                             ELSE IF call.jobs = <<>> /\ call.variable = <<5>> THEN 5
                             ELSE IF call.jobs = <<>> /\ call.variable = <<>> /\ answer.config.jobs > 0 THEN answer.config.jobs
                             ELSE 8
            /\ \A other \in Settled :
                  hash(other) = hash(answer.config) =>
                      <<other.resolve_imports, other.tab_width, other.print_width>>
                          = <<answer.config.resolve_imports, answer.config.tab_width, answer.config.print_width>>

--------------------------------------------------------------------------------

RuleSettings ==
    {[items |-> items] : items \in {<<String("off"), String("bad")>>, <<String("warn")>>, <<String("error"), String("good")>>,
                                    <<String("deny"), String("bad")>>, <<String("loud")>>, <<>>}}
Policies ==
    {[rules |-> (<<"", "b">> :> [items |-> <<String("error")>>]) @@ (<<"native", "n">> :> [items |-> <<Number("1")>>]),
      plugins |-> plugins, overrides |-> overrides] : plugins \in {{}, {"typescript"}}, overrides \in BOOLEAN}
RuleSets == UNION {[names -> RuleSettings] : names \in {some \in SUBSET AllNames : Cardinality(some) <= 2}}
Texts(bundled) == {[rules |-> rules, bundled |-> bundled] : rules \in RuleSets} \cup {[bundled |-> bundled, ignore |-> <<TRUE, FALSE>>]}
LintTasks ==
    {[policy |-> policy, text |-> text] : policy \in {p \in Policies : p.plugins = {}}, text \in Texts(TRUE)}
        \cup {[policy |-> CHOOSE p \in Policies : p.overrides, text |-> text] : text \in Texts(FALSE)}

Built(task) == IF parse(task.text).error = "ok" THEN Linter(task.policy, parse(task.text).config) ELSE [error |-> "refused"]

\* An entry counts when no later one means the same rule; one of the
\* configuration is later than one of the policy.
Written(policy, config) == Entries(Base(policy, config).rules) \o Entries(config.rules)
InEffect(written) == {written[k] : k \in {i \in DOMAIN written : \A j \in i + 1 .. Len(written) : rule_key(written[j].name) # rule_key(written[i].name)}}

LevelOf(entry) == split_setting(entry.setting).level
Fault(entry) ==
    \/ LevelOf(entry) # "off" /\ String("bad") \in ToSet(entry.setting.items)
    \/ rule_key(entry.name) \notin {<<"native", "n">>, <<"", "b">>, <<"typescript", "a">>, <<"typescript", "b">>}

\* Each rule has the level of the entry that counts, whichever of its names
\* that is written under, and runs only where its plugin is on.  When the
\* linter cannot be built, the error names an entry that is at fault, and one
\* that counts; an entry that was accepted with the file has a level.
Configured(task, built) ==
    LET config == parse(task.text).config
        entries == InEffect(Written(task.policy, config))
        at_fault == {entry \in entries : Fault(entry)}
        native == {entry \in entries : entry.name \in {<<"native", "n">>}}
    IN  built.error # "refused" =>
            /\ \A entry \in entries : LevelOf(entry) # "malformed"
            /\ built.error = None <=> at_fault = {} /\ Base(task.policy, config).overrides /\ FALSE \notin ToSet(config.ignore)
            /\ at_fault # {} => built.error[1] \in {entry.name : entry \in at_fault} \cup {rule_key(entry.name) : entry \in at_fault}
            /\ built.error = None =>
                  /\ \A entry \in native : LevelOf(entry) # "off" => built.natives[entry.name] = LevelOf(entry)
                  /\ \A key \in DOMAIN built.natives : \E entry \in native : entry.name = key /\ LevelOf(entry) = built.natives[key]
                  /\ DOMAIN built.oxc = {rule_key(entry.name) : entry \in entries \ native}
                  /\ \A entry \in entries \ native : built.oxc[rule_key(entry.name)] = entry.setting
                  /\ \A key \in DOMAIN built.oxc : key[1] = "typescript" => "typescript" \in built.plugins

--------------------------------------------------------------------------------

\* Files of three lines, with one or two script sections.
Edit(from, to) == [start |-> from, end |-> to]
Finding(start, disabled, edits) == [rule |-> "native", start |-> start, disabled |-> disabled, fix |-> edits]
Message(start, fixes) == [rule |-> "oxc", severity |-> "warning", start |-> start, fixes |-> fixes]
OxcFix(from, to, nothing) == [start |-> from, end |-> to, nothing |-> nothing]

\* Sections of three bytes.
Length == 3
Founds ==
    {<<>>, <<Finding(0, TRUE, <<Edit(0, 1)>>)>>, <<Finding(2, FALSE, <<>>)>>}
        \cup {<<Finding(1, FALSE, <<Edit(2, 3), Edit(from, 1)>>), Finding(2, off, <<Edit(2, 2)>>)>> : from \in 0 .. 1, off \in BOOLEAN}
Messages ==
    {<<>>, <<Message(0, <<OxcFix(0, 0, TRUE), OxcFix(0, 1, FALSE)>>)>>}
        \cup {<<Message(1, <<OxcFix(from, to, FALSE), OxcFix(0, 3, FALSE)>>), Message(3, <<>>)>> : from \in 0 .. 1, to \in 1 .. 2}
SectionsAt(start) ==
    [start : {start}, errors : {<<>>}, found : Founds, messages : Messages]
        \cup [start : {start}, errors : {<<<<>>>>, <<<<2>>, <<>>>>}, found : {CHOOSE f \in Founds : f # <<>>}, messages : {<<>>}]

File(ends, whole, scripts) == [newlines |-> ends, whole |-> whole, scripts |-> scripts]
FileTasks ==
    {[lang |-> "ts", file |-> File(<<1, 2>>, section, <<>>)] : section \in SectionsAt(0)}
        \cup {[lang |-> "vue", file |-> File(<<1, 5>>, first, <<first, second>>)] : first \in SectionsAt(1), second \in SectionsAt(6)}
        \cup {[lang |-> "vue", file |-> File(<<>>, section, <<>>)] : section \in SectionsAt(0)}

Severities == [native |-> "error"]
Linted(task) ==
    LET pass == run(task.lang, task.file, Severities, TRUE)
    IN  [pass |-> pass, check |-> run(task.lang, task.file, Severities, FALSE), taken |-> apply_fixes(pass.fixes)]

--------------------------------------------------------------------------------

\* Where a reader finds the byte at an offset.
Place(file, offset) ==
    LET before == {n \in ToSet(file.newlines) : n < offset}
    IN  [line |-> Cardinality(before) + 1, column |-> IF before = {} THEN offset + 1 ELSE offset - Max(before)]

\* What can be said of a section, and where in the file.
Says(file, section) ==
    IF section.errors = <<>>
    THEN {<<"native", Place(file, section.start + f.start)>> : f \in {g \in ToSet(section.found) : ~g.disabled}}
            \cup {<<"oxc", Place(file, section.start + m.start)>> : m \in ToSet(section.messages)}
    ELSE {<<SYNTAX_RULE, Place(file, section.start + IF e = <<>> THEN 0 ELSE e[1])>> : e \in ToSet(section.errors)}

Linting(task) == sections(task.lang, task.file)
Inside(section, unit) == section.start <= unit.start /\ unit.end <= section.start + Length

\* A pass says of every section what there is to say, where it is in the
\* file; a section that does not parse is not linted, and keeps no other from
\* it.  A fix changes the section it was found in, and covers its edits.  Of
\* the fixes a set is applied in which no two touch, and to which none can be
\* added; and asking for fixes changes nothing that is reported.
Passed(task, answer) ==
    LET asked == Linting(task)
        fixes == ToSet(answer.pass.fixes)
        taken == ToSet(answer.taken)
        apart(u, v) == u.end < v.start \/ v.end < u.start
    IN  /\ {<<d.rule, d.at>> : d \in ToSet(answer.pass.diagnostics)} = UNION {Says(task.file, asked[k]) : k \in DOMAIN asked}
        /\ answer.pass.syntax_error = \E k \in DOMAIN asked : asked[k].errors # <<>>
        /\ \A unit \in fixes :
              /\ \E k \in DOMAIN asked : asked[k].errors = <<>> /\ Inside(asked[k], unit)
              /\ \A e \in ToSet(unit.edits) : unit.start <= e.start /\ e.end <= unit.end
        /\ answer.check = [answer.pass EXCEPT !.fixes = <<>>]
        /\ taken \subseteq fixes
        /\ \A j, k \in DOMAIN answer.taken : j # k => apart(answer.taken[j], answer.taken[k])
        /\ \A unit \in fixes \ taken : \E other \in taken : ~apart(unit, other)
==============================================================================
