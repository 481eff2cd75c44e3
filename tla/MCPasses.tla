------------------------------ MODULE MCPasses -------------------------------
(* Programs for the script passes and the fingerprint, and what a program     *)
(* does when it is run, as a reference for both; and the templates in them.   *)
EXTENDS Passes, Embed

LOCAL INSTANCE SequencesExt

Times(n) == [i \in 1 .. n |-> i]

--------------------------------------------------------------------------------
(* Statement lists: consts that read each other, imports, other statements.   *)

Ident == <<"x", "y", "z">>
Layouts ==
    {[flags |-> {}, gap |-> gap, comment |-> FALSE] : gap \in 0 .. 2}
        \cup {[flags |-> flags, gap |-> 1, comment |-> FALSE] : flags \in {{"effect"}, {"vue"}, {"await", "effect"}}}
        \cup {[flags |-> {}, gap |-> 1, comment |-> TRUE]}
Consts(i) ==
    {[Node("const", Ident[i], <<>>) EXCEPT !.multi = multi, !.reads = reads,
                                           !.flags = l.flags, !.gap = l.gap, !.comment = l.comment] :
        multi \in BOOLEAN, reads \in {{}, {Ident[(i % 3) + 1]}, {Ident[((i + 1) % 3) + 1]}}, l \in Layouts}
Others(i) ==
    {[Node("import", Ident[i], <<>>) EXCEPT !.multi = multi] : multi \in BOOLEAN}
        \cup {Node("let", Ident[i], <<>>), Node("loop", Ident[i], <<Node("block", "", <<>>)>>)}
Items(i) == Consts(i) \cup Others(i)
Brief(i) == {n \in Items(i) : n.flags \in {{}, {"effect"}} /\ n.gap = 1}
Lists == {<<p, q>> : p \in Items(1), q \in Items(2)} \cup {<<p, q, r>> : p \in Items(1), q \in Brief(2), r \in Brief(3)}

Segment(list) == BlankLine(FoldLeft(LAMBDA l, i : DeclarationReorder(l), list, Times(STABLE_BUDGET)))

At(list, name) == CHOOSE i \in DOMAIN list : list[i].p = name
Program(list) == Node("program", "", list)

\* The same statements; a const stays behind the consts it reads; what has an
\* effect stays in order; the fingerprint is the same.
KeepsList(list, answer) ==
    /\ {answer[i].p : i \in DOMAIN answer} = {list[i].p : i \in DOMAIN list} /\ Len(answer) = Len(list)
    /\ \A i, j \in DOMAIN list :
          (/\ i < j
           /\ \/ list[i].p \in list[j].reads /\ list[i].t = "const"
              \/ "effect" \in list[i].flags /\ "effect" \in list[j].flags)
              => At(answer, list[i].p) < At(answer, list[j].p)
    /\ fingerprint(Program(answer)) = fingerprint(Program(list))

SettlesList(answer) ==
    /\ Segment(answer) = answer
    /\ \A i \in 2 .. Len(answer) : needs_blank_line(answer[i - 1], answer[i]) => answer[i].gap # 1

--------------------------------------------------------------------------------
(* Class bodies.  A property may lack its terminator; a name in brackets      *)
(* would continue it.                                                         *)

Member(t, i, flags) == [Node(t, Ident[i], <<>>) EXCEPT !.flags = flags]
Members(i) ==
    {Member("property", i, flags) : flags \in SUBSET {"open", "hazard"}}
        \cup {Member("method", i, flags) : flags \in SUBSET {"hazard"}} \cup {Member("constructor", i, {})}
Parses(members) ==
    \A i \in 2 .. Len(members) : "hazard" \in members[i].flags => "open" \notin members[i - 1].flags
Classes ==
    {m \in {<<p, q, r>> : p \in {[n EXCEPT !.gap = gap] : n \in Members(1), gap \in 0 .. 1}, q \in Members(2),
                          r \in {[n EXCEPT !.comment = comment] : n \in Members(3), comment \in BOOLEAN}} : Parses(m)}

KeepsClass(members, answer) ==
    /\ {answer[i].p : i \in DOMAIN answer} = {members[i].p : i \in DOMAIN members} /\ Len(answer) = Len(members)
    /\ \A i, j \in DOMAIN members :
          (i < j /\ classify(members[i]) = classify(members[j])) => At(answer, members[i].p) < At(answer, members[j].p)
    /\ Parses(answer)
    /\ fingerprint(Node("class_body", "", answer)) = fingerprint(Node("class_body", "", members))

--------------------------------------------------------------------------------
(* Control statements over the names a and b, and logical expressions.        *)

Name(n) == Node("name", n, <<>>)
Leaves == {Name("a"), Name("b")}
Logical(left, right) == {Node("logical", op, <<l, r>>) : op \in {"&&", "||", "??"}, l \in left, r \in right}
Parens(exprs) == {Node("paren", "", <<e>>) : e \in exprs}
Flat == Logical(Leaves, Leaves)
Exprs == Leaves \cup Logical(Leaves \cup Flat \cup Parens(Flat), Leaves \cup Parens(Flat))

Statement(e) == Node("expression", "", <<e>>)
Block(list) == Node("block", "", list)
Braced(statements) == statements \cup {Block(<<s>>) : s \in statements}
If(cond, then) == Node("if", "", <<cond, then>>)
IfElse(cond, then, else) == Node("if", "", <<cond, then, else>>)
Loop(cond, body) == Node("loop", "", <<cond, body>>)

\* Without braces, an else after the statement would be its own.
RECURSIVE TakesElse(_)
TakesElse(s) ==
    CASE s.t = "if" -> Len(s.kids) = 2 \/ TakesElse(s.kids[3])
      [] s.t = "loop" -> TakesElse(s.kids[2])
      [] OTHER -> FALSE

Controls(cond, inner) ==
    {If(cond, then) : then \in inner} \cup {Loop(cond, body) : body \in inner}
        \cup {IfElse(cond, then, else) : then \in {s \in inner : ~TakesElse(s)}, else \in inner}
Bodies == Braced({Statement(Name("a")), Node("empty", "", <<>>)}) \cup {Block(<<>>)}
Inner == Controls(Name("b"), Bodies)
Programs == {Statement(e) : e \in Exprs} \cup Controls(Name("a"), Braced(Inner) \cup Bodies)
Nested == Controls(Name("a"), Braced(Inner)) \cup {Loop(Name("a"), s) : s \in Controls(Name("b"), Inner)}

Values == [{"a", "b"} -> {"true", "false", "null"}]

\* The value of an expression and the names it read on the way.
RECURSIVE Eval(_, _)
Eval(e, v) ==
    LET left == Eval(e.kids[1], v)
        right == Eval(e.kids[2], v)
        goes_on == CASE e.p = "&&" -> left.value = "true"
                     [] e.p = "||" -> left.value # "true"
                     [] OTHER -> left.value = "null"
    IN  CASE e.t = "name" -> [value |-> v[e.p], trace |-> <<e.p>>]
          [] e.t = "paren" -> left
          [] goes_on -> [value |-> right.value, trace |-> left.trace \o right.trace]
          [] OTHER -> left

\* What running a statement does; of a loop, its first iteration.
RECURSIVE Run(_, _)
Run(s, v) ==
    LET cond == Eval(s.kids[1], v)
    IN  CASE s.t = "expression" -> Append(<<"run">> \o cond.trace, cond.value)
          [] s.t = "block" -> FlattenSeq([i \in DOMAIN s.kids |-> Run(s.kids[i], v)])
          [] s.t = "empty" -> <<>>
          [] s.t = "loop" -> <<"loop">> \o cond.trace \o (IF cond.value = "true" THEN Run(s.kids[2], v) ELSE <<>>)
          [] OTHER -> cond.trace \o (CASE cond.value = "true" -> Run(s.kids[2], v)
                                       [] Len(s.kids) = 3 -> Run(s.kids[3], v)
                                       [] OTHER -> <<>>)

Behaviour(s) == [v \in Values |-> Run(s, v)]

Wrapped(s) == FoldLeft(LAMBDA t, i : BodyWrap(t), s, Times(STABLE_BUDGET))
KeepsControl(s, answer) == Behaviour(answer) = Behaviour(s) /\ fingerprint(answer) = fingerprint(s)

RECURSIVE Bare(_)
Bare(s) == bodies(s) # {} \/ \E i \in DOMAIN s.kids : Bare(s.kids[i])

\* Each fingerprint with the behaviours of the programs that have it.
Judgements == {<<fingerprint(s), Behaviour(s)>> : s \in Programs}

--------------------------------------------------------------------------------
(* Calls in calls, objects, functions and parentheses.  A call is expanded    *)
(* once per round.                                                             *)

Rounds == 4
Call(args, flags) == [Node("call", "", args) EXCEPT !.flags = flags]
Calls(args) == {Call(list, flags) : list \in args, flags \in SUBSET {"method"}}
Simple == {Name("a"), Node("object", "", <<>>), Node("paren", "", <<Node("object", "", <<>>)>>)}
Short == Calls({<<>>} \cup {<<p>> : p \in Simple} \cup {<<p, [q EXCEPT !.comment = c]>> : p \in {Name("a")}, q \in Simple, c \in BOOLEAN})
Around(calls) == calls \cup {Node(t, "", <<c>>) : t \in {"object", "function", "paren"}, c \in calls}
Deeper == Calls({<<p>> : p \in Around(Short)} \cup {<<Name("a"), p>> : p \in Around(Short)})
CallTrees == Deeper \cup Calls({<<p>> : p \in Around(Deeper)})

Expanded(tree) == FoldLeft(LAMBDA t, i : ExpandedCall(t, <<>>), tree, Times(Rounds))

\* A call is on lines of its own when it has something to expand, no comment
\* in it, and no call around it that keeps its layout.
RECURSIVE Laid(_, _)
Laid(n, path) ==
    /\ n.t = "call" =>
          n.multi = (should_expand(n) /\ ~has_comment(n) /\ ~nested_in_unexpanded_argument(path))
    /\ \A i \in DOMAIN n.kids : Laid(n.kids[i], <<n>> \o path)

Links ==
    LET links == {[Node("link", "", <<>>) EXCEPT !.flags = flags, !.comment = c, !.multi = m] :
                    flags \in {{}, {"computed"}}, c \in BOOLEAN, m \in BOOLEAN}
    IN  UNION {[1 .. n -> links] : n \in 1 .. 3}

\* A chain is broken at every link up to the first that cannot move, or not
\* touched.
Broken(links, answer) ==
    /\ FluentChain(answer) = answer
    /\ \A i \in DOMAIN links : answer[i] = links[i] \/ (answer[i].multi /\ \A j \in 1 .. i : answer[j].multi)

--------------------------------------------------------------------------------

\* Templates in every language, over small texts and trees.
Line(of, run) == [of |-> of, run |-> run, inside |-> FALSE]
Word == Line("words", 0)
TextLines == {NoLine, Word, Line("words", 4), Line("ticks", 3), Line("ticks", 4), Line("tildes", 3)}
Put(lines, inside) == [k \in DOMAIN lines |-> IF lines[k] = NoLine THEN NoLine ELSE [lines[k] EXCEPT !.inside = inside]]

\* What the Markdown formatter prints: every fence has its end.
MarkdownTexts == {Put(lines, inside) : lines \in {text \in UNION {[1 .. n -> TextLines] : n \in 0 .. 4} : parse_for_format(text).closed}, inside \in BOOLEAN}

Piece(is, code, formatted) == [is |-> is, code |-> code, formatted |-> formatted]
HtmlTexts ==
    {<<Piece("markup", before, None), Piece(is, <<Word>>, formatted), Piece("markup", after, None)>> :
        before \in {<<>>, <<NoLine>>, <<Word, NoLine, NoLine>>}, is \in {"code", "attr"}, formatted \in {None, <<<<Word, NoLine, Word>>>>},
        after \in {<<>>, <<NoLine, Word>>, <<NoLine, NoLine>>}}

\* Forests, and the tags they are written with.
Pieces == {<<"text">>, <<"text", "text">>, <<"space">>, <<"alone">>}
Elements(content) == {<<"open">> \o inner \o <<"close">> : inner \in content}
Trees == Pieces \cup Elements({<<>>} \cup Pieces) \cup Elements(Elements({<<>>, <<"text">>}))
Forests == {<<>>} \cup {<<a>> : a \in Trees} \cup {<<a, b>> : a \in Trees, b \in Trees} \cup {<<a, b, c>> : a \in Pieces, b \in Trees, c \in Pieces}

\* The nodes of a forest, texts that follow each other being one, without
\* those of white space.
Roots(forest) ==
    LET nodes == SelectSeq(forest, LAMBDA tree : Head(tree) # "space")
    IN  Cardinality({k \in DOMAIN nodes : ~(k > 1 /\ Head(nodes[k]) = "text" /\ Head(nodes[k - 1]) = "text")})

Languages == {"gql", "css", "less", "yml", "json5", "html", "angular", "md", "toml"}
Formatters == {"graphql", "css", "scss", "less", "yaml", "json", "jsonc", "json5"}
Alike(formatted, lines, pieces) ==
    [f \in Formatters \cup {"html", "markdown"} |->
        CASE formatted = None -> None [] f = "html" -> <<pieces>> [] f = "markdown" -> <<lines>> [] OTHER -> <<f>>]
Task(language, in_js, forest, formats, width) ==
    [request |-> [language |-> language, in_js |-> in_js, code |-> FlattenSeq(forest)], forest |-> forest,
     formats |-> formats, ts |-> [indent |-> 4, width |-> width, single_quote |-> TRUE, trailing_comma |-> "all"]]
SomePieces == CHOOSE pieces \in HtmlTexts : TRUE
Templates ==
    {Task(language, in_js, <<>>, Alike(formatted, <<Word>>, SomePieces), width) :
        language \in Languages, in_js \in BOOLEAN, formatted \in {None, <<TRUE>>}, width \in {2, 80}}
        \cup {Task("html", FALSE, forest, Alike(<<TRUE>>, <<>>, SomePieces), 80) : forest \in Forests}
        \cup {Task("html", FALSE, <<>>, Alike(<<TRUE>>, <<>>, pieces), 80) : pieces \in HtmlTexts}
        \cup {Task("md", FALSE, <<>>, Alike(<<TRUE>>, lines, SomePieces), 80) : lines \in MarkdownTexts}

--------------------------------------------------------------------------------

\* The lines that are not blank, each with whether a blank line precedes it.
Content(lines) ==
    LET full == SelectSeq([k \in DOMAIN lines |-> k], LAMBDA k : ~Blank(lines[k]))
    IN  [n \in DOMAIN full |-> <<lines[full[n]], n > 1 /\ Blank(lines[full[n] - 1])>>]

\* Where a text has fences, and the lines in them and around them.
FencePlaces(lines) == {<<fence.from, fence.to>> : fence \in ToSet(collect_fences(parse_for_format(lines).root))}
Outside(lines) == [k \in {i \in DOMAIN lines : \A place \in FencePlaces(lines) : i \notin {place[1], place[2]}} |-> lines[k]]

\* A template stays as it is written unless a formatter took it, the one for
\* its language, or for SCSS in a script.  What the script's printer prints of
\* the answer has the lines the formatter wrote, blank lines between the same
\* ones.  Markdown keeps its fences and what is in them, without a backtick
\* to fence with.  HTML is said to have several roots when it has.
Dispatched(task, answer) ==
    LET to == route(task.request.language).to
        in_css == to \in {"css", "scss", "less"}
    IN  /\ answer = None <=> to = "none" \/ task.formats["css"] = None
        /\ answer # None =>
              /\ answer[1].by = IF in_css /\ task.request.in_js THEN "scss" ELSE to
              /\ answer[1].with.width \in 0 .. task.ts.width
        /\ answer # None /\ to = "html" =>
              /\ answer[1].roots = (Roots(task.forest) > 1)
              /\ Content(print_ir(answer[1].ir))
                    = Content(FlattenSeq([k \in DOMAIN task.formats["html"][1] |-> embedded(task.formats["html"][1][k])]))
        /\ answer # None /\ to = "markdown" =>
              LET before == trim(task.formats["markdown"][1])
                  after == tilde_fences(before)
              IN  /\ Content(print_ir(answer[1].ir)) = Content(after)
                  /\ FencePlaces(after) = FencePlaces(before)
                  /\ Outside(after) = Outside(before)
                  /\ \A place \in FencePlaces(after) : after[place[1]].of = "tildes" /\ after[place[2]].of = "tildes"
==============================================================================
