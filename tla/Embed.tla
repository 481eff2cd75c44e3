-------------------------------- MODULE Embed --------------------------------
(* Templates of other languages in a script: who formats them, and how text   *)
(* that comes back is handed to the script's printer                          *)
(* (crates/ts/src/embed/dispatcher.rs, text.rs).                              *)
(*                                                                            *)
(* What a formatter makes of a code is an input, None when it does not parse. *)
(* A text is its lines.  A line is a run of backticks ("ticks"), of tildes,   *)
(* or words with a longest run of tildes in them, or empty (""); it may stand *)
(* in a container.  HTML is the tags and texts it is scanned into.            *)
EXTENDS Integers, Sequences

LOCAL INSTANCE SequencesExt
LOCAL INSTANCE FiniteSetsExt

None == <<>>

--------------------------------------------------------------------------------
(* The routing table.                                                         *)

route(language) ==
    CASE language \in {"graphql", "gql"} -> [channel |-> "native", to |-> "graphql"]
      [] language \in {"css", "scss", "less", "json", "jsonc", "json5"} -> [channel |-> "native", to |-> language]
      [] language \in {"yaml", "yml"} -> [channel |-> "native", to |-> "yaml"]
      [] language = "html" -> [channel |-> "text", to |-> "html"]
      [] language \in {"markdown", "md"} -> [channel |-> "text", to |-> "markdown"]
      [] OTHER -> [channel |-> "none", to |-> "none"]

\* How wide a formatter may print.  A template's body is usually one indent in,
\* so HTML is laid out that much narrower.
Options(ts, to) ==
    [indent |-> ts.indent, quotes |-> ts.single_quote, commas |-> ts.trailing_comma # "none",
     width |-> IF to = "html" THEN Max({ts.width - ts.indent, 0}) ELSE ts.width]

--------------------------------------------------------------------------------
(* Text.                                                                      *)

Blank(text_line) == text_line.of = ""
NoLine == [of |-> "", run |-> 0, inside |-> FALSE]

\* Without the empty lines around it.
RECURSIVE trim(_)
trim(lines) ==
    IF lines # <<>> /\ Blank(Head(lines)) THEN trim(Tail(lines))
    ELSE IF lines # <<>> /\ Blank(Last(lines)) THEN trim(Front(lines))
    ELSE lines

\* The markup printer hands out the pieces that are code: a script or a style
\* comes back formatted, or as it was when it does not parse; an attribute
\* stays, and so does a piece of another language.
embedded(piece) == IF piece.is # "code" \/ piece.formatted = None THEN piece.code ELSE piece.formatted[1]
html(pieces) == trim(FlattenSeq([k \in DOMAIN pieces |-> embedded(pieces[k])]))

into_ir_AllHard(lines) ==
    FlattenSeq([k \in DOMAIN lines |->
        (IF k > 1 THEN <<[is |-> "hard", text |-> NoLine]>> ELSE <<>>)
            \o (IF Blank(lines[k]) THEN <<>> ELSE <<[is |-> "text", text |-> lines[k]]>>)])

\* A text per line, joined by hard lines; one that leads to a blank line is an
\* empty line.
into_ir(lines) ==
    FlattenSeq([k \in DOMAIN lines |->
        (IF k > 1 THEN <<[is |-> IF Blank(lines[k]) THEN "empty" ELSE "hard", text |-> NoLine]>> ELSE <<>>)
            \o (IF Blank(lines[k]) THEN <<>> ELSE <<[is |-> "text", text |-> lines[k]]>>)])

\* The script's printer.  A hard line ends a line that has something in it; an
\* empty one does that too, and leaves a blank line unless there is one.
Ended(lines) == IF Blank(Last(lines)) THEN lines ELSE Append(lines, NoLine)
PrintElement(out, element) ==
    CASE element.is = "text" -> [lines |-> Append(Front(out.lines), element.text), blank |-> FALSE]
      [] element.is = "hard" \/ out.blank -> [out EXCEPT !.lines = Ended(@)]
      [] element.is = "empty" /\ ~out.blank -> [lines |-> Append(Ended(out.lines), NoLine), blank |-> TRUE]
print_ir(ir) == FoldLeft(PrintElement, [lines |-> <<NoLine>>, blank |-> FALSE], ir).lines

--------------------------------------------------------------------------------
(* Markdown.                                                                  *)

\* The parser: a fence runs to the next line of its mark that is as long.
FenceLine(state, lines, k) ==
    CASE state.open = 0 /\ lines[k].of \in {"ticks", "tildes"} /\ lines[k].run >= 3 -> [state EXCEPT !.open = k]
      [] state.open # 0 /\ lines[k].of = lines[state.open].of /\ lines[k].run >= lines[state.open].run ->
            [open |-> 0, blocks |-> Append(state.blocks, [is |-> "code", fence |-> lines[k].of, from |-> state.open, to |-> k, children |-> <<>>])]
      [] OTHER -> state
parse_for_format(lines) ==
    LET parsed == FoldLeft(LAMBDA state, k : FenceLine(state, lines, k), [open |-> 0, blocks |-> <<>>], [k \in DOMAIN lines |-> k])
        container == [is |-> "container", fence |-> "", from |-> 1, to |-> Len(lines), children |-> parsed.blocks]
    IN  [closed |-> parsed.open = 0, root |-> IF \E k \in DOMAIN lines : lines[k].inside THEN <<container>> ELSE parsed.blocks]

RECURSIVE collect_fences(_)
collect_fences(blocks) ==
    FlattenSeq([k \in DOMAIN blocks |-> IF blocks[k].is = "code" THEN <<blocks[k]>> ELSE collect_fences(blocks[k].children)])

\* Longer than every run of tildes between the fences.
Tildes_Three(lines, fence) == 3

Tildes(lines, fence) ==
    Max({3} \cup {lines[k].run + 1 : k \in {i \in fence.from + 1 .. fence.to - 1 : lines[i].of # "ticks"}})

\* Every fence of backticks becomes one of tildes.
tilde_fences(lines) ==
    LET fences == {fence \in ToSet(collect_fences(parse_for_format(lines).root)) : fence.fence = "ticks"}
    IN  [k \in DOMAIN lines |->
            IF \E fence \in fences : k \in {fence.from, fence.to}
            THEN [lines[k] EXCEPT !.of = "tildes", !.run = Tildes(lines, CHOOSE fence \in fences : k \in {fence.from, fence.to})]
            ELSE lines[k]]

--------------------------------------------------------------------------------
(* HTML.  A tag opens an element, closes one, or is one by itself: a comment, *)
(* a doctype, an element without content, or a raw one to its end.            *)

\* roots: the root nodes so far; depth: the elements that are open.
Scan(state, tag) ==
    CASE tag = "text" -> [state EXCEPT !.roots = IF state.depth = 0 /\ ~state.in_text THEN @ + 1 ELSE @,
                                       !.in_text = state.depth = 0 \/ @]
      [] tag = "space" -> state
      [] tag = "alone" -> [state EXCEPT !.roots = IF state.depth = 0 THEN @ + 1 ELSE @, !.in_text = FALSE]
      [] tag = "open" -> [roots |-> IF state.depth = 0 THEN state.roots + 1 ELSE state.roots, depth |-> state.depth + 1, in_text |-> FALSE]
      [] tag = "close" -> [state EXCEPT !.depth = Max({@ - 1, 0}), !.in_text = FALSE]

has_multiple_roots(tags) == FoldLeft(Scan, [roots |-> 0, depth |-> 0, in_text |-> FALSE], tags).roots > 1

--------------------------------------------------------------------------------

\* What becomes of a template: None when it stays as it is written.
\* formats: what each formatter makes of the code.
Answer(request, to, formatted, ts) ==
    [by |-> to, with |-> Options(ts, to),
     ir |-> CASE to = "html" -> into_ir(html(formatted)) [] to = "markdown" -> into_ir(tilde_fences(trim(formatted))) [] OTHER -> formatted,
     roots |-> to = "html" /\ has_multiple_roots(request.code)]

dispatcher(request, formats, ts) ==
    LET to == IF request.in_js /\ request.language \in {"css", "scss", "less"} THEN "scss" ELSE route(request.language).to
    IN  IF to = "none" \/ formats[to] = None THEN None ELSE <<Answer(request, to, formats[to][1], ts)>>
==============================================================================
