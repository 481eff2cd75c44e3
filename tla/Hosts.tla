-------------------------------- MODULE Hosts --------------------------------
(* Host documents (crates/hosts): Vue and HTML through the markup printer,    *)
(* Markdown through the Markdown printer, both external.  A markup document   *)
(* is a sequence of tokens: opening tags with their name and lang attribute   *)
(* ("" for none), closing tags, comment delimiters, newlines, indentation,    *)
(* words, and the placeholder of a raw block.                                 *)
EXTENDS Integers, Sequences, FiniteSets

LOCAL INSTANCE SequencesExt
LOCAL INSTANCE FiniteSetsExt

EXTRA_ROUNDS == 3
ScriptTags == {"ts", "tsx", "mts", "cts", "js", "jsx", "mjs", "cjs", "typescript", "javascript"}
StyleTags == {"css", "postcss", "scss", "less"}

Newline == [k |-> "newline"]
Indent == [k |-> "indent"]
IsSpace(t) == t \in {Newline, Indent}
Opens(t, name) == t.k = "open" /\ t.name = name /\ ~t.void
Closes(t, name) == t.k = "close" /\ t.name = name

--------------------------------------------------------------------------------
(* Rounds.  round maps a text to what one formatting round makes of it: an    *)
(* error, or an output with the steps that changed it.                        *)

\* The union of two rounds' steps, in order.
JoinSteps(steps, more) == steps \o SelectSeq(more, LAMBDA s : ~Contains(steps, s))

format_with(round, source) ==
    LET first == round[source]
        after[n \in 0 .. EXTRA_ROUNDS] ==
            IF n = 0 THEN first
            ELSE LET done == after[n - 1]
                     next == IF done.ok THEN round[done.output] ELSE done
                 IN  IF ~next.ok THEN next
                     ELSE [ok |-> TRUE, output |-> next.output,
                           applied |-> IF next.output = done.output THEN done.applied
                                       ELSE JoinSteps(done.applied, next.applied)]
        settled == {n \in 1 .. EXTRA_ROUNDS : after[n].ok /\ after[n].output = after[n - 1].output}
        failed == {n \in 1 .. EXTRA_ROUNDS : ~after[n].ok}
    IN  CASE ~first.ok \/ first.output = source -> first
          [] settled # {} -> after[Min(settled)]
          [] failed # {} -> after[Min(failed)]
          [] OTHER -> [ok |-> FALSE, error |-> "idempotency"]

--------------------------------------------------------------------------------
(* Raw blocks of a markup document.                                           *)

\* The first closing tag of name from a position on; 0 when there is none.
find_closing(doc, from, name) ==
    LET at == {i \in from .. Len(doc) : Closes(doc[i], name)} IN IF at = {} THEN 0 ELSE Min(at)

\* The closing tag that balances the template opened before from.
closing_template(doc, from) ==
    LET opened(i) == Cardinality({j \in from .. i : Opens(doc[j], "template")})
        closed(i) == Cardinality({j \in from .. i : Closes(doc[j], "template")})
        at == {i \in from .. Len(doc) : Closes(doc[i], "template") /\ closed(i) = opened(i) + 1}
    IN  IF at = {} THEN 0 ELSE Min(at)

Element(doc, i, close) == [tag |-> doc[i], start |-> i + 1, end |-> close - 1]

\* The top-level blocks of a Vue component; a comment hides what it holds.
top_level_blocks(doc) ==
    LET ends(i) == {j \in i .. Len(doc) : doc[j].k = "comment_end"}
        closing(i) == IF doc[i].name = "template" THEN closing_template(doc, i + 1)
                      ELSE find_closing(doc, i + 1, doc[i].name)
        from[back \in 0 .. Len(doc)] ==
            LET i == Len(doc) + 1 - back IN
            CASE back = 0 -> <<>>
              [] doc[i].k = "comment" ->
                    IF ends(i) = {} THEN <<>> ELSE from[Len(doc) - Min(ends(i))]
              [] doc[i].k = "open" /\ ~doc[i].void ->
                    IF closing(i) = 0 THEN <<>>
                    ELSE <<Element(doc, i, closing(i))>> \o from[Len(doc) + 1 - closing(i)]
              [] OTHER -> from[back - 1]
    IN  from[Len(doc)]

\* Every script and style element of an HTML document.
raw_text_elements(doc) ==
    LET from[back \in 0 .. Len(doc)] ==
            LET i == Len(doc) + 1 - back
                close == find_closing(doc, i + 1, doc[i].name) IN
            CASE back = 0 -> <<>>
              [] doc[i].k = "open" /\ doc[i].name \in {"script", "style"} ->
                    IF close = 0 THEN <<>> ELSE <<Element(doc, i, close)>> \o from[Len(doc) + 1 - close]
              [] OTHER -> from[back - 1]
    IN  from[Len(doc)]

is_raw(lang, tag) ==
    CASE tag.name = "script" -> tag.lang # "" /\ tag.lang \notin ScriptTags
      [] tag.name = "style" -> tag.lang # "" /\ tag.lang \notin StyleTags
      [] tag.name = "template" -> lang = "vue" /\ tag.lang \notin {"", "html"}
      [] OTHER -> lang = "vue"

\* A body without its leading blank lines and trailing whitespace: the first
\* line keeps its indentation.  <<>> when it is blank.
normalize(body) ==
    LET words == {i \in DOMAIN body : ~IsSpace(body[i])}
        lines == {i \in 1 .. Min(words) - 1 : body[i] = Newline}
    IN  IF words = {} THEN <<>> ELSE SubSeq(body, Max({0} \cup lines) + 1, Max(words))

Body(doc, e) == SubSeq(doc, e.start, e.end)
RawElements(lang, doc) ==
    SelectSeq(IF lang = "vue" THEN top_level_blocks(doc) ELSE raw_text_elements(doc),
              LAMBDA e : is_raw(lang, e.tag) /\ normalize(Body(doc, e)) # <<>>)

Placeholder(i) == [k |-> "placeholder", index |-> i]

\* The document with its raw bodies replaced by placeholders.
mask(lang, doc) ==
    LET raw == RawElements(lang, doc)
        cursor(i) == IF i = 0 THEN 1 ELSE raw[i].end + 1
        gap(i) == SubSeq(doc, cursor(i - 1), raw[i].start - 1)
    IN  [text |-> FlattenSeq([i \in DOMAIN raw |-> Append(gap(i), Placeholder(i))])
                    \o SubSeq(doc, cursor(Len(raw)), Len(doc)),
         bodies |-> [i \in DOMAIN raw |-> normalize(Body(doc, raw[i]))],
         lengths |-> [i \in DOMAIN raw |-> Len(Body(doc, raw[i]))]]

Masks(lang, doc) == (\A i \in DOMAIN doc : doc[i].k # "placeholder") /\ RawElements(lang, doc) # <<>>

\* Where a token of the masked text stands in the document.
original_offset(masked, offset) ==
    LET before == {i \in DOMAIN masked.bodies :
                     \E j \in 1 .. offset - 1 : masked.text[j] = Placeholder(i)}
    IN  offset + FoldSet(LAMBDA i, n : n + masked.lengths[i] - 1, 0, before)

RestoreOne_InPlace(out, i, body) ==
    LET at == CHOOSE j \in DOMAIN out : out[j] = Placeholder(i)
    IN  SubSeq(out, 1, at - 1) \o body \o SubSeq(out, at + 1, Len(out))

\* One body put back: everything between the tags around the placeholder is
\* replaced, but the indentation of the closing tag is kept when it stands on
\* a line of its own.
RestoreOne(out, i, body) ==
    LET at == CHOOSE j \in DOMAIN out : out[j] = Placeholder(i)
        open == Max({j \in 1 .. at : out[j].k \in {"open", "close", "comment_end"}})
        close == Min({j \in at .. Len(out) : out[j].k \in {"open", "close", "comment"}})
        line == Max({0} \cup {j \in 1 .. close - 1 : out[j] = Newline})
        kept == IF line > open /\ \A j \in line + 1 .. close - 1 : out[j] = Indent THEN line + 1 ELSE close
    IN  SubSeq(out, 1, open) \o <<Newline>> \o body \o <<Newline>> \o SubSeq(out, kept, Len(out))

Restorable(masked, out) == \A i \in DOMAIN masked.bodies : Contains(out, Placeholder(i))
restore(masked, out) ==
    FoldLeft(LAMBDA text, i : RestoreOne(text, i, masked.bodies[i]), out, [i \in DOMAIN masked.bodies |-> i])

--------------------------------------------------------------------------------
(* One round of a markup document.  print is what the markup printer makes of *)
(* the text it is given; blocks are the embedded pieces it hands over, in     *)
(* order, with what their formatter answers: "same", "indent" when only the   *)
(* common indentation differs, "changed" or "error".                          *)

\* A whole script fails the document; an expression or a style is kept.
script(block) == block.kind = "script" /\ block.answer = "error"

Marks(block) ==
    CASE block.answer # "changed" -> <<>>
      [] block.kind = "script" -> <<"embedded">>
      [] block.kind = "style" -> <<"css">>
      [] OTHER -> <<>>

route(blocks) == FoldLeft(LAMBDA steps, b : JoinSteps(steps, Marks(b)), <<>>, blocks)

MarkupRound(lang, doc, print, blocks) ==
    LET masked == mask(lang, doc)
        output == CASE ~Masks(lang, doc) -> print[doc]
                    [] Restorable(masked, print[masked.text]) -> restore(masked, print[masked.text])
                    [] OTHER -> doc
        steps == route(blocks)
    IN  IF \E i \in DOMAIN blocks : script(blocks[i]) THEN [ok |-> FALSE, error |-> "embedded"]
        ELSE [ok |-> TRUE, output |-> output,
              applied |-> IF output = doc THEN steps ELSE JoinSteps(steps, <<"markup">>)]

--------------------------------------------------------------------------------
(* Fences of a printed Markdown document.  A fence has the length of its run, *)
(* its container prefix and its lines; of a line only the longest run of the  *)
(* fence character matters.  answer is what the formatter makes of the lines: *)
(* <<>> when it fails or leaves nothing.                                      *)

\* The fence rebuilt around formatted lines; its run outgrows theirs.
splice(fence, lines) ==
    [fence EXCEPT !.lines = lines,
                  !.run = Max({@} \cup {lines[i].run + 1 : i \in DOMAIN lines})]

format_fences(fences, answer) ==
    [i \in DOMAIN fences |->
        IF answer[i] \in {<<>>, fences[i].lines} THEN fences[i] ELSE splice(fences[i], answer[i])]

\* One round of a Markdown document: it is printed, its fences are formatted,
\* and it is printed again.  fenced maps a printed text to the text with its
\* fences formatted and the steps that changed them.
MarkdownRound(text, print, fenced) ==
    LET printed == print[text]
        spliced == fenced[printed.output]
        reprinted == print[spliced.output]
        own == IF printed.output = text THEN <<>> ELSE <<"markdown">>
        last(out, steps) == [ok |-> TRUE, output |-> out,
                             applied |-> IF out = text THEN steps ELSE JoinSteps(steps, <<"markdown">>)]
    IN  CASE ~printed.ok -> printed
          [] spliced.steps = <<>> \/ ~reprinted.ok -> last(printed.output, own)
          [] OTHER -> last(reprinted.output,
                           IF reprinted.output = spliced.output THEN own \o spliced.steps
                           ELSE JoinSteps(own \o spliced.steps, <<"markdown">>))
==============================================================================
