------------------------------- MODULE MCHosts -------------------------------
(* Documents, printers and rounds for the host formatter.                     *)
EXTENDS Hosts

LOCAL INSTANCE SequencesExt

Open(name, lang) == [k |-> "open", name |-> name, lang |-> lang, void |-> FALSE]
Word(n) == [k |-> "word", text |-> n]
Comment == [k |-> "comment"]
CommentEnd == [k |-> "comment_end"]
Block(name, lang, body) == <<Open(name, lang)>> \o body \o <<[k |-> "close", name |-> name]>>

Lines == <<Newline, Newline, Indent, Word(1), Newline, Indent, Word(2), Newline, Indent>>
Bodies ==
    {<<>>, <<Newline>>, <<Word(1)>>, <<Newline, Indent, Word(1), Newline>>, Lines,
     <<Comment, Word(1), CommentEnd>>, Block("script", "ts", <<Word(1)>>), <<Comment, Word(1)>>}
Pieces ==
    {Block("docs", "", body) : body \in Bodies}
        \cup {Block("template", lang, body) : lang \in {"", "pug"},
                body \in {<<Newline, Word(1), Newline>>, Block("template", "", <<Word(1)>>),
                          Block("docs", "", <<Word(1)>>), <<Comment, Word(1)>>}}
        \cup {Block("script", lang, body) : lang \in {"ts", "coffee"}, body \in {<<>>, Lines}}
        \cup {Block("style", "stylus", <<Word(2)>>), <<Comment>> \o Block("docs", "", <<Word(1)>>) \o <<CommentEnd>>,
              <<Comment>>, <<[Open("docs", "") EXCEPT !.void = TRUE]>>, <<Newline>>, <<Open("docs", "")>>,
              <<Placeholder(1)>>}
Documents == {first \o second : first \in Pieces, second \in Pieces}

\* The markup printer: it leaves the text alone, puts a placeholder on a line
\* of its own, or loses it; text that is not masked it changes at will.
Printers == {"same", "lines", "drop"}
Printed(printer, text) ==
    CASE printer = "lines" -> FlattenSeq([i \in DOMAIN text |->
            IF text[i].k = "placeholder" THEN <<Newline, Indent, text[i], Newline, Indent>> ELSE <<text[i]>>])
      [] printer = "drop" -> SelectSeq(text, LAMBDA t : t.k # "placeholder")
      [] OTHER -> text

Embedded == {<<>>} \cup {<<[kind |-> kind, answer |-> answer]>> :
                            kind \in {"script", "style", "expression"}, answer \in {"same", "changed", "error"}}

Markup(lang, doc, printer, blocks) ==
    LET input == IF Masks(lang, doc) THEN mask(lang, doc).text ELSE doc
    IN  MarkupRound(lang, doc, [text \in {input} |-> Printed(printer, text)], blocks)

\* The raw bodies are in the answer as they were, and a place of the masked
\* text is traced back to the same token of the document.
RawKept(lang, doc, answer) ==
    (Masks(lang, doc) /\ answer.ok) =>
        /\ mask(lang, answer.output).bodies = mask(lang, doc).bodies
        /\ LET masked == mask(lang, doc)
           IN  \A i \in DOMAIN masked.text :
                  masked.text[i].k = "placeholder" \/ doc[original_offset(masked, i)] = masked.text[i]

--------------------------------------------------------------------------------
(* Rounds.  A text is a number; what a printer maps to 0 it refuses.          *)

Rounds == [1 .. 5 -> 0 .. 5]
RoundOf(next) ==
    [text \in DOMAIN next |->
        CASE next[text] = 0 -> [ok |-> FALSE, error |-> "syntax"]
          [] next[text] = text -> [ok |-> TRUE, output |-> text, applied |-> <<>>]
          [] OTHER -> [ok |-> TRUE, output |-> next[text], applied |-> <<"markup">>]]

MarkdownRounds == [print : [1 .. 3 -> 0 .. 3], fences : [1 .. 3 -> 1 .. 3]]
MarkdownRoundOf(r) ==
    LET print == RoundOf(r.print)
        fenced == [text \in 1 .. 3 |->
                    [output |-> r.fences[text], steps |-> IF r.fences[text] = text THEN <<>> ELSE <<"css">>]]
    IN  [text \in 1 .. 3 |-> MarkdownRound(text, print, fenced)]

\* The answer is a fixed point of the rounds, and a changed document names
\* each step that changed it once.
Settles(round, source, answer) ==
    answer.ok =>
        /\ round[answer.output].ok /\ round[answer.output].output = answer.output
        /\ IsInjective(answer.applied)
        /\ answer.output # source => answer.applied # <<>>

--------------------------------------------------------------------------------
(* Fences.                                                                     *)

FenceLines == {<<>>} \cup {<<[run |-> n]>> : n \in 0 .. 4} \cup {<<[run |-> n], [run |-> m]>> : n \in 0 .. 4, m \in 0 .. 4}
Fences == {[run |-> run, prefix |-> 0, lines |-> lines] :
             run \in 3 .. 4, lines \in {l \in FenceLines : \A i \in DOMAIN l : l[i].run < 3}}

\* No line of a fence is as long a run as the fence: it would end it.
Closed(fence) == \A i \in DOMAIN fence.lines : fence.lines[i].run < fence.run
==============================================================================
