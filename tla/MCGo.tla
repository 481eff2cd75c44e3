-------------------------------- MODULE MCGo ---------------------------------
(* Inputs for the Go spacing rule, for the steps of one Go file and for the   *)
(* frames of the helper, and what the answers are held against.               *)
EXTENDS Spacing, GoFormat, Wire

LOCAL INSTANCE SequencesExt

\* Files of up to MaxLines lines, with and without an import in front.
MaxLines == 4
LineKinds == {"type", "func", "var", "embed", "doc", "blank"}
File(kinds) ==
    <<[kind |-> "package", id |-> 0]>>
        \o [i \in DOMAIN kinds |-> IF kinds[i] = "blank" THEN Blank ELSE [kind |-> kinds[i], id |-> i]]
Fronts == {<<>>, <<"import">>, <<"embed", "import">>}
Files == UNION {{File(front \o kinds) : front \in Fronts, kinds \in [1 .. n -> LineKinds]} : n \in 0 .. MaxLines}

\* Statement lists of up to three statements, under imports that bind a
\* spaced package, rename one, or neither.
Statement(kind, recv, sel, lhs, func) ==
    [kind |-> kind, recv |-> recv, sel |-> sel, lhs |-> lhs, func |-> func, gap |-> 1]
Statements ==
    {Statement("call", "rand", "Shuffle", "", FALSE), Statement("call", "s", "Sort", "", FALSE),
     Statement("call", "t", "Helper", "", FALSE), Statement("define", "", "", "rand", FALSE),
     Statement("define", "", "", "s", TRUE), Statement("var", "", "", "s", FALSE),
     Statement("return", "", "", "", FALSE), Statement("block", "", "", "", FALSE)}
Later == {[s EXCEPT !.gap = gap] : s \in Statements, gap \in 0 .. 2}
Lists == {<<s>> : s \in Statements} \cup {<<s, t>> : s \in Statements, t \in Later}
            \cup {<<s, t, u>> : s \in Statements, t \in Later, u \in Later}
Imports == {<<>>, <<[path |-> "slices", name |-> "s"]>>, <<[path |-> "slices", name |-> "_"]>>}

--------------------------------------------------------------------------------

Texts(src) == {src[i] : i \in DOMAIN src} \ {Blank}
Count(src) == Cardinality({i \in DOMAIN src : src[i] # Blank})
LineOf(src, l) == CHOOSE i \in DOMAIN src : src[i] = l

\* Every line of the file is still there, once.
KeepsLines(src, answer) == Texts(answer) = Texts(src) /\ Count(answer) = Count(src)

\* Every go:embed group has a var to go to, and one that has to move stands
\* between blank lines.
PlacedIn(file) ==
    LET moved == {file.matches[d] : d \in Detached(file)}
    IN  /\ \A g \in EmbedGroups(file.src) : \E d \in VarDecls(file.src) : d > g.end
        /\ \A g \in moved : file.src[g.start - 1] = Blank /\ file.src[g.end + 1] = Blank
Placed(src) == PlacedIn(newFileContext(src))

\* A directive group that belongs to a var stands above it in the answer.
AttachedIn(file, answer) ==
    \A d \in DOMAIN file.matches :
        LET g == file.matches[d]
            at == LineOf(answer, file.src[d])
            n == g.end - g.start + 1
        IN  at > n /\ SubSeq(answer, at - n, at - 1) = SubSeq(file.src, g.start, g.end)
Attached(src, answer) == AttachedIn(newFileContext(src), answer)

\* At most one line more above a statement; what is still reported shares its
\* line with the statement before or stands in front of one that does.
Spaced(list, aliases, answer) ==
    /\ \A i \in DOMAIN list : answer[i] \in {list[i], [list[i] EXCEPT !.gap = @ + 1]}
    /\ \A i \in GapViolations(answer, aliases) : answer[i].gap = 0

--------------------------------------------------------------------------------

\* Requests over two texts, with every function a step could be.
GoTexts == 1 .. 2
Steps == [GoTexts -> GoTexts \cup {None}]
To(text) == [t \in GoTexts |-> text]
Requests ==
    [source : {1}, steps : SUBSET {"spacing", "gofmt", "goimports", "complexity"}, resolve : BOOLEAN,
     does : [spacing : Steps, gofmt : Steps, goimports : {To(None), To(1), To(2)}, resolving : {To(1), To(2)}, parses : {{1}}]]

\* A reply with an error gives the file back as it came, with no scores and
\* with what the steps before it reported.  Otherwise the output is what the
\* steps it names made of the source, every other selected step left the text
\* as it was, and the scores are the output's.
Faithful(req, reply) ==
    LET ran(names) == FoldLeft(LAMBDA text, name : IF text = None THEN None ELSE StepOf(req, name)[text], req.source, names)
    IN /\ ToSet(reply.applied) \subseteq req.steps
       /\ ran(reply.applied) # None
       /\ reply.error # "none" => reply.output = req.source /\ reply.complexity = None
       /\ reply.error = "none" =>
             /\ reply.output = ran(reply.applied)
             /\ reply.output = ran(SelectSeq(<<"spacing", "gofmt", "goimports">>, LAMBDA name : name \in req.steps))
             /\ reply.complexity = IF "complexity" \in req.steps THEN reply.output ELSE None
       /\ "spacing" \in req.steps /\ reply.error # "spacing" => reply.violations = req.source

--------------------------------------------------------------------------------

(* Frames, what a stream may make of their bytes, and the two readings.       *)

Sent(kind, id, value) == [kind |-> kind, id |-> id, value |-> value]
Text == <<97>>
NotUtf8 == <<200>>

Frames ==
    {Sent("hello", 0, <<PROTOCOL_VERSION, Text>>),
     Sent("hello", 0, <<PROTOCOL_VERSION, NotUtf8>>),
     Sent("shutdown", 0, <<>>),
     Sent("process", 300, <<Text, <<200, 1>>, <<1, 0, 200>>, TRUE, FALSE, TRUE, FALSE, TRUE>>),
     Sent("process", 7, <<<<>>, <<>>, <<>>, FALSE, FALSE, FALSE, TRUE, FALSE>>),
     Sent("reply", 7, <<<<>>, <<65, 200>>, <<<<Text>>, <<<<>>>>>>, <<<<Text, 70000, 1, <<>>>>>>, <<>>>>),
     Sent("reply", 8, <<Text, <<>>, <<>>, <<>>, <<<<Text, NotUtf8, 1, 2, 3>>>>>>),
     Sent("reply", 9, <<Text, <<>>, <<>>, <<<<Text, 1, 1, Text>>>>, <<<<Text, Text, 1, 2, 3>>>>>>)}

\* The bytes as they are, cut short, with one byte changed, or followed by
\* more.
Damaged(bytes) ==
    {bytes, bytes \o bytes, Append(bytes, 0)}
        \cup {SubSeq(bytes, 1, n) : n \in 0 .. Len(bytes) - 1}
        \cup {[bytes EXCEPT ![i] = v] : i \in DOMAIN bytes, v \in {0, 1, 2, 3, 4, 16, 127}}

\* What Go makes of a buffer: the frame is read, then its payload by its kind.
GoPayload(read) ==
    IF ~read.ok \/ ~IsKind(read.kind) THEN [ok |-> FALSE]
    ELSE Frame(KindOf(read.kind), read.id, GoDecode(GoLayout[KindOf(read.kind)], read.payload))
GoRead(bytes) == GoPayload(ReadFrame(bytes))

\* A payload with its texts as Rust holds them.
AsRust(kind, value) ==
    LET layout == RustLayout[kind]
        one(field, v) == IF field = "text" THEN lossy(v) ELSE v
        each(list, v) == [k \in DOMAIN list |-> one(list[k], v[k])]
    IN  [i \in DOMAIN layout |->
            IF IsList(layout[i]) THEN [e \in DOMAIN value[i] |-> each(layout[i].of, value[i][e])]
            ELSE one(layout[i].of[1], value[i])]

SameReading(rust, go) ==
    /\ rust.ok = go.ok
    /\ rust.ok => rust.frame = [go.frame EXCEPT !.value = AsRust(go.frame.kind, @)]
==============================================================================
