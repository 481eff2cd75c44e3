-------------------------------- MODULE Passes --------------------------------
(* The text passes over a parsed script (crates/ts/src/passes) and the        *)
(* fingerprint that every step is checked by (crates/ts/src/fingerprint.rs).  *)
(* A program is a tree of nodes.  A node has its type t, its payload p (a     *)
(* name, a literal, an operator), flags, the names it reads, its children,    *)
(* and its layout: the line breaks and whether a comment stands between it    *)
(* and the sibling before, and whether its text spans lines.                  *)
EXTENDS Integers, Sequences, FiniteSets

LOCAL INSTANCE SequencesExt
LOCAL INSTANCE FiniteSetsExt

STABLE_BUDGET == 5

Node(t, p, kids) ==
    [t |-> t, p |-> p, kids |-> kids, flags |-> {}, reads |-> {}, gap |-> 1, multi |-> FALSE, comment |-> FALSE]

--------------------------------------------------------------------------------
(* Siblings: the statements of a list, the members of a class, the cases of a *)
(* switch.                                                                     *)

Loops == {"loop"}
TypeDeclarations == {"type", "enum", "export_type"}
Structured == Loops \cup {"class", "if", "switch", "try", "function", "export_block", "default_block"}
Exports == {"export", "export_type", "export_block", "default", "default_block"}
Variables == {"const", "let", "var"}

is_property_member(n) == n.t = "property"
is_method_member(n) == n.t \in {"constructor", "method"}
classify(n) == CASE n.t = "property" -> 1 [] n.t = "constructor" -> 2 [] OTHER -> 3

is_vue_primitive_statement(n) == "vue" \in n.flags /\ n.t \in {"call", "const"}
is_binding_call(n) == "bindings" \in n.flags /\ n.t = "call"
contains_await(n) == "await" \in n.flags /\ n.t # "directive"

needs_blank_line_above(next) ==
    \/ next.t \in {"case", "return", "switch", "class", "enum", "function"} \cup Exports
    \/ is_vue_primitive_statement(next)

needs_blank_line(previous, next) ==
    /\ ~(previous.t = "case" /\ next.t = "case" /\ previous.kids = <<>>)
    /\ \/ contains_await(previous) \/ contains_await(next) \/ needs_blank_line_above(next)
       \/ is_binding_call(next) /\ ~is_binding_call(previous)
       \/ next.t \in Loops /\ previous.t \notin Structured
       \/ /\ next.t \notin Loops
          /\ \/ (is_method_member(previous) \/ is_property_member(previous)) /\ is_method_member(next)
             \/ previous.t \in TypeDeclarations
             \/ previous.t = "import" /\ next.t # "import"
             \/ (previous.t = "const") # (next.t = "const")
             \/ (previous.t = "let") # (next.t = "let")
             \/ previous.t \in Variables /\ next.t \notin Variables
             \/ previous.t \in Loops \cup {"if", "switch", "try"}

\* One line break more where a blank line is needed and there is one break;
\* siblings on one line are left for the formatter to part.
BlankLine(list) ==
    [i \in DOMAIN list |->
        IF i > 1 /\ list[i].gap = 1 /\ needs_blank_line(list[i - 1], list[i])
        THEN [list[i] EXCEPT !.gap = 2] ELSE list[i]]

--------------------------------------------------------------------------------
(* Runs of imports and of consts: single-line ones first.                     *)

class(n) == IF n.t \in {"import", "const"} THEN n.t ELSE "other"

\* The list cut where the class of its entries changes.
Chunks(list, classes) ==
    LET cut(i) == i = 1 \/ classes[i] # classes[i - 1]
        starts == SelectSeq([i \in DOMAIN list |-> i], cut)
        last(k) == IF k < Len(starts) THEN starts[k + 1] - 1 ELSE Len(list)
    IN  [k \in DOMAIN starts |-> SubSeq(list, starts[k], last(k))]

can_reorder_consts_NoReads(group) == \A i \in DOMAIN group : "effect" \notin group[i].flags

\* Every initializer is free of side effects and no multiline const is read
\* by a later single-line one.
can_reorder_consts(group) ==
    /\ \A i \in DOMAIN group : "effect" \notin group[i].flags
    /\ \A i, j \in DOMAIN group :
          (i < j /\ group[i].multi /\ ~group[j].multi) => group[i].p \notin group[j].reads

\* The rewritten group.  A comment between two entries, or code in front of
\* the first one, declines; a comment above the first entry stays there.
group_edit(group, can_reorder) ==
    LET single == SelectSeq(group, LAMBDA n : ~n.multi)
        multi == SelectSeq(group, LAMBDA n : n.multi)
        ordered == IF can_reorder THEN single \o multi ELSE group
        gap(k) == CASE k = 1 -> group[1].gap
                    [] ordered[k - 1].multi \/ ordered[k].multi -> 2
                    [] OTHER -> 1
    IN  IF \/ \E k \in 2 .. Len(group) : group[k].comment
           \/ single = <<>> \/ multi = <<>> \/ group[1].gap = 0
        THEN group
        ELSE [k \in DOMAIN ordered |-> [ordered[k] EXCEPT !.gap = gap(k), !.comment = k = 1 /\ group[1].comment]]

DeclarationReorder(list) ==
    LET edited(run) == CASE Len(run) < 2 -> run
                         [] run[1].t = "import" -> group_edit(run, TRUE)
                         [] run[1].t = "const" -> group_edit(run, can_reorder_consts(run))
                         [] OTHER -> run
        runs == Chunks(list, [i \in DOMAIN list |-> class(list[i])])
    IN  FlattenSeq([k \in DOMAIN runs |-> edited(runs[k])])

--------------------------------------------------------------------------------
(* Class members: properties, constructors, methods.                          *)

\* A member without a terminator would run into the next one.
continues_onto(previous, next) == "open" \in previous.flags /\ "hazard" \in next.flags

\* tail: a comment stands after the last member.
ClassReorder(members, tail) ==
    LET of(kind) == SelectSeq(members, LAMBDA n : classify(n) = kind)
        desired == of(1) \o of(2) \o of(3)
    IN  IF \/ desired = members \/ tail \/ members[1].gap = 0
           \/ \E k \in DOMAIN members : members[k].comment
           \/ \E k \in 1 .. Len(desired) - 1 : continues_onto(desired[k], desired[k + 1])
        THEN members
        ELSE [k \in DOMAIN desired |-> [desired[k] EXCEPT !.gap = 1]]

--------------------------------------------------------------------------------
(* Unbraced bodies.                                                            *)

\* The children of a control statement that are bodies without braces; an
\* else if is none.
bodies(n) ==
    CASE n.t = "if" -> {i \in 2 .. Len(n.kids) : n.kids[i].t # "block" /\ ~(i = 3 /\ n.kids[i].t = "if")}
      [] n.t \in Loops -> {i \in {Len(n.kids)} : n.kids[i].t # "block"}
      [] OTHER -> {}

\* One run: the outermost of nested bodies are wrapped, the ones inside are
\* left for the next run.
RECURSIVE BodyWrap(_)
BodyWrap(n) ==
    [n EXCEPT !.kids = [i \in DOMAIN @ |-> IF i \in bodies(n) THEN Node("block", "", <<@[i]>>) ELSE BodyWrap(@[i])]]

--------------------------------------------------------------------------------
(* Calls.                                                                      *)

\* A node without the wrappers that do not change what it is.
RECURSIVE unwrap_expression(_)
unwrap_expression(n) == IF n.t \in {"paren", "as"} THEN unwrap_expression(n.kids[1]) ELSE n

\* A call's children are its arguments; flag "method": it is a method call.
should_expand(call) ==
    /\ "method" \notin call.flags
    /\ \E i \in DOMAIN call.kids : unwrap_expression(call.kids[i]).t \in {"call", "object", "array"}

RECURSIVE has_comment(_)
has_comment(n) == \E i \in DOMAIN n.kids : n.kids[i].comment \/ has_comment(n.kids[i])

\* The call stands in an argument of a call that keeps its layout.
RECURSIVE nested_in_unexpanded_argument(_)
nested_in_unexpanded_argument(path) ==
    /\ path # <<>>
    /\ path[1].t # "function"
    /\ IF path[1].t = "call" THEN ~should_expand(path[1]) ELSE nested_in_unexpanded_argument(Tail(path))

\* A call with each argument on its own line, and the calls that are its
\* arguments with it; multi: the arguments are on their own lines.
RECURSIVE call_parens(_)
call_parens(call) ==
    IF has_comment(call) \/ ~should_expand(call) THEN call
    ELSE [call EXCEPT !.multi = TRUE,
                      !.kids = [i \in DOMAIN @ |-> IF @[i].t = "call" THEN call_parens(@[i]) ELSE @[i]]]

\* One run: of nested rewrites the outermost is made.
RECURSIVE ExpandedCall(_, _)
ExpandedCall(n, path) ==
    IF n.t = "call" /\ ~nested_in_unexpanded_argument(path) /\ call_parens(n) # n THEN call_parens(n)
    ELSE [n EXCEPT !.kids = [i \in DOMAIN @ |-> ExpandedCall(@[i], <<n>> \o path)]]

FluentChain_EachLink(links) ==
    [k \in DOMAIN links |->
        IF Len(links) > 1 /\ ~links[k].comment /\ "computed" \notin links[k].flags
        THEN [links[k] EXCEPT !.multi = TRUE] ELSE links[k]]

\* A chain of calls as its links, from the base on: flags "computed" and
\* multi when the link starts a line.  A link that cannot be moved ends the
\* chains it is part of; a chain has at least two links.
FluentChain(links) ==
    LET movable(k) == ~links[k].comment /\ "computed" \notin links[k].flags
        moved == {n \in 2 .. Len(links) : \A k \in 1 .. n : movable(k)}
    IN  [k \in DOMAIN links |-> IF \E n \in moved : k <= n THEN [links[k] EXCEPT !.multi = TRUE] ELSE links[k]]

--------------------------------------------------------------------------------
(* The fingerprint: a hash is the structure itself.  path is the ancestors of *)
(* a node, the nearest first.                                                  *)

EMBEDDED_TAGS == {"css", "styled", "gql", "graphql", "html", "md", "markdown"}

Is(path, k, t) == k <= Len(path) /\ path[k].t = t

\* A template that the formatter may hand to a formatter of another language.
mark_embedded(n, path) ==
    \/ Is(path, 1, "tagged") /\ path[1].p \in EMBEDDED_TAGS
    \/ Is(path, 1, "call") /\ path[1].p = "graphql"
    \/ Is(path, 1, "container") /\ Is(path, 2, "attribute") /\ path[2].p = "css"
    \/ Is(path, 1, "container") /\ Is(path, 2, "element") /\ path[2].p = "style" /\ "jsx" \in path[2].flags
    \/ Is(path, 1, "property_value") /\ path[1].p \in {"template", "styles"} /\ Is(path, 2, "component")
    \/ "language_comment" \in n.flags

\* The operator of the logical chain that the node continues.
RECURSIVE logical(_)
logical(path) ==
    CASE path # <<>> /\ path[1].t = "logical" -> path[1].p
      [] path # <<>> /\ path[1].t = "paren" -> logical(Tail(path))
      [] OTHER -> ""

mode_AnyOperator(n, path) ==
    CASE n.t \in {"paren", "empty", "text"} -> "transparent"
      [] n.t = "logical" /\ logical(path) # "" -> "transparent"
      [] n.t \in {"program", "block", "body", "static_block", "case"} -> "list"
      [] n.t = "class_body" -> "members"
      [] OTHER -> "ordered"

mode(n, path) ==
    CASE n.t \in {"paren", "empty", "text"} -> "transparent"
      [] n.t = "union" /\ Len(n.kids) = 1 -> "transparent"
      [] n.t = "logical" /\ n.p = logical(path) -> "transparent"
      [] n.t = "container" /\ n.kids[1].t = "string" ->
            IF n.kids[1].p = "" /\ ~Is(path, 1, "attribute") THEN "skip" ELSE "transparent"
      [] n.t \in {"program", "block", "body", "static_block", "case"} -> "list"
      [] n.t = "class_body" -> "members"
      [] OTHER -> "ordered"

tag(n) == IF n.t \in {"string", "name"} THEN "name" ELSE n.t

Hash(t, p, reads, kids) == [t |-> t, p |-> p, reads |-> reads, kids |-> kids]

\* Each run of imports and of consts as a multiset.
sort_runs(children) ==
    LET runs == Chunks(children, [i \in DOMAIN children |-> children[i].class])
        bag(run) == [h \in {run[i].hash : i \in DOMAIN run} |-> Cardinality({i \in DOMAIN run : run[i].hash = h})]
        sorted(run) == IF run[1].class = "other" THEN [i \in DOMAIN run |-> run[i].hash]
                       ELSE <<[run |-> run[1].class, bag |-> bag(run)]>>
    IN  FlattenSeq([k \in DOMAIN runs |-> sorted(runs[k])])

\* The children in the order in which they are hashed.
close(n, m, children) ==
    LET prefix == IF n.t = "case" /\ "default" \notin n.flags /\ children # <<>> THEN 1 ELSE 0
        plain(s) == [i \in DOMAIN s |-> s[i].hash]
        of(kind) == SelectSeq(children, LAMBDA c : c.member = kind)
    IN  CASE m = "list" -> plain(SubSeq(children, 1, prefix)) \o sort_runs(SubSeq(children, prefix + 1, Len(children)))
          [] m = "members" -> plain(of(1) \o of(2) \o of(3))
          [] OTHER -> plain(children)

\* What a node adds to its parent's children: itself, hashed, or its own
\* children, or nothing.  A body without braces is hashed as a block.
RECURSIVE Hashes(_, _)
Hashes(n, path) ==
    LET m == mode(n, path)
        entry(hash) == <<[class |-> class(n), member |-> classify(n), hash |-> hash]>>
        block(children) == <<[class |-> "other", member |-> 3, hash |-> Hash("block", "", {}, sort_runs(children))]>>
        below(i) == LET h == Hashes(n.kids[i], <<n>> \o path) IN IF i \in bodies(n) THEN block(h) ELSE h
        children == FlattenSeq([i \in DOMAIN n.kids |-> below(i)])
        hidden == n.t = "quasi" /\ Is(path, 1, "template") /\ mark_embedded(path[1], Tail(path))
    IN  CASE m = "skip" -> <<>>
          [] m = "transparent" -> children
          [] OTHER -> entry(Hash(tag(n), IF hidden THEN "" ELSE n.p, n.reads, close(n, m, children)))

RECURSIVE Comments(_)
Comments(n) ==
    (IF n.comment THEN 1 ELSE 0) + FoldLeft(LAMBDA sum, kid : sum + Comments(kid), 0, n.kids)

fingerprint(program) == <<Hashes(program, <<>>), Comments(program)>>
==============================================================================
