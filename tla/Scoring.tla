------------------------------- MODULE Scoring -------------------------------
(* The complexity of the functions of a script, in one walk                   *)
(* (crates/ts/src/complexity/scorer.rs).                                      *)
(*                                                                            *)
(* A node has a kind, a name, a line and its parts: at is visited as deep as  *)
(* the node, in one deeper, after last.  Functions and classes have the name  *)
(* their place gives them, <<>> when there is none; a member is qualified     *)
(* with the name of its class.  Every loop is a "loop", a do-while one with   *)
(* its test in after; a try without its catch, a call and other nodes that    *)
(* cost nothing are "other".                                                  *)
EXTENDS Naturals, Sequences

LOCAL INSTANCE SequencesExt
LOCAL INSTANCE TLC

ANONYMOUS == <<"anonymous">>

--------------------------------------------------------------------------------
(* The walk's state: the open functions, innermost last, and a draft per key. *)

New == [drafts |-> <<>>, keys |-> <<>>, frames |-> <<>>, classes |-> <<>>, depth |-> 0]

\* keys[i] is the key of draft i.
Find(s, key) == IF key \in ToSet(s.keys) THEN CHOOSE i \in DOMAIN s.keys : s.keys[i] = key ELSE 0

insert(s, key, line, named) ==
    [s EXCEPT !.keys = Append(@, key),
              !.drafts = Append(@, [line |-> line, cyclomatic |-> 0, cognitive |-> 0, named |-> named])]

class_name(s) == IF s.classes = <<>> THEN <<>> ELSE Last(s.classes)
render(s, node) == IF node.member /\ node.name # <<>> THEN class_name(s) \o node.name ELSE node.name

\* The key a function reports under, with its draft made when there is none.
named_NameOnly(s, line, name) ==
    IF Find(s, name) # 0 THEN [s |-> s, draft |-> Find(s, name), owns |-> FALSE]
    ELSE [s |-> insert(s, name, line, TRUE), draft |-> Len(s.keys) + 1, owns |-> TRUE]

named(s, line, name) ==
    LET same == Find(s, name)
        key == IF same # 0 /\ s.drafts[same].named /\ s.drafts[same].line # line THEN Append(name, ToString(line)) ELSE name
    IN IF Find(s, key) # 0 THEN [s |-> s, draft |-> Find(s, key), owns |-> FALSE]
       ELSE [s |-> insert(s, key, line, TRUE), draft |-> Len(s.keys) + 1, owns |-> TRUE]

anonymous(s, line) ==
    IF s.frames # <<>> THEN [s |-> s, draft |-> Last(s.frames).draft, owns |-> FALSE]
    ELSE IF Find(s, ANONYMOUS) # 0 THEN [s |-> s, draft |-> Find(s, ANONYMOUS), owns |-> FALSE]
    ELSE [s |-> insert(s, ANONYMOUS, line, FALSE), draft |-> Len(s.keys) + 1, owns |-> FALSE]

open(s, line, own) ==
    LET key == IF own = <<>> THEN anonymous(s, line) ELSE named(s, line, own)
    IN [key.s EXCEPT !.depth = @ + 1,
                     !.frames = Append(@, [draft |-> key.draft, owns |-> key.owns, base |-> key.s.depth + 1,
                                           cyclomatic |-> 1, flat |-> 0, weighted |-> 0, count |-> 0])]

\* The innermost open function, if there is one, gets branches and costs.
Count(s, branches, f, w, n) ==
    IF s.frames = <<>> THEN s
    ELSE [s EXCEPT !.frames[Len(s.frames)] =
              [@ EXCEPT !.cyclomatic = @ + branches, !.flat = @ + f, !.weighted = @ + w, !.count = @ + n]]

\* A closing function hands its sums to the one around it.
close(s) ==
    LET frame == Last(s.frames)
        draft == s.drafts[frame.draft]
        closed ==
            [s EXCEPT !.depth = @ - 1, !.frames = Front(@),
                      !.drafts[frame.draft] =
                          [draft EXCEPT !.cyclomatic = IF @ < frame.cyclomatic THEN frame.cyclomatic ELSE @,
                                        !.cognitive = IF frame.owns
                                                      THEN frame.flat + frame.weighted - frame.count * frame.base
                                                      ELSE @]]
    IN Count(closed, 0, frame.flat, frame.weighted, frame.count)

decision(s) == Count(s, 1, 0, 0, 0)
weighted(s) == Count(s, 0, 0, 1 + s.depth, 1)
flat(s, n) == Count(s, 0, n, 0, 0)

--------------------------------------------------------------------------------
(* The visit.                                                                 *)

RECURSIVE visit(_, _), visit_all(_, _), if_chain(_, _, _), logical_chain(_, _)

visit_all(s, nodes) ==
    IF nodes = <<>> THEN s
    ELSE CHOOSE end \in {visit_all(t, Tail(nodes)) : t \in {visit(s, Head(nodes))}} : TRUE
deeper(s, nodes) == [visit_all([s EXCEPT !.depth = @ + 1], nodes) EXCEPT !.depth = @ - 1]

function(s, node) == close(visit_all(open(s, node.line, render(s, node)), node.at))

class(s, node) ==
    [visit_all([s EXCEPT !.classes = Append(@, render(s, node))], node.at) EXCEPT !.classes = s.classes]

\* The last part of an if with an else is the else.
if_chain(s, node, leading) ==
    LET tested == visit_all(IF leading THEN weighted(decision(s)) ELSE flat(decision(s), 1), node.at)
        then == deeper(tested, node.in)
    IN CASE node.after = <<>> -> then
         [] node.after # <<>> /\ node.after[1].kind = "if" -> if_chain(then, node.after[1], FALSE)
         [] OTHER -> deeper(flat(then, 1), node.after)

\* The operands in source order, with the operator met last and the runs.
logical_operand(w, node) ==
    IF node.kind = "logical" THEN logical_chain(w, node) ELSE [w EXCEPT !.s = visit(@, node)]
logical_chain(w, node) ==
    LET left == logical_operand([w EXCEPT !.s = decision(@)], node.at[1])
        here == IF left.previous # node.name THEN [left EXCEPT !.runs = @ + 1, !.previous = node.name] ELSE left
    IN logical_operand(here, node.at[2])

logical(s, node) ==
    LET w == logical_chain([s |-> s, previous |-> <<>>, runs |-> 0], node)
    IN flat(w.s, w.runs)

\* Loops, ternaries, switches and catch clauses.
control(s, node) ==
    LET decided == IF node.kind = "switch" THEN s ELSE decision(s)
    IN visit_all(deeper(visit_all(weighted(decided), node.at), node.in), node.after)

visit(s, node) ==
    CASE node.kind = "function" -> function(s, node)
      [] node.kind = "class" -> class(s, node)
      [] node.kind = "if" -> if_chain(s, node, TRUE)
      [] node.kind = "logical" -> logical(s, node)
      [] node.kind \in {"loop", "ternary", "switch", "catch"} -> control(s, node)
      [] node.kind \in {"case", "assign"} -> visit_all(decision(s), node.at)
      [] node.kind = "jump" -> flat(s, 1)
      [] OTHER -> visit_all(s, node.at)

\* The draft of every key; finish only orders them.
score_program(program) ==
    LET s == visit_all(New, program) IN {[key |-> s.keys[i], score |-> s.drafts[i]] : i \in DOMAIN s.keys}
==============================================================================
