------------------------------ MODULE MCScoring ------------------------------
(* Programs to be scored, and the scores by their definition: every function  *)
(* is looked at on its own, once per metric.                                  *)
EXTENDS Scoring, FiniteSets

LOCAL INSTANCE SequencesExt
LOCAL INSTANCE FiniteSetsExt
LOCAL INSTANCE TLC

Node(kind, at) == [kind |-> kind, name |-> <<>>, member |-> FALSE, line |-> 1, at |-> at, in |-> <<>>, after |-> <<>>]
Call == Node("other", <<>>)
Logical(op, left, right) == [Node("logical", <<left, right>>) EXCEPT !.name = <<op>>]
Fn(name, line, body) == [Node("function", body) EXCEPT !.name = name, !.line = line]

Or == Logical("or", Call, Call)
Chains == {Logical(op, l, r) : op \in {"and", "or"}, l, r \in {Call, Or, Node("other", <<Or>>)}}

\* A statement around another one.
Around(n) ==
    {[Node(kind, <<Call>>) EXCEPT !.in = <<n>>] : kind \in {"loop", "ternary", "catch"}}
        \cup {[Node("loop", <<>>) EXCEPT !.in = <<Call>>, !.after = <<n>>],
              [Node("switch", <<n>>) EXCEPT !.in = <<Node("case", <<n>>), Node("other", <<Call>>)>>],
              Node("assign", <<n>>)}
        \cup {[Node("if", <<Or>>) EXCEPT !.in = <<n>>, !.after = else] :
                 else \in {<<>>, <<n>>, <<[Node("if", <<n>>) EXCEPT !.in = <<Call>>, !.after = <<n>>]>>}}

Simple == {Call, Node("jump", <<>>)} \cup Chains
Flat == UNION {Around(n) : n \in {Call, Node("jump", <<>>), Logical("and", Call, Or)}}
Bodies == Simple \cup Flat \cup UNION {Around(n) : n \in Flat}

\* A function in a statement of another: lines go up.
Names == {<<>>, <<"f">>, <<"g">>}
Inner == {Fn(name, line, <<b>>) : name \in Names, line \in 1 .. 2, b \in {Call, Node("if", <<Or>>)} \cup Around(Call)}
Holders == UNION {{n} \cup Around(n) : n \in Inner}
Nested == {<<Fn(name, 1, <<h, h>>)>> : name \in Names, h \in Holders}
Siblings ==
    {<<Fn(p, 1, <<a>>), Fn(q, line, <<b, c>>)>> :
        p \in Names, q \in Names, line \in 1 .. 2, a \in {Call, Node("if", <<Or>>)},
        b \in {Fn(name, 2, <<Node("if", <<Call>>)>>) : name \in Names}, c \in {Call, Node("loop", <<Call>>)}}
Member(name, line) == [Fn(name, line, <<Node("if", <<Call>>)>>) EXCEPT !.member = TRUE]
ClassesOf ==
    {<<[Node("class", <<Member(p, 1), Member(q, line)>>) EXCEPT !.name = c], Fn(<<"f">>, 2, <<>>)>> :
        c \in {<<>>, <<"C">>}, p, q \in Names, line \in 1 .. 2}
Programs == {<<Fn(name, 1, <<b>>)>> : name \in {<<>>, <<"f">>}, b \in Bodies} \cup Nested \cup Siblings \cup ClassesOf

--------------------------------------------------------------------------------
(* The definition.                                                            *)

Total(counts) == FoldLeft(LAMBDA sum, n : sum + n, 0, counts)

\* Branches a node has outside the functions in it.
RECURSIVE Branches(_)
BranchesOf(nodes) == Total([i \in DOMAIN nodes |-> Branches(nodes[i])])
Branches(node) ==
    IF node.kind = "function" THEN 0
    ELSE (IF node.kind \in {"if", "loop", "ternary", "catch", "case", "assign", "logical"} THEN 1 ELSE 0)
         + BranchesOf(node.at) + BranchesOf(node.in) + BranchesOf(node.after)
Cyclomatic(fn) == 1 + BranchesOf(fn.at)

\* The operators of a logical expression in source order, parentheses apart;
\* and what stands between them.
RECURSIVE Operators(_), Operands(_)
Operators(node) ==
    IF node.kind = "logical" THEN Operators(node.at[1]) \o node.name \o Operators(node.at[2]) ELSE <<>>
Operands(node) ==
    IF node.kind = "logical" THEN Operands(node.at[1]) \o Operands(node.at[2]) ELSE <<node>>
RunsOf(ops) == 1 + Cardinality({i \in 1 .. Len(ops) - 1 : ops[i] # ops[i + 1]})

RECURSIVE Cost(_, _), Ladder(_, _)
CostAll(nodes, depth) == Total([i \in DOMAIN nodes |-> Cost(nodes[i], depth)])
\* What an if costs beyond its own increment.
Ladder(node, depth) ==
    CostAll(node.at, depth) + CostAll(node.in, depth + 1)
        + CASE node.after = <<>> -> 0
            [] node.after # <<>> /\ node.after[1].kind = "if" -> 1 + Ladder(node.after[1], depth)
            [] OTHER -> 1 + CostAll(node.after, depth + 1)
Cost(node, depth) ==
    CASE node.kind = "function" -> CostAll(node.at, depth + 1)
      [] node.kind = "if" -> 1 + depth + Ladder(node, depth)
      [] node.kind = "logical" -> RunsOf(Operators(node)) + CostAll(Operands(node), depth)
      [] node.kind \in {"loop", "ternary", "switch", "catch"} ->
            1 + depth + CostAll(node.at, depth) + CostAll(node.in, depth + 1) + CostAll(node.after, depth)
      [] node.kind = "jump" -> 1
      [] OTHER -> CostAll(node.at, depth)

\* Every function with the class and the function it is in, in source order.
RECURSIVE Sites(_, _, _)
SitesAll(nodes, within, owner) == FlattenSeq([i \in DOMAIN nodes |-> Sites(nodes[i], within, owner)])
Sites(node, within, owner) ==
    LET own == IF node.member /\ node.name # <<>> THEN within \o node.name ELSE node.name
        parts == node.at \o node.in \o node.after
        self == IF own = <<>> THEN owner ELSE [name |-> own, line |-> node.line]
    IN CASE node.kind = "function" -> <<[name |-> own, fn |-> node, owner |-> self]>> \o SitesAll(parts, within, self)
         [] node.kind = "class" -> SitesAll(parts, own, owner)
         [] OTHER -> SitesAll(parts, within, owner)

Nobody == [name |-> ANONYMOUS, line |-> 0]

\* A named function has a key to itself: two with one name on two lines have
\* two keys.  It reports what it costs itself, with all functions in it, and
\* the most branches of the nameless functions in it.
Scored(program, answer) ==
    LET sites == SitesAll(program, <<>>, Nobody)
        owners == {sites[i].owner : i \in DOMAIN sites}
        key(o) == IF \E p \in owners : p.name = o.name /\ p.line < o.line THEN Append(o.name, ToString(o.line)) ELSE o.name
        of(o) == {i \in DOMAIN sites : sites[i].owner = o}
        cost(o) == IF o = Nobody THEN 0 ELSE CostAll(sites[Min({i \in of(o) : sites[i].name = o.name})].fn.at, 0)
    IN /\ Cardinality(answer) = Cardinality(owners)
       /\ \A o \in owners : \E a \in answer :
             /\ a.key = key(o)
             /\ a.score.cyclomatic = Max({Cyclomatic(sites[i].fn) : i \in of(o)})
             /\ a.score.cognitive = cost(o)
             /\ o # Nobody => a.score.line = o.line
==============================================================================
