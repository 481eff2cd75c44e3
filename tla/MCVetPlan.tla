------------------------------ MODULE MCVetPlan ------------------------------
(* Trees, workspaces and outputs for VetPlan, and what the go command makes   *)
(* of them.                                                                   *)
EXTENDS VetPlan, FiniteSets

LOCAL INSTANCE SequencesExt

Dirs == {<<>>, <<"a">>, <<"a", "b">>, <<"vendor">>, <<"a", "node_modules">>}
Rooted(dirs) == {Root \o d : d \in dirs}

\* The scopes of a run: every directory, or one; a file of another kind and a
\* file that is gone are among those listed.
Scopes == {Dirs} \cup {{d} : d \in Dirs}
Listed(scope) == {[dir |-> d, ext |-> ext] : d \in scope, ext \in {"go", "md"}}

\* The module above the root is not the run's.
Plans == [mods : {Rooted(dirs) : dirs \in SUBSET Dirs} \cup {{<<>>}}, gos : {Rooted(dirs) : dirs \in SUBSET Dirs},
          works : {<<>>}, scope : Scopes]

\* What `go vet ./...` finds in a module, and what belongs to one.
Expanded(tree, module) ==
    {d \in tree.gos :
        /\ IsPrefix(module, d)
        /\ ~\E m \in tree.mods : IsPrefix(m, d) /\ Len(m) > Len(module)
        /\ \A i \in (Len(module) + 1) .. Len(d) : ~(skipped_dir(d[i]) /\ d[i] # "node_modules")}
Vetted(tree, plan) ==
    UNION {IF Everything \in m.packages THEN Expanded(tree, m.dir) ELSE {m.dir \o p : p \in m.packages} : m \in plan}

Planned(task) ==
    LET mods == {Below(Root, m) : m \in {m \in task.mods : IsPrefix(Root, m)}}
    IN [modules |-> plan_modules(task, mods), files |-> plan_files(task, Listed(task.scope))]

\* A run over files vets packages that a run over modules vets too, each from
\* the module go counts it to, and none is missing but those that only
\* fmtkit leaves out.
PlanExact(task, answer) ==
    LET packages == Vetted(task, answer.files)
        all == Vetted(task, answer.modules) \cap Rooted(task.scope)
    IN /\ packages \subseteq all
       /\ \A d \in all \ packages : "node_modules" \in ToSet(d)
       /\ \A m \in answer.files : \A p \in m.packages : m.dir \o p \in Expanded(task, m.dir)
       /\ Cardinality({m.dir : m \in answer.files}) = Cardinality(answer.files)

--------------------------------------------------------------------------------
(* go.work files: statements and the lines they are written on.               *)

Used == {<<"a">>, <<".", "a", "b">>, <<"a", "..", "b">>}
Line(use, open, names, close) == [use |-> use, open |-> open, names |-> names, close |-> close]
Blank == Line(FALSE, FALSE, <<>>, FALSE)
End == Line(FALSE, FALSE, <<>>, TRUE)

Statements ==
    [kind : {"use"}, names : {<<u>> : u \in Used}]
        \cup [kind : {"block", "loose"}, names : {<<>>} \cup {<<u, v>> : u, v \in Used}]
        \cup [kind : {"replace"}, names : {<<u>> : u \in Used}]
Written(s) ==
    CASE s.kind = "use" -> <<Line(TRUE, FALSE, s.names, FALSE)>>
      [] s.kind = "block" ->
            <<Line(TRUE, TRUE, <<>>, FALSE)>> \o [i \in DOMAIN s.names |-> Line(FALSE, FALSE, <<s.names[i]>>, FALSE)] \o <<End>>
      [] s.kind = "loose" -> <<Line(TRUE, TRUE, <<>>, FALSE), Blank, Blank>>
                                 \o [i \in DOMAIN s.names |-> Line(FALSE, FALSE, <<s.names[i]>>, FALSE)] \o <<Blank, End>>
      [] OTHER -> <<Line(FALSE, TRUE, <<>>, FALSE), Line(FALSE, FALSE, s.names, FALSE), End>>
Works == {<<s>> : s \in Statements} \cup {<<s, t>> : s, t \in Statements}
WorkLines(work) == FlattenSeq([i \in DOMAIN work |-> Written(work[i])])

Lists(work, base, module) ==
    \E i \in DOMAIN work :
        /\ work[i].kind # "replace"
        /\ \E j \in DOMAIN work[i].names : normalize(base \o work[i].names[j]) = module
WorkTree(task) == [mods |-> {}, gos |-> {}, works |-> task.base :> WorkLines(task.work)]
WorkTasks == [work : Works, base : {<<>>, Root}, module : Rooted({<<>>, <<"a">>, <<"b">>, <<"a", "b">>})]

WorkspaceExact(task, outside) == outside <=> ~Lists(task.work, task.base, task.module)

--------------------------------------------------------------------------------
(* Outputs.                                                                   *)

Kinds == {"blank", "header", "indented", "position", "other"}
Numbered(kinds) == [i \in DOMAIN kinds |-> [kind |-> kinds[i], id |-> i]]
Texts == {Numbered(kinds) : kinds \in UNION {[1 .. n -> Kinds] : n \in 0 .. 4}}
OutputTasks ==
    [started : BOOLEAN, success : BOOLEAN, lines : Texts, other : BOOLEAN]

Two == {[dir |-> Root \o <<d>>, packages |-> {Everything}, outside |-> FALSE] : d \in {"a", "b"}}
Quiet(success) == [started |-> TRUE, success |-> success, lines |-> <<>>]
Ran(task) ==
    run(TRUE, Two, [d \in {m.dir : m \in Two} |->
                       IF d = Root \o <<"a">> THEN [started |-> task.started, success |-> task.success, lines |-> task.lines]
                       ELSE Quiet(task.other)])

\* The run has errors exactly when go vet failed on one of its modules, and
\* of what it then said every line is in one diagnostic.
OutputKept(task, answer) ==
    LET messages == {e[2].message : e \in {e \in answer.errors : e[1] = Root \o <<"a">>}}
    IN /\ answer.errors = {} <=> (task.started /\ task.success /\ task.other)
       /\ (task.started /\ ~task.success) =>
             \A i \in DOMAIN task.lines : task.lines[i].kind \notin {"blank", "header"} =>
                Cardinality({m \in messages : i \in ToSet(m)}) = 1
==============================================================================
