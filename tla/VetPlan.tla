------------------------------- MODULE VetPlan -------------------------------
(* What go vet is run on and what is made of its output (crates/go/src/vet.rs *)
(* without its memory, which is Vet).                                         *)
(*                                                                            *)
(* A directory is the sequence of its names from the top of the disk.  A tree *)
(* has the directories with a go.mod, those with Go files, and the go.work    *)
(* files with their lines.  A line of a go.work, without its comment, says    *)
(* which of `use`, `(`, names and `)` it has, in this order.  A line of       *)
(* output has a kind: what split_position finds is a "position".              *)
EXTENDS Naturals, Sequences

LOCAL INSTANCE SequencesExt

Root == <<"root">>
Everything == <<"...">>

Ancestors(dir) == {SubSeq(dir, 1, n) : n \in 0 .. Len(dir)}
Nearest(dirs) == CHOOSE d \in dirs : \A e \in dirs : Len(e) <= Len(d)
Below(base, dir) == SubSeq(dir, Len(base) + 1, Len(dir))

skipped_dir(name) == name \in {".git", "_old", "vendor", "testdata", "node_modules"}
Skipped(dir) == \E i \in DOMAIN dir : skipped_dir(dir[i])

normalize(path) ==
    FoldLeft(LAMBDA out, name : CASE name = "." -> out
                                  [] name = ".." /\ out # <<>> -> Front(out)
                                  [] OTHER -> Append(out, name), <<>>, path)

--------------------------------------------------------------------------------
(* Workspaces.                                                                *)

\* A line of several names stands for no directory.
Entry(names) == IF Len(names) = 1 THEN names ELSE <<<<"?">>>>

UseLine(state, line) ==
    CASE state.block /\ line.close /\ line.names = <<>> -> [state EXCEPT !.block = FALSE]
      [] state.block /\ line.names # <<>> -> [state EXCEPT !.uses = @ \o Entry(line.names)]
      [] ~state.block /\ line.use /\ line.open /\ line.close -> [state EXCEPT !.uses = @ \o line.names]
      [] ~state.block /\ line.use /\ line.open ->
            [uses |-> IF line.names = <<>> THEN state.uses ELSE state.uses \o Entry(line.names), block |-> TRUE]
      [] ~state.block /\ line.use /\ line.names # <<>> -> [state EXCEPT !.uses = @ \o Entry(line.names)]
      [] OTHER -> state

workspace_uses(lines) == FoldLeft(UseLine, [uses |-> <<>>, block |-> FALSE], lines).uses

outside_workspace(tree, module) ==
    LET works == Ancestors(module) \cap DOMAIN tree.works
        base == Nearest(works)
    IN /\ works # {}
       /\ \A i \in DOMAIN workspace_uses(tree.works[base]) :
             normalize(base \o workspace_uses(tree.works[base])[i]) # normalize(module)


--------------------------------------------------------------------------------
(* The modules and packages of a run.  Targets are relative to the root.      *)

module_run(tree, dir, packages) ==
    [dir |-> dir, packages |-> packages, outside |-> outside_workspace(tree, dir)]

plan_modules(tree, dirs) ==
    {module_run(tree, Root \o d, {Everything}) : d \in {d \in dirs : ~Skipped(d)}}

ModulesOf(tree, dir) == {a \in Ancestors(dir) : IsPrefix(Root, a) /\ a \in tree.mods}

plan_files_Outermost(tree, files) ==
    LET Outermost(dirs) == CHOOSE d \in dirs : \A e \in dirs : Len(d) <= Len(e)
        package_dirs == {Root \o f.dir : f \in {f \in files : f.ext = "go" /\ ~Skipped(f.dir)}}
        packages == {d \in package_dirs : d \in tree.gos /\ ModulesOf(tree, d) # {}}
    IN {module_run(tree, m, {Below(m, d) : d \in {e \in packages : Outermost(ModulesOf(tree, e)) = m}}) :
           m \in {Outermost(ModulesOf(tree, d)) : d \in packages}}

plan_files(tree, files) ==
    LET package_dirs == {Root \o f.dir : f \in {f \in files : f.ext = "go" /\ ~Skipped(f.dir)}}
        packages == {d \in package_dirs : d \in tree.gos /\ ModulesOf(tree, d) # {}}
        module(dir) == Nearest(ModulesOf(tree, dir))
    IN {module_run(tree, m, {Below(m, d) : d \in {e \in packages : module(e) = m}}) : m \in {module(d) : d \in packages}}

\* A package as the report names it.
display_target(run, package) == Below(Root, run.dir) \o package

--------------------------------------------------------------------------------
(* The output of go vet.                                                      *)

Diagnostic(at, message) == [at |-> at, message |-> message]

ParseLine(state, line) ==
    LET last == Len(state.found)
    IN CASE line.kind \in {"blank", "header"} -> state
         [] line.kind = "indented" /\ last > 0 -> [state EXCEPT !.found[last].message = Append(@, line.id)]
         [] line.kind = "position" -> [state EXCEPT !.found = Append(@, Diagnostic(line.id, <<line.id>>))]
         [] OTHER -> [state EXCEPT !.unparsed = Append(@, line.id)]

parse(lines) == FoldLeft(ParseLine, [found |-> <<>>, unparsed |-> <<>>], lines)

\* The diagnostics of a module; position 0 is its go.mod.
diagnostics(output) ==
    LET parsed == parse(output.lines)
    IN CASE ~output.started -> <<Diagnostic(0, <<>>)>>
         [] output.started /\ output.success -> <<>>
         [] OTHER ->
            parsed.found \o IF parsed.unparsed # <<>> \/ parsed.found = <<>>
                            THEN <<Diagnostic(0, parsed.unparsed)>> ELSE <<>>

\* The outcome over all modules.  Sorting and dropping duplicates make it a set.
run(has_go, plan, output) ==
    IF ~has_go \/ plan = {}
    THEN [skipped |-> TRUE, targets |-> {}, errors |-> {}]
    ELSE [skipped |-> FALSE,
          targets |-> UNION {{display_target(m, p) : p \in m.packages} : m \in plan},
          errors |-> UNION {{<<m.dir, d>> : d \in ToSet(diagnostics(output[m.dir]))} : m \in plan}]
==============================================================================
