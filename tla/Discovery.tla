----------------------------- MODULE Discovery ------------------------------
(***************************************************************************)
(* Discovery of the files a run covers in a git repository                 *)
(* (crates/discover/src/lib.rs, git.rs, walk/git.rs, filter.rs), as the    *)
(* engine's session calls it (crates/engine/src/lib.rs): run after run,    *)
(* with a directory memory (DirMemory), a kept repository and, in a server *)
(* that watches, a Watch.  Editors, git and other tools change the tree,   *)
(* the ignore rules and the index at any moment, also within a run.        *)
(*                                                                         *)
(* A directory is looked at, listed and filtered in three steps; the       *)
(* comparison of the index with the worktree runs beside the walk.         *)
(***************************************************************************)
EXTENDS Watch

CONSTANTS
    Sources,      \* the files fmtkit owns (Lang::from_path)
    Texts,        \* texts of a rules file: what it ignores, what it allows
    Silent,       \* the text that decides nothing
    Contents,     \* what may be written into each file
    HEAD,         \* the contents HEAD has
    Scopes,       \* what a run may be asked to cover
    Backends,     \* the watchers of this platform
    SUSPECTS,     \* past this many suspects the whole index is compared
    Coarse(_),    \* the file system's time at a moment
    KEEPS,        \* rules files whose modification time a tool may keep
    MaxClock, MaxEvents, MaxRuns

\* Times are coarse, but not by more than SETTLE, and never run back.
ASSUME TimesAssumption ==
    /\ SETTLE \in Nat /\ MaxClock \in Nat /\ SETTLE < MaxClock
    /\ \A t \in 0..MaxClock : Coarse(t) \in Nat /\ Coarse(t) <= t /\ t < Coarse(t) + SETTLE
    /\ \A s, t \in 0..MaxClock : s <= t => Coarse(s) <= Coarse(t)

VARIABLES
    now, tree, exclude, index,  \* the clock, work tree, info/exclude, git index
    store,                      \* the memory's file
    events, runs, quiet, behind, \* history: changes, faults and runs so far, whether the
                                 \* run saw no change, whether a save left listings behind
    mem, kept, watch, queue,    \* the session: Memory, Repository; the kernel's queue
    run                         \* the run under way

world   == <<now, tree, exclude, index>>
history == <<events, runs, quiet, behind>>
session == <<mem, kept, watch, queue>>
vars    == <<world, store, history, session, run>>

Files == Paths \ Dirs
Children(d) == {p \in Paths : p # Root /\ Parent(p) = d}
git(d) == Append(d, ".git")

\* A repository's own files are no part of its work tree.
ASSUME FilesAssumption ==
    /\ Sources \subseteq Files
    /\ \A d \in Dirs : git(d) \notin Dirs \cup Sources
    /\ Scopes \subseteq [all : BOOLEAN, paths : (SUBSET Paths) \cup {None}]
    /\ Backends \subseteq {"inotify", "kqueue"}

\* Every file has something to be written into it; a rules file has a text.
ASSUME ContentsAssumption ==
    /\ \A p \in Files : Contents[p] # {}
    /\ \A d \in Dirs : rules_of(d) \in Paths => Contents[rules_of(d)] \subseteq Texts
    /\ Silent \in Texts

\* No value is no value of any of these kinds.
Nodes(p) == [ino : Nat, mtime : Nat, ctime : Nat,
             data : IF p \in Dirs THEN {"dir"} ELSE Contents[p]]
Listings == [stamp : Stamps, rules : Stamps \cup {None}, nested : BOOLEAN,
             files : SUBSET Files, dirs : SUBSET Dirs]
ASSUME NoneAssumption ==
    /\ None \notin Stamps /\ None \notin Sightings /\ None \notin Texts
    /\ None \notin Listings /\ None \notin [exclude : Stamps] /\ Stored # None
    /\ None \notin Held
    /\ None \notin [ino : Nat, mtime : Nat, ctime : Nat, data : Texts]
    /\ \A p \in Paths : None \notin Nodes(p)

\* A modification time that is put back hides no change of a source file from
\* git, nor one of info/exclude from the memory.
ASSUME KeepsAssumption == KEEPS \cap Sources = {} /\ "exclude" \notin KEEPS

-----------------------------------------------------------------------------
(* The work tree and its ignore rules *)

Node(ino, t, data) == [ino |-> ino, mtime |-> t, ctime |-> t, data |-> data]
Written(p) == IF p \in Dirs THEN "dir" ELSE CHOOSE v \in Contents[p] : TRUE
Touch(node) == [node EXCEPT !.mtime = Coarse(now), !.ctime = Coarse(now)]

\* ignored: the first decision, deepest first, then info/exclude.
Decides(text, p) == p \in text.ignore \cup text.allow
ignored(layers, ex, p) ==
    LET deciding == {d \in ancestors(p) : layers[d] # None /\ Decides(layers[d], p)} IN
    IF deciding = {} THEN p \in ex.ignore
    ELSE \E deepest \in deciding :
            (\A d \in deciding : Len(d) <= Len(deepest)) /\ p \in layers[deepest].ignore

\* Filter::enters and covers for the scope's paths.
covers_path(scope, p) == scope.paths = None \/ \E q \in scope.paths : is_under(p, q)
enters(scope, d) ==
    \/ scope.paths = None
    \/ \E q \in scope.paths : is_under(d, q) \/ is_under(q, d)
source_file(scope, p) == p \in Sources /\ covers_path(scope, p)

every(scope) == scope.all \/ scope.paths # None

-----------------------------------------------------------------------------
(* What a run should find, from the tree alone *)

Present(p) == tree[p] # None
Layers == [d \in Dirs |-> IF rules_of(d) \in Paths /\ Present(rules_of(d))
                          THEN tree[rules_of(d)].data ELSE None]
Tracked(ix) == {p \in Files : ix.entries[p] # None}
Ignored(p) == ignored(Layers, exclude.data, p)
Nested(d) == d # Root /\ git(d) \in Paths /\ Present(git(d))
Reached(scope, d) ==
    \A e \in ancestors(d) \cup {d} :
        Present(e) /\ ~Nested(e) /\ (e # Root => ~Ignored(e) /\ enters(scope, e))
Untracked(scope) ==
    {p \in Sources : Present(p) /\ Reached(scope, Parent(p)) /\ ~Ignored(p)
                     /\ covers_path(scope, p) /\ p \notin Tracked(index)}
StagedIn(ix) == {p \in Tracked(ix) : HEAD[p] # ix.entries[p].data}
Modified == {p \in Tracked(index) \cap Sources :
                Present(p) /\ tree[p].data # index.entries[p].data}

Expected(scope) ==
    IF every(scope)
    THEN Untracked(scope) \cup {p \in Tracked(index) : source_file(scope, p) /\ Present(p)}
    ELSE Untracked(scope) \cup {p \in Sources \cap (Modified \cup StagedIn(index)) : Present(p)}

-----------------------------------------------------------------------------

NoVisit == [step |-> "no", trusted |-> FALSE, chain |-> {}, stamp |-> None,
            entries |-> {}, rules |-> None]
NoSeen == [d \in Dirs |-> None]

\* What a process between two runs has of a run.
Idle == [phase |-> "idle", scope |-> None, index |-> None,
         visits |-> [d \in Dirs |-> NoVisit], layers |-> NoSeen, exclude |-> None,
         seen |-> NoSeen, visited |-> {}, files |-> {}, failed |-> FALSE,
         compare |-> "no", picked |-> {}, removed |-> {}, fresh |-> {}]

\* n more changes or faults happen.
Happens(n) == events + n <= MaxEvents /\ events' = events + n

NewIndex(t, tr, files) ==
    [time |-> t, entries |-> [p \in Paths |->
        IF p \in files /\ tr[p] # None THEN [data |-> tr[p].data, stamp |-> StampOf(tr[p])]
        ELSE None]]

\* A session: of a one-shot run, of a server, of a server that watches.
NewSession ==
    /\ mem' = Open /\ kept' = None /\ queue' = NoQueue
    /\ watch' \in {None} \cup {NewWatch(b) : b \in Backends}

-----------------------------------------------------------------------------
(* A run *)

\* Session::run and Repository::open: the repository is opened again unless
\* the files it depends on are unchanged, and kept if they have settled.
Opened == IF kept # None /\ kept.stamp = index.time THEN kept.index ELSE index
Keep(before) == index.time < before

Start(scope) ==
    /\ run.phase = "idle" /\ runs < MaxRuns
    /\ runs' = runs + 1 /\ quiet' = TRUE
    /\ mem' = next_run(load(mem, store), now)
    /\ kept' = IF kept # None /\ kept.stamp = index.time THEN kept
               ELSE IF Keep(settled_before(now)) THEN [stamp |-> index.time, index |-> index]
               ELSE None
    /\ run' = [Idle EXCEPT !.phase = "open", !.scope = scope, !.index = Opened]
    /\ UNCHANGED <<world, store, events, behind, watch, queue>>

\* all: a scope that names only tracked files needs no walk.
OnlyTracked == run.scope.paths # None /\ run.scope.paths \subseteq Tracked(run.index)
NamesTracked ==
    /\ run.phase = "open" /\ OnlyTracked
    /\ run' = [run EXCEPT !.phase = "done", !.files =
                 {p \in run.scope.paths : source_file(run.scope, p) /\ Present(p)}]
    /\ UNCHANGED <<world, store, history, session>>

\* Repository::watched: stop a watch that failed, else take its reports.
Watched == IF watch = None \/ watch.failure THEN None ELSE begin_watch(watch, queue)

\* The walk begins under the rules outside the tree as they are now.
Begin ==
    /\ run.phase = "open" /\ ~OnlyTracked
    /\ \/ watch' = Watched /\ UNCHANGED events
       \/ watch # None /\ watch' = None /\ Happens(1)    \* Watch::new or begin fails
    /\ queue' = NoQueue
    /\ mem' = begin(mem, [exclude |-> StampOf(exclude)])
    /\ run' = [run EXCEPT !.phase = "walk",
                          !.compare = IF every(run.scope) THEN "done" ELSE "pick",
                          !.visits[Root] = [NoVisit EXCEPT !.step = "queued",
                                                           !.trusted = mem'.trusted]]
    /\ UNCHANGED <<world, store, runs, quiet, behind, kept>>

\* Walk::vouched: what the watch lets the walk replay without a look.
vouched(d) ==
    IF watch = None \/ watch.clean[d] = None THEN None
    ELSE LET l == listing(mem, d, watch.clean[d].stamp) IN
         IF l # None /\ l.rules = watch.clean[d].rules THEN l ELSE None

RulesStamp(d) == IF rules_of(d) \in Paths THEN StampOf(tree[rules_of(d)]) ELSE None

\* The stored listing of a directory that has its stamp and its rules file's.
replayed(d) ==
    LET l == listing(mem, d, StampOf(tree[d])) IN
    IF l # None /\ (l.rules = None \/ RulesStamp(d) = l.rules) THEN l ELSE None

\* Walk::replay: record the listing's files and queue its subdirectories.
replay(r, d, l, trusted) ==
    IF l.nested /\ d # Root THEN [r EXCEPT !.visits[d].step = "done"]
    ELSE LET files == IF every(r.scope) THEN l.files ELSE l.files \ Tracked(r.index) IN
    [r EXCEPT !.files   = @ \cup {p \in files : source_file(r.scope, p)},
              !.visited = @ \cup (l.files \cap Tracked(r.index)),
              !.visits  = [e \in Dirs |->
                 IF e = d THEN [r.visits[d] EXCEPT !.step = "done"]
                 ELSE IF e \in l.dirs /\ enters(r.scope, e)
                 THEN [NoVisit EXCEPT !.step = "queued", !.trusted = trusted,
                          !.chain = r.visits[d].chain \cup (IF l.rules = None THEN {} ELSE {d})]
                 ELSE r.visits[e]]]

\* A directory of the walk that is to be visited, or is being listed.
Visiting(d, step) == run.phase = "walk" /\ run.visits[d].step = step

\* The watch vouches for the directory: it is not looked at.
Vouch(d) ==
    /\ Visiting(d, "queued") /\ run.visits[d].trusted /\ vouched(d) # None
    /\ run' = replay(run, d, vouched(d), TRUE)
    /\ mem' = use(mem, d)
    /\ UNCHANGED <<world, store, history, kept, watch, queue>>

\* Its stamp and its rules' are those of the stored listing.
Replay(d) ==
    /\ Visiting(d, "queued") /\ run.visits[d].trusted /\ vouched(d) = None
    /\ Present(d) /\ replayed(d) # None
    /\ LET l == replayed(d) IN
       run' = [replay(run, d, l, TRUE) EXCEPT !.seen[d] = [stamp |-> l.stamp, rules |-> l.rules]]
    /\ mem' = use(mem, d)
    /\ UNCHANGED <<world, store, history, kept, watch, queue>>

\* It has to be listed: its stamp is taken first.
Look(d) ==
    /\ Visiting(d, "queued") /\ Present(d)
    /\ ~run.visits[d].trusted \/ (vouched(d) = None /\ replayed(d) = None)
    /\ run' = [run EXCEPT !.visits[d].step = "stat", !.visits[d].stamp = StampOf(tree[d])]
    /\ UNCHANGED <<world, store, history, session>>

\* Walk::list reads the entries, and takes the stamp of the rules before they
\* are read.
List(d) ==
    /\ Visiting(d, "stat") /\ Present(d)
    /\ run' = [run EXCEPT !.visits[d] = [@ EXCEPT
                 !.step = "listed", !.entries = {p \in Children(d) : Present(p)},
                 !.rules = RulesStamp(d)]]
    /\ UNCHANGED <<world, store, history, session>>

\* A directory gone meanwhile is left out.
Gone(d) ==
    /\ run.phase = "walk" /\ run.visits[d].step \in {"queued", "stat"} /\ ~Present(d)
    /\ ~run.visits[d].trusted \/ run.visits[d].step = "stat" \/ vouched(d) = None
    /\ run' = [run EXCEPT !.visits[d].step = "done"]
    /\ UNCHANGED <<world, store, history, session>>

\* Walk::fail: a directory that cannot be read fails the run; the other
\* visits go on.
Unreadable(d) ==
    /\ Visiting(d, "stat") /\ Happens(1)
    /\ run' = [run EXCEPT !.visits[d].step = "done", !.failed = TRUE]
    /\ UNCHANGED <<world, store, runs, quiet, behind, session>>

\* layer_matcher: the rules files above an entry are read when first needed,
\* and one that is gone by then decides nothing.
ReadLayers(d) ==
    LET v == run.visits[d]
        chain == v.chain \cup (IF v.rules = None THEN {} ELSE {d}) IN
    [e \in Dirs |-> IF e \notin chain THEN None
                    ELSE IF run.layers[e] # None THEN run.layers[e]
                    ELSE IF Layers[e] = None THEN Silent ELSE Layers[e]]
ReadExclude == IF run.exclude = None THEN exclude.data ELSE run.exclude
NeedsExclude(d) == \E p \in run.visits[d].entries :
                      \A e \in Dirs : ReadLayers(d)[e] # None => ~Decides(ReadLayers(d)[e], p)

\* The listing: what the rules do not ignore.
Filtered(d) ==
    LET v == run.visits[d]
        layers == ReadLayers(d)
        nested == git(d) \in v.entries
        kept_entries == {p \in v.entries : p # git(d) /\ ~ignored(layers, ReadExclude, p)} IN
    IF nested /\ d # Root
    THEN [stamp |-> v.stamp, rules |-> None, nested |-> TRUE, files |-> {}, dirs |-> {}]
    ELSE [stamp |-> v.stamp, rules |-> v.rules, nested |-> nested,
          files |-> kept_entries \ Dirs, dirs |-> kept_entries \cap Dirs]

\* Listings below hold only while this directory's rules are theirs.
StaysTrusted(d, l) ==
    /\ run.visits[d].trusted
    /\ previous(mem, d) # None /\ previous(mem, d).rules = l.rules

Filter(d) ==
    /\ Visiting(d, "listed")
    /\ LET l == Filtered(d) IN
       /\ mem' = remember(mem, d, l)
       /\ run' = [replay(run, d, l, StaysTrusted(d, l)) EXCEPT
                    !.seen[d] = [stamp |-> l.stamp, rules |-> l.rules],
                    !.layers = [e \in Dirs |-> IF ReadLayers(d)[e] = None THEN @[e]
                                               ELSE ReadLayers(d)[e]],
                    !.exclude = IF NeedsExclude(d) THEN ReadExclude ELSE @]
    /\ UNCHANGED <<world, store, history, kept, watch, queue>>

-----------------------------------------------------------------------------
(* The index against the worktree *)

\* reported: the entries a report may concern.
reported(touched) ==
    {p \in Tracked(run.index) :
        \/ p \in touched.paths \/ Parent(p) \in touched.paths
        \/ \E s \in touched.subtrees : is_under(p, s)}

\* watched_suspects picks what the watch cannot vouch for, and watches it
\* before the look.  A failed watch vouches for nothing.
Pick ==
    /\ run.phase = "walk" /\ run.compare = "pick"
    /\ IF watch = None
       THEN /\ run' = [run EXCEPT !.compare = "stat", !.picked = Tracked(run.index)]
            /\ UNCHANGED <<watch, events>>
       ELSE LET base == watch.baseline
                same == base # None /\ base.index = run.index
                picked == IF same THEN base.recheck \cup reported(watch.touched)
                          ELSE Tracked(run.index)
                taken == [watch EXCEPT !.touched = NoTouched]
                added == add(taken, tree, WithAncestors(picked)) IN
            \/ /\ run' = [run EXCEPT !.compare = "watched", !.picked = picked]
               /\ watch' = IF same THEN added ELSE keep_files(added, picked)
               /\ UNCHANGED events
            \/ /\ run' = [run EXCEPT !.compare = "stat", !.picked = Tracked(run.index)]
               /\ watch' = [taken EXCEPT !.failure = TRUE] /\ Happens(1)
    /\ UNCHANGED <<world, store, runs, quiet, behind, mem, kept, queue>>

\* vouched: the stat is the entry's and older than the index.
vouched_entry(p) ==
    LET entry == run.index.entries[p] IN
    /\ Present(p) /\ StampOf(tree[p]) = entry.stamp
    /\ entry.stamp.mtime < run.index.time

\* status: the entries whose content differs.
status(entries) == {p \in entries : Present(p) /\ tree[p].data # run.index.entries[p].data}

\* suspects: what stat cannot vouch for; status then compares their content.  What is suspect, or not covered, is looked at again next time.
Stat ==
    /\ run.phase = "walk" /\ run.compare \in {"stat", "watched"}
    /\ LET suspects == {p \in run.picked : ~vouched_entry(p)}
           compared == IF Cardinality(suspects) <= SUSPECTS THEN suspects ELSE Tracked(run.index) IN
       /\ run' = [run EXCEPT !.compare = "done", !.picked = {},
                    !.files = @ \cup (status(compared) \cap Sources),
                    !.removed = {p \in compared : ~Present(p)}]
       /\ watch' = IF watch = None \/ run.compare = "stat" THEN watch
                   ELSE [watch EXCEPT !.baseline =
                           [index |-> run.index,
                            recheck |-> suspects \cup {p \in run.picked : ~covers(watch, p)}]]
    /\ UNCHANGED <<world, store, history, mem, kept, queue>>

-----------------------------------------------------------------------------
(* The end of a run *)

Walked == /\ run.phase = "walk" /\ run.compare = "done"
          /\ \A d \in Dirs : run.visits[d].step \in {"no", "done"}

\* all looks up the tracked files that no listing showed.
unvisited == IF ~every(run.scope) THEN {}
             ELSE {p \in Tracked(run.index) \ run.visited :
                      source_file(run.scope, p) /\ Present(p)}

\* staged: the index against HEAD, as remembered or compared now.
StagedFiles ==
    LET known == staged(mem, HEAD, run.index) IN
    IF known = None THEN StagedIn(run.index) ELSE known
NewStaged == [tree |-> HEAD, index |-> run.index, paths |-> StagedIn(run.index)]

\* The end of changed and all: what the three comparisons found, without the
\* files gone from the worktree.
Found == IF every(run.scope) THEN run.files \cup unvisited
         ELSE (run.files \cup (StagedFiles \cap Sources)) \ run.removed

\* Then Watch::settle, first half; a failed walk under all settles nothing.
Settle ==
    /\ Walked
    /\ run' = [run EXCEPT !.phase = "settle", !.files = Found,
                          !.fresh = IF watch = None THEN {} ELSE Fresh(watch, run.seen)]
    /\ mem' = IF every(run.scope) \/ staged(mem, HEAD, run.index) # None THEN mem
              ELSE remember_staged(mem, NewStaged)
    /\ IF watch = None \/ (run.failed /\ every(run.scope)) THEN UNCHANGED <<watch, events>>
       ELSE LET ps == Watching(watch, run.seen) IN
            \/ /\ watch' = add(SettleKnown(watch, run.seen), tree, ps \cap Paths)
               /\ UNCHANGED events
            \/ /\ ps # {} /\ Happens(1)
               /\ watch' = [SettleKnown(watch, run.seen) EXCEPT !.failure = TRUE]
    /\ UNCHANGED <<world, store, runs, quiet, behind, kept, queue>>

\* Second half: what was watched only now must not have changed.
Recheck ==
    /\ run.phase = "settle"
    /\ run' = [run EXCEPT !.phase = "done"]
    /\ watch' = IF watch = None \/ watch.failure \/ (run.failed /\ every(run.scope)) THEN watch
                ELSE SettleFresh(watch, tree, run.seen, run.fresh)
    /\ UNCHANGED <<world, store, history, mem, kept, queue>>

\* History: of a directory and one below it only one is remembered anew, while
\* the rules of the directory are not those the other was filtered by: the
\* directory, when the other was not visited; or the other, when the directory
\* had no rules and has not settled since it got some.
LeftBehind(m) ==
    \E d \in Dirs : \E e \in ancestors(d) :
        \/ /\ m.fresh[d] = None /\ run.seen[d] = None /\ Kept(m)[d] # None
           /\ m.fresh[e] # None /\ (Kept(m)[e] = None \/ Kept(m)[e].rules # m.fresh[e].rules)
        \/ /\ m.fresh[d] # None /\ m.fresh[e] = None
           /\ Kept(m)[e] # None /\ Kept(m)[e].rules = None
           /\ run.seen[e] # None /\ run.seen[e].rules # None

\* Session::persist, after the answer.
Persist ==
    /\ run.phase = "done"
    /\ run' = Idle
    /\ mem' = save(mem)
    /\ store' = IF Writes(mem) = None THEN store ELSE Writes(mem)
    /\ behind' = (behind \/ (mem.context # None /\ ~RulesMoved(mem) /\ LeftBehind(mem)))
    /\ UNCHANGED <<world, events, runs, quiet, kept, watch, queue>>

\* The process ends, perhaps killed before it has persisted, and another one
\* begins.  A store that fails to be written is left as a kill leaves it.
Restart ==
    /\ run.phase = "done" \/ mem # Open
    /\ run.phase \in {"idle", "done"}
    /\ NewSession
    /\ run' = Idle
    /\ UNCHANGED <<world, store, history>>

-----------------------------------------------------------------------------
(* The world *)

\* A run is short beside a tick: the changes during it bear its time.
Tick == run.phase = "idle" /\ now < MaxClock /\ now' = now + 1
        /\ UNCHANGED <<tree, exclude, index, store, history, session, run>>

\* An edit is reported to the watches in place, unless the kernel drops it.
Edit(entries, written) ==
    /\ Happens(1) /\ quiet' = FALSE
    /\ IF watch = None \/ queue.lost THEN UNCHANGED queue
       ELSE \/ queue' = Enqueue(queue, Reports(watch, tree, entries, written))
            \/ watch.backend = "inotify" /\ queue' = [NoQueue EXCEPT !.lost = TRUE]
    /\ UNCHANGED <<now, index, store, runs, behind, mem, kept, watch, run>>

Create(p) ==
    /\ p \notin Dirs /\ ~Present(p) /\ Present(Parent(p))
    /\ Edit({p}, {}) /\ UNCHANGED exclude
    /\ \E data \in Contents[p] : tree' = [tree EXCEPT ![p] = Node(0, Coarse(now), data),
                                                  ![Parent(p)] = Touch(@)]

Delete(p) ==
    /\ p \notin Dirs /\ Present(p)
    /\ Edit({p}, {}) /\ UNCHANGED exclude
    /\ tree' = [tree EXCEPT ![p] = None, ![Parent(p)] = Touch(@)]

\* Written in place; a tool may put the modification time back.
Write(p) ==
    /\ p \notin Dirs /\ Present(p)
    /\ Edit({}, {p}) /\ UNCHANGED exclude
    /\ \E data \in Contents[p] \ {tree[p].data}, keep \in {FALSE, (p \in KEEPS)} :
          tree' = [tree EXCEPT ![p].data = data, ![p].ctime = Coarse(now),
                              ![p].mtime = IF keep THEN @ ELSE Coarse(now)]

\* Another directory, written long ago, is moved into the place of this one:
\* empty, or with all it may have.
Swap(d) ==
    /\ d # Root /\ Present(d)
    /\ Edit({d}, {}) /\ UNCHANGED exclude
    /\ \E old \in BOOLEAN :
          tree' = [p \in Paths |->
              IF p = d THEN [tree[d] EXCEPT !.ino = events + 1, !.ctime = Coarse(now)]
              ELSE IF p = Parent(d) THEN Touch(tree[p])
              ELSE IF is_under(p, d) THEN (IF old THEN Node(events + 1, 0, Written(p)) ELSE None)
              ELSE tree[p]]

\* The directory is moved out of the tree.
MoveAway(d) ==
    /\ d # Root /\ Present(d)
    /\ Edit({d}, {}) /\ UNCHANGED exclude
    /\ tree' = [p \in Paths |-> IF is_under(p, d) THEN None
                               ELSE IF p = Parent(d) THEN Touch(tree[p]) ELSE tree[p]]

\* git add: the index takes the files it tracks, and this one, as they are.
GitAdd(p) ==
    /\ Happens(1) /\ quiet' = FALSE
    /\ index' = NewIndex(Coarse(now), tree, Tracked(index) \cup {p})
    /\ UNCHANGED <<now, tree, exclude, store, runs, behind, session, run>>

WriteExclude ==
    /\ Happens(1) /\ quiet' = FALSE
    /\ \E data \in Texts \ {exclude.data}, keep \in {FALSE, ("exclude" \in KEEPS)} :
          exclude' = [exclude EXCEPT !.data = data, !.ctime = Coarse(now),
                                    !.mtime = IF keep THEN @ ELSE Coarse(now)]
    /\ UNCHANGED <<now, tree, index, store, runs, behind, session, run>>
-----------------------------------------------------------------------------

\* A tree written and committed long ago, or just now, and an empty store.
Init ==
    /\ now = SETTLE + 1
    /\ \E files \in {f \in SUBSET Files : \A p \in Files : HEAD[p] # None => p \in f},
          t \in {0, Coarse(now)} :
         /\ tree = [p \in Paths |-> IF p \in Dirs THEN Node(0, t, "dir")
                                   ELSE IF p \in files THEN Node(0, t, Written(p))
                                   ELSE None]
         /\ index = NewIndex(IF t = 0 THEN 1 ELSE t, tree, {p \in Files : HEAD[p] # None})
    /\ exclude = Node(0, 0, Silent)
    /\ store = None
    /\ events = 0 /\ runs = 0 /\ quiet = FALSE /\ behind = FALSE
    /\ mem = Open /\ kept = None /\ queue = NoQueue
    /\ watch \in {None} \cup {NewWatch(b) : b \in Backends}
    /\ run = Idle

Visit(d) == Vouch(d) \/ Replay(d) \/ Look(d) \/ List(d) \/ Gone(d) \/ Unreadable(d) \/ Filter(d)
Compare == Pick \/ Stat
Change == \/ Tick \/ WriteExclude
          \/ \E p \in Paths : Create(p) \/ Delete(p) \/ Write(p)
          \/ \E d \in Dirs : Swap(d) \/ MoveAway(d)
          \/ \E p \in Sources : GitAdd(p)

Next ==
    \/ \E scope \in Scopes : Start(scope)
    \/ NamesTracked \/ Begin
    \/ \E d \in Dirs : Visit(d)
    \/ Compare
    \/ Settle \/ Recheck \/ Persist \/ Restart
    \/ Change

Spec == Init /\ [][Next]_vars

-----------------------------------------------------------------------------

\* A run that ends without an error and during which nothing changed.
Ended == run.phase \in {"settle", "done"} /\ quiet /\ ~run.failed

\* Whatever was remembered, kept or watched in earlier runs, and however they
\* were interleaved with changes: a run finds exactly the files that a look at
\* the whole tree would find (discover_with), as long as no save left listings
\* under rules that have changed since.
FindsAll == Ended /\ ~behind => run.files = Expected(run.scope)

\* The same without the exception.
FindsAllAlways == Ended => run.files = Expected(run.scope)
=============================================================================
