------------------------------- MODULE Watch --------------------------------
(***************************************************************************)
(* The watch on a work tree between runs (crates/discover/src/watch.rs)    *)
(* over its two watchers: inotify (watch/inotify.rs), where a watched      *)
(* directory reports its entries too, and kqueue (watch/kqueue.rs), where  *)
(* every file and directory is watched on its own.                         *)
(*                                                                         *)
(* A path is a sequence of names, the root the empty one.  A watch stays   *)
(* with the inode it was put on, whatever its path names later.  What the  *)
(* kernel holds is the record queue; lost means it dropped reports.        *)
(***************************************************************************)
EXTENDS DirMemory, Sequences, SequencesExt

CONSTANTS
    Paths,    \* the paths of the tree that may exist, directories included
    REPORTS   \* past this many reports looking at everything is cheaper

Root == <<>>
Parent(p) == Front(p)
is_under(p, d) == IsPrefix(d, p)
ancestors(p) == {d \in Dirs : d # p /\ is_under(p, d)}
rules_of(d) == Append(d, ".gitignore")
IsRules(p) == p # Root /\ Last(p) = ".gitignore"

\* The names a path is made of, those with a meaning of their own among them.
Names == STRING \cup {".gitignore", ".git"}

\* What lies above a path that may exist is a directory, and no rules file is.
ASSUME PathsAssumption ==
    /\ Dirs \subseteq Paths /\ Root \in Dirs
    /\ \A p \in Paths : p \in Seq(Names) /\ \A n \in 0..(Len(p) - 1) : SubSeq(p, 1, n) \in Dirs
    /\ \A d \in Dirs : rules_of(d) \notin Dirs

NoTouched == [paths |-> {}, subtrees |-> {}]
Size(t) == Cardinality(t.paths) + Cardinality(t.subtrees)

\* What the kernel has not been asked for yet.
NoQueue == [paths |-> {}, subtrees |-> {}, gone |-> {}, lost |-> FALSE]

\* A Watcher: the watched paths, the inode each watch is on, and whether the
\* watch was there before the run (since < run).
Held == [ino : Nat, before : BOOLEAN]
NoWatches == [p \in Paths |-> None]

\* Watch::new.
NewWatch(backend) ==
    [backend |-> backend, watched |-> NoWatches, clean |-> [d \in Dirs |-> None],
     baseline |-> None, touched |-> NoTouched, failure |-> FALSE]

\* The path whose watch covers p.
directory(backend, p) == IF backend = "inotify" /\ p \notin Dirs THEN Parent(p) ELSE p

watches(w, p) == w.watched[directory(w.backend, p)] # None
watched_before_Any(w, p) == watches(w, p)
watched_before(w, p) == watches(w, p) /\ w.watched[directory(w.backend, p)].before

\* Watcher::add: each path not watched yet, when it exists.
add(w, tree, ps) ==
    LET new == {p \in ps : /\ directory(w.backend, p) = p
                           /\ w.watched[p] = None /\ tree[p] # None} IN
    [w EXCEPT !.watched = [p \in Paths |->
        IF p \in new THEN [ino |-> tree[p].ino, before |-> FALSE] ELSE @[p]]]

forget_under(watched, gone) ==
    [p \in Paths |-> IF \E g \in gone : is_under(p, g) THEN None ELSE watched[p]]

\* Watcher::drain gives up: reports were dropped or are too many.
Overrun(queue) == queue.lost \/ Size(queue) > REPORTS

\* Watch::forget: look at everything again.
forget(w) == [w EXCEPT !.clean = [d \in Dirs |-> None], !.baseline = None, !.touched = NoTouched]

Drained(w, queue) ==
    LET left == forget_under(w.watched, queue.gone) IN
    [w EXCEPT !.watched = [p \in Paths |->
        IF left[p] = None THEN None ELSE [left[p] EXCEPT !.before = TRUE]]]

\* The directories a report invalidates.
Invalidated(queue) ==
    {d \in Dirs : \/ d \in queue.paths
                  \/ rules_of(d) \in queue.paths
                  \/ \E s \in queue.subtrees : is_under(d, s)}

\* Watch::begin: take what was reported since the last run.
begin_watch(w, queue) ==
    IF Overrun(queue) THEN forget([w EXCEPT !.watched = NoWatches])
    ELSE LET v == Drained(w, queue) IN
    IF Size(w.touched) + Size(queue) > REPORTS THEN forget(v)
    ELSE [v EXCEPT
        !.clean = [d \in Dirs |-> IF d \in Invalidated(queue) THEN None ELSE @[d]],
        !.touched = [paths    |-> @.paths \cup queue.paths,
                     subtrees |-> @.subtrees \cup queue.subtrees]]

\* Tracking::watch_files, covers and keep_files.
WithAncestors(ps) == ps \cup UNION {ancestors(p) : p \in ps}
covers(w, p) == watches(w, p) /\ \A d \in ancestors(p) : watches(w, d)
keep_files(w, tracked) ==
    [w EXCEPT !.watched = [p \in Paths |->
        IF w.backend = "kqueue" /\ p \notin Dirs /\ p \notin tracked /\ ~IsRules(p)
        THEN None ELSE @[p]]]

\* Watch::settle: the directories seen by a walk that were watched all along
\* are clean; the others are watched now.
SinceBefore(w, d, sighting) ==
    watched_before(w, d) /\ (sighting.rules # None => watched_before(w, rules_of(d)))
SettleAll(seen) == {d \in Dirs : seen[d] # None}
Fresh(w, seen) == {d \in SettleAll(seen) : ~SinceBefore(w, d, seen[d])}
Watching(w, seen) ==
    LET fresh == Fresh(w, seen) IN
    fresh \cup {rules_of(d) : d \in {e \in fresh : seen[e].rules # None}}
SettleKnown(w, seen) ==
    [w EXCEPT !.clean = [d \in Dirs |-> IF d \in SettleAll(seen) \ Fresh(w, seen)
                                        THEN seen[d] ELSE @[d]]]

\* A fresh one is clean if, watched now, it still is what the walk saw.
StillSame(w, tree, d, sighting) ==
    /\ watches(w, d) /\ StampOf(tree[d]) = sighting.stamp
    /\ sighting.rules # None => /\ watches(w, rules_of(d))
                                /\ StampOf(tree[rules_of(d)]) = sighting.rules
SettleFresh(w, tree, seen, fresh) ==
    [w EXCEPT !.clean = [d \in Dirs |->
        IF d \in fresh /\ StillSame(w, tree, d, seen[d]) THEN seen[d] ELSE @[d]]]

-----------------------------------------------------------------------------
(* The kernel: what a change reports to the watches in place.  entries are  *)
(* the paths added, removed or renamed, written those changed in place.     *)

On(w, tree, p) == p \in Paths /\ w.watched[p] # None /\ tree[p] # None
                  /\ w.watched[p].ino = tree[p].ino

InotifyReports(w, tree, entries, written) ==
    LET heard == {p \in entries \cup written : p # Root /\ On(w, tree, Parent(p))}
        dirs  == {p \in entries : p \in Dirs /\ (p \in heard \/ On(w, tree, p))} IN
    [paths    |-> heard \cup {Parent(p) : p \in heard \cap entries},
     subtrees |-> dirs, gone |-> dirs, lost |-> FALSE]

KqueueReports(w, tree, entries, written) ==
    LET own == {p \in entries : On(w, tree, p)} IN
    [paths    |-> (own \ Dirs) \cup {p \in written : On(w, tree, p)}
                    \cup {d \in {Parent(p) : p \in entries} : On(w, tree, d)},
     subtrees |-> own \cap Dirs, gone |-> own, lost |-> FALSE]

Reports(w, tree, entries, written) ==
    IF w.backend = "inotify" THEN InotifyReports(w, tree, entries, written)
    ELSE KqueueReports(w, tree, entries, written)

Enqueue(queue, r) ==
    [paths |-> queue.paths \cup r.paths, subtrees |-> queue.subtrees \cup r.subtrees,
     gone |-> queue.gone \cup r.gone, lost |-> queue.lost]
=============================================================================
