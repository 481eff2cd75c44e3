----------------------------- MODULE DirMemory ------------------------------
(***************************************************************************)
(* What discovery remembers between runs (crates/discover/src/memory.rs):  *)
(* the listing of each directory under the stamp it had, the context all   *)
(* listings were filtered by, and what differs between HEAD and the index. *)
(*                                                                         *)
(* The operators take a Memory m and return the next one, or what it       *)
(* answers.  A stamp has no size and inodes are reused: the worst case.    *)
(* A definition F_x is a mutant of F: a plausible bug that a run's         *)
(* properties must notice.                                                 *)
(***************************************************************************)
EXTENDS Naturals, FiniteSets

CONSTANTS
    Dirs,     \* the directories of the tree, as paths
    None,     \* no value
    SETTLE,   \* how much older than a run a stamp must be to be trusted
    BUDGET    \* past this many listings a save keeps only the used ones

\* A stamp, and a directory's as a run saw it, with its rules file's.
Stamps == [ino : Nat, mtime : Nat, ctime : Nat]
Sightings == [stamp : Stamps, rules : Stamps \cup {None}]

\* The identity of a file or directory at the moment it was looked at.
StampOf(node) ==
    IF node = None THEN None
    ELSE [ino |-> node.ino, mtime |-> node.mtime, ctime |-> node.ctime]

settled_before(now) == IF now < SETTLE THEN 0 ELSE now - SETTLE

\* Whether something was last written and changed before the moment.
is_settled(stamp, before) == stamp.mtime < before /\ stamp.ctime < before

settled(stamp, before) == stamp = None \/ is_settled(stamp, before)

NoListings == [d \in Dirs |-> None]
Known(listings) == {d \in Dirs : listings[d] # None}

\* Stored::default, and what is read when the file is missing or not ours.
Stored == [context |-> None, listings |-> NoListings, staged |-> None]

\* Memory::open: nothing is read yet.
Open == [stored |-> None, fresh |-> NoListings, fresh_staged |-> None,
         context |-> None, trusted |-> FALSE, used |-> {}, settled |-> 0]

\* Memory::load with what the store file holds.
load(m, file) ==
    IF m.stored # None THEN m
    ELSE [m EXCEPT !.stored = IF file = None THEN Stored ELSE file, !.used = {}]

next_run(m, now) == [m EXCEPT !.settled = settled_before(now)]

\* Settle the rules this run filters by: what was stored under others is not
\* used.
begin(m, context) ==
    [m EXCEPT !.context = context,
              !.trusted = /\ m.stored.context = context
                          /\ settled(context.exclude, m.settled)]

\* The stored listing of d when it still has the stamp.
listing(m, d, stamp) ==
    IF m.trusted /\ m.stored.listings[d] # None /\ m.stored.listings[d].stamp = stamp
    THEN m.stored.listings[d] ELSE None

\* The stored listing of d, whatever its stamp.
previous(m, d) == IF m.trusted THEN m.stored.listings[d] ELSE None

use(m, d) == [m EXCEPT !.used = @ \cup {d}]

\* Remember a listing when it and its ignore file have settled.
remember(m, d, l) ==
    IF is_settled(l.stamp, m.settled) /\ settled(l.rules, m.settled)
    THEN [m EXCEPT !.fresh[d] = l] ELSE m

\* What a run found before for this tree and this index.
staged(m, tree, index) ==
    LET s == m.stored.staged IN
    IF s # None /\ s.tree = tree /\ s.index = index THEN s.paths ELSE None

\* OnceLock::set: the first one stays.
remember_staged(m, s) == IF m.fresh_staged = None THEN [m EXCEPT !.fresh_staged = s] ELSE m

\* Nothing filtered by a rules file that changed just now is kept.
RulesMoved(m) == m.context.exclude # None /\ m.context.exclude.mtime >= m.settled

Kept(m) ==
    LET old == m.stored.listings IN
    IF ~m.trusted THEN NoListings
    ELSE IF Cardinality(Known(old)) + Cardinality(Known(m.fresh)) > BUDGET
    THEN [d \in Dirs |-> IF d \in m.used THEN old[d] ELSE None]
    ELSE old

\* Memory::save: what is stored after the run.
Saved(m) ==
    [context  |-> m.context,
     listings |-> [d \in Dirs |-> IF m.fresh[d] # None THEN m.fresh[d] ELSE Kept(m)[d]],
     staged   |-> IF m.fresh_staged # None THEN m.fresh_staged ELSE m.stored.staged]

Changed(m) == Known(m.fresh) # {} \/ m.fresh_staged # None \/ ~m.trusted

\* A run that never walked leaves the store as it was.
save(m) ==
    [Open EXCEPT !.stored  = IF m.context = None THEN m.stored
                             ELSE IF RulesMoved(m) THEN Stored ELSE Saved(m)]

\* What save writes into the file; None when it writes nothing.
Writes(m) == IF m.context # None /\ ~RulesMoved(m) /\ Changed(m) THEN Saved(m) ELSE None
=============================================================================
