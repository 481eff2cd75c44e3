---------------------------- MODULE OutcomeCache ----------------------------
(***************************************************************************)
(* The outcome cache (crates/cache/src/lib.rs) as the script lane uses it  *)
(* (crates/engine/src/script_lane.rs, write.rs), for one file.  Several    *)
(* fmtkit processes (a server and one-shot runs) share the store file, and *)
(* editors, git and other tools write the source file at any moment.       *)
(*                                                                         *)
(* Hashing is perfect: a Key is the record of what it digests.  All        *)
(* contents have the same size and every write of the file is given the   *)
(* same inode (a freed one may be reused at once): the worst case for a    *)
(* Stamp.  Time is a clock read by fmtkit and, rounded down by Coarse, by  *)
(* the file system.                                                        *)
(* A definition F_x is a mutant of F: a plausible bug that the run's       *)
(* properties must notice.                                                 *)
(***************************************************************************)
EXTENDS Integers, FiniteSets

CONSTANTS
    Procs,        \* fmtkit processes
    Configs,      \* configurations (Config::hash)
    Modes,        \* the modes they run in
    Contents,     \* contents the file can have
    Failed,       \* contents process_inner reports as failed
    Generated,    \* contents left out of the report
    Format(_, _), \* the text transform makes of a content, per configuration
    Coarse(_),    \* the file system's time stamp at a moment
    SETTLE, BUDGET,
    MaxClock,     \* bound on the clock
    MaxEdits      \* bound on the edits of others

ASSUME CoarseAssumption ==
    /\ SETTLE \in Nat
    /\ \A t \in 0..MaxClock : Coarse(t) \in Int /\ Coarse(t) <= t /\ t < Coarse(t) + SETTLE

\* Nothing is assumed of what formatting makes of formatted text, nor of whether it
\* can be formatted: the lint fixes may stop at their limit of rounds, and what the
\* formatter leaves may need fixes again.
ASSUME FormatAssumption ==
    /\ Failed \subseteq Contents /\ Generated \subseteq Contents
    /\ \A cf \in Configs, c \in Contents : Format(cf, c) \in Contents

ASSUME ModesAssumption == Modes \subseteq {"format", "check"}

ASSUME BoundsAssumption == MaxClock \in Nat /\ MaxEdits \in Nat /\ BUDGET \in Nat

VARIABLES
    now, file,      \* the clock; the file: its content and times
    edits,          \* how often something else has written the file
    disk,           \* the store file: entries and stamps
    pc, run,        \* per process: where it is; its mode, config and settled
    fresh, result,  \* per process: what Cache::read returned; what it reports
    entries, stamps, used, dirty, \* per process: Store and its Tables
    formatted     \* history: the texts format runs have written, per configuration

world  == <<now, file, edits>>
tables == <<entries, stamps, used, dirty>>
vars   == <<world, disk, pc, run, fresh, result, tables, formatted>>

Stamps   == [mtime : Int, ctime : Int]
Keys     == [config : Configs, mode : {"format", "check"}, content : Contents]
PathKeys == [config : Configs, mode : {"format", "check"}]
\* What is reported: whether formatting changes the file, and the text its
\* findings and scores point into.
Outcomes == [changed : BOOLEAN, about : Contents]
Entries  == [key : Keys, outcome : Outcomes]
StampEntries == [path : PathKeys, stamp : Stamps, key : Keys]

Stamp(f) == [mtime |-> f.mtime, ctime |-> f.ctime]

\* The file once something has written content c into it now.
Written(c) == [content |-> c, mtime |-> Coarse(now), ctime |-> Coarse(now)]

\* The cache's keys; path_key leaves the content out.
Key(cf, m, c)   == [config |-> cf, mode |-> m, content |-> c]
path_key(cf, m) == [config |-> cf, mode |-> m]

\* transform: check mode reports on the text on disk, format mode on the result.
transform(cf, m, c) ==
    [changed |-> Format(cf, c) # c,
     about   |-> IF m = "check" THEN c ELSE Format(cf, c)]

-----------------------------------------------------------------------------
(* Operations of Cache *)

get(p, k) == {e.outcome : e \in {x \in entries[p] : x.key = k}}

get_stamped(p, pk, st) ==
    UNION {get(p, e.key) : e \in {x \in stamps[p] : x.path = pk /\ x.stamp = st}}

\* Cache::insert: replace what the key holds; storing it again is no change.
insert(p, k, o) ==
    LET new == [key |-> k, outcome |-> o] IN
    /\ entries' = [entries EXCEPT ![p] = {e \in @ : e.key # k} \cup {new}]
    /\ used' = [used EXCEPT ![p] = @ \cup {k}]

\* Cache::remember trusts only a stamp from before the run by SETTLE.
Settled_Always(p, st) == TRUE
Settled(p, st) == st.mtime < run[p].settled

remember(p, k, st) ==
    LET pk  == path_key(k.config, k.mode)
        new == [path |-> pk, stamp |-> st, key |-> k] IN
    stamps' = [stamps EXCEPT ![p] =
        IF Settled(p, st) THEN {e \in @ : e.path # pk} \cup {new} ELSE @]

\* Both tables record a change in dirty.
MarkDirty_StampsOnly(p) == dirty' = [dirty EXCEPT ![p] = @ \/ stamps'[p] # stamps[p]]
MarkDirty(p) ==
    dirty' = [dirty EXCEPT ![p] = @ \/ entries'[p] # entries[p] \/ stamps'[p] # stamps[p]]

\* put_fresh and put store what can be reused as it is.
Storable_Changed(m, o) == TRUE
Storable(m, o) == ~o.changed \/ m = "check"

-----------------------------------------------------------------------------

TypeOK ==
    /\ now \in 0..MaxClock /\ edits \in 0..MaxEdits
    /\ file \in [content : Contents, mtime : Int, ctime : Int]
    /\ disk \in [entries : SUBSET Entries, stamps : SUBSET StampEntries]
    /\ pc \in [Procs -> {"closed", "idle", "stat", "read", "work", "write", "done"}]
    /\ run \in [Procs -> [config : Configs, mode : {"format", "check"}, settled : Int]]
    /\ fresh \in [Procs -> [stamp : Stamps, content : Contents]]
    /\ result \in [Procs -> [kind : {"none", "hit", "fresh", "failed"},
                             outcome : Outcomes, seen : Contents]]
    /\ entries \in [Procs -> SUBSET Entries]
    /\ stamps \in [Procs -> SUBSET StampEntries]
    /\ used \in [Procs -> SUBSET Keys]
    /\ dirty \in [Procs -> BOOLEAN]
    /\ formatted \in SUBSET [config : Configs, content : Contents]

EmptyStore == [entries |-> {}, stamps |-> {}]

\* What a process between two runs has of a run, a lookup and a result.
NoContent == CHOOSE c \in Contents : TRUE
NoRun(cf) == [config |-> cf, mode |-> "check", settled |-> 0]
NoFresh   == [stamp |-> [mtime |-> 0, ctime |-> 0], content |-> NoContent]
NoResult  == [kind |-> "none", seen |-> NoContent,
              outcome |-> [changed |-> FALSE, about |-> NoContent]]

Forget(p) ==
    /\ run' = [run EXCEPT ![p] = NoRun(run[p].config)]
    /\ fresh' = [fresh EXCEPT ![p] = NoFresh]
    /\ result' = [result EXCEPT ![p] = NoResult]

\* An old file, no store, nobody running.
Init ==
    /\ now = 0
    /\ edits = 0
    /\ \E c \in Contents : file = Written(c)
    /\ disk = EmptyStore
    /\ pc = [p \in Procs |-> "closed"]
    /\ run \in {[p \in Procs |-> NoRun(cf)] : cf \in Configs}
    /\ fresh = [p \in Procs |-> NoFresh]
    /\ result = [p \in Procs |-> NoResult]
    /\ entries = [p \in Procs |-> {}] /\ stamps = [p \in Procs |-> {}]
    /\ used = [p \in Procs |-> {}] /\ dirty = [p \in Procs |-> FALSE]
    /\ formatted = {}

-----------------------------------------------------------------------------
(* The world *)

Tick ==
    /\ now < MaxClock
    /\ now' = now + 1
    /\ UNCHANGED <<file, edits, disk, pc, run, fresh, result, tables, formatted>>

\* Something else writes the file.
Edit(c) ==
    /\ edits < MaxEdits
    /\ edits' = edits + 1
    /\ file' = Written(c)
    /\ UNCHANGED <<now, disk, pc, run, fresh, result, tables, formatted>>

\* The store file is deleted, or replaced by one another version wrote.
StoreLost ==
    /\ disk' = EmptyStore
    /\ UNCHANGED <<world, pc, run, fresh, result, tables, formatted>>

-----------------------------------------------------------------------------
(* A process *)

\* Session::run opens the store for this configuration (Tables::load).
Open(p, cf) ==
    /\ pc[p] = "closed"
    /\ pc' = [pc EXCEPT ![p] = "idle"]
    /\ run' = [run EXCEPT ![p] = NoRun(cf)]
    /\ entries' = [entries EXCEPT ![p] = disk.entries]
    /\ stamps' = [stamps EXCEPT ![p] = disk.stamps]
    /\ used' = [used EXCEPT ![p] = {}]
    /\ dirty' = [dirty EXCEPT ![p] = FALSE]
    /\ UNCHANGED <<world, disk, fresh, result, formatted>>

\* Cache::next_run, then the lane takes up the file.
Begin(p, m) ==
    /\ pc[p] = "idle"
    /\ pc' = [pc EXCEPT ![p] = "stat"]
    /\ run' = [run EXCEPT ![p] = [config |-> run[p].config, mode |-> m, settled |-> now - SETTLE]]
    /\ UNCHANGED <<world, disk, fresh, result, tables, formatted>>

Report(p, kind, o, c) ==
    /\ result' = [result EXCEPT ![p] = [kind |-> kind, outcome |-> o, seen |-> c]]
    /\ pc' = [pc EXCEPT ![p] = "done"]

\* Cache::read, first half: the stamp, and a lookup by it.
Stat(p) ==
    LET hits == get_stamped(p, path_key(run[p].config, run[p].mode), Stamp(file)) IN
    /\ pc[p] = "stat"
    /\ \/ /\ \E o \in hits : Report(p, "hit", o, file.content)
          /\ used' = [used EXCEPT ![p] = @ \cup
                {e.key : e \in {x \in stamps[p] : x.path = path_key(run[p].config, run[p].mode)}}]
          /\ UNCHANGED fresh
       \/ /\ hits = {}
          /\ pc' = [pc EXCEPT ![p] = "read"]
          /\ fresh' = [fresh EXCEPT ![p].stamp = Stamp(file)]
          /\ UNCHANGED <<result, used>>
    /\ UNCHANGED <<world, disk, run, entries, stamps, dirty, formatted>>

\* Cache::read, second half: the bytes, and a lookup by them.
Read(p) ==
    LET k == Key(run[p].config, run[p].mode, file.content) IN
    /\ pc[p] = "read"
    /\ fresh' = [fresh EXCEPT ![p].content = file.content]
    /\ \/ /\ \E o \in get(p, k) : Report(p, "hit", o, file.content)
          /\ remember(p, k, fresh[p].stamp)
          /\ used' = [used EXCEPT ![p] = @ \cup {k}]
          /\ UNCHANGED entries /\ MarkDirty(p)
       \/ /\ get(p, k) = {}
          /\ pc' = [pc EXCEPT ![p] = "work"]
          /\ UNCHANGED <<result, tables>>
    /\ UNCHANGED <<world, disk, run, formatted>>

\* process_inner after a miss, up to the write: not text or not formattable,
\* generated, nothing to write (put_fresh), or something to write.
Work(p) ==
    LET c == fresh[p].content
        k == Key(run[p].config, run[p].mode, c)
        o == transform(run[p].config, run[p].mode, c) IN
    /\ pc[p] = "work"
    /\ \/ /\ c \in Failed
          /\ Report(p, "failed", o, c)
          /\ UNCHANGED tables
       \/ /\ c \in Generated \ Failed
          /\ pc' = [pc EXCEPT ![p] = "done"]
          /\ UNCHANGED <<result, tables>>
       \/ /\ c \notin Failed \cup Generated /\ Storable(run[p].mode, o)
          /\ Report(p, "fresh", o, c)
          /\ insert(p, k, o)
          /\ remember(p, k, fresh[p].stamp)
          /\ MarkDirty(p)
       \/ /\ c \notin Failed \cup Generated /\ ~Storable(run[p].mode, o)
          /\ pc' = [pc EXCEPT ![p] = "write"]
          /\ UNCHANGED <<result, tables>>
    /\ UNCHANGED <<world, disk, run, fresh, formatted>>

\* What is stored for the text just written.
clean_AsReported(cf, c) == transform(cf, "format", c)
clean(cf, c) == [transform(cf, "format", c) EXCEPT !.changed = FALSE]

\* write::atomic replaces the file by a new one; the clean outcome is put under
\* the key of the new text.
Write(p) ==
    LET cf  == run[p].config
        out == Format(cf, fresh[p].content) IN
    /\ pc[p] = "write"
    /\ file' = Written(out)
    /\ Report(p, "fresh", transform(cf, "format", fresh[p].content), fresh[p].content)
    /\ insert(p, Key(cf, "format", out), clean(cf, fresh[p].content))
    /\ UNCHANGED stamps /\ MarkDirty(p)
    /\ formatted' = formatted \cup {[config |-> cf, content |-> out]}
    /\ UNCHANGED <<now, edits, disk, run, fresh>>

WriteFails(p) ==
    /\ pc[p] = "write"
    /\ Report(p, "failed", transform(run[p].config, "format", fresh[p].content), fresh[p].content)
    /\ UNCHANGED <<world, disk, run, fresh, tables, formatted>>

\* Cache::flush.  Tables::prune works on the tables in memory too.
Kept(p) ==
    IF Cardinality(entries[p]) > BUDGET THEN {e \in entries[p] : e.key \in used[p]}
    ELSE entries[p]

KeptStamps(p) ==
    IF Cardinality(entries[p]) > BUDGET
      THEN {e \in stamps[p] : \E x \in Kept(p) : x.key = e.key}
      ELSE stamps[p]

Flush(p) ==
    /\ pc[p] = "done"
    /\ pc' = [pc EXCEPT ![p] = "idle"]
    /\ IF dirty[p]
         THEN /\ entries' = [entries EXCEPT ![p] = Kept(p)]
              /\ stamps' = [stamps EXCEPT ![p] = KeptStamps(p)]
              /\ used' = [used EXCEPT ![p] = {}]
              /\ \/ /\ disk' = [entries |-> Kept(p), stamps |-> KeptStamps(p)]
                    /\ dirty' = [dirty EXCEPT ![p] = FALSE]
                 \/ UNCHANGED <<disk, dirty>>  \* the write failed
         ELSE UNCHANGED <<disk, tables>>
    /\ Forget(p)
    /\ UNCHANGED <<world, formatted>>

\* The process ends, is killed, or lets go of the store; Stores::persist has
\* run before an orderly end.
Close(p) ==
    /\ pc[p] # "closed"
    /\ pc' = [pc EXCEPT ![p] = "closed"]
    /\ entries' = [entries EXCEPT ![p] = {}]
    /\ stamps' = [stamps EXCEPT ![p] = {}]
    /\ used' = [used EXCEPT ![p] = {}]
    /\ dirty' = [dirty EXCEPT ![p] = FALSE]
    /\ Forget(p)
    /\ UNCHANGED <<world, disk, formatted>>

Process(p) ==
    \/ Stat(p) \/ Read(p) \/ Work(p) \/ Write(p) \/ WriteFails(p) \/ Flush(p) \/ Close(p)
    \/ \E cf \in Configs : Open(p, cf)
    \/ \E m \in Modes : Begin(p, m)

Next ==
    \/ Tick \/ StoreLost
    \/ \E c \in Contents : Edit(c)
    \/ \E p \in Procs : Process(p)

Spec == Init /\ [][Next]_vars

-----------------------------------------------------------------------------
(* What must hold *)

AllEntries == disk.entries \cup UNION {entries[p] : p \in Procs}
AllStamps  == disk.stamps \cup UNION {stamps[p] : p \in Procs}

\* Texts a format run leaves as they are, and those an earlier one wrote.
Left(cf, c) ==
    \/ c \notin Failed \cup Generated /\ Format(cf, c) = c
    \/ [config |-> cf, content |-> c] \in formatted

\* What may be reported of a content without processing it: in check mode what
\* processing reports of it, in format mode that there is nothing to write.
Promised(cf, m, c) ==
    IF m = "check" THEN {o \in {transform(cf, m, c)} : c \notin Failed \cup Generated}
    ELSE {o \in {[changed |-> FALSE, about |-> c]} : Left(cf, c)}

\* Whatever is stored, in any process or on disk, is what processing that
\* content under that configuration and mode reports, never a failure; the clean
\* outcome put after a write is the one exception: it speaks of the text that was
\* written, under the key of that text, and of no other.
StoreCoherent ==
    \A e \in AllEntries : e.outcome \in Promised(e.key.config, e.key.mode, e.key.content)

\* "format-mode outcomes are stored only when there was nothing to write": a
\* format run that trusts the cache skips no write, but over bytes which a format
\* run under its configuration has written.
HitNeedsNoWrite ==
    \A p \in Procs : result[p].kind = "hit" /\ pc[p] = "done" /\ run[p].mode = "format" =>
        Left(run[p].config, result[p].seen)

\* A hit reports on the bytes the file had when it was looked up, also when
\* nothing but its stamp was read.
HitIsCurrent ==
    \A p \in Procs : result[p].kind = "hit" /\ pc[p] = "done" =>
        result[p].outcome \in Promised(run[p].config, run[p].mode, result[p].seen)

\* A remembered stamp that matches the file leads to the file's own content,
\* whatever was written between the look at the stamp and the read of the bytes.
StampsSound ==
    \A e \in AllStamps :
        /\ e.path = path_key(e.key.config, e.key.mode)
        /\ e.stamp = Stamp(file) => e.key.content = file.content

\* Pruning never leaves a stamp that leads nowhere.
Backed(es, ss) == \A e \in ss : \E x \in es : x.key = e.key
NoDanglingStamp ==
    /\ Backed(disk.entries, disk.stamps)
    /\ \A p \in Procs : Backed(entries[p], stamps[p])

\* A process whose tables are not dirty lost nothing since it read the store or
\* wrote it: its next flush may skip the write.
StaysSaved(p) ==
    pc[p] # "closed" /\ pc'[p] # "closed" /\ ~dirty'[p] =>
       \/ entries'[p] = entries[p] /\ stamps'[p] = stamps[p] /\ ~dirty[p]
       \/ disk' = [entries |-> entries'[p], stamps |-> stamps'[p]]

CleanMeansSaved == [][\A p \in Procs : StaysSaved(p)]_vars

-----------------------------------------------------------------------------
(* What the proofs need besides *)

\* Every write of the file from now on gets a later modification time than any
\* remembered stamp.
StampsSettled == \A e \in AllStamps : e.stamp.mtime < now - SETTLE

\* The run's horizon lies SETTLE back, and a stamp before it still tells whether
\* the file holds the bytes that were read.
LookupsSound ==
    \A p \in Procs :
        /\ pc[p] \notin {"closed", "idle"} => run[p].settled <= now - SETTLE
        /\ pc[p] \in {"work", "write"} /\ fresh[p].stamp.mtime < run[p].settled
              /\ fresh[p].stamp = Stamp(file) => fresh[p].content = file.content
        /\ pc[p] # "done" => result[p].kind # "hit"

IInv ==
    /\ TypeOK /\ StoreCoherent
    /\ StampsSound /\ StampsSettled /\ LookupsSound
    /\ NoDanglingStamp /\ HitIsCurrent /\ HitNeedsNoWrite
=============================================================================
