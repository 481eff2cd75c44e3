-------------------------------- MODULE Vet ---------------------------------
(***************************************************************************)
(* go vet of one module and the passes it remembers (vet_module in         *)
(* crates/go/src/vet.rs, fingerprint in crates/go/src/vet/inputs.rs, the   *)
(* marks of crates/cache/src/lib.rs).                                      *)
(*                                                                         *)
(* The key of a run is the stamps of the module's files; the go executable *)
(* and its environment, which the digest also covers, do not change here.  *)
(* go vet is external: it reads the files one after the other, in any      *)
(* order, and what it read passes or not.  Files change at any moment: a   *)
(* user edits them, and the Go lane of the same run rewrites them.         *)
(*                                                                         *)
(* KEEPS, FINE and CREATES say what the file system and its users do:      *)
(*   KEEPS    a file may come with an older modification time, as with mv, *)
(*            cp -p and tar                                                *)
(*   FINE     times tell any two changes apart; else they are coarse, by   *)
(*            less than SETTLE                                             *)
(*   CREATES  a file may be created while the module is being vetted       *)
(***************************************************************************)
EXTENDS Naturals, Sequences, FiniteSets

CONSTANTS
    Files,          \* the files of the module
    Contents,       \* what a file may hold
    Passing,        \* the modules that go vet passes
    Absent,         \* no such file
    Unseen,         \* not looked at yet
    SETTLE,         \* how old a trusted file is
    MARKS,          \* how many passes the store keeps
    MaxNow,         \* a bound on the clock
    Coarse(_),      \* the time a coarse file system keeps for a moment
    KEEPS, FINE, CREATES

ASSUME VetAssumption ==
    /\ SETTLE \in Nat
    /\ MARKS \in Nat \ {0}
    /\ MaxNow \in Nat
    /\ \A t \in 0 .. MaxNow : Coarse(t) \in Nat /\ Coarse(t) <= t /\ t < Coarse(t) + SETTLE
    /\ {KEEPS, FINE, CREATES} \subseteq BOOLEAN
    /\ Unseen # Absent
    /\ {Unseen, Absent} \cap Contents = {}
    /\ Passing \subseteq [Files -> Contents \cup {Absent}]

Stamps == [mtime : Nat, ctime : Nat]

ASSUME AbsentAssumption ==
    /\ {Unseen, Absent} \cap Stamps = {}
    /\ Absent \notin [content : Contents, stamp : Stamps]

VARIABLES
    now,            \* the clock
    files,          \* the module on disk
    marks,          \* the keys of remembered passes, least recently used first
    pc,             \* where vet_module is
    seen,           \* the stamps fingerprint took
    settled,        \* whether the key can be trusted later
    read,           \* what go vet read
    outcome,        \* how the last run ended
    touched         \* a file changed since the last run began

disk == <<now, files, touched>>
run == <<pc, seen, settled, read, outcome>>
vars == <<disk, marks, run>>

Key == [Files -> Stamps \cup {Absent}]

Stamp(f) == IF files[f] = Absent THEN Absent ELSE files[f].stamp

Content(f) == IF files[f] = Absent THEN Absent ELSE files[f].content
Module == [f \in Files |-> Content(f)]

Nothing == [f \in Files |-> Unseen]
Complete(g) == \A f \in Files : g[f] # Unseen

TypeOK ==
    /\ now \in 0 .. MaxNow
    /\ files \in [Files -> [content : Contents, stamp : Stamps] \cup {Absent}]
    /\ marks \in Seq(Key)
    /\ Len(marks) <= MARKS
    /\ \A i, j \in DOMAIN marks : marks[i] = marks[j] => i = j
    /\ pc \in {"idle", "stat", "vet"}
    /\ seen \in [Files -> Stamps \cup {Absent, Unseen}]
    /\ settled \in BOOLEAN
    /\ read \in [Files -> Contents \cup {Absent, Unseen}]
    /\ outcome \in {"none", "skipped", "clean", "errors"}
    /\ touched \in BOOLEAN

Init ==
    /\ now = 0
    /\ files \in [Files -> [content : Contents, stamp : {[mtime |-> 0, ctime |-> 0]}] \cup {Absent}]
    /\ marks = <<>>
    /\ pc = "idle"
    /\ seen = Nothing
    /\ settled = FALSE
    /\ read = Nothing
    /\ outcome = "none"
    /\ touched = FALSE

(***************************************************************************)
(* The marks of the store, least recently used first.                      *)
(***************************************************************************)
Marked(key) == \E i \in DOMAIN marks : marks[i] = key

\* Using the mark at position i makes it the last.
Used(i) ==
    [k \in DOMAIN marks |->
        IF k < i THEN marks[k] ELSE IF k < Len(marks) THEN marks[k + 1] ELSE marks[i]]

\* A new mark drops the oldest one of a full store.
Mark(key) ==
    IF Marked(key)
    THEN Used(CHOOSE i \in DOMAIN marks : marks[i] = key)
    ELSE Append(IF Len(marks) < MARKS THEN marks ELSE Tail(marks), key)

(***************************************************************************)
(* vet_module.                                                             *)
(***************************************************************************)
Begin ==
    /\ pc = "idle"
    /\ seen' = Nothing
    /\ settled' = FALSE
    /\ read' = Nothing
    /\ outcome' = "none"
    /\ touched' = FALSE
    /\ UNCHANGED <<now, files, marks>>

Fingerprint == Begin /\ pc' = "stat"

\* No memo, a module in a workspace, or one with a local replacement.
NoFingerprint == Begin /\ pc' = "vet"

Stat(f) ==
    /\ pc = "stat"
    /\ seen[f] = Unseen
    /\ seen' = [seen EXCEPT ![f] = Stamp(f)]
    /\ UNCHANGED <<disk, marks, pc, settled, read, outcome>>

Settled_Now == \A f \in Files : seen[f] # Absent => seen[f].mtime < now

Settled ==
    \A f \in Files :
        seen[f] # Absent => seen[f].mtime < IF now >= SETTLE THEN now - SETTLE ELSE 0

Skip ==
    /\ pc = "stat"
    /\ Complete(seen)
    /\ \E i \in DOMAIN marks : marks[i] = seen /\ marks' = Used(i)
    /\ pc' = "idle"
    /\ outcome' = "skipped"
    /\ UNCHANGED <<disk, seen, settled, read>>

Miss ==
    /\ pc = "stat"
    /\ Complete(seen)
    /\ ~Marked(seen)
    /\ settled' = Settled
    /\ pc' = "vet"
    /\ UNCHANGED <<disk, marks, seen, read, outcome>>

\* go vet, external.
Read(f) ==
    /\ pc = "vet"
    /\ read[f] = Unseen
    /\ read' = [read EXCEPT ![f] = Content(f)]
    /\ UNCHANGED <<disk, marks, pc, seen, settled, outcome>>

Clean ==
    /\ pc = "vet"
    /\ Complete(read)
    /\ read \in Passing
    /\ marks' = IF settled THEN Mark(seen) ELSE marks
    /\ pc' = "idle"
    /\ outcome' = "clean"
    /\ UNCHANGED <<disk, seen, settled, read>>

\* go vet found something.
Errors ==
    /\ pc = "vet"
    /\ Complete(read)
    /\ read \notin Passing
    /\ pc' = "idle"
    /\ outcome' = "errors"
    /\ UNCHANGED <<disk, marks, seen, settled, read>>

\* go vet could not be run, or ended early.
Fails ==
    /\ pc = "vet"
    /\ pc' = "idle"
    /\ outcome' = "errors"
    /\ UNCHANGED <<disk, marks, seen, settled, read>>

(***************************************************************************)
(* The file system.                                                        *)
(***************************************************************************)
Tick ==
    /\ now < MaxNow
    /\ now' = now + 1
    /\ UNCHANGED <<files, touched, marks, run>>

\* The time of a change.
At(t) == IF FINE THEN t ELSE Coarse(t)

Put(f) ==
    /\ FINE => now < MaxNow
    /\ now' = IF FINE THEN now + 1 ELSE now
    /\ \E c \in Contents, m \in IF KEEPS THEN 0 .. At(now') ELSE {At(now')} :
          files' = [files EXCEPT ![f] = [content |-> c, stamp |-> [mtime |-> m, ctime |-> At(now')]]]
    /\ touched' = TRUE
    /\ UNCHANGED <<marks, run>>

Write(f) == files[f] # Absent /\ Put(f)

Create(f) == files[f] = Absent /\ (CREATES \/ pc = "idle") /\ Put(f)

Remove(f) ==
    /\ files[f] # Absent
    /\ files' = [files EXCEPT ![f] = Absent]
    /\ touched' = TRUE
    /\ UNCHANGED <<now, marks, run>>

Next ==
    \/ Fingerprint \/ NoFingerprint \/ Skip \/ Miss \/ Clean \/ Errors \/ Fails
    \/ Tick
    \/ \E f \in Files : Stat(f) \/ Read(f) \/ Write(f) \/ Create(f) \/ Remove(f)

Spec == Init /\ [][Next]_vars

-----------------------------------------------------------------------------
(***************************************************************************)
(* Properties.                                                             *)
(***************************************************************************)

\* What VerdictSound needs of the file system and its users.
Orderly == (FINE \/ ~KEEPS) /\ ~CREATES

\* A run that reports no errors, over files that stayed as they are since it
\* began, tells the truth about them: also when it was skipped for a pass
\* remembered from a run during which the files changed.
VerdictSound ==
    (pc = "idle" /\ outcome \in {"skipped", "clean"} /\ ~touched) => Module \in Passing
=============================================================================
