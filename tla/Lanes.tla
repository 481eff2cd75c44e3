------------------------------- MODULE Lanes --------------------------------
(***************************************************************************)
(* The script lane and the Go lane of one run (crates/engine/src:          *)
(* script_lane.rs, go_lane.rs, write.rs), on a pool of Jobs workers, over  *)
(* the Go helper's client as HelperApi specifies it.                       *)
(*                                                                         *)
(* A file's task is queued, busy on a worker, read (bytes in hand), sent   *)
(* to the helper, sent again to be scored, or done.  The cache is a set    *)
(* of entries by content; how it finds them is OutcomeCache's subject.     *)
(***************************************************************************)
EXTENDS Outcome

CONSTANTS
    Jobs,       \* workers of the pool
    MaxFaults   \* bound on faults and edits

VARIABLES
    disk,              \* the work tree: file -> text
    rewrites,          \* history: which bytes the lanes replaced by which
    entries,           \* the outcome cache
    run,               \* the Run under way: configuration, linter, mode, cache flag, lanes
    task, fresh, outcome,  \* per file: its task, the bytes read, what is reported
    lane, turn,        \* the Go lane's thread: where it is, the file it collects
    status, broken,    \* the helper's client (HelperApi)
    faults

tree    == <<disk, rewrites>>
tasks   == <<task, fresh, outcome>>
go      == <<lane, turn>>
client  == <<status, broken>>

Happens == faults < MaxFaults /\ faults' = faults + 1

\* A request formats a file, or scores it as it is on disk.
Requests == {"format", "score"} \X Range(GoFiles) \X Texts
Oversize == {"format", "score"} \X Range(GoFiles) \X Large
H == INSTANCE HelperApi WITH Causes <- {"crashed"}
Request(kind, f) == <<kind, f, fresh[f]>>

-----------------------------------------------------------------------------
(* The cache and the pool *)

Key(f, t) == [config |-> run.config, mode |-> run.mode, file |-> f, text |-> t]
Stored(f, t) == {e \in entries : run.cache /\ e.key = Key(f, t)}
Put(f, t, o) ==
    IF run.cache THEN {e \in entries : e.key # Key(f, t)} \cup {[key |-> Key(f, t), outcome |-> o]}
    ELSE entries

\* The workers that cannot take up another task.
Occupied_Waiting ==
    {f \in Files : task[f] = "busy"}
        \cup {f \in Range(GoFiles) : task[f] = "sent" /\ status[Request("format", f)] = "waiting"}
Occupied == {f \in Files : task[f] = "busy"}
Free == run.phase = "lanes" /\ Cardinality(Occupied) < Jobs

\* A task ends with its outcome; None leaves the file out of the report.
Done(f, o) ==
    /\ task' = [task EXCEPT ![f] = "done"]
    /\ outcome' = [outcome EXCEPT ![f] = o]

\* The first half of both lanes: a hit, a generated file, or bytes to work on.
\* A file that cannot be read is an error of its own.
Read(f, next) ==
    /\ fresh' = [fresh EXCEPT ![f] = disk[f]]
    /\ \/ /\ \E e \in Stored(f, disk[f]) : Done(f, e.outcome)
          /\ UNCHANGED faults
       \/ /\ Stored(f, disk[f]) = {} /\ disk[f] \in Generated
          /\ Done(f, None) /\ UNCHANGED faults
       \/ /\ Stored(f, disk[f]) = {} /\ disk[f] \notin Generated
          /\ task' = [task EXCEPT ![f] = next]
          /\ UNCHANGED <<outcome, faults>>
       \/ Happens /\ Done(f, [FailedOutcome EXCEPT !.error = "read"])

\* write::atomic: the file is replaced by what became of the bytes read, whatever
\* it holds by now.
Replace(f, out) ==
    /\ disk' = [disk EXCEPT ![f] = out]
    /\ rewrites' = rewrites \cup
          {[config |-> run.config, file |-> f, from |-> fresh[f], to |-> out]}

-----------------------------------------------------------------------------
(* The script lane *)

\* process_inner, up to the text in hand.
ScriptRead(f) ==
    /\ Free /\ f \in Scripts /\ task[f] = "queued"
    /\ Read(f, "busy")
    /\ UNCHANGED <<tree, entries, run, go, client>>

\* process_inner from transform on.
ScriptFinish(f) ==
    LET t == fresh[f]
        o == transform(run.config, run.linter, run.mode, f, t)
        out == output(run.config, run.linter, f, t)
        written == o.changed /\ run.mode = "format" IN
    /\ f \in Scripts /\ task[f] = "busy"
    /\ \/ /\ ~written
          /\ Done(f, o)
          /\ entries' = IF o.error = None THEN Put(f, t, o) ELSE entries
          /\ UNCHANGED <<tree, faults>>
       \/ /\ written
          /\ Done(f, o)
          /\ Replace(f, out)
          /\ entries' = Put(f, out, clean(o))
          /\ UNCHANGED faults
       \/ /\ written /\ Happens
          /\ Done(f, [o EXCEPT !.error = "write"])
          /\ UNCHANGED <<tree, entries>>
    /\ UNCHANGED <<run, fresh, go, client>>

-----------------------------------------------------------------------------
(* The Go lane *)

Items(s) == {f \in Range(GoFiles) : task[f] = s}

GoRead(f) ==
    /\ Free /\ lane = "read" /\ f \in Items("queued")
    /\ Read(f, "read")
    /\ UNCHANGED <<tree, entries, run, go, client>>

\* The lane's error ends it: its outcomes are not reported.
LaneFails == lane' = "failed" /\ UNCHANGED turn

\* Helper::spawn, only when a file missed.
Spawn ==
    /\ lane = "read" /\ Items("queued") = {}
    /\ \/ /\ Items("read") = {} /\ lane' = "collect" /\ turn' = 1
          /\ UNCHANGED faults
       \/ Items("read") # {} /\ lane' = "submit" /\ UNCHANGED <<turn, faults>>
       \/ Items("read") # {} /\ LaneFails /\ Happens
    /\ UNCHANGED <<tree, entries, run, tasks, client>>

\* submit, on the pool.
Submit(f) ==
    /\ Free /\ lane = "submit" /\ f \in Items("read")
    /\ \/ /\ H!Accept(Request("format", f)) \/ H!AnswerLarge(Request("format", f))
          /\ task' = [task EXCEPT ![f] = "sent"]
          /\ UNCHANGED go
       \/ H!Fail(Request("format", f)) /\ LaneFails /\ UNCHANGED task
    /\ UNCHANGED <<tree, entries, run, fresh, outcome, faults>>

Submitted ==
    /\ lane = "submit" /\ Items("read") = {}
    /\ lane' = "collect" /\ turn' = 1
    /\ UNCHANGED <<tree, entries, run, tasks, client, faults>>

\* finish: the outcome, and what it stores and writes.
Finish(f, o) ==
    LET t == fresh[f]  out == GoLayout(t) IN
    \/ /\ o.error # None \/ (o.changed /\ run.mode = "check")
       /\ Done(f, o) /\ UNCHANGED <<tree, entries, faults>>
    \/ /\ o.error = None /\ ~o.changed
       /\ Done(f, o) /\ entries' = Put(f, t, o) /\ UNCHANGED <<tree, faults>>
    \/ /\ o.error = None /\ o.changed /\ run.mode = "format"
       /\ Done(f, o) /\ Replace(f, out)
       /\ entries' = Put(f, out, clean(o)) /\ UNCHANGED faults
    \/ /\ o.error = None /\ o.changed /\ run.mode = "format" /\ Happens
       /\ Done(f, [o EXCEPT !.error = "write"]) /\ UNCHANGED <<tree, entries>>

\* collect takes the files in order.
Collecting == lane = "collect" /\ turn <= Len(GoFiles)
Turn == GoFiles[turn]
Reported(f) == IF status[Request("format", f)] = "large" THEN FailedOutcome ELSE reply_outcome(f, fresh[f])

\* A changed file of a check is scored again, as it is on disk, and stored then.
Rescored(o) == run.mode = "check" /\ o.changed /\ o.error = None

Skip ==
    /\ Collecting /\ task[Turn] = "done"
    /\ turn' = turn + 1
    /\ UNCHANGED <<tree, entries, run, tasks, lane, client, faults>>

Collect ==
    /\ Collecting /\ task[Turn] = "sent" /\ status[Request("format", Turn)] \in {"replied", "large"}
    /\ ~Rescored(Reported(Turn))
    /\ Finish(Turn, Reported(Turn))
    /\ turn' = turn + 1
    /\ UNCHANGED <<run, fresh, lane, client>>

CollectRescored ==
    LET o == Reported(Turn) IN
    /\ Collecting /\ task[Turn] = "sent" /\ status[Request("format", Turn)] = "replied"
    /\ Rescored(o)
    /\ outcome' = [outcome EXCEPT ![Turn] = o]
    /\ IF o.scores = None
       THEN /\ task' = [task EXCEPT ![Turn] = "done"]
            /\ entries' = Put(Turn, fresh[Turn], o)
            /\ turn' = turn + 1 /\ UNCHANGED <<lane, client>>
       ELSE /\ UNCHANGED entries
            /\ \/ /\ H!Accept(Request("score", Turn))
                  /\ task' = [task EXCEPT ![Turn] = "rescore"]
                  /\ turn' = turn + 1 /\ UNCHANGED lane
               \/ H!Fail(Request("score", Turn)) /\ LaneFails /\ UNCHANGED task
    /\ UNCHANGED <<tree, run, fresh, faults>>

\* Then the scores that were asked for again, in order.
Waiting == lane = "collect" /\ turn > Len(GoFiles)
Earliest(f) == \A g \in Items("rescore") :
                  \E i, j \in DOMAIN GoFiles : i <= j /\ GoFiles[i] = f /\ GoFiles[j] = g

scored(o, f) == [o EXCEPT !.scores = scores_of(f, fresh[f])]
Rescore ==
    \E f \in Items("rescore") :
        LET o == scored(outcome[f], f) IN
        /\ Waiting /\ Earliest(f) /\ status[Request("score", f)] = "replied"
        /\ Done(f, o)
        /\ entries' = Put(f, fresh[f], o)
        /\ UNCHANGED <<tree, run, fresh, go, client, faults>>

\* The failure is noticed by the first of the two waits only.
WaitFails_Once ==
    /\ Collecting /\ task[Turn] = "sent" /\ status[Request("format", Turn)] = "crashed"
    /\ LaneFails
    /\ UNCHANGED <<tree, entries, run, tasks, client, faults>>

\* Ticket::wait returns the helper's failure.
WaitFails ==
    /\ \/ Collecting /\ task[Turn] = "sent" /\ status[Request("format", Turn)] = "crashed"
       \/ Waiting /\ \E f \in Items("rescore") : Earliest(f) /\ status[Request("score", f)] = "crashed"
    /\ LaneFails
    /\ UNCHANGED <<tree, entries, run, tasks, client, faults>>

\* Helper::shutdown, when there is a helper, fails with the helper.
Shutdown ==
    /\ lane = "collect" /\ turn > Len(GoFiles) /\ Items("rescore") = {}
    /\ lane' = IF broken = "none" THEN "done" ELSE "failed"
    /\ UNCHANGED <<tree, entries, run, tasks, turn, client, faults>>

\* The helper answers, or fails.
Answer(r) == H!Reply(r) /\ UNCHANGED <<tree, entries, run, tasks, go, faults>>
Learns(r) == /\ H!Fail(r) /\ status[r] = "waiting"
             /\ UNCHANGED <<tree, entries, run, tasks, go, faults>>
Crash == /\ lane \in {"submit", "collect"} /\ status # [r \in Requests |-> "unused"]
         /\ Happens /\ H!Break("crashed")
         /\ UNCHANGED <<tree, entries, run, tasks, go>>

ScriptStep == \E f \in Scripts : ScriptRead(f) \/ ScriptFinish(f)
GoStep == \/ \E f \in Range(GoFiles) : GoRead(f) \/ Submit(f)
          \/ Spawn \/ Submitted \/ Skip \/ Collect \/ CollectRescored
          \/ Rescore \/ WaitFails \/ Shutdown
HelperStep == \E r \in Requests : Answer(r) \/ Learns(r)
=============================================================================
