------------------------------- MODULE Engine -------------------------------
(***************************************************************************)
(* A session of fmtkit runs (crates/engine/src/lib.rs): the stores and the *)
(* linter kept from run to run, the lanes and go vet side by side, the     *)
(* report and its verdict, what is persisted.  Editors write files at any  *)
(* moment, the process may be killed, the helper may fail.                 *)
(***************************************************************************)
EXTENDS Lanes

CONSTANTS
    Holds,      \* the texts each file may hold
    Asked,      \* what a run may be asked for: config, mode, cache, lanes, missing
    BadLint,    \* configurations no linter can be built for
    VET,        \* whether [go] vet is on
    MaxRuns

VARIABLES
    saved,             \* the store file
    stores, linter,    \* the session: the configuration and cache flag its stores
                       \* were opened for; the configuration its linter was built for
    vet, report,       \* the vet thread's outcome; what the run returned
    runs, quiet        \* history: runs so far; whether nothing else wrote a file

session == <<saved, stores, linter>>
vars == <<tree, entries, run, tasks, go, client, faults, session, vet, report, runs, quiet>>

NoRun == [phase |-> "idle", config |-> None, mode |-> None, cache |-> FALSE, lanes |-> {},
          missing |-> FALSE, linter |-> None]

NoTasks ==
    /\ task' = [f \in Files |-> "none"] /\ fresh' = [f \in Files |-> None]
    /\ outcome' = [f \in Files |-> None] /\ lane' = "off" /\ turn' = 0 /\ vet' = "off"
NoHelper == status' = [r \in Requests |-> "unused"] /\ broken' = "none"

\* A run is asked for with a configuration, and no lanes but the two there are.
Runs == [phase : {"idle", "discover", "lanes", "ended"}, config : Configs \cup {None},
         mode : {None, "check", "format"}, cache : BOOLEAN, lanes : SUBSET {"ts", "go"},
         missing : BOOLEAN, linter : Configs \cup {None}]
ASSUME EngineAssumption ==
    /\ \A f \in Files : Holds[f] \subseteq Texts
    /\ Asked \subseteq {r \in Runs : r.config # None /\ r.mode # None}

-----------------------------------------------------------------------------
(* Session::run *)

\* Stores::open, unless the session's stores are for this root, configuration
\* and cache setting: then what they learned is persisted first, and the linter
\* goes with them.
Same_AnyConfig(ask) == stores # None /\ stores.cache = ask.cache
Same(ask) == stores = [config |-> ask.config, cache |-> ask.cache]
Saving == IF stores # None /\ stores.cache THEN entries ELSE saved

\* The lanes' files, as discovery finds them (Discovery).
InScope(ask) == {f \in Files : LaneOf(f) \in ask.lanes}

Begin(ask) ==
    /\ run.phase = "idle" /\ runs < MaxRuns
    /\ runs' = runs + 1 /\ quiet' = TRUE /\ report' = None
    /\ run' = [ask EXCEPT !.phase = "discover"]
    /\ stores' = [config |-> ask.config, cache |-> ask.cache]
    /\ saved' = IF Same(ask) THEN saved ELSE Saving
    /\ entries' = IF Same(ask) THEN entries ELSE IF ask.cache THEN saved' ELSE {}
    /\ linter' = IF ~Same(ask) THEN None ELSE linter
    /\ UNCHANGED <<tree, tasks, go, client, faults, vet>>

\* The linter is built beside discovery, and is missed only by files to lint.
NewLinter == IF "ts" \notin run.lanes \/ linter # None THEN linter
             ELSE IF run.config \in BadLint THEN None ELSE run.config
Lintable == InScope(run) \cap Lintables # {}

Fails == /\ report' = "error"
         /\ run' = [run EXCEPT !.phase = "ended"]

Discover ==
    /\ run.phase = "discover"
    /\ linter' = NewLinter
    /\ IF NewLinter = None /\ Lintable
       THEN Fails /\ UNCHANGED <<task, lane, vet>>
       ELSE /\ run' = [run EXCEPT !.phase = "lanes", !.linter = NewLinter]
            /\ task' = [f \in Files |-> IF f \in InScope(run) THEN "queued" ELSE "none"]
            /\ lane' = IF InScope(run) \ Scripts = {} THEN "done" ELSE "read"
            /\ vet' = IF VET /\ "go" \in run.lanes THEN "running" ELSE "skipped"
            /\ UNCHANGED report
    /\ UNCHANGED <<tree, entries, fresh, outcome, turn, client, faults, saved, stores, runs, quiet>>

DiscoverFails ==
    /\ run.phase = "discover" /\ Happens /\ Fails
    /\ UNCHANGED <<tree, entries, tasks, go, client, session, vet, runs, quiet>>

\* The vet thread; what go vet finds is Vet's subject.
Vet ==
    /\ vet = "running" /\ run.phase = "lanes"
    /\ vet' \in {"clean", "errors"}
    /\ UNCHANGED <<tree, entries, run, tasks, go, client, faults, session, report, runs, quiet>>

\* A step of the lanes.
Lane(step) == step /\ run.phase = "lanes"
              /\ UNCHANGED <<session, vet, report, runs, quiet>>

-----------------------------------------------------------------------------
(* The report *)

Outcomes == [f \in {g \in InScope(run) : outcome[g] # None} |-> outcome[f]]
Judge(mode, outcomes) ==
    IF run.missing THEN "fail"
    ELSE verdict(mode, outcomes, evaluate(outcomes, run.lanes, InScope(run), Files), vet)

Joined == /\ run.phase = "lanes" /\ vet # "running" /\ lane \in {"done", "failed"}
          /\ \A f \in Scripts : task[f] \in {"none", "done"}

End ==
    /\ Joined
    /\ IF lane = "failed" THEN Fails
       ELSE /\ report' = Judge(run.mode, Outcomes)
            /\ run' = [run EXCEPT !.phase = "ended"]
    /\ UNCHANGED <<tree, entries, tasks, go, client, faults, session, vet, runs, quiet>>

\* Session::persist; a failed write leaves the store file as it was.
Persist ==
    /\ run.phase = "ended"
    /\ \/ saved' = Saving /\ UNCHANGED faults
       \/ Saving # saved /\ Happens /\ UNCHANGED saved
    /\ run' = NoRun /\ NoTasks /\ NoHelper
    /\ UNCHANGED <<tree, entries, stores, linter, report, runs, quiet>>

\* The process is killed, and another one begins.
Kill ==
    /\ stores # None /\ Happens
    /\ run' = NoRun /\ NoTasks /\ NoHelper
    /\ entries' = {} /\ stores' = None /\ linter' = None /\ report' = None
    /\ UNCHANGED <<tree, saved, runs, quiet>>

Edit(f, t) ==
    /\ Happens /\ disk[f] # t
    /\ disk' = [disk EXCEPT ![f] = t] /\ quiet' = FALSE
    /\ UNCHANGED <<rewrites, entries, run, tasks, go, client, session, vet, report, runs>>

-----------------------------------------------------------------------------

Init ==
    /\ disk \in {d \in [Files -> Texts] : \A f \in Files : d[f] \in Holds[f]} /\ rewrites = {} /\ entries = {} /\ run = NoRun
    /\ task = [f \in Files |-> "none"] /\ fresh = [f \in Files |-> None]
    /\ outcome = [f \in Files |-> None] /\ lane = "off" /\ turn = 0
    /\ H!Init /\ faults = 0
    /\ saved = {} /\ stores = None /\ linter = None
    /\ vet = "off" /\ report = None /\ runs = 0 /\ quiet = TRUE

Next ==
    \/ \E ask \in Asked : Begin(ask)
    \/ Discover \/ DiscoverFails \/ Vet \/ End \/ Persist \/ Kill
    \/ Lane(ScriptStep) \/ Lane(GoStep) \/ Lane(HelperStep) \/ Lane(Crash)
    \/ \E f \in Files : \E t \in Holds[f] : Edit(f, t)

Spec == Init /\ [][Next]_vars

\* Threads that can run do.  Nothing is assumed of the helper.
Fairness ==
    /\ WF_vars(Discover) /\ WF_vars(Vet) /\ WF_vars(End)
    /\ WF_vars(Lane(ScriptStep)) /\ WF_vars(Lane(GoStep))

FairSpec == Spec /\ Fairness

-----------------------------------------------------------------------------

\* What format runs under config have reported of f when they wrote text t into
\* it, less the changes they made.
Rewritten(history, config, f, t) ==
    {clean(Reference(config, "format", f, r.from)) :
        r \in {x \in history : x.config = config /\ x.file = f /\ x.to = t}}

\* Whatever ran before in this session or another, under whichever
\* configuration, and wherever a run failed: what is reported of a file is what
\* the lanes make of the bytes it held, with nothing stored.  Only a format run
\* may instead take a text for done that a format run under its configuration has
\* written, and then says of it what that run said (script_lane.rs, "The
\* rewritten file is clean").
ReportsTruth ==
    run.phase = "ended" /\ report # "error" =>
        \A f \in InScope(run) :
            fresh[f] # None /\ (outcome[f] # None => outcome[f].error \notin {"read", "write"})
            => \/ outcome[f] = Reference(run.config, run.mode, f, fresh[f])
               \/ /\ run.mode = "format" /\ run.cache
                  /\ outcome[f] \in Rewritten(rewrites, run.config, f, fresh[f])

\* A text at which the lanes come to rest: they change nothing in it, laying out a
\* text into it brings no findings, and the helper reports nothing of it.
Settled(config, f, t) ==
    /\ t \notin Broken \cup Generated
    /\ f \in Scripts =>
          /\ fixed(config, f, t) = t /\ Layout(config, t) = t
          /\ \A s \in Texts : Layout(config, s) = t /\ found(config, f, s) = {}
                                 => found(config, f, t) = {}
    /\ f \notin Scripts => t \notin Large /\ GoLayout(t) = t /\ ~GoViolates(t)

\* A format run that says pass or fixed leaves a tree that a check passes, once
\* the files it reports on are settled: no finding, score, failure or stale entry
\* is lost on the way, neither in a rewrite nor in the cache.
FormattedPassesCheck ==
    /\ run.phase = "ended" /\ run.mode = "format" /\ report \in {"pass", "fixed"} /\ quiet
    /\ \A f \in DOMAIN Outcomes : Settled(run.config, f, disk[f])
    => LET checked == [f \in InScope(run) |-> Reference(run.config, "check", f, disk[f])]
           outcomes == [f \in {g \in InScope(run) : checked[g] # None} |-> checked[f]]
       IN  Judge("check", outcomes) = "pass"

\* Script work never stalls behind the helper, even one that never answers.
ScriptsFinish ==
    \A f \in Scripts : task[f] = "queued" ~> task[f] \in {"done", "none"}

\* While the helper answers or fails, every run ends.
RunEnds ==
    WF_vars(Lane(HelperStep)) => (run.phase = "discover" ~> run.phase \in {"ended", "idle"})
=============================================================================
