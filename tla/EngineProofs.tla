---------------------------- MODULE EngineProofs ----------------------------
(***************************************************************************)
(* What a session reports is the truth, for every set of files, texts,     *)
(* configurations and runs, and a tree that was formatted and has settled  *)
(* passes a check.                                                         *)
(*                                                                         *)
(* The argument follows one file through one run.  Every stored outcome is *)
(* the one its key determines or what was reported when its text was       *)
(* written (Honest), so that a hit is as good as work (OwnKey); what the   *)
(* lanes wrote is on record (Sound); and the linter at work is the one of  *)
(* the run's configuration (Opened, Standing).  What a check makes of a    *)
(* settled text is what was reported when it was written (SettledIsClean). *)
(***************************************************************************)
EXTENDS Engine, TLAPS

USE DEF tree

\* Nothing but a fault keeps what is reported of f from being the truth.
Faulted(o) == o # None /\ o.error \in {"read", "write"}
Truthful(f) ==
    \/ Faulted(outcome[f])
    \/ outcome[f] = Reference(run.config, run.mode, f, fresh[f])
    \/ /\ run.mode = "format" /\ run.cache
       /\ outcome[f] \in Rewritten(rewrites, run.config, f, fresh[f])

\* Texts the lanes can deal with.
Fit(f, t) == t \in Texts \ (Broken \cup Generated) /\ (f \in Scripts \/ t \notin Large)

\* What the lanes leave on disk where they found t.
Became(config, f, t) ==
    IF t \in Generated \cup Broken THEN t
    ELSE IF f \in Scripts THEN output(config, config, f, t)
    ELSE IF t \in Large THEN t ELSE GoLayout(t)

\* The text and the outcome that a format run leaves behind where it, or an
\* earlier one, found t.
Comes(config, f, t, text, o) ==
    /\ text = Became(config, f, t)
    /\ \/ o = Reference(config, "format", f, t)
       \/ Fit(f, t) /\ o = clean(Reference(config, "format", f, t))

\* An entry holds the outcome of its key (where files are rewritten, of a text that
\* needs no rewriting), or what was reported when its text was written.
Honest(history, e) ==
    \/ /\ e.outcome = Reference(e.key.config, e.key.mode, e.key.file, e.key.text)
       /\ e.key.mode = "format" => Became(e.key.config, e.key.file, e.key.text) = e.key.text
    \/ /\ e.key.mode = "format"
       /\ e.outcome \in Rewritten(history, e.key.config, e.key.file, e.key.text)

\* A file was rewritten to what its text becomes.
Sound(r) == /\ r.config \in Configs /\ Fit(r.file, r.from)
            /\ r.to = Became(r.config, r.file, r.from)

-----------------------------------------------------------------------------
(* The inductive invariant *)

Types ==
    /\ disk \in [Files -> Texts] /\ fresh \in [Files -> Texts \cup {None}]
    /\ DOMAIN task = Files /\ DOMAIN outcome = Files
    /\ run \in Runs /\ DOMAIN status = Requests
    /\ turn \in Nat /\ (lane = "collect" => turn > 0) /\ broken \in {"none", "crashed"}

\* The run works with the stores it was begun with, and a linter is the one of
\* their configuration.
Opened ==
    /\ run.phase # "idle" => /\ run.config # None /\ run.mode # None
                             /\ stores = [config |-> run.config, cache |-> run.cache]
    /\ linter # None => linter = stores.config

\* Whatever is stored, in memory or on disk, is honest.
Cached == \A e \in entries \cup saved : Honest(rewrites, e)

\* Every rewrite on record is sound.
Recorded == \A r \in rewrites : Sound(r)

\* The helper answers only what fits a frame.
Framed ==
    \A r \in Requests : /\ status[r] \in {"waiting", "replied"} => r \notin Oversize
                        /\ status[r] = "large" => r \in Oversize

\* Where each task stands.
Standing(f) ==
    /\ task[f] \in {"none", "queued"} => outcome[f] = None
    /\ task[f] \in {"queued", "busy"} /\ f \in Lintables => run.linter = run.config
    /\ task[f] \in {"busy", "read", "sent", "rescore"} => fresh[f] \in Texts \ Generated
    /\ task[f] = "busy" => f \in Scripts
    /\ task[f] = "rescore" =>
          /\ f \notin Scripts /\ fresh[f] \notin Broken \cup Large /\ run.mode = "check"
          /\ outcome[f] = reply_outcome(f, fresh[f])
    /\ task[f] = "done" => fresh[f] \in Texts /\ Truthful(f)

\* Tasks by phase: a run that ended well has done all its files.
Phases ==
    /\ run.phase \in {"idle", "discover"} => lane = "off" /\ \A f \in Files : task[f] = "none"
    /\ run.phase = "lanes" => \A f \in InScope(run) : task[f] # "none"
    /\ run.phase = "ended" /\ report # "error" =>
          /\ report = Judge(run.mode, Outcomes)
          /\ \A f \in InScope(run) : task[f] = "done"

\* The Go lane leaves nothing behind.
Order ==
    /\ lane = "collect" => \A i \in 1..Len(GoFiles) :
                              i < turn => task[GoFiles[i]] \in {"done", "rescore"}
    /\ lane = "done" => \A f \in InScope(run) \ Scripts : task[f] = "done"

\* While nobody else writes, a file holds what was read, or what that or an
\* earlier run's text became.
Undisturbed(f) ==
    /\ task[f] \in {"busy", "read", "sent", "rescore"} => disk[f] = fresh[f]
    /\ task[f] = "done" /\ run.mode = "format" /\ ~Faulted(outcome[f]) =>
          \E t \in Texts : Comes(run.config, f, t, disk[f], outcome[f])
Left == quiet => \A f \in Files : Undisturbed(f)

IInv ==
    /\ Types /\ Opened /\ Cached /\ Recorded /\ Framed /\ (\A f \in Files : Standing(f))
    /\ Phases /\ Order /\ Left

-----------------------------------------------------------------------------
(* What the lanes make of a text *)

\* What the tools make of a text is a text, and what they report is typed.
LEMMA ToolTypes ==
    ASSUME NEW config \in Configs, NEW f, NEW t \in Texts
    PROVE  /\ fixed(config, f, t) \in Texts /\ output(config, config, f, t) \in Texts
           /\ GoLayout(t) \in Texts /\ GoViolates(t) \in BOOLEAN
           /\ found(config, f, t) \subseteq {"error", "warning"}
           /\ Score(t) \in Nat
           /\ t \notin Broken /\ Score(GoLayout(t)) = 0 => Score(t) = 0
  <1>1. fixed(config, f, t) \in Texts /\ found(config, f, t) \subseteq {"error", "warning"}
    BY TextAssumption DEF fixed, found
  <1>2. output(config, config, f, t) \in Texts
    BY <1>1, TextAssumption DEF output
  <1> QED BY <1>1, <1>2, TextAssumption

\* Findings are severities, whichever text they are of.
LEMMA LintTypes ==
    ASSUME NEW config \in Configs, NEW f, NEW t \in Texts, NEW mode
    PROVE  lints(config, config, mode, f, t) \subseteq {"error", "warning"}
  <1>1. /\ fixed(config, f, t) \in Texts /\ output(config, config, f, t) \in Texts
        /\ found(config, f, t) \subseteq {"error", "warning"}
    BY ToolTypes
  <1>2. /\ found(config, f, fixed(config, f, t)) \subseteq {"error", "warning"}
        /\ found(config, f, output(config, config, f, t)) \subseteq {"error", "warning"}
    BY <1>1, ToolTypes
  <1> QED BY <1>1, <1>2 DEF lints

\* Scores are typed.
LEMMA ScoreTypes ==
    ASSUME NEW f, NEW t \in Texts
    PROVE  scores_of(f, t) \in {None} \cup [value : Nat, at : Texts]
  BY TextAssumption DEF scores_of

\* The outcome of a text that can be formatted.
LEMMA ScriptOutcome ==
    ASSUME NEW config \in Configs, NEW f \in Scripts, NEW t, Fit(f, t), NEW mode
    PROVE  Reference(config, mode, f, t) =
              [error |-> None, changed |-> output(config, config, f, t) # t,
               lint |-> lints(config, config, mode, f, t), violations |-> FALSE,
               scores |-> scores_of(f, IF mode = "check" THEN t ELSE output(config, config, f, t))]
  BY DEF Reference, transform, Fit, NewOutcome

LEMMA GoOutcome ==
    ASSUME NEW config \in Configs, NEW f, f \notin Scripts, NEW t, Fit(f, t), NEW mode
    PROVE  Reference(config, mode, f, t) =
              [error |-> None, changed |-> GoLayout(t) # t, lint |-> {},
               violations |-> GoViolates(t),
               scores |-> scores_of(f, IF mode = "check" THEN t ELSE GoLayout(t))]
  BY DEF Reference, reply_outcome, Fit, NewOutcome

\* clean, field by field.
LEMMA CleanOutcome ==
    ASSUME NEW e, NEW c, NEW l, NEW v, NEW s
    PROVE  clean([error |-> e, changed |-> c, lint |-> l, violations |-> v, scores |-> s])
             = [error |-> e, changed |-> FALSE, lint |-> l, violations |-> FALSE, scores |-> s]
  <1> DEFINE r == [error |-> e, changed |-> c, lint |-> l, violations |-> v, scores |-> s]
             q == [r EXCEPT !.changed = FALSE, !.violations = FALSE]
             n == [error |-> e, changed |-> FALSE, lint |-> l, violations |-> FALSE, scores |-> s]
             D == {"error", "changed", "lint", "violations", "scores"}
  <1>1. DOMAIN q = D /\ DOMAIN n = D OBVIOUS
  <1>2. q.error = n.error /\ q.lint = n.lint /\ q.scores = n.scores OBVIOUS
  <1>3. q.changed = n.changed /\ q.violations = n.violations OBVIOUS
  <1>4. \A x \in D : q[x] = n[x] BY <1>2, <1>3
  <1>5. q = [x \in D |-> q[x]] /\ n = [x \in D |-> n[x]] BY <1>1
  <1>6. [x \in D |-> n[x]] = [x \in D |-> q[x]]
    <2> HIDE DEF q, n
    <2> QED BY <1>4
  <1>7. q = n
    <2> HIDE DEF q, n
    <2> QED BY <1>5, <1>6
  <1> QED BY <1>7 DEF clean

\* Without its changes an outcome is still an outcome.
LEMMA CleanTwice ==
    ASSUME NEW o \in FileOutcomes
    PROVE  clean(o) \in FileOutcomes /\ clean(o) # None /\ clean(clean(o)) = clean(o)
  <1>1. PICK e \in {None, "failed", "read", "write"}, c \in BOOLEAN, l \in SUBSET {"error", "warning"},
             v \in BOOLEAN, s \in {None} \cup [value : Nat, at : Texts] :
                o = [error |-> e, changed |-> c, lint |-> l, violations |-> v, scores |-> s]
    BY DEF FileOutcomes
  <1>2. clean(o) = [error |-> e, changed |-> FALSE, lint |-> l, violations |-> FALSE, scores |-> s]
    BY <1>1, CleanOutcome
  <1>3. clean(clean(o)) = clean(o)
    BY <1>2, CleanOutcome
  <1>4. clean(o) \in FileOutcomes
    BY <1>2 DEF FileOutcomes
  <1> QED BY <1>3, <1>4, OutcomeAssumption

\* clean, of an outcome.
LEMMA CleanFields ==
    ASSUME NEW o \in FileOutcomes
    PROVE  /\ clean(o).error = o.error /\ clean(o).lint = o.lint /\ clean(o).scores = o.scores
           /\ clean(o).changed = FALSE /\ clean(o).violations = FALSE
  BY DEF clean, FileOutcomes

\* A text that fits is reported, with its changes.
LEMMA FitIsReported ==
    ASSUME NEW config \in Configs, NEW f \in Files, NEW t, Fit(f, t), NEW mode
    PROVE  LET o == Reference(config, mode, f, t) IN
           /\ o \in FileOutcomes /\ o # None /\ o.error = None
           /\ Became(config, f, t) \in Texts
           /\ o.changed <=> Became(config, f, t) # t
  <1> DEFINE o == Reference(config, mode, f, t)
             out == IF f \in Scripts THEN output(config, config, f, t) ELSE GoLayout(t)
             score == scores_of(f, IF mode = "check" THEN t ELSE out)
             l == IF f \in Scripts THEN lints(config, config, mode, f, t) ELSE {}
             v == IF f \in Scripts THEN FALSE ELSE GoViolates(t)
  <1>1. t \in Texts /\ out \in Texts /\ Became(config, f, t) = out
    BY ToolTypes DEF Fit, Became
  <1>2. score \in {None} \cup [value : Nat, at : Texts]
    BY <1>1, ScoreTypes
  <1>3. l \subseteq {"error", "warning"} /\ v \in BOOLEAN
    BY <1>1, LintTypes, ToolTypes
  <1>4. o = [error |-> None, changed |-> out # t, lint |-> l, violations |-> v, scores |-> score]
    <2>1. CASE f \in Scripts
      BY <2>1, ScriptOutcome
    <2>2. CASE f \notin Scripts
      BY <2>2, GoOutcome
    <2> QED BY <2>1, <2>2
  <1> HIDE DEF o, out, score, l, v
  <1>5. o \in FileOutcomes /\ o.error = None /\ (o.changed <=> out # t)
    BY <1>2, <1>3, <1>4 DEF FileOutcomes
  <1> QED BY <1>1, <1>5, OutcomeAssumption DEF o

\* What a check makes of a settled text is what was reported when the text was
\* written, without the changes (script_lane.rs, "The rewritten file is clean").
LEMMA SettledIsClean ==
    ASSUME NEW config \in Configs, NEW f \in Files, NEW t, Fit(f, t),
           Settled(config, f, Became(config, f, t))
    PROVE  /\ Fit(f, Became(config, f, t))
           /\ Reference(config, "check", f, Became(config, f, t))
                 = clean(Reference(config, "format", f, t))
  <1> DEFINE u == Became(config, f, t)
             o == Reference(config, "format", f, t)
             w == Reference(config, "check", f, u)
             score == scores_of(f, u)
  <1>1. Fit(f, u)
    BY FitIsReported DEF Settled, Fit
  <1>2. CASE f \in Scripts
    <2> DEFINE finds == found(config, f, u)
    <2>1. u = output(config, config, f, t) /\ t \in Texts
      BY <1>2 DEF Became, Fit
    <2>2. fixed(config, f, u) = u /\ Layout(config, u) = u
      BY <1>2 DEF Settled
    <2>3. lints(config, config, "check", f, u) = finds /\ output(config, config, f, u) = u
      <3> HIDE DEF u
      <3> QED BY <2>2 DEF lints, output
    <2>4. lints(config, config, "format", f, t) = finds
      <3>1. Layout(config, fixed(config, f, t)) = u /\ fixed(config, f, t) \in Texts
        BY <2>1, ToolTypes DEF output
      <3>2. found(config, f, fixed(config, f, t)) = {} => finds = {}
        BY <1>2, <3>1 DEF Settled
      <3> HIDE DEF u, finds
      <3> QED BY <2>1, <3>2 DEF lints, finds
    <2>5. o = [error |-> None, changed |-> u # t, lint |-> finds,
               violations |-> FALSE, scores |-> score]
      <3>1. o = [error |-> None, changed |-> output(config, config, f, t) # t,
                 lint |-> lints(config, config, "format", f, t), violations |-> FALSE,
                 scores |-> scores_of(f, output(config, config, f, t))]
        BY <1>2, ScriptOutcome
      <3> QED BY <2>1, <2>4, <3>1
    <2>6. w = [error |-> None, changed |-> FALSE, lint |-> finds,
               violations |-> FALSE, scores |-> score]
      <3> HIDE DEF u, finds
      <3>1. w = [error |-> None, changed |-> output(config, config, f, u) # u,
                 lint |-> lints(config, config, "check", f, u), violations |-> FALSE,
                 scores |-> scores_of(f, u)]
        BY <1>1, <1>2, ScriptOutcome
      <3>2. (output(config, config, f, u) # u) = FALSE BY <2>3
      <3> HIDE DEF w, score
      <3> QED BY <2>3, <3>1, <3>2 DEF score
    <2> HIDE DEF o, w, u, finds, score
    <2> QED BY <1>1, <2>5, <2>6, CleanOutcome DEF o, w, u
  <1>3. CASE f \notin Scripts
    <2>1. u = GoLayout(t) /\ GoLayout(u) = u /\ GoViolates(u) = FALSE
      <3>1. u = GoLayout(t) /\ u \in Texts
        BY <1>1, <1>3 DEF Became, Fit
      <3>2. GoViolates(u) \in BOOLEAN
        BY <3>1, TextAssumption
      <3> QED BY <1>3, <3>1, <3>2 DEF Settled
    <2>2. o = [error |-> None, changed |-> u # t, lint |-> {},
               violations |-> GoViolates(t), scores |-> score]
      <3>1. o = [error |-> None, changed |-> GoLayout(t) # t, lint |-> {},
                 violations |-> GoViolates(t), scores |-> scores_of(f, GoLayout(t))]
        BY <1>3, GoOutcome
      <3> QED BY <2>1, <3>1
    <2>3. w = [error |-> None, changed |-> FALSE, lint |-> {},
               violations |-> FALSE, scores |-> score]
      <3> HIDE DEF u
      <3>1. w = [error |-> None, changed |-> GoLayout(u) # u, lint |-> {},
                 violations |-> GoViolates(u), scores |-> scores_of(f, u)]
        BY <1>1, <1>3, GoOutcome
      <3>2. (GoLayout(u) # u) = FALSE BY <2>1
      <3> HIDE DEF w, score
      <3> QED BY <2>1, <3>1, <3>2 DEF score
    <2> HIDE DEF o, w, u, score
    <2> QED BY <1>1, <2>2, <2>3, CleanOutcome DEF o, w, u
  <1> QED BY <1>2, <1>3

\* A text that cannot be formatted is left alone, and no fit one becomes None.
LEMMA Unfit ==
    ASSUME NEW config, NEW f, NEW t, t \in Texts, ~Fit(f, t), NEW mode
    PROVE  /\ Became(config, f, t) = t
           /\ Reference(config, mode, f, t) \in {None, FailedOutcome}
           /\ Reference(config, mode, f, t) = None <=> t \in Generated
  <1>1. FailedOutcome \in FileOutcomes /\ FailedOutcome # None
    BY OutcomeAssumption DEF FailedOutcome, NewOutcome, FileOutcomes
  <1> QED BY <1>1 DEF Fit, Became, Reference, transform, reply_outcome

\* Where a text is reported unchanged, or not at all, it is what it becomes.
LEMMA UnchangedStays ==
    ASSUME NEW config \in Configs, NEW f \in Files, NEW t \in Texts,
           LET o == Reference(config, "format", f, t) IN o = None \/ ~o.changed
    PROVE  Became(config, f, t) = t
  BY FitIsReported, Unfit

\* What the helper's reply is worth (go_lane.rs, finish).
LEMMA ReplyIsReference ==
    ASSUME NEW config \in Configs, NEW f \in Files \ Scripts, NEW t \in Texts \ Generated
    PROVE  LET o == reply_outcome(f, t) IN
           /\ t \notin Large => Reference(config, "format", f, t) = o
           /\ t \notin Large /\ (~o.changed \/ o.error # None) => Reference(config, "check", f, t) = o
           /\ t \notin Large /\ o.error = None =>
                 /\ Reference(config, "check", f, t) = [o EXCEPT !.scores = scores_of(f, t)]
                 /\ o.scores = None => Reference(config, "check", f, t) = o
           /\ t \in Large => Reference(config, "format", f, t) = FailedOutcome
                             /\ Reference(config, "check", f, t) = FailedOutcome
           /\ t \in Broken <=> o.error # None
           /\ o.error = None \/ ~o.changed
  <1> DEFINE o == reply_outcome(f, t)
             r == Reference(config, "check", f, t)
  <1>1. t \notin Large => Reference(config, "format", f, t) = o
    BY DEF Reference
  <1>2. t \in Large => Reference(config, "format", f, t) = FailedOutcome /\ r = FailedOutcome
    BY DEF Reference
  <1>3. "failed" # None /\ FailedOutcome.error = "failed" /\ FailedOutcome.changed = FALSE
    BY FilesAssumption DEF FailedOutcome, NewOutcome
  <1>4. CASE t \in Broken
    <2>1. o = FailedOutcome /\ (t \notin Large => r = FailedOutcome)
      BY <1>4 DEF Reference, reply_outcome
    <2> HIDE DEF o, r
    <2> QED BY <1>1, <1>2, <1>3, <1>4, <2>1 DEF o, r
  <1>5. CASE t \notin Broken
    <2>1. o = [error |-> None, changed |-> GoLayout(t) # t, lint |-> {},
               violations |-> GoViolates(t), scores |-> scores_of(f, GoLayout(t))]
      BY <1>5 DEF reply_outcome, NewOutcome
    <2>2. t \notin Large => r = [error |-> None, changed |-> GoLayout(t) # t, lint |-> {},
                                 violations |-> GoViolates(t), scores |-> scores_of(f, t)]
      BY <1>5, GoOutcome DEF Fit
    <2>3. t \notin Large => r = [o EXCEPT !.scores = scores_of(f, t)]
      BY <1>5 DEF Reference
    <2>4. o.error = None /\ (o.changed <=> GoLayout(t) # t) /\ o.scores = scores_of(f, GoLayout(t))
      <3> HIDE DEF o
      <3> QED BY <2>1
    <2>5. t \notin Large /\ ~o.changed => r = o
      <3> HIDE DEF o, r
      <3> QED BY <2>1, <2>2, <2>4
    <2>6. o.scores = None => scores_of(f, t) = scores_of(f, GoLayout(t))
      <3>1. GoLayout(t) \in Texts /\ (Score(GoLayout(t)) = 0 => Score(t) = 0)
        BY <1>5, ToolTypes
      <3>2. Score(GoLayout(t)) # 0 /\ f \in Scored =>
               scores_of(f, GoLayout(t)) \in [value : Nat, at : Texts]
        BY <3>1, TextAssumption DEF scores_of
      <3>3. Score(GoLayout(t)) = 0 \/ f \notin Scored => scores_of(f, t) = scores_of(f, GoLayout(t))
        BY <3>1 DEF scores_of
      <3> QED BY <2>4, <3>2, <3>3, OutcomeAssumption
    <2>7. t \notin Large /\ o.scores = None => r = o
      <3> HIDE DEF o, r
      <3> QED BY <2>1, <2>2, <2>6
    <2> HIDE DEF o, r
    <2> QED BY <1>1, <1>2, <1>5, <2>3, <2>4, <2>5, <2>7 DEF o, r
  <1> QED BY <1>4, <1>5

-----------------------------------------------------------------------------
(* The steps that work on one file *)

Elsewhere(f) == \A g \in Files \ {f} : /\ task'[g] = task[g] /\ fresh'[g] = fresh[g]
                                       /\ outcome'[g] = outcome[g] /\ disk'[g] = disk[g]

\* What the invariant asks of a step that works on f.
Works(f) ==
    /\ f \in Files /\ task[f] # "none" /\ task'[f] # "none"
    /\ disk' \in [Files -> Texts] /\ fresh' \in [Files -> Texts \cup {None}]
    /\ DOMAIN task' = Files /\ DOMAIN outcome' = Files
    /\ Elsewhere(f) /\ Standing(f)' /\ (quiet => Undisturbed(f)')
    /\ rewrites \subseteq rewrites' /\ (\A r \in rewrites' : r \in rewrites \/ Sound(r))
    /\ \A e \in entries' : e \in entries \/ Honest(rewrites', e)

\* A run is under way, in a state of the invariant.
Running == IInv /\ run.phase = "lanes"

LEMMA RunningFacts ==
    ASSUME Running
    PROVE  /\ run.config \in Configs /\ run.mode \in {"check", "format"}
           /\ run \in Runs
           /\ disk \in [Files -> Texts] /\ fresh \in [Files -> Texts \cup {None}]
           /\ DOMAIN task = Files /\ DOMAIN outcome = Files
           /\ \A f \in Files : Standing(f)
           /\ quiet => \A f \in Files : Undisturbed(f)
           /\ \A e \in entries : Honest(rewrites, e)
           /\ \A r \in rewrites : Sound(r)
  BY DEF Running, IInv, Types, Opened, Runs, Left, Cached, Recorded

\* What is on record stays on record, and entries stay honest.
LEMMA HistoryGrows ==
    ASSUME NEW R, NEW S, R \subseteq S
    PROVE  /\ \A config, f, t : Rewritten(R, config, f, t) \subseteq Rewritten(S, config, f, t)
           /\ \A e : Honest(R, e) => Honest(S, e)
  <1>1. ASSUME NEW config, NEW f, NEW t
        PROVE  Rewritten(R, config, f, t) \subseteq Rewritten(S, config, f, t)
    BY DEF Rewritten
  <1> QED BY <1>1 DEF Honest

\* What was reported of a rewrite comes with the text it left.
LEMMA RewriteComes ==
    ASSUME NEW R, \A r \in R : Sound(r), NEW config, NEW f, NEW t, NEW o \in Rewritten(R, config, f, t)
    PROVE  \E s \in Texts : Comes(config, f, s, t, o)
  <1>1. PICK r \in R : /\ r.config = config /\ r.file = f /\ r.to = t
                        /\ o = clean(Reference(config, "format", f, r.from))
    BY DEF Rewritten
  <1> QED BY <1>1 DEF Sound, Fit, Comes

\* What is put for a text just written is what was reported of it.
LEMMA PutIsRewritten ==
    ASSUME NEW f \in Files, NEW out, NEW o, run.mode = "format", Replace(f, out),
           o = Reference(run.config, "format", f, fresh[f]), Fit(f, fresh[f]),
           out = Became(run.config, f, fresh[f]), run.config \in Configs
    PROVE  /\ rewrites \subseteq rewrites' /\ (\A r \in rewrites' : r \in rewrites \/ Sound(r))
           /\ \A e \in Put(f, out, clean(o)) : e \in entries \/ Honest(rewrites', e)
  <1> DEFINE r == [config |-> run.config, file |-> f, from |-> fresh[f], to |-> out]
             new == [key |-> Key(f, out), outcome |-> clean(o)]
  <1>1. rewrites' = rewrites \cup {r}
    BY DEF Replace
  <1>2. Sound(r)
    BY DEF Sound
  <1>3. clean(o) \in Rewritten(rewrites', run.config, f, out)
    <2>1. r \in rewrites' /\ r.config = run.config /\ r.file = f /\ r.to = out /\ r.from = fresh[f]
      BY <1>1
    <2> HIDE DEF r
    <2> QED BY <2>1 DEF Rewritten
  <1>4. Honest(rewrites', new)
    BY <1>3 DEF Honest, Key
  <1> HIDE DEF r
  <1> QED BY <1>1, <1>2, <1>4 DEF Put

\* What Put adds is the truth about its key.
LEMMA PutIsHonest ==
    ASSUME NEW f, NEW t, NEW o,
           o = Reference(run.config, run.mode, f, t),
           run.mode = "format" => Became(run.config, f, t) = t
    PROVE  \A e \in Put(f, t, o) : e \in entries \/ Honest(rewrites', e)
  <1>1. Honest(rewrites', [key |-> Key(f, t), outcome |-> o])
    BY DEF Honest, Key
  <1> QED BY <1>1 DEF Put

\* What is stored for a key is the truth about it, or was when it was written.
LEMMA OwnKey ==
    ASSUME NEW f, NEW t, NEW e \in Stored(f, t), Honest(rewrites, e)
    PROVE  \/ /\ e.outcome = Reference(run.config, run.mode, f, t)
              /\ run.mode = "format" => Became(run.config, f, t) = t
           \/ /\ run.mode = "format" /\ run.cache
              /\ e.outcome \in Rewritten(rewrites, run.config, f, t)
  <1>1. e.key = Key(f, t) /\ run.cache BY DEF Stored
  <1>2. /\ e.key.config = run.config /\ e.key.mode = run.mode
        /\ e.key.file = f /\ e.key.text = t
    BY <1>1 DEF Key
  <1> QED BY <1>1, <1>2 DEF Honest

\* A fault of a file's own.
LEMMA FaultsAreFaults ==
    /\ Faulted([FailedOutcome EXCEPT !.error = "read"])
    /\ \A o \in FileOutcomes : Faulted([o EXCEPT !.error = "write"])
  <1>1. [FailedOutcome EXCEPT !.error = "read"] \in FileOutcomes
    BY DEF FailedOutcome, NewOutcome, FileOutcomes
  <1>2. [FailedOutcome EXCEPT !.error = "read"].error = "read"
    BY DEF FailedOutcome, NewOutcome
  <1>3. ASSUME NEW o \in FileOutcomes
        PROVE  [o EXCEPT !.error = "write"] \in FileOutcomes /\ [o EXCEPT !.error = "write"].error = "write"
    BY DEF FileOutcomes
  <1> QED BY <1>1, <1>2, <1>3, OutcomeAssumption DEF Faulted

\* Standing and Undisturbed of a file whose task is done.
LEMMA DoneIsDone ==
    ASSUME NEW f \in Files, task'[f] = "done", UNCHANGED run, fresh'[f] \in Texts,
           \/ Faulted(outcome'[f])
           \/ /\ outcome'[f] = Reference(run.config, run.mode, f, fresh'[f])
              /\ quiet /\ run.mode = "format" => disk'[f] = Became(run.config, f, fresh'[f])
    PROVE  Standing(f)' /\ (quiet => Undisturbed(f)')
  <1>1. Standing(f)'
    BY DEF Standing, Truthful
  <1>2. quiet => Undisturbed(f)'
    BY DEF Undisturbed, Comes
  <1> QED BY <1>1, <1>2

\* ... and of one that was found written.
LEMMA FoundIsDone ==
    ASSUME NEW f \in Files, task'[f] = "done", UNCHANGED <<run, rewrites>>, fresh'[f] \in Texts,
           run.mode = "format", run.cache, \A r \in rewrites : Sound(r), disk'[f] = fresh'[f],
           outcome'[f] \in Rewritten(rewrites, run.config, f, fresh'[f])
    PROVE  Standing(f)' /\ (quiet => Undisturbed(f)')
  <1>1. Standing(f)'
    BY DEF Standing, Truthful
  <1>2. \E s \in Texts : Comes(run.config, f, s, disk'[f], outcome'[f])
    <2>1. PICK o, t : o = outcome'[f] /\ t = disk'[f] OBVIOUS
    <2>2. o \in Rewritten(rewrites, run.config, f, t) BY <2>1
    <2> QED BY <2>1, <2>2, RewriteComes
  <1>3. quiet => Undisturbed(f)'
    BY <1>2 DEF Undisturbed
  <1> QED BY <1>1, <1>3

LEMMA ReadWorks ==
    ASSUME Running, NEW f \in Files, NEW next, task[f] = "queued", Read(f, next),
           UNCHANGED <<tree, entries, run>>,
           (next = "busy" /\ f \in Scripts) \/ (next = "read" /\ f \notin Scripts)
    PROVE  Works(f)
  <1>1. /\ disk[f] \in Texts /\ fresh' \in [Files -> Texts \cup {None}] /\ fresh'[f] = disk[f]
        /\ \A g \in Files \ {f} : fresh'[g] = fresh[g]
    BY RunningFacts DEF Read
  <1>2. /\ DOMAIN task' = Files /\ DOMAIN outcome' = Files
        /\ \A g \in Files \ {f} : task'[g] = task[g] /\ outcome'[g] = outcome[g]
    BY RunningFacts DEF Read, Done
  <1>3. task'[f] \in {"done", next}
    BY RunningFacts DEF Read, Done
  <1>4. Standing(f)' /\ (quiet => Undisturbed(f)')
    <2>1. CASE \E e \in Stored(f, disk[f]) : Done(f, e.outcome)
      <3>1. PICK e \in Stored(f, disk[f]) : Done(f, e.outcome) BY <2>1
      <3>2. Honest(rewrites, e) BY RunningFacts DEF Stored
      <3>3. task'[f] = "done" /\ outcome'[f] = e.outcome BY <3>1, RunningFacts DEF Done
      <3>4. CASE /\ e.outcome = Reference(run.config, run.mode, f, disk[f])
                 /\ run.mode = "format" => Became(run.config, f, disk[f]) = disk[f]
        BY <1>1, <3>3, <3>4, DoneIsDone
      <3>5. CASE /\ run.mode = "format" /\ run.cache
                 /\ e.outcome \in Rewritten(rewrites, run.config, f, disk[f])
        BY <1>1, <3>3, <3>5, RunningFacts, FoundIsDone
      <3> QED BY <3>2, <3>4, <3>5, OwnKey
    <2>2. CASE disk[f] \in Generated /\ Done(f, None)
      <3>1. task'[f] = "done" /\ outcome'[f] = None BY <2>2, RunningFacts DEF Done
      <3>2. Reference(run.config, run.mode, f, disk[f]) = None /\ Became(run.config, f, disk[f]) = disk[f]
        BY <2>2 DEF Reference, Became
      <3> QED BY <1>1, <3>1, <3>2, DoneIsDone
    <2>3. CASE disk[f] \notin Generated /\ task' = [task EXCEPT ![f] = next]
      <3>1. task'[f] = next BY <2>3, RunningFacts
      <3>2. f \in Lintables => run.linter = run.config BY RunningFacts DEF Standing
      <3> QED BY <1>1, <2>3, <3>1, <3>2 DEF Standing, Undisturbed
    <2>4. CASE Done(f, [FailedOutcome EXCEPT !.error = "read"])
      <3>1. task'[f] = "done" /\ Faulted(outcome'[f])
        BY <2>4, RunningFacts, FaultsAreFaults DEF Done
      <3> QED BY <1>1, <3>1, DoneIsDone
    <2> QED BY <2>1, <2>2, <2>3, <2>4 DEF Read
  <1> QED BY <1>1, <1>2, <1>3, <1>4, RunningFacts DEF Works, Elsewhere

\* The linter touches no file of a language it does not know.
LEMMA LinterMatters ==
    ASSUME NEW config, NEW other, NEW mode, NEW f, NEW t, f \in Lintables => other = config
    PROVE  /\ output(config, other, f, t) = output(config, config, f, t)
           /\ transform(config, other, mode, f, t) = transform(config, config, mode, f, t)
  <1>1. \A s : fixed(other, f, s) = fixed(config, f, s) /\ found(other, f, s) = found(config, f, s)
    BY DEF fixed, found
  <1>2. output(config, other, f, t) = output(config, config, f, t)
    BY <1>1 DEF output
  <1>3. lints(config, other, mode, f, t) = lints(config, config, mode, f, t)
    BY <1>1, <1>2 DEF lints
  <1> QED BY <1>2, <1>3 DEF transform

LEMMA ScriptFinishWorks ==
    ASSUME Running, NEW f \in Scripts, ScriptFinish(f)
    PROVE  Works(f)
  <1> DEFINE t == fresh[f]
             o == transform(run.config, run.linter, run.mode, f, t)
             u == output(run.config, run.linter, f, t)
  <1>1. /\ f \in Files /\ task[f] = "busy" /\ UNCHANGED <<run, fresh>>
    BY DEF ScriptFinish, Files
  <1>2. t \in Texts \ Generated /\ (f \in Lintables => run.linter = run.config)
    BY <1>1, RunningFacts DEF Standing
  <1>3. quiet => disk[f] = t
    BY <1>1, RunningFacts DEF Undisturbed
  <1>4. o = Reference(run.config, run.mode, f, t) /\ u = output(run.config, run.config, f, t)
    <2>1. /\ o = transform(run.config, run.config, run.mode, f, t)
          /\ u = output(run.config, run.config, f, t)
      BY <1>2, LinterMatters
    <2> HIDE DEF o, u
    <2> QED BY <1>2, <2>1 DEF Reference
  <1>5. o.changed => Fit(f, t)
    <2>1. t \in Broken => o = FailedOutcome BY DEF transform
    <2>2. FailedOutcome.changed = FALSE BY DEF FailedOutcome, NewOutcome
    <2> HIDE DEF o, t
    <2> QED BY <1>2, <2>1, <2>2 DEF Fit
  <1> DEFINE written == o.changed /\ run.mode = "format"
  <1> HIDE DEF o, u, written
  <1>6. Fit(f, t) => u = Became(run.config, f, t) /\ u \in Texts
    BY <1>2, <1>4, RunningFacts, ToolTypes DEF Became, Fit
  <1>7. ~written /\ run.mode = "format" => Became(run.config, f, t) = t
    BY <1>1, <1>2, <1>4, RunningFacts, UnchangedStays DEF written
  <1>8. CASE /\ ~written /\ Done(f, o) /\ UNCHANGED tree
             /\ entries' = IF o.error = None THEN Put(f, t, o) ELSE entries
    <2>1. task'[f] = "done" /\ outcome'[f] = o /\ fresh'[f] = t
      BY <1>1, <1>8, RunningFacts DEF Done
    <2>2. Standing(f)' /\ (quiet => Undisturbed(f)')
      BY <1>1, <1>2, <1>3, <1>4, <1>7, <1>8, <2>1, DoneIsDone
    <2>3. \A e \in entries' : e \in entries \/ Honest(rewrites', e)
      BY <1>4, <1>7, <1>8, PutIsHonest
    <2> QED BY <1>1, <1>8, <2>1, <2>2, <2>3, RunningFacts DEF Works, Elsewhere, Done
  <1>9. CASE written /\ Done(f, o) /\ Replace(f, u) /\ entries' = Put(f, u, clean(o))
    <2>0. disk' = [disk EXCEPT ![f] = u]
      BY <1>9 DEF Replace
    <2>1. task'[f] = "done" /\ outcome'[f] = o /\ fresh'[f] = t /\ disk'[f] = u
      BY <1>1, <1>9, <2>0, RunningFacts DEF Done
    <2>2. Fit(f, t) /\ u = Became(run.config, f, t) /\ u \in Texts /\ run.mode = "format"
      BY <1>5, <1>6, <1>9 DEF written
    <2>3. Standing(f)' /\ (quiet => Undisturbed(f)')
      BY <1>1, <1>2, <1>4, <2>1, <2>2, DoneIsDone
    <2>4. /\ rewrites \subseteq rewrites' /\ (\A r \in rewrites' : r \in rewrites \/ Sound(r))
          /\ \A e \in entries' : e \in entries \/ Honest(rewrites', e)
      BY <1>1, <1>4, <1>9, <2>2, RunningFacts, PutIsRewritten
    <2>5. disk' \in [Files -> Texts]
      BY <2>0, <2>2, RunningFacts
    <2> QED BY <1>1, <1>9, <2>0, <2>1, <2>3, <2>4, <2>5, RunningFacts DEF Works, Elsewhere, Done
  <1>10. CASE written /\ Done(f, [o EXCEPT !.error = "write"]) /\ UNCHANGED <<tree, entries>>
    <2>1. o \in FileOutcomes
      BY <1>1, <1>4, <1>5, <1>10, RunningFacts, FitIsReported DEF written
    <2>2. task'[f] = "done" /\ Faulted(outcome'[f]) /\ fresh'[f] = t
      BY <1>1, <1>10, <2>1, RunningFacts, FaultsAreFaults DEF Done
    <2>3. Standing(f)' /\ (quiet => Undisturbed(f)')
      BY <1>1, <1>2, <2>2, DoneIsDone
    <2> QED BY <1>1, <1>10, <2>2, <2>3, RunningFacts DEF Works, Elsewhere, Done
  <1> QED BY <1>8, <1>9, <1>10 DEF ScriptFinish, o, u, written

LEMMA GoFilesAreFiles ==
    /\ Range(GoFiles) \subseteq Files \ Scripts
    /\ \A f \in Files \ Scripts : f \in Range(GoFiles)
    /\ DOMAIN GoFiles = 1..Len(GoFiles) /\ Len(GoFiles) \in Nat
    /\ \A f \in Range(GoFiles) : \E i \in 1..Len(GoFiles) : GoFiles[i] = f
    /\ \A i \in 1..Len(GoFiles) : GoFiles[i] \in Range(GoFiles)
  BY FilesAssumption DEF Files, Range

\* The file the lane collects.
LEMMA TurnIsAGoFile ==
    ASSUME Running, Collecting
    PROVE  /\ Turn \in Range(GoFiles) /\ Turn \in Files \ Scripts
           /\ turn \in 1..Len(GoFiles) /\ Turn = GoFiles[turn]
  BY GoFilesAreFiles DEF Running, IInv, Types, Collecting, Turn

\* The requests of a file are requests, and they are large with its text.
LEMMA RequestIsARequest ==
    ASSUME Running, NEW f \in Range(GoFiles), fresh[f] \in Texts, NEW kind \in {"format", "score"}
    PROVE  /\ Request(kind, f) \in Requests
           /\ Request(kind, f) \in Oversize <=> fresh[f] \in Large
  BY DEF Request, Requests, Oversize

\* finish on the outcome of a file that is not scored again.
LEMMA FinishWorks ==
    ASSUME Running, NEW f \in Range(GoFiles), NEW o, Finish(f, o), UNCHANGED <<run, fresh>>,
           task[f] = "sent", o = Reference(run.config, run.mode, f, fresh[f]),
           ~Rescored(o), o = FailedOutcome \/ Fit(f, fresh[f])
    PROVE  Works(f)
  <1> DEFINE t == fresh[f]
             u == GoLayout(t)
  <1>1. f \in Files \ Scripts BY GoFilesAreFiles
  <1>2. t \in Texts \ Generated BY <1>1, RunningFacts DEF Standing
  <1>3. quiet => disk[f] = t BY <1>1, RunningFacts DEF Undisturbed
  <1>4. FailedOutcome.changed = FALSE /\ FailedOutcome.error # None
    BY FilesAssumption DEF FailedOutcome, NewOutcome
  <1>5. Fit(f, t) => o.error = None /\ o \in FileOutcomes
    BY <1>1, RunningFacts, FitIsReported
  <1>6. run.mode = "format" /\ ~o.changed => Became(run.config, f, t) = t
    BY <1>1, <1>2, RunningFacts, UnchangedStays
  <1>7. CASE (o.error # None \/ ~o.changed) /\ Done(f, o) /\ UNCHANGED tree
             /\ (entries' = entries \/ entries' = Put(f, t, o))
    <2>1. task'[f] = "done" /\ outcome'[f] = o /\ fresh'[f] = t
      BY <1>1, <1>7, RunningFacts DEF Done
    <2>2. ~o.changed BY <1>4, <1>5, <1>7
    <2>3. Standing(f)' /\ (quiet => Undisturbed(f)')
      BY <1>1, <1>2, <1>3, <1>6, <1>7, <2>1, <2>2, DoneIsDone
    <2>4. \A e \in entries' : e \in entries \/ Honest(rewrites', e)
      BY <1>6, <1>7, <2>2, PutIsHonest
    <2> QED BY <1>1, <1>7, <2>1, <2>3, <2>4, RunningFacts DEF Works, Elsewhere, Done
  <1>8. CASE /\ o.error = None /\ o.changed /\ run.mode = "format" /\ Done(f, o)
             /\ Replace(f, u) /\ entries' = Put(f, u, clean(o))
    <2>0. disk' = [disk EXCEPT ![f] = u]
      BY <1>8 DEF Replace
    <2>1. task'[f] = "done" /\ outcome'[f] = o /\ fresh'[f] = t /\ disk'[f] = u
      BY <1>1, <1>8, <2>0, RunningFacts DEF Done
    <2>2. Fit(f, t) /\ u = Became(run.config, f, t) /\ u \in Texts
      BY <1>1, <1>4, <1>8, RunningFacts, ToolTypes DEF Became, Fit
    <2>3. Standing(f)' /\ (quiet => Undisturbed(f)')
      BY <1>1, <1>2, <2>1, <2>2, DoneIsDone
    <2>4. /\ rewrites \subseteq rewrites' /\ (\A r \in rewrites' : r \in rewrites \/ Sound(r))
          /\ \A e \in entries' : e \in entries \/ Honest(rewrites', e)
      BY <1>1, <1>8, <2>2, RunningFacts, PutIsRewritten
    <2>5. disk' \in [Files -> Texts]
      BY <2>0, <2>2, RunningFacts
    <2> QED BY <1>1, <1>8, <2>0, <2>1, <2>3, <2>4, <2>5, RunningFacts DEF Works, Elsewhere, Done
  <1>9. CASE /\ o.error = None /\ Done(f, [o EXCEPT !.error = "write"])
             /\ UNCHANGED <<tree, entries>>
    <2>1. o \in FileOutcomes BY <1>4, <1>5, <1>9
    <2>2. task'[f] = "done" /\ Faulted(outcome'[f]) /\ fresh'[f] = t
      BY <1>1, <1>9, <2>1, RunningFacts, FaultsAreFaults DEF Done
    <2>3. Standing(f)' /\ (quiet => Undisturbed(f)')
      BY <1>1, <1>2, <2>2, DoneIsDone
    <2> QED BY <1>1, <1>9, <2>2, <2>3, RunningFacts DEF Works, Elsewhere, Done
  <1> QED BY <1>7, <1>8, <1>9, RunningFacts DEF Finish, Rescored

\* A reply is to a text that fits, a refusal to one that does not.
LEMMA ReportedIsReference ==
    ASSUME Running, NEW f \in Range(GoFiles), task[f] = "sent",
           status[Request("format", f)] \in {"replied", "large"}
    PROVE  LET o == Reported(f) IN
           /\ fresh[f] \in Texts \ Generated
           /\ ~Rescored(o) => o = Reference(run.config, run.mode, f, fresh[f])
           /\ o = FailedOutcome \/ Fit(f, fresh[f])
           /\ Rescored(o) => fresh[f] \notin Broken \cup Large /\ o = reply_outcome(f, fresh[f])
  <1> DEFINE t == fresh[f]
             o == Reported(f)
             r == reply_outcome(f, t)
  <1>1. f \in Files \ Scripts BY GoFilesAreFiles
  <1>2. t \in Texts \ Generated BY <1>1, RunningFacts DEF Standing
  <1>3. /\ status[Request("format", f)] = "large" => t \in Large
        /\ status[Request("format", f)] = "replied" => t \notin Large
    BY <1>2, RequestIsARequest DEF Running, IInv, Framed
  <1>4. FailedOutcome.changed = FALSE /\ FailedOutcome.error # None
    BY FilesAssumption DEF FailedOutcome, NewOutcome
  <1>5. CASE status[Request("format", f)] = "large"
    <2>1. o = FailedOutcome /\ Reference(run.config, run.mode, f, t) = FailedOutcome
      BY <1>1, <1>2, <1>3, <1>5 DEF Reported, Reference
    <2> HIDE DEF o
    <2> QED BY <1>2, <1>4, <2>1 DEF o, Rescored
  <1>6. CASE status[Request("format", f)] = "replied"
    <2>1. o = r /\ t \notin Large BY <1>3, <1>6 DEF Reported
    <2>2. /\ Reference(run.config, "format", f, t) = r
          /\ (~r.changed \/ r.error # None) => Reference(run.config, "check", f, t) = r
          /\ t \in Broken <=> r.error # None
      BY <1>1, <1>2, <2>1, ReplyIsReference, RunningFacts
    <2>3. t \in Broken => r = FailedOutcome BY DEF reply_outcome
    <2> HIDE DEF o, r
    <2>4. ~Rescored(r) => r = Reference(run.config, run.mode, f, t)
      BY <2>2, RunningFacts DEF Rescored
    <2>5. r = FailedOutcome \/ Fit(f, t)
      BY <1>2, <2>1, <2>3 DEF Fit
    <2>6. Rescored(r) => t \notin Broken \cup Large
      BY <2>1, <2>2 DEF Rescored
    <2> QED BY <1>2, <2>1, <2>4, <2>5, <2>6 DEF o, r
  <1> QED BY <1>5, <1>6

LEMMA CollectWorks ==
    ASSUME Running, Collect
    PROVE  \E f \in Range(GoFiles) : f = Turn /\ Works(f) /\ task'[f] = "done"
  <1>1. PICK f \in Range(GoFiles) : f = Turn BY TurnIsAGoFile DEF Collect
  <1>2. PICK o : o = Reported(f) OBVIOUS
  <1>3. /\ task[f] = "sent" /\ status[Request("format", f)] \in {"replied", "large"}
        /\ ~Rescored(o) /\ Finish(f, o) /\ UNCHANGED <<run, fresh>>
    BY <1>1, <1>2 DEF Collect
  <1>4. o = Reference(run.config, run.mode, f, fresh[f]) /\ (o = FailedOutcome \/ Fit(f, fresh[f]))
    BY <1>2, <1>3, ReportedIsReference
  <1>5. task'[f] = "done"
    BY <1>3, GoFilesAreFiles, RunningFacts DEF Finish, Done
  <1> QED BY <1>1, <1>3, <1>4, <1>5, FinishWorks

LEMMA CollectRescoredWorks ==
    ASSUME Running, CollectRescored
    PROVE  \E f \in Range(GoFiles) :
              f = Turn /\ Works(f) /\ (task'[f] \in {"done", "rescore"} \/ lane' = "failed")
  <1>0. PICK f \in Range(GoFiles) : f = Turn BY TurnIsAGoFile DEF CollectRescored
  <1> DEFINE t == fresh[f]
             o == Reported(f)
  <1>1. f \in Files \ Scripts BY <1>0, GoFilesAreFiles
  <1>2. /\ task[f] = "sent" /\ status[Request("format", f)] = "replied" /\ Rescored(o)
        /\ UNCHANGED <<run, fresh, tree>> /\ outcome' = [outcome EXCEPT ![f] = o]
    BY <1>0 DEF CollectRescored
  <1>3. t \in Texts \ (Generated \cup Broken \cup Large) /\ o = reply_outcome(f, t)
    BY <1>1, <1>2, ReportedIsReference
  <1>4. run.mode = "check" /\ o.error = None
    BY <1>2 DEF Rescored
  <1>5. quiet => disk[f] = t
    BY <1>1, <1>2, RunningFacts DEF Undisturbed
  <1>6. outcome'[f] = o /\ fresh'[f] = t /\ DOMAIN outcome' = Files
        /\ \A g \in Files \ {f} : outcome'[g] = outcome[g]
    BY <1>1, <1>2, RunningFacts
  <1> HIDE DEF o
  <1> SUFFICES Works(f) /\ (task'[f] \in {"done", "rescore"} \/ lane' = "failed")
    BY <1>0
  <1>7. CASE /\ o.scores = None /\ task' = [task EXCEPT ![f] = "done"]
             /\ entries' = Put(f, t, o)
    <2>1. o = Reference(run.config, run.mode, f, t)
      BY <1>1, <1>3, <1>4, <1>7, RunningFacts, ReplyIsReference
    <2>2. task'[f] = "done" BY <1>1, <1>7, RunningFacts
    <2>3. Standing(f)' /\ (quiet => Undisturbed(f)')
      BY <1>1, <1>2, <1>3, <1>4, <1>6, <2>1, <2>2, DoneIsDone
    <2>4. \A e \in entries' : e \in entries \/ Honest(rewrites', e)
      BY <1>4, <1>7, <2>1, PutIsHonest
    <2> QED BY <1>1, <1>2, <1>6, <1>7, <2>2, <2>3, <2>4, RunningFacts DEF Works, Elsewhere
  <1>8. CASE /\ UNCHANGED entries
             /\ task' = [task EXCEPT ![f] = "rescore"] \/ (UNCHANGED task /\ lane' = "failed")
    <2>1. /\ task'[f] = "rescore" \/ (task'[f] = "sent" /\ lane' = "failed")
          /\ DOMAIN task' = Files
          /\ \A g \in Files \ {f} : task'[g] = task[g]
      BY <1>1, <1>2, <1>8, RunningFacts
    <2>2. Standing(f)' /\ (quiet => Undisturbed(f)')
      BY <1>1, <1>2, <1>3, <1>4, <1>5, <1>6, <2>1 DEF Standing, Undisturbed
    <2> QED BY <1>1, <1>2, <1>6, <1>8, <2>1, <2>2, RunningFacts DEF Works, Elsewhere
  <1>9. IF o.scores = None
        THEN task' = [task EXCEPT ![f] = "done"] /\ entries' = Put(f, t, o)
        ELSE /\ UNCHANGED entries
             /\ task' = [task EXCEPT ![f] = "rescore"] \/ (UNCHANGED task /\ lane' = "failed")
    BY <1>0 DEF CollectRescored, LaneFails, o
  <1> QED BY <1>7, <1>8, <1>9

LEMMA RescoreWorks ==
    ASSUME Running, Rescore
    PROVE  \E f \in Range(GoFiles) : Works(f) /\ task[f] = "rescore" /\ task'[f] = "done"
  <1>1. PICK f \in Items("rescore") :
           /\ Done(f, scored(outcome[f], f)) /\ entries' = Put(f, fresh[f], scored(outcome[f], f))
           /\ UNCHANGED <<tree, run, fresh>>
    BY DEF Rescore
  <1> DEFINE t == fresh[f]
             o == scored(outcome[f], f)
  <1>2. f \in Range(GoFiles) /\ f \in Files \ Scripts /\ task[f] = "rescore"
    BY GoFilesAreFiles DEF Items
  <1>3. /\ t \in Texts \ (Generated \cup Broken \cup Large) /\ run.mode = "check"
        /\ outcome[f] = reply_outcome(f, t)
    BY <1>2, RunningFacts DEF Standing
  <1>4. o = Reference(run.config, run.mode, f, t)
    BY <1>2, <1>3, RunningFacts, ReplyIsReference DEF scored
  <1> HIDE DEF o
  <1>5. task'[f] = "done" /\ outcome'[f] = o /\ fresh'[f] = t
    BY <1>1, <1>2, RunningFacts DEF Done, o
  <1>6. Standing(f)' /\ (quiet => Undisturbed(f)')
    BY <1>1, <1>2, <1>3, <1>4, <1>5, DoneIsDone
  <1>7. \A e \in entries' : e \in entries \/ Honest(rewrites', e)
    BY <1>1, <1>3, <1>4, PutIsHonest DEF o
  <1>8. Works(f)
    BY <1>1, <1>2, <1>5, <1>6, <1>7, RunningFacts DEF Works, Elsewhere, Done
  <1> QED BY <1>2, <1>5, <1>8

LEMMA SubmitWorks ==
    ASSUME Running, NEW f \in Range(GoFiles), Submit(f)
    PROVE  Works(f)
  <1>1. /\ f \in Files \ Scripts /\ task[f] = "read"
        /\ UNCHANGED <<tree, entries, run, fresh, outcome>>
        /\ task' = [task EXCEPT ![f] = "sent"] \/ UNCHANGED task
    BY GoFilesAreFiles DEF Submit, Items
  <1>2. task'[f] \in {"read", "sent"} /\ DOMAIN task' = Files
        /\ \A g \in Files \ {f} : task'[g] = task[g]
    BY <1>1, RunningFacts
  <1>3. Standing(f)' /\ (quiet => Undisturbed(f)')
    BY <1>1, <1>2, RunningFacts DEF Standing, Undisturbed
  <1> QED BY <1>1, <1>2, <1>3, RunningFacts DEF Works, Elsewhere

-----------------------------------------------------------------------------
(* The invariant is inductive *)

\* What no step of the lanes touches.
Apart == UNCHANGED <<run, session, vet, report, runs, quiet>>

\* The parts of the invariant that a step on one file could disturb.
LEMMA WorksKeeps ==
    ASSUME Running, NEW f \in Files, Works(f), Apart
    PROVE  /\ disk' \in [Files -> Texts] /\ fresh' \in [Files -> Texts \cup {None}]
           /\ DOMAIN task' = Files /\ DOMAIN outcome' = Files /\ run' \in Runs
           /\ Opened' /\ Cached' /\ Recorded' /\ (\A g \in Files : Standing(g)') /\ Phases' /\ Left'
  <1>1. UNCHANGED <<run, saved, stores, linter, vet, report, quiet>>
    BY DEF Apart, session
  <1>2. ASSUME NEW g \in Files
        PROVE  Standing(g)' /\ (quiet => Undisturbed(g)')
    <2>1. CASE g = f BY <2>1 DEF Works
    <2>2. CASE g # f
      <3>1. /\ task'[g] = task[g] /\ fresh'[g] = fresh[g]
            /\ outcome'[g] = outcome[g] /\ disk'[g] = disk[g]
        BY <2>2 DEF Works, Elsewhere
      <3>2. rewrites \subseteq rewrites' BY DEF Works
      <3>3. Truthful(g) => Truthful(g)' BY <1>1, <3>1, <3>2, HistoryGrows DEF Truthful
      <3>4. Standing(g) BY RunningFacts
      <3>5. Standing(g)' BY <1>1, <3>1, <3>3, <3>4 DEF Standing
      <3>6. quiet => Undisturbed(g) BY RunningFacts
      <3>7. quiet => Undisturbed(g)' BY <1>1, <3>1, <3>6 DEF Undisturbed
      <3> QED BY <3>5, <3>7
    <2> QED BY <2>1, <2>2
  <1>3. Opened' BY <1>1 DEF Running, IInv, Opened
  <1>4. Cached' /\ Recorded'
    <2>1. rewrites \subseteq rewrites' /\ (\A r \in rewrites' : r \in rewrites \/ Sound(r))
          /\ (\A e \in entries' : e \in entries \/ Honest(rewrites', e))
      BY DEF Works
    <2>2. Recorded' BY <2>1, RunningFacts DEF Recorded
    <2>3. \A e \in entries \cup saved : Honest(rewrites, e) BY DEF Running, IInv, Cached
    <2>4. \A e \in entries \cup saved : Honest(rewrites', e) BY <2>1, <2>3, HistoryGrows
    <2> QED BY <1>1, <2>1, <2>2, <2>4 DEF Cached
  <1>5. Left' BY <1>1, <1>2 DEF Left
  <1>6. Phases'
    <2>1. \A g \in InScope(run) : task'[g] # "none"
      BY DEF Running, IInv, Phases, Works, Elsewhere, InScope
    <2>2. run'.phase = "lanes" /\ InScope(run') = InScope(run)
      BY <1>1 DEF Running
    <2> QED BY <2>1, <2>2 DEF Phases
  <1> QED BY <1>1, <1>2, <1>3, <1>4, <1>5, <1>6, RunningFacts DEF Works

\* A step that leaves files and cache alone disturbs nothing but the lane's
\* place, the helper's answers and the vet thread.
LEMMA IdleKeeps ==
    ASSUME Running, UNCHANGED <<tree, entries, tasks, run, session, report, quiet>>
    PROVE  /\ disk' \in [Files -> Texts] /\ fresh' \in [Files -> Texts \cup {None}]
           /\ DOMAIN task' = Files /\ DOMAIN outcome' = Files /\ run' \in Runs
           /\ Opened' /\ Cached' /\ Recorded' /\ (\A g \in Files : Standing(g)') /\ Phases' /\ Left'
  <1>1. UNCHANGED <<tree, entries, task, fresh, outcome, run, saved, stores, linter, report, quiet>>
    BY DEF tasks, session
  <1>2. \A g \in Files : Standing(g)' BY <1>1, RunningFacts DEF Standing, Truthful
  <1>3. Left' BY <1>1, RunningFacts DEF Left, Undisturbed
  <1>4. Phases' BY <1>1 DEF Phases, Running, IInv, InScope
  <1>5. Cached' /\ Recorded' /\ Opened'
    BY <1>1 DEF Running, IInv, Cached, Recorded, Opened
  <1> QED BY <1>1, <1>2, <1>3, <1>4, <1>5, RunningFacts

\* The client's steps keep to what fits a frame.
LEMMA FramedStep ==
    ASSUME IInv,
           \/ UNCHANGED client
           \/ \E r \in Requests : H!Accept(r) \/ H!AnswerLarge(r) \/ H!Reply(r)
           \/ \E r \in Requests : H!Fail(r)
           \/ H!Break("crashed")
           \/ NoHelper
    PROVE  Framed' /\ DOMAIN status' = Requests /\ broken' \in {"none", "crashed"}
  <1> USE DEF IInv, Framed, Types
  <1>1. CASE UNCHANGED client BY <1>1 DEF client
  <1>2. ASSUME NEW r \in Requests, H!Accept(r) \/ H!AnswerLarge(r) \/ H!Reply(r)
        PROVE  Framed' /\ DOMAIN status' = Requests /\ broken' \in {"none", "crashed"}
    BY <1>2 DEF H!Accept, H!AnswerLarge, H!Reply, H!Set
  <1>3. ASSUME NEW r \in Requests, H!Fail(r)
        PROVE  Framed' /\ DOMAIN status' = Requests /\ broken' \in {"none", "crashed"}
    BY <1>3 DEF H!Fail, H!Set
  <1>4. CASE H!Break("crashed") BY <1>4 DEF H!Break
  <1>5. CASE NoHelper BY <1>5 DEF NoHelper
  <1> QED BY <1>1, <1>2, <1>3, <1>4, <1>5

\* What is left to show of a lane step once its file is dealt with.
Place == turn' \in Nat /\ (lane' = "collect" => turn' > 0) /\ Order'
Client == Framed' /\ DOMAIN status' = Requests /\ broken' \in {"none", "crashed"}

LEMMA WorksInvariant ==
    ASSUME Running, NEW f \in Files, Works(f), Apart, Place, Client
    PROVE  IInv'
  BY WorksKeeps DEF Place, Client, IInv, Types

LEMMA IdleInvariant ==
    ASSUME Running, UNCHANGED <<tree, entries, tasks, run, session, report, quiet>>, Place, Client
    PROVE  IInv'
  BY IdleKeeps DEF Place, Client, IInv, Types

\* The lane stays where it is, and no Go file's task turns back.
LEMMA PlaceStays ==
    ASSUME Running, UNCHANGED <<lane, turn, run>>, NEW f \in Files, Works(f),
           f \in Scripts \/ lane \notin {"collect", "done"} \/ task'[f] = "done"
    PROVE  Place
  <1>1. ASSUME NEW g \in Files \ Scripts, lane \in {"collect", "done"}
        PROVE  task'[g] = task[g] \/ task'[g] = "done"
    BY <1>1 DEF Works, Elsewhere
  <1>2. InScope(run)' = InScope(run) /\ InScope(run) \subseteq Files BY DEF InScope
  <1> QED BY <1>1, <1>2, GoFilesAreFiles DEF Place, Order, Running, IInv, Types

LEMMA ScriptSteps ==
    ASSUME IInv, Lane(ScriptStep)
    PROVE  IInv'
  <1>1. Running /\ Apart BY DEF Lane, Running, Apart, ScriptStep, ScriptRead, ScriptFinish
  <1>2. PICK f \in Scripts : ScriptRead(f) \/ ScriptFinish(f) BY DEF Lane, ScriptStep
  <1>3. f \in Files BY DEF Files
  <1>4. UNCHANGED <<lane, turn, client, run>> BY <1>2 DEF ScriptRead, ScriptFinish, go
  <1>5. Works(f)
    <2>1. CASE ScriptRead(f)
      <3>1. task[f] = "queued" /\ Read(f, "busy") /\ UNCHANGED <<tree, entries, run>>
        BY <2>1 DEF ScriptRead
      <3> QED BY <1>1, <1>3, <3>1, ReadWorks
    <2>2. CASE ScriptFinish(f) BY <1>1, <2>2, ScriptFinishWorks
    <2> QED BY <1>2, <2>1, <2>2
  <1>6. Place BY <1>1, <1>3, <1>4, <1>5, PlaceStays
  <1>7. Client BY <1>4, FramedStep DEF Client
  <1> QED BY <1>1, <1>3, <1>5, <1>6, <1>7, WorksInvariant

\* The lane's own steps: the reading and the submitting on the pool, ...
LEMMA PoolSteps ==
    ASSUME Running, Apart, NEW f \in Range(GoFiles), GoRead(f) \/ Submit(f)
    PROVE  IInv'
  <1>1. f \in Files \ Scripts BY GoFilesAreFiles
  <1>2. CASE GoRead(f)
    <2>1. /\ task[f] = "queued" /\ Read(f, "read") /\ lane = "read"
          /\ UNCHANGED <<tree, entries, run, lane, turn, client>>
      BY <1>2 DEF GoRead, Items, go
    <2>2. Works(f) BY <1>1, <2>1, ReadWorks
    <2>3. Place BY <1>1, <2>1, <2>2, PlaceStays
    <2>4. Client BY <2>1, FramedStep DEF Client, Running
    <2> QED BY <1>1, <2>2, <2>3, <2>4, WorksInvariant
  <1>3. CASE Submit(f)
    <2>1. Works(f) BY <1>3, SubmitWorks
    <2>2. Place
      <3>1. /\ lane = "submit" /\ UNCHANGED turn /\ lane' \in {"submit", "failed"}
        BY <1>3 DEF Submit, go, LaneFails
      <3> QED BY <3>1 DEF Place, Order, Running, IInv, Types
    <2>3. Client
      <3>1. fresh[f] \in Texts /\ Request("format", f) \in Requests
        BY <1>1, <1>3, RunningFacts, RequestIsARequest DEF Submit, Items, Standing
      <3>2. \/ H!Accept(Request("format", f)) \/ H!AnswerLarge(Request("format", f))
            \/ H!Fail(Request("format", f))
        BY <1>3 DEF Submit
      <3> QED BY <3>1, <3>2, FramedStep DEF Client, Running
    <2> QED BY <1>1, <2>1, <2>2, <2>3, WorksInvariant
  <1> QED BY <1>2, <1>3

\* ... the collecting, ...
LEMMA CollectSteps ==
    ASSUME Running, Apart, Collect \/ CollectRescored \/ Rescore
    PROVE  IInv'
  <1>1. CASE Collect
    <2>1. PICK f \in Range(GoFiles) : f = Turn /\ Works(f) /\ task'[f] = "done"
      BY <1>1, CollectWorks
    <2>2. f \in Files \ Scripts BY GoFilesAreFiles
    <2>3. turn' = turn + 1 /\ UNCHANGED <<lane, client>> /\ Collecting BY <1>1 DEF Collect
    <2>4. Place
      <3>1. \A i \in 1..Len(GoFiles) : i < turn' => task'[GoFiles[i]] \in {"done", "rescore"}
        BY <2>1, <2>3, TurnIsAGoFile, GoFilesAreFiles
           DEF Works, Elsewhere, Running, IInv, Order, Collecting
      <3> QED BY <2>3, <3>1, TurnIsAGoFile DEF Place, Order, Collecting
    <2>5. Client BY <2>3, FramedStep DEF Client, Running
    <2> QED BY <2>1, <2>2, <2>4, <2>5, WorksInvariant
  <1>2. CASE CollectRescored
    <2>1. PICK f \in Range(GoFiles) :
             f = Turn /\ Works(f) /\ (task'[f] \in {"done", "rescore"} \/ lane' = "failed")
      BY <1>2, CollectRescoredWorks
    <2>2. f \in Files \ Scripts BY GoFilesAreFiles
    <2>3. /\ Collecting /\ status[Request("format", Turn)] = "replied" /\ task[Turn] = "sent"
          /\ (turn' = turn + 1 /\ UNCHANGED lane) \/ (lane' = "failed" /\ UNCHANGED turn)
      BY <1>2 DEF CollectRescored, LaneFails
    <2>4. Place
      <3>1. CASE lane' = "failed"
        BY <2>3, <3>1, TurnIsAGoFile DEF Place, Order
      <3>2. CASE lane' # "failed"
        <4>1. turn' = turn + 1 /\ UNCHANGED lane BY <2>3, <3>2
        <4>2. \A i \in 1..Len(GoFiles) : i < turn' => task'[GoFiles[i]] \in {"done", "rescore"}
          BY <2>1, <2>3, <3>2, <4>1, TurnIsAGoFile, GoFilesAreFiles
             DEF Works, Elsewhere, Running, IInv, Order, Collecting
        <4> QED BY <2>3, <4>1, <4>2, TurnIsAGoFile DEF Place, Order, Collecting
      <3> QED BY <3>1, <3>2
    <2>5. Client
      <3>1. fresh[f] \in Texts /\ Request("score", f) \in Requests
        BY <2>1, <2>2, <2>3, RunningFacts, RequestIsARequest DEF Standing
      <3>2. UNCHANGED client \/ H!Accept(Request("score", Turn)) \/ H!Fail(Request("score", Turn))
        BY <1>2 DEF CollectRescored
      <3> QED BY <2>1, <3>1, <3>2, FramedStep DEF Client, Running
    <2> QED BY <2>1, <2>2, <2>4, <2>5, WorksInvariant
  <1>3. CASE Rescore
    <2>1. PICK f \in Range(GoFiles) : Works(f) /\ task'[f] = "done" BY <1>3, RescoreWorks
    <2>2. f \in Files BY GoFilesAreFiles
    <2>3. UNCHANGED <<lane, turn, client, run>> BY <1>3 DEF Rescore, go
    <2>4. Place BY <2>1, <2>2, <2>3, PlaceStays
    <2>5. Client BY <2>3, FramedStep DEF Client, Running
    <2> QED BY <2>1, <2>2, <2>4, <2>5, WorksInvariant
  <1> QED BY <1>1, <1>2, <1>3

\* ... and the steps between them.
LEMMA LaneMoves ==
    ASSUME Running, Apart, Spawn \/ Submitted \/ Skip \/ WaitFails \/ Shutdown
    PROVE  IInv'
  <1>1. UNCHANGED <<tree, entries, tasks, run, session, report, quiet, client>>
    BY DEF Spawn, Submitted, Skip, WaitFails, Shutdown, Apart
  <1>2. UNCHANGED task BY <1>1 DEF tasks
  <1>3. Client BY <1>1, FramedStep DEF Client, Running
  <1>4. Place
    <2>1. CASE Spawn
      BY <1>2, <2>1 DEF Spawn, LaneFails, Place, Order, Running, IInv, Types
    <2>2. CASE Submitted
      BY <1>2, <2>2 DEF Submitted, Place, Order, Running, IInv, Types
    <2>3. CASE Skip
      <3>1. Collecting /\ task[Turn] = "done" /\ turn' = turn + 1 /\ UNCHANGED lane
        BY <2>3 DEF Skip
      <3>2. \A i \in 1..Len(GoFiles) : i < turn' => task'[GoFiles[i]] \in {"done", "rescore"}
        BY <1>2, <3>1, TurnIsAGoFile, GoFilesAreFiles DEF Running, IInv, Order, Collecting
      <3> QED BY <3>1, <3>2, TurnIsAGoFile DEF Place, Order, Collecting
    <2>4. CASE WaitFails
      BY <1>2, <2>4 DEF WaitFails, LaneFails, Place, Order, Running, IInv, Types
    <2>5. CASE Shutdown
      <3>1. /\ lane = "collect" /\ turn > Len(GoFiles) /\ Items("rescore") = {} /\ UNCHANGED turn
            /\ lane' \in {"done", "failed"} /\ turn \in Nat
        BY <2>5 DEF Shutdown, Running, IInv, Types
      <3>2. ASSUME NEW g \in Range(GoFiles) PROVE task[g] = "done"
        <4>1. PICK i \in 1..Len(GoFiles) : GoFiles[i] = g BY GoFilesAreFiles
        <4>2. task[g] \in {"done", "rescore"}
          BY <3>1, <4>1, GoFilesAreFiles DEF Running, IInv, Order
        <4> QED BY <3>1, <4>2 DEF Items
      <3>3. \A g \in InScope(run) \ Scripts : task[g] = "done"
        BY <3>2, GoFilesAreFiles DEF InScope
      <3> QED BY <1>1, <1>2, <3>1, <3>3 DEF Place, Order, InScope
    <2> QED BY <2>1, <2>2, <2>3, <2>4, <2>5
  <1> QED BY <1>1, <1>3, <1>4, IdleInvariant

LEMMA GoSteps ==
    ASSUME IInv, Lane(GoStep)
    PROVE  IInv'
  <1>1. UNCHANGED run
    BY DEF Lane, GoStep, GoRead, Submit, Spawn, Submitted, Skip, Collect, CollectRescored,
           Rescore, WaitFails, Shutdown
  <1>2. Running /\ Apart BY <1>1 DEF Lane, Running, Apart
  <1> QED BY <1>2, PoolSteps, CollectSteps, LaneMoves DEF Lane, GoStep

\* The helper's steps, and those of the vet thread.
LEMMA OtherSteps ==
    ASSUME IInv, Lane(HelperStep) \/ Lane(Crash) \/ Vet
    PROVE  IInv'
  <1>1. Running BY DEF Lane, Running, Vet
  <1>2. UNCHANGED <<tree, entries, tasks, run, session, report, quiet, go>>
    BY DEF Lane, HelperStep, Answer, Learns, Crash, Vet
  <1>3. Place
    BY <1>2 DEF tasks, go, Place, Order, InScope, IInv, Types
  <1>4. Client
    <2>1. \/ UNCHANGED client \/ \E r \in Requests : H!Reply(r) \/ H!Fail(r)
          \/ H!Break("crashed")
      BY DEF Lane, HelperStep, Answer, Learns, Crash, Vet
    <2> QED BY <2>1, FramedStep DEF Client
  <1> QED BY <1>1, <1>2, <1>3, <1>4, IdleInvariant

\* The session's steps.  None but Begin and Discover touches what a file's
\* standing depends on, other than by forgetting it.
LEMMA NoTasksStanding ==
    ASSUME NoTasks
    PROVE  \A f \in Files : Standing(f)' /\ Undisturbed(f)'
  BY DEF NoTasks, Standing, Undisturbed

LEMMA BeginStep ==
    ASSUME IInv, NEW ask \in Asked, Begin(ask)
    PROVE  IInv'
  <1>1. ask \in Runs /\ ask.config # None /\ ask.mode # None BY EngineAssumption
  <1>2. run' \in Runs /\ run'.phase = "discover" /\ run'.config = ask.config
        /\ run'.mode = ask.mode /\ run'.cache = ask.cache
    BY <1>1 DEF Begin, Runs
  <1>3. /\ UNCHANGED <<tree, task, fresh, outcome, lane, turn, status, broken>>
        /\ run.phase = "idle" /\ lane = "off" /\ \A f \in Files : task[f] = "none"
    BY DEF Begin, IInv, Phases, tasks, go, client
  <1>4. Opened'
    <2>1. stores' = [config |-> ask.config, cache |-> ask.cache] BY DEF Begin
    <2>2. CASE Same(ask)
      <3>1. stores' = stores /\ linter' = linter BY <2>1, <2>2 DEF Begin, Same
      <3> QED BY <1>1, <1>2, <2>1, <3>1 DEF Opened, IInv
    <2>3. CASE ~Same(ask)
      <3>1. linter' = None BY <2>3 DEF Begin
      <3> QED BY <1>1, <1>2, <2>1, <3>1 DEF Opened
    <2> QED BY <2>2, <2>3
  <1>5. Cached'
    <2>1. Saving \in {entries, saved} BY DEF Saving
    <2>2. saved' \in {saved, Saving} BY DEF Begin
    <2>3. entries' \in {entries, saved', {}} BY DEF Begin
    <2>4. \A e \in entries \cup saved : Honest(rewrites, e) BY DEF IInv, Cached
    <2>5. rewrites' = rewrites BY <1>3
    <2>6. \A e \in entries' \cup saved' : Honest(rewrites, e) BY <2>1, <2>2, <2>3, <2>4
    <2> QED BY <2>5, <2>6 DEF Cached
  <1>6. \A f \in Files : Standing(f)' /\ Undisturbed(f)'
    BY <1>3 DEF Standing, Undisturbed, IInv
  <1>7. Framed' /\ Order' /\ Phases' /\ Left'
    BY <1>2, <1>3, <1>6 DEF IInv, Framed, Order, Phases, Left
  <1>8. Types' /\ Recorded'
    BY <1>2, <1>3 DEF IInv, Types, Recorded
  <1> QED BY <1>4, <1>5, <1>6, <1>7, <1>8 DEF IInv

LEMMA DiscoverStep ==
    ASSUME IInv, Discover
    PROVE  IInv'
  <1>1. /\ run \in Runs /\ run.config \in Configs /\ run.mode # None /\ run.phase = "discover"
        /\ stores = [config |-> run.config, cache |-> run.cache] /\ lane = "off"
        /\ \A f \in Files : task[f] = "none" /\ Standing(f)
    BY DEF IInv, Types, Opened, Phases, Discover, Runs
  <1>2. /\ UNCHANGED <<tree, entries, fresh, outcome, turn, status, broken, saved, stores, quiet>>
        /\ linter' = NewLinter
    BY DEF Discover, client
  <1>3. NewLinter \in {None, run.config} /\ NewLinter \in Configs \cup {None}
    <2>1. linter \in {None, run.config} BY <1>1 DEF IInv, Opened
    <2> QED BY <1>1, <2>1 DEF NewLinter
  <1>4. Opened'
    <2>1. run'.config = run.config /\ run'.mode = run.mode /\ run'.cache = run.cache
      BY <1>1 DEF Discover, Fails, Runs
    <2> QED BY <1>1, <1>2, <1>3, <2>1, FilesAssumption DEF Opened
  <1>5. Cached' /\ Recorded' /\ Framed' BY <1>2 DEF IInv, Cached, Recorded, Framed
  <1>6. CASE NewLinter = None /\ Lintable
    <2>1. /\ report' = "error" /\ run' = [run EXCEPT !.phase = "ended"] /\ UNCHANGED <<task, lane>>
      BY <1>6 DEF Discover, Fails
    <2>2. run' \in Runs /\ run'.phase = "ended" BY <1>1, <2>1 DEF Runs
    <2>3. \A f \in Files : Standing(f)' /\ Undisturbed(f)'
      BY <1>1, <1>2, <2>1 DEF Standing, Undisturbed
    <2>4. Types' /\ Order' /\ Phases' /\ Left'
      BY <1>1, <1>2, <2>1, <2>2, <2>3 DEF IInv, Types, Order, Phases, Left
    <2> QED BY <1>4, <1>5, <2>3, <2>4 DEF IInv
  <1>7. CASE ~(NewLinter = None /\ Lintable)
    <2>1. /\ run' = [run EXCEPT !.phase = "lanes", !.linter = NewLinter]
          /\ task' = [f \in Files |-> IF f \in InScope(run) THEN "queued" ELSE "none"]
          /\ lane' = IF InScope(run) \ Scripts = {} THEN "done" ELSE "read"
      BY <1>7 DEF Discover
    <2>2. /\ run' \in Runs /\ run'.phase = "lanes" /\ run'.lanes = run.lanes
          /\ run'.linter = NewLinter /\ run'.config = run.config
      BY <1>1, <1>3, <2>1 DEF Runs
    <2>3. InScope(run') = InScope(run) BY <2>2 DEF InScope
    <2>4. ASSUME NEW f \in Files PROVE Standing(f)' /\ Undisturbed(f)'
      <3>1. task'[f] \in {"none", "queued"} /\ outcome'[f] = None
        BY <1>1, <1>2, <2>1 DEF Standing
      <3>2. ASSUME f \in Lintables, task'[f] = "queued" PROVE NewLinter = run.config
        <4>1. f \in InScope(run) BY <2>1, <3>2
        <4>2. Lintable BY <3>2, <4>1 DEF Lintable
        <4> QED BY <1>3, <1>7, <4>2
      <3> QED BY <2>2, <3>1, <3>2 DEF Standing, Undisturbed
    <2>5. Phases'
      BY <2>1, <2>2, <2>3 DEF Phases, InScope
    <2>6. Order'
      BY <2>1, <2>3 DEF Order
    <2>7. Types' /\ Left'
      BY <1>2, <2>1, <2>2, <2>4 DEF IInv, Types, Left
    <2> QED BY <1>4, <1>5, <2>4, <2>5, <2>6, <2>7 DEF IInv
  <1> QED BY <1>6, <1>7

\* Ending a run keeps all that its report speaks of.
LEMMA EndingStep ==
    ASSUME IInv, DiscoverFails \/ End
    PROVE  IInv'
  <1>1. /\ UNCHANGED <<tree, entries, task, fresh, outcome, lane, turn, status, broken,
                       saved, stores, linter, vet, quiet>>
        /\ run' = [run EXCEPT !.phase = "ended"] /\ run.phase # "idle"
    BY DEF DiscoverFails, End, Fails, Joined, tasks, go, client, session
  <1>2. /\ run' \in Runs /\ run'.phase = "ended" /\ run'.config = run.config
        /\ run'.mode = run.mode /\ run'.cache = run.cache /\ run'.lanes = run.lanes
        /\ run'.missing = run.missing /\ run'.linter = run.linter
    BY <1>1 DEF IInv, Types, Runs
  <1>3. InScope(run') = InScope(run) BY <1>2 DEF InScope
  <1>4. \A f \in Files : Standing(f)' BY <1>1, <1>2 DEF IInv, Standing, Truthful
  <1>5. Left' BY <1>1, <1>2 DEF IInv, Left, Undisturbed
  <1>6. Order' BY <1>1, <1>3 DEF IInv, Order
  <1>7. Types' /\ Opened' /\ Cached' /\ Recorded' /\ Framed'
    BY <1>1, <1>2 DEF IInv, Types, Opened, Cached, Recorded, Framed
  <1>8. Phases'
    <2>1. CASE report' = "error" BY <1>2, <2>1 DEF Phases
    <2>2. CASE report' # "error"
      <3>1. Joined /\ lane # "failed" /\ report' = Judge(run.mode, Outcomes)
        BY <2>2 DEF DiscoverFails, End, Fails
      <3>2. ASSUME NEW f \in InScope(run) PROVE task[f] = "done"
        <4>1. lane = "done" /\ run.phase = "lanes" BY <3>1 DEF Joined
        <4>2. task[f] # "none" BY <4>1 DEF IInv, Phases
        <4> QED BY <3>1, <4>1, <4>2 DEF IInv, Order, Joined
      <3>3. Outcomes' = Outcomes BY <1>1, <1>3 DEF Outcomes
      <3>4. Judge(run.mode, Outcomes)' = Judge(run.mode, Outcomes)
        BY <1>1, <1>2, <1>3, <3>3 DEF Judge
      <3> QED BY <1>1, <1>2, <1>3, <3>1, <3>2, <3>4 DEF Phases
    <2> QED BY <2>1, <2>2
  <1> QED BY <1>4, <1>5, <1>6, <1>7, <1>8 DEF IInv

\* The end of a process, or of a run in it: nothing is under way.
LEMMA ResetStep ==
    ASSUME IInv, Persist \/ Kill
    PROVE  IInv'
  <1>1. NoTasks /\ NoHelper /\ run' = NoRun /\ UNCHANGED tree
    BY DEF Persist, Kill
  <1>2. run' \in Runs /\ run'.phase = "idle" BY <1>1 DEF NoRun, Runs
  <1>3. Types'
    <2>1. broken' = "none" /\ turn' = 0 /\ lane' = "off" /\ DOMAIN status' = Requests
      BY <1>1 DEF NoTasks, NoHelper
    <2>2. /\ fresh' \in [Files -> Texts \cup {None}]
          /\ DOMAIN task' = Files /\ DOMAIN outcome' = Files
      BY <1>1 DEF NoTasks
    <2> QED BY <1>1, <1>2, <2>1, <2>2 DEF IInv, Types
  <1>4. Opened'
    <2>1. \/ UNCHANGED <<stores, linter>> \/ (stores' = None /\ linter' = None)
      BY DEF Persist, Kill
    <2> QED BY <1>2, <2>1 DEF IInv, Opened
  <1>5. Cached'
    <2>1. Saving \in {entries, saved} BY DEF Saving
    <2>2. saved' \in {saved, Saving} /\ entries' \in {entries, {}} BY DEF Persist, Kill
    <2>3. \A e \in entries \cup saved : Honest(rewrites, e) BY DEF IInv, Cached
    <2>4. rewrites' = rewrites BY <1>1
    <2>5. \A e \in entries' \cup saved' : Honest(rewrites, e) BY <2>1, <2>2, <2>3
    <2> QED BY <2>4, <2>5 DEF Cached
  <1>6. Framed' /\ Recorded' BY <1>1, FramedStep DEF IInv, Recorded
  <1>7. Order' /\ Phases' BY <1>1, <1>2 DEF NoTasks, Order, Phases
  <1>8. (\A f \in Files : Standing(f)') /\ Left' BY <1>1, NoTasksStanding DEF Left
  <1> QED BY <1>3, <1>4, <1>5, <1>6, <1>7, <1>8 DEF IInv

LEMMA EditStep ==
    ASSUME IInv, NEW f \in Files, NEW t \in Holds[f], Edit(f, t)
    PROVE  IInv'
  <1>1. /\ UNCHANGED <<rewrites, entries, run, task, fresh, outcome, lane, turn, status, broken,
                       saved, stores, linter, vet, report>>
        /\ disk' = [disk EXCEPT ![f] = t] /\ quiet' = FALSE
    BY DEF Edit, tasks, go, client, session
  <1>2. t \in Texts BY EngineAssumption
  <1>3. Types' BY <1>1, <1>2 DEF IInv, Types
  <1>4. \A g \in Files : Standing(g)' BY <1>1 DEF IInv, Standing, Truthful
  <1>5. Opened' /\ Cached' /\ Recorded' /\ Framed' /\ Order' /\ Left'
    BY <1>1 DEF IInv, Opened, Cached, Recorded, Framed, Order, Left, InScope
  <1>6. Phases'
    <2>1. Judge(run.mode, Outcomes)' = Judge(run.mode, Outcomes)
      BY <1>1 DEF Judge, Outcomes, InScope
    <2> QED BY <1>1, <2>1 DEF IInv, Phases, InScope
  <1> QED BY <1>3, <1>4, <1>5, <1>6 DEF IInv

-----------------------------------------------------------------------------
(* The theorems *)

LEMMA InitInvariant == Init => IInv
  <1> SUFFICES ASSUME Init PROVE IInv OBVIOUS
  <1>1. run = NoRun /\ NoRun \in Runs /\ NoRun.phase = "idle"
    BY DEF Init, NoRun, Runs
  <1>2. Types
    BY <1>1 DEF Init, H!Init, Types
  <1>3. Opened /\ Cached /\ Recorded /\ Order
    BY <1>1 DEF Init, Opened, Cached, Recorded, Order
  <1>4. Framed
    BY DEF Init, H!Init, Framed
  <1>5. (\A f \in Files : Standing(f)) /\ Left
    BY DEF Init, Standing, Undisturbed, Left
  <1>6. Phases
    BY <1>1 DEF Init, Phases
  <1> QED BY <1>2, <1>3, <1>4, <1>5, <1>6 DEF IInv

LEMMA StutterInvariant == IInv /\ UNCHANGED vars => IInv'
  <1> SUFFICES ASSUME IInv, UNCHANGED vars PROVE IInv' OBVIOUS
  <1>1. UNCHANGED <<tree, entries, run, task, fresh, outcome, lane, turn, status, broken,
                    saved, stores, linter, vet, report, quiet>>
    BY DEF vars, tasks, go, client, session
  <1>2. (\A g \in Files : Standing(g)') /\ Left'
    BY <1>1 DEF IInv, Standing, Truthful, Left, Undisturbed
  <1>3. Types' /\ Opened' /\ Cached' /\ Recorded' /\ Framed' /\ Order'
    BY <1>1 DEF IInv, Types, Opened, Cached, Recorded, Framed, Order, InScope
  <1>4. Phases'
    <2>1. Judge(run.mode, Outcomes)' = Judge(run.mode, Outcomes)
      BY <1>1 DEF Judge, Outcomes, InScope
    <2> QED BY <1>1, <2>1 DEF IInv, Phases, InScope
  <1> QED BY <1>2, <1>3, <1>4 DEF IInv

\* The inductive invariant holds in every session.
THEOREM EngineInvariant == Spec => []IInv
  <1>1. IInv /\ [Next]_vars => IInv'
    BY StutterInvariant, BeginStep, DiscoverStep, EndingStep, ResetStep, EditStep,
       ScriptSteps, GoSteps, OtherSteps DEF Next
  <1> QED BY <1>1, InitInvariant, PTL DEF Spec

\* Whatever the cache held, whichever runs came before and whatever failed, a run
\* reports of a file what the lanes make of the bytes it held; only a format run
\* may instead repeat what a format run reported when it wrote those bytes.
THEOREM ReportsAreTrue == Spec => []ReportsTruth
  <1>1. IInv => ReportsTruth
    <2> SUFFICES ASSUME IInv, run.phase = "ended", report # "error", NEW f \in InScope(run),
                        outcome[f] # None => outcome[f].error \notin {"read", "write"}
                 PROVE  \/ outcome[f] = Reference(run.config, run.mode, f, fresh[f])
                        \/ /\ run.mode = "format" /\ run.cache
                           /\ outcome[f] \in Rewritten(rewrites, run.config, f, fresh[f])
      BY DEF ReportsTruth
    <2>1. f \in Files /\ task[f] = "done" BY DEF IInv, Phases, InScope
    <2>2. Truthful(f) BY <2>1 DEF IInv, Standing
    <2> QED BY <2>2 DEF Truthful, Faulted
  <1> QED BY <1>1, EngineInvariant, PTL

\* What a check says of a tree that a format run left and that has settled, file by
\* file.
LEMMA CheckedIsClean ==
    ASSUME IInv, run.phase = "ended", run.mode = "format", report \in {"pass", "fixed"}, quiet,
           \A g \in DOMAIN Outcomes : Settled(run.config, g, disk[g]),
           NEW f \in InScope(run)
    PROVE  LET checked == Reference(run.config, "check", f, disk[f]) IN
           /\ outcome[f] = None <=> checked = None
           /\ outcome[f] # None => /\ checked = clean(outcome[f])
                                   /\ outcome[f].error = None /\ "error" \notin outcome[f].lint
                                   /\ outcome[f] \in FileOutcomes
  <1> DEFINE o == outcome[f]
             c == Reference(run.config, "check", f, disk[f])
  <1>1. f \in Files /\ task[f] = "done" /\ run.config \in Configs /\ report = Judge(run.mode, Outcomes)
    BY DEF IInv, Phases, InScope, Types, Opened, Runs
  <1>2. o # None => o.error = None /\ "error" \notin o.lint /\ Settled(run.config, f, disk[f])
    <2> SUFFICES ASSUME o # None
                 PROVE  o.error = None /\ "error" \notin o.lint /\ Settled(run.config, f, disk[f])
      OBVIOUS
    <2>1. f \in DOMAIN Outcomes /\ Outcomes[f] = o BY DEF Outcomes
    <2>2. verdict(run.mode, Outcomes, evaluate(Outcomes, run.lanes, InScope(run), Files), vet) # "fail"
      BY <1>1 DEF Judge
    <2> HIDE DEF o
    <2> QED BY <2>1, <2>2 DEF verdict
  <1>3. ~Faulted(o)
    BY <1>2, FilesAssumption DEF Faulted
  <1>4. PICK t \in Texts : Comes(run.config, f, t, disk[f], o)
    BY <1>1, <1>3 DEF IInv, Left, Undisturbed
  <1> DEFINE w == Reference(run.config, "format", f, t)
  <1>5. CASE Fit(f, t)
    <2>1. w \in FileOutcomes /\ w # None
      BY <1>1, <1>5, FitIsReported
    <2>2. o \in {w, clean(w)} /\ disk[f] = Became(run.config, f, t)
      BY <1>4 DEF Comes
    <2>3. clean(w) \in FileOutcomes /\ clean(w) # None /\ clean(clean(w)) = clean(w)
      <3> HIDE DEF w
      <3> QED BY <2>1, CleanTwice
    <2>4. o \in FileOutcomes /\ o # None /\ clean(o) = clean(w)
      <3> HIDE DEF w, o
      <3> QED BY <2>1, <2>2, <2>3
    <2>5. c = clean(w)
      BY <1>1, <1>2, <1>5, <2>2, <2>4, SettledIsClean
    <2>6. c # None /\ c = clean(o)
      <3> HIDE DEF w, o, c
      <3> QED BY <2>3, <2>4, <2>5
    <2> HIDE DEF w, o, c
    <2> QED BY <1>2, <2>4, <2>6 DEF o, c
  <1>6. CASE ~Fit(f, t)
    <2>1. o \in {None, FailedOutcome} /\ (o = None <=> t \in Generated) /\ disk[f] = t
      BY <1>4, <1>6, Unfit DEF Comes
    <2>2. FailedOutcome.error # None
      BY FilesAssumption DEF FailedOutcome, NewOutcome
    <2>3. o = None BY <1>2, <2>1, <2>2
    <2>4. c = None
      BY <2>1, <2>3 DEF Reference
    <2> QED BY <2>3, <2>4
  <1> QED BY <1>5, <1>6

\* A format run that nobody disturbed and that says pass or fixed leaves a tree
\* that a check of the same lanes passes, once the files it reports on are settled.
THEOREM FormattedTreesPass == Spec => []FormattedPassesCheck
  <1>1. IInv => FormattedPassesCheck
    <2> SUFFICES ASSUME IInv, run.phase = "ended", run.mode = "format",
                        report \in {"pass", "fixed"}, quiet,
                        \A f \in DOMAIN Outcomes : Settled(run.config, f, disk[f])
                 PROVE  LET checked == [f \in InScope(run) |-> Reference(run.config, "check", f, disk[f])]
                            outcomes == [f \in {g \in InScope(run) : checked[g] # None} |-> checked[f]]
                        IN  Judge("check", outcomes) = "pass"
      BY DEF FormattedPassesCheck
    <2> DEFINE checked == [f \in InScope(run) |-> Reference(run.config, "check", f, disk[f])]
               outcomes == [f \in {g \in InScope(run) : checked[g] # None} |-> checked[f]]
               D == {g \in InScope(run) : outcome[g] # None}
    <2>1. /\ DOMAIN outcomes = D /\ DOMAIN Outcomes = D
          /\ \A f \in D : outcomes[f] = clean(Outcomes[f])
      BY CheckedIsClean DEF Outcomes
    <2>2. \A f \in D : /\ Outcomes[f] \in FileOutcomes
                       /\ Outcomes[f].error = None /\ "error" \notin Outcomes[f].lint
      BY CheckedIsClean DEF Outcomes
    <2> HIDE DEF checked, outcomes, D
    <2>3. ASSUME NEW f \in D
          PROVE  /\ outcomes[f].error = None /\ "error" \notin outcomes[f].lint
                 /\ outcomes[f].violations = FALSE /\ outcomes[f].changed = FALSE
                 /\ outcomes[f].scores = Outcomes[f].scores
      BY <2>1, <2>2, CleanFields
    <2>4. report = Judge(run.mode, Outcomes) BY DEF IInv, Phases
    <2>5. /\ ~run.missing /\ vet # "errors"
          /\ evaluate(Outcomes, run.lanes, InScope(run), Files) = {}
      BY <2>4 DEF Judge, verdict, IInv, Types, Runs
    <2>6. evaluate(outcomes, run.lanes, InScope(run), Files) = {}
      <3>1. Breaches(outcomes) = Breaches(Outcomes)
        BY <2>1, <2>3 DEF Breaches
      <3>2. Stale(outcomes, run.lanes, InScope(run), Files) = Stale(Outcomes, run.lanes, InScope(run), Files)
        BY <2>1, <2>2, <2>3 DEF Stale
      <3> QED BY <2>5, <3>1, <3>2 DEF evaluate
    <2>7. verdict("check", outcomes, evaluate(outcomes, run.lanes, InScope(run), Files), vet) = "pass"
      BY <2>1, <2>3, <2>5, <2>6 DEF verdict
    <2> QED BY <2>5, <2>7 DEF Judge, outcomes, checked
  <1> QED BY <1>1, EngineInvariant, PTL
=============================================================================
