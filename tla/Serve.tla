------------------------------- MODULE Serve -------------------------------
(***************************************************************************)
(* fmtkit serve (crates/cli/src/serve.rs) and the callers that hand it     *)
(* their runs (serve::ask, crates/cli/src/main.rs), for one repository:    *)
(* the socket's name in the file system, listening, the backlog, refusals, *)
(* the executable being replaced, and processes killed at any moment.      *)
(*                                                                         *)
(* Executables are numbered: replacing the file gives the next number, and *)
(* a process runs the one that was on disk when it started.  As on Linux,  *)
(* a process whose own file was replaced no longer finds it.  Progress     *)
(* frames are left out: they carry no state.  F_x is a mutant of F.        *)
(***************************************************************************)
EXTENDS Naturals, Sequences, FiniteSets

CONSTANTS
    Servers, Callers, \* processes, each started once
    Environments,     \* the variables a run reads
    Version(_),       \* the version an executable reports
    MaxExe            \* bound on the replacements of the executable

ASSUME ServeAssumption == MaxExe \in Nat \ {0} /\ Servers \cap Callers = {}

VARIABLES
    exe,          \* the executable on disk
    sock,         \* whose socket has the name: nobody's or one server's
    spc, me,      \* per server: where it is; its executable and environment
    changed,      \* per server: the executable had changed at the last accept
    backlog,      \* per server: connections not accepted yet
    conn,         \* per server: the connection it answers, if any
    cpc, self,    \* per caller: where it is; its executable and environment
    name, open,   \* per caller: the request's exe; whether its connection is
    sent, reply,  \* per caller: whether the request is written; the answer
    ran,          \* per caller: who ran its call, and which executable and environment
    lost          \* history: the callers a server ran a call for whose answer did not arrive

disk    == <<exe, sock>>
servers == <<spc, me, changed, backlog, conn>>
callers == <<cpc, self, name, open, sent, reply, ran, lost>>
vars    == <<disk, servers, callers>>

Exes == 1..MaxExe
Ids  == [exe : Exes, env : Environments]

SP == {"off", "probe", "unlink", "bind", "serving", "answer", "reply", "after", "remove",
       "close", "refused", "ended", "killed"}
CP == {"off", "connect", "identify", "send", "wait", "local", "done", "killed"}

\* Servers whose listener exists.
Listening(s) == spc[s] \in {"serving", "answer", "reply", "after", "remove", "close"}

TypeOK ==
    /\ exe \in Exes /\ sock \in SUBSET Servers /\ \A s, t \in sock : s = t
    /\ spc \in [Servers -> SP] /\ me \in [Servers -> Ids]
    /\ changed \in [Servers -> BOOLEAN]
    /\ backlog \in [Servers -> Seq(Callers \cup Servers)]
    /\ conn \in [Servers -> SUBSET (Callers \cup Servers)]
    /\ cpc \in [Callers -> CP] /\ self \in [Callers -> Ids]
    /\ open \in [Callers -> BOOLEAN]
    /\ sent \in [Callers -> BOOLEAN] /\ name \in [Callers -> {"unknown", "named", "nameless"}]
    /\ reply \in [Callers -> {"none", "done", "refused"}]
    /\ ran \in [Callers -> SUBSET [by : {"server", "self"}, id : Ids]]
    /\ lost \in SUBSET Callers

Init ==
    /\ exe = 1 /\ sock = {}
    /\ spc = [s \in Servers |-> "off"]
    /\ \E v \in Environments : /\ me = [s \in Servers |-> [exe |-> 1, env |-> v]]
                               /\ self = [c \in Callers |-> [exe |-> 1, env |-> v]]
    /\ changed = [s \in Servers |-> FALSE]
    /\ backlog = [s \in Servers |-> <<>>] /\ conn = [s \in Servers |-> {}]
    /\ cpc = [c \in Callers |-> "off"]
    /\ open = [c \in Callers |-> FALSE] /\ sent = [c \in Callers |-> FALSE]
    /\ name = [c \in Callers |-> "unknown"]
    /\ reply = [c \in Callers |-> "none"] /\ ran = [c \in Callers |-> {}]
    /\ lost = {}

-----------------------------------------------------------------------------
(* The world *)

\* A build or an upgrade replaces the file.
Replace ==
    /\ exe < MaxExe
    /\ exe' = exe + 1
    /\ UNCHANGED <<sock, servers, callers>>

-----------------------------------------------------------------------------
(* serve *)

Goto(s, to) == spc' = [spc EXCEPT ![s] = to]

Start(s, v) ==
    /\ spc[s] = "off"
    /\ Goto(s, "probe")
    /\ me' = [me EXCEPT ![s] = [exe |-> exe, env |-> v]]
    /\ UNCHANGED <<disk, changed, backlog, conn, callers>>

\* listen, up to the connect: one that succeeds is dropped at once, and leaves
\* a connection nobody speaks on in the other server's backlog.
Probe(s) ==
    /\ spc[s] = "probe"
    /\ \/ \E t \in sock :
             /\ Listening(t)
             /\ backlog' = [backlog EXCEPT ![t] = Append(@, s)]
             /\ Goto(s, "refused")
       \/ /\ \A t \in sock : ~Listening(t)
          /\ Goto(s, "unlink")
          /\ UNCHANGED backlog
    /\ UNCHANGED <<disk, me, changed, conn, callers>>

\* remove_file, whoever's socket has the name by now.
Unlink(s) ==
    /\ spc[s] = "unlink"
    /\ sock' = {}
    /\ Goto(s, "bind")
    /\ UNCHANGED <<exe, me, changed, backlog, conn, callers>>

\* bind in the staging directory and rename into place.
Renamed(s) == {s}

Bind(s) ==
    /\ spc[s] = "bind"
    /\ sock' = Renamed(s)
    /\ Goto(s, "serving")
    /\ UNCHANGED <<exe, me, changed, backlog, conn, callers>>

\* accept, then compare the executable on disk with this process's own.
HasChanged_Ignored(s) == FALSE
HasChanged(s) == exe # me[s].exe

Accept(s) ==
    /\ spc[s] = "serving"
    /\ backlog[s] # <<>>
    /\ conn' = [conn EXCEPT ![s] = {Head(backlog[s])}]
    /\ backlog' = [backlog EXCEPT ![s] = Tail(@)]
    /\ changed' = [changed EXCEPT ![s] = HasChanged(s)]
    /\ Goto(s, "answer")
    /\ UNCHANGED <<disk, me, callers>>

\* A request the server runs.
Accepted(s, c) ==
    /\ ~changed[s]
    /\ Version(self[c].exe) = Version(me[s].exe)
    /\ name[c] = "named"
    /\ self[c].env = me[s].env

\* The connection gives a request the server runs.  One that gives none is given
\* up: its other end is closed, or READ_TIMEOUT passes.
Heard(s, c) == c \in Callers /\ sent[c] /\ Accepted(s, c)

\* The last write of answer, whose failure is ignored, then the stream is dropped.
\* The write fails when the connection is closed; it can also fail while both ends
\* live: nobody reads for WRITE_TIMEOUT, or the frame is too long for write or read.
Delivered(c, answer) == open[c] /\ reply' = [reply EXCEPT ![c] = answer]
Undelivered          == UNCHANGED reply
Dropped(s, c)        == /\ open' = [open EXCEPT ![c] = FALSE]
                        /\ conn' = [conn EXCEPT ![s] = {}]

\* answer, when it refuses, also a server's probe, which reads nothing.
Refuse(s) ==
    \E c \in conn[s] :
        /\ spc[s] = "answer"
        /\ ~Heard(s, c)
        /\ \/ c \in Callers /\ (Delivered(c, "refused") \/ Undelivered) /\ Dropped(s, c)
           \/ c \in Servers /\ conn' = [conn EXCEPT ![s] = {}] /\ UNCHANGED <<reply, open>>
        /\ Goto(s, "after")
        /\ UNCHANGED <<disk, me, changed, backlog, cpc, self, name, sent, ran, lost>>

\* answer, when it runs the call.
Run(s) ==
    \E c \in conn[s] \cap Callers :
        /\ spc[s] = "answer"
        /\ Heard(s, c)
        /\ ran' = [ran EXCEPT ![c] = @ \cup {[by |-> "server", id |-> me[s]]}]
        /\ Goto(s, "reply")
        /\ UNCHANGED <<disk, me, changed, backlog, conn, cpc, self, name, open, sent, reply, lost>>

Reply(s) ==
    \E c \in conn[s] \cap Callers :
        /\ spc[s] = "reply"
        /\ \/ Delivered(c, "done") /\ UNCHANGED lost
           \/ Undelivered /\ lost' = lost \cup {c}
        /\ Dropped(s, c)
        /\ Goto(s, "after")
        /\ UNCHANGED <<disk, me, changed, backlog, cpc, self, name, sent, ran>>

\* session.persist, and the end of the loop's body.
After(s) ==
    /\ spc[s] = "after"
    /\ Goto(s, IF changed[s] THEN "remove" ELSE "serving")
    /\ UNCHANGED <<disk, me, changed, backlog, conn, callers>>

Remove(s) ==
    /\ spc[s] = "remove"
    /\ sock' = {}
    /\ Goto(s, "close")
    /\ UNCHANGED <<exe, me, changed, backlog, conn, callers>>

\* A process ends: its connections close, also those it never accepted.
Hangup_Accepted(s) == conn[s] \cap Callers
Hangup(s) == {c \in Callers : c \in conn[s] \/ \E i \in DOMAIN backlog[s] : backlog[s][i] = c}

End(s) ==
    /\ open' = [c \in Callers |-> open[c] /\ c \notin Hangup(s)]
    /\ backlog' = [backlog EXCEPT ![s] = <<>>]
    /\ conn' = [conn EXCEPT ![s] = {}]
    /\ lost' = IF spc[s] = "reply" THEN lost \cup (conn[s] \cap Callers) ELSE lost
    /\ UNCHANGED <<disk, me, changed, cpc, self, name, sent, reply, ran>>

Close(s) == spc[s] = "close" /\ Goto(s, "ended") /\ End(s)

KillServer(s) ==
    /\ spc[s] \notin {"off", "refused", "ended", "killed"}
    /\ Goto(s, "killed")
    /\ End(s)

-----------------------------------------------------------------------------
(* A caller *)

Step(c, to) == cpc' = [cpc EXCEPT ![c] = to]

\* run: without the cache the call stays local.
Call(c, v) ==
    /\ cpc[c] = "off"
    /\ self' = [self EXCEPT ![c] = [exe |-> exe, env |-> v]]
    /\ Step(c, "connect") \/ Step(c, "local")
    /\ UNCHANGED <<disk, servers, name, open, sent, reply, ran, lost>>

Connect(c) ==
    /\ cpc[c] = "connect"
    /\ \/ \E t \in sock :
             /\ Listening(t)
             /\ backlog' = [backlog EXCEPT ![t] = Append(@, c)]
             /\ open' = [open EXCEPT ![c] = TRUE]
             /\ Step(c, "identify")
       \/ /\ \A t \in sock : ~Listening(t)
          /\ Step(c, "local")
          /\ UNCHANGED <<backlog, open>>
    /\ UNCHANGED <<disk, spc, me, changed, conn, self, name, sent, reply, ran, lost>>

\* The request's exe: this executable's path, if it is still on disk.
Name_Unchecked(c) == "named"
Name(c) == IF self[c].exe = exe THEN "named" ELSE "nameless"

Identify(c) ==
    /\ cpc[c] = "identify"
    /\ name' = [name EXCEPT ![c] = Name(c)]
    /\ Step(c, "send")
    /\ UNCHANGED <<disk, servers, self, open, sent, reply, ran, lost>>

\* Writing to a connection the server has closed fails.
Send(c) ==
    /\ cpc[c] = "send"
    /\ sent' = [sent EXCEPT ![c] = open[c]]
    /\ Step(c, IF open[c] THEN "wait" ELSE "local")
    /\ UNCHANGED <<disk, servers, self, name, open, reply, ran, lost>>

\* Read waits, without a timeout, for the answer or the connection's end.
Answered_Impatient(c) == sent[c]
Answered(c) == reply[c] # "none" \/ ~open[c]

\* Anything but a Done makes the caller run the call itself.
Then_AnyReply(c) == IF reply[c] # "none" THEN "done" ELSE "local"
Then(c) == IF reply[c] = "done" THEN "done" ELSE "local"

Receive(c) ==
    /\ cpc[c] = "wait"
    /\ Answered(c)
    /\ Step(c, Then(c))
    /\ UNCHANGED <<disk, servers, self, name, open, sent, reply, ran, lost>>

\* read refuses a frame longer than MAX_FRAME, a Done, when its length has come: the
\* caller hangs up on a server that still writes.
TurnDown(c) ==
    /\ cpc[c] = "wait" /\ open[c]
    /\ \E s \in Servers : spc[s] = "reply" /\ c \in conn[s]
    /\ open' = [open EXCEPT ![c] = FALSE]
    /\ lost' = lost \cup {c}
    /\ Step(c, "local")
    /\ UNCHANGED <<disk, servers, self, name, sent, reply, ran>>

Local(c) ==
    /\ cpc[c] = "local"
    /\ ran' = [ran EXCEPT ![c] = @ \cup {[by |-> "self", id |-> self[c]]}]
    /\ Step(c, "done")
    /\ UNCHANGED <<disk, servers, self, name, open, sent, reply, lost>>

KillCaller(c) ==
    /\ cpc[c] \notin {"off", "done", "killed"}
    /\ Step(c, "killed")
    /\ open' = [open EXCEPT ![c] = FALSE]
    /\ UNCHANGED <<disk, servers, self, name, sent, reply, ran, lost>>

-----------------------------------------------------------------------------

Listen(s)     == Probe(s) \/ Unlink(s) \/ Bind(s)
AnswerNext(s) == Accept(s) \/ Refuse(s) \/ Run(s) \/ Reply(s) \/ After(s) \/ Remove(s) \/ Close(s)
Proceed(c)    == Connect(c) \/ Identify(c) \/ Send(c) \/ Receive(c) \/ Local(c)

Next ==
    \/ Replace
    \/ \E s \in Servers : \/ Listen(s) \/ AnswerNext(s) \/ KillServer(s)
                          \/ \E v \in Environments : Start(s, v)
    \/ \E c \in Callers : \/ Proceed(c) \/ TurnDown(c) \/ KillCaller(c)
                          \/ \E v \in Environments : Call(c, v)

Spec == Init /\ [][Next]_vars

\* A process that is running goes on; nobody has to start, replace or kill one.
Fairness ==
    /\ \A s \in Servers : WF_vars(Listen(s)) /\ WF_vars(AnswerNext(s))
    /\ \A c \in Callers : WF_vars(Proceed(c))

FairSpec == Spec /\ Fairness

-----------------------------------------------------------------------------
(* What must hold *)

\* "Results are identical to a local run": whoever runs a call does so with the
\* caller's own executable and environment, although the executable is compared
\* at one moment, named at another, and replaced at any.
SameResult == \A c \in Callers : \A r \in ran[c] : r.id = self[c]

\* A caller that prints an answer has had its call run by somebody, and one the
\* server answered does not run it again.
AnsweredMeansRun ==
    \A c \in Callers : cpc[c] = "done" =>
        /\ ran[c] # {}
        /\ reply[c] = "done" => \A r \in ran[c] : r.by = "server"

\* A caller runs its call itself only when no server has yet to run it, whether it
\* holds the connection or has it in its backlog, so that two runs of one call never
\* meet in the repository; and one that a server ran only when that answer was lost.
NoNeedlessRerun ==
    \A c \in Callers : cpc[c] \in {"local", "done"} =>
        /\ \A s \in Servers : /\ c \in conn[s] => spc[s] = "reply"
                              /\ \A i \in DOMAIN backlog[s] : backlog[s][i] # c
        /\ (\E r \in ran[c] : r.by = "server") => reply[c] = "done" \/ c \in lost

\* README: "A second server for the same repository exits with code 2."
OneServer == Cardinality({s \in Servers : Listening(s)}) <= 1

\* Every call that is not killed ends, whatever happens to the servers.
EveryCallEnds == \A c \in Callers : cpc[c] # "off" ~> cpc[c] \in {"done", "killed"}

\* A server whose executable was replaced stops once anybody connects to it.
ReplacedServerStops ==
    \A s \in Servers :
        spc[s] = "serving" /\ exe # me[s].exe /\ backlog[s] # <<>> ~> spc[s] \in {"ended", "killed"}
=============================================================================
