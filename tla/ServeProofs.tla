---------------------------- MODULE ServeProofs -----------------------------
(***************************************************************************)
(* Proofs about Serve, for any number of servers, callers, environments    *)
(* and replacements of the executable.                                     *)
(*                                                                         *)
(* A server compares the executable on disk with its own at the accept; a  *)
(* caller names its own when it writes its request.  Neither moment is the *)
(* one at which the call is run.  That the two agree all the same follows  *)
(* from the order of things (Order): a caller's name, taken after it was   *)
(* connected, makes its executable no older than the server's, which was   *)
(* started before; and the server's check, made after the caller was       *)
(* started, makes it no newer.                                             *)
(*                                                                         *)
(* The rest of the invariant is what that argument and the other theorems  *)
(* need of the connections: a caller has one at most (Once), which stays   *)
(* open while a server holds it (Held), and where each caller is tells     *)
(* what it has sent, been answered and run (Phases).                       *)
(***************************************************************************)
EXTENDS Serve, TLAPS

\* x is in the queue q; and at most once.
In(q, x)     == \E i \in DOMAIN q : q[i] = x
Single(q, x) == \A i, j \in DOMAIN q : q[i] = x /\ q[j] = x => i = j

\* x has a connection to s.
At(s, x) == x \in conn[s] \/ In(backlog[s], x)

\* Only a server that listens has connections, and only one that answers has
\* accepted one.
Quiet ==
    \A s \in Servers :
        /\ ~Listening(s) => backlog[s] = <<>>
        /\ spc[s] \notin {"answer", "reply"} => conn[s] = {}
        /\ \A x, y \in conn[s] : x = y

\* A caller connects once.
Once ==
    \A c \in Callers, s \in Servers :
        /\ \A t \in Servers : At(s, c) /\ At(t, c) => s = t
        /\ c \in conn[s] => ~In(backlog[s], c)
        /\ Single(backlog[s], c)

\* A connection the server holds is open, unless its caller was killed or turned the
\* answer down.
Held ==
    \A c \in Callers, s \in Servers : At(s, c) =>
        \/ open[c] \/ cpc[c] = "killed"
        \/ c \in lost /\ spc[s] = "reply" /\ c \in conn[s]

\* What a caller has where it is.
Phases ==
    \A c \in Callers :
        /\ open[c] => cpc[c] \in {"identify", "send", "wait"} /\ reply[c] = "none"
        /\ cpc[c] \in {"off", "connect", "identify", "send"} => ran[c] = {} /\ ~sent[c] /\ c \notin lost
        /\ cpc[c] \in {"off", "connect", "identify"} => name[c] = "unknown"
        /\ cpc[c] \in {"off", "connect"} => reply[c] = "none"
        /\ cpc[c] \notin {"done", "killed"} => \A r \in ran[c] : r.by = "server"
        /\ cpc[c] = "done" => ran[c] # {}
        /\ reply[c] = "done" => /\ cpc[c] \in {"wait", "done", "killed"}
                                /\ ran[c] # {}
                                /\ cpc[c] # "killed" => \A r \in ran[c] : r.by = "server"

\* A server replies to a caller whose call it has run.
Replies ==
    \A s \in Servers : spc[s] = "reply" =>
        \A x \in conn[s] : x \in Callers /\ sent[x] /\ ran[x] # {}

\* A call a server ran is answered, about to be, or its answer was lost.
RanByServer ==
    \A c \in Callers : (\E r \in ran[c] : r.by = "server") =>
        \/ reply[c] = "done" \/ c \in lost
        \/ \E s \in Servers : spc[s] = "reply" /\ c \in conn[s]

\* Executables are never newer than the one on disk.  A caller that is named
\* runs no older one than the server it waits for, which was there before; and
\* no newer one, once the server has found its own unchanged.
Order ==
    /\ \A s \in Servers : me[s].exe <= exe
    /\ \A c \in Callers : self[c].exe <= exe
    /\ \A s \in Servers, c \in Callers :
          /\ At(s, c) /\ name[c] = "named" => me[s].exe <= self[c].exe
          /\ c \in conn[s] /\ ~changed[s] => self[c].exe <= me[s].exe

IInv == TypeOK /\ Quiet /\ Once /\ Held /\ Phases /\ Replies /\ RanByServer /\ Order /\ SameResult

-----------------------------------------------------------------------------
(***************************************************************************)
(* Steps.                                                                  *)
(***************************************************************************)

\* The steps there are.
LEMMA Steps ==
    ASSUME [Next]_vars
    PROVE  \/ Replace
           \/ \E s \in Servers, v \in Environments : Start(s, v)
           \/ \E s \in Servers : \/ Probe(s) \/ Unlink(s) \/ Bind(s) \/ Accept(s) \/ Refuse(s)
                                 \/ Run(s) \/ Reply(s) \/ After(s) \/ Remove(s) \/ Close(s)
                                 \/ KillServer(s)
           \/ \E c \in Callers, v \in Environments : Call(c, v)
           \/ \E c \in Callers : \/ Connect(c) \/ Identify(c) \/ Send(c) \/ Receive(c)
                                 \/ TurnDown(c) \/ Local(c) \/ KillCaller(c)
           \/ UNCHANGED vars
BY DEF Next, Listen, AnswerNext, Proceed

LEMMA TypesInit == Init => TypeOK
<1> SUFFICES ASSUME Init PROVE TypeOK
  OBVIOUS
<1>1. 1 \in Exes
  BY ServeAssumption DEF Exes
<1>2. PICK v \in Environments : /\ me = [s \in Servers |-> [exe |-> 1, env |-> v]]
                                /\ self = [c \in Callers |-> [exe |-> 1, env |-> v]]
  BY DEF Init
<1>3. [exe |-> 1, env |-> v] \in Ids
  BY <1>1 DEF Ids
<1> QED BY <1>1, <1>2, <1>3 DEF Init, TypeOK, SP, CP

\* The server's steps keep the types.
LEMMA TypesServer ==
    ASSUME TypeOK, NEW s \in Servers,
           \/ Probe(s) \/ Unlink(s) \/ Bind(s) \/ Accept(s) \/ Refuse(s) \/ Run(s) \/ Reply(s)
           \/ After(s) \/ Remove(s) \/ Close(s) \/ KillServer(s)
    PROVE  TypeOK'
<1>1. CASE Probe(s)
  <2>1. backlog' \in [Servers -> Seq(Callers \cup Servers)]
    <3>1. \A t \in Servers : Append(backlog[t], s) \in Seq(Callers \cup Servers)
      BY DEF TypeOK
    <3>2. CASE UNCHANGED backlog
      BY <3>2 DEF TypeOK
    <3>3. ASSUME NEW t \in sock, backlog' = [backlog EXCEPT ![t] = Append(@, s)]
          PROVE  backlog' \in [Servers -> Seq(Callers \cup Servers)]
      BY <3>1, <3>3 DEF TypeOK
    <3> QED BY <1>1, <3>2, <3>3 DEF Probe
  <2> QED BY <1>1, <2>1 DEF Probe, Goto, TypeOK, SP, disk, callers
<1>2. CASE Unlink(s) \/ Bind(s) \/ Remove(s)
  <2>1. sock' \in SUBSET Servers /\ \A t, u \in sock' : t = u
    BY <1>2 DEF Unlink, Bind, Remove, Renamed
  <2> QED BY <1>2, <2>1 DEF Unlink, Bind, Remove, Goto, TypeOK, SP, callers
<1>3. CASE Accept(s)
  <2>1. Head(backlog[s]) \in Callers \cup Servers /\ Tail(backlog[s]) \in Seq(Callers \cup Servers)
    BY <1>3 DEF Accept, TypeOK
  <2>2. HasChanged(s) \in BOOLEAN
    BY DEF HasChanged
  <2> QED BY <1>3, <2>1, <2>2 DEF Accept, Goto, TypeOK, SP, disk, callers
<1>4. CASE Refuse(s)
  <2>1. open' \in [Callers -> BOOLEAN] /\ reply' \in [Callers -> {"none", "done", "refused"}]
    BY <1>4 DEF Refuse, Delivered, Undelivered, Dropped, TypeOK
  <2>2. conn' = [conn EXCEPT ![s] = {}]
    BY <1>4 DEF Refuse, Dropped
  <2>3. UNCHANGED <<disk, me, changed, backlog, cpc, self, name, sent, ran, lost>> /\ Goto(s, "after")
    BY <1>4 DEF Refuse
  <2> QED BY <2>1, <2>2, <2>3 DEF Goto, TypeOK, SP, disk
<1>5. CASE Run(s)
  <2>1. ran' \in [Callers -> SUBSET [by : {"server", "self"}, id : Ids]]
    BY <1>5 DEF Run, TypeOK
  <2> QED BY <1>5, <2>1 DEF Run, Goto, TypeOK, SP, disk
<1>6. CASE Reply(s)
  <2>1. open' \in [Callers -> BOOLEAN] /\ reply' \in [Callers -> {"none", "done", "refused"}]
    BY <1>6 DEF Reply, Delivered, Undelivered, Dropped, TypeOK
  <2>2. lost' \in SUBSET Callers
    BY <1>6 DEF Reply, TypeOK
  <2> QED BY <1>6, <2>1, <2>2 DEF Reply, Dropped, Goto, TypeOK, SP, disk
<1>7. CASE After(s)
  BY <1>7 DEF After, Goto, TypeOK, SP, disk, callers
<1>8. CASE Close(s) \/ KillServer(s)
  <2>1. End(s)
    BY <1>8 DEF Close, KillServer
  <2>2. open' \in [Callers -> BOOLEAN]
    BY <2>1 DEF End, TypeOK
  <2>3. <<>> \in Seq(Callers \cup Servers)
    OBVIOUS
  <2>4. spc' \in [Servers -> SP]
    BY <1>8 DEF Close, KillServer, Goto, TypeOK, SP
  <2>5. lost' \in SUBSET Callers
    BY <2>1 DEF End, TypeOK
  <2> QED BY <2>1, <2>2, <2>3, <2>4, <2>5 DEF End, TypeOK, disk
<1> QED BY <1>1, <1>2, <1>3, <1>4, <1>5, <1>6, <1>7, <1>8

\* So do a caller's.
LEMMA TypesCaller ==
    ASSUME TypeOK, NEW c \in Callers,
           \/ Connect(c) \/ Identify(c) \/ Send(c) \/ Receive(c) \/ TurnDown(c) \/ Local(c)
           \/ KillCaller(c)
    PROVE  TypeOK'
<1>1. CASE Connect(c)
  <2>1. backlog' \in [Servers -> Seq(Callers \cup Servers)] /\ open' \in [Callers -> BOOLEAN]
    <3>1. \A t \in Servers : Append(backlog[t], c) \in Seq(Callers \cup Servers)
      BY DEF TypeOK
    <3>2. CASE UNCHANGED <<backlog, open>>
      BY <3>2 DEF TypeOK
    <3>3. ASSUME NEW t \in sock, backlog' = [backlog EXCEPT ![t] = Append(@, c)],
                 open' = [open EXCEPT ![c] = TRUE]
          PROVE  backlog' \in [Servers -> Seq(Callers \cup Servers)] /\ open' \in [Callers -> BOOLEAN]
      BY <3>1, <3>3 DEF TypeOK
    <3> QED BY <1>1, <3>2, <3>3 DEF Connect
  <2> QED BY <1>1, <2>1 DEF Connect, Step, TypeOK, CP, disk
<1>2. CASE Identify(c)
  BY <1>2 DEF Identify, Name, Step, TypeOK, CP, disk, servers
<1>3. CASE Send(c)
  BY <1>3 DEF Send, Step, TypeOK, CP, disk, servers
<1>4. CASE Receive(c)
  BY <1>4 DEF Receive, Then, Step, TypeOK, CP, disk, servers
<1>5. CASE Local(c)
  <2>1. ran' \in [Callers -> SUBSET [by : {"server", "self"}, id : Ids]]
    BY <1>5 DEF Local, TypeOK
  <2> QED BY <1>5, <2>1 DEF Local, Step, TypeOK, CP, disk, servers
<1>6. CASE KillCaller(c)
  BY <1>6 DEF KillCaller, Step, TypeOK, CP, disk, servers
<1>7. CASE TurnDown(c)
  BY <1>7 DEF TurnDown, Step, TypeOK, CP, disk, servers
<1> QED BY <1>1, <1>2, <1>3, <1>4, <1>5, <1>6, <1>7

LEMMA TypesStep == TypeOK /\ [Next]_vars => TypeOK'
<1> SUFFICES ASSUME TypeOK, [Next]_vars PROVE TypeOK'
  OBVIOUS
<1>1. CASE Replace
  <2>1. exe' \in Exes
    BY <1>1, ServeAssumption DEF Replace, TypeOK, Exes
  <2> QED BY <1>1, <2>1 DEF Replace, TypeOK, servers, callers
<1>2. ASSUME NEW s \in Servers, NEW v \in Environments, Start(s, v) PROVE TypeOK'
  <2>1. [exe |-> exe, env |-> v] \in Ids
    BY DEF TypeOK, Ids
  <2> QED BY <1>2, <2>1 DEF Start, Goto, TypeOK, SP, disk, callers
<1>3. ASSUME NEW c \in Callers, NEW v \in Environments, Call(c, v) PROVE TypeOK'
  <2>1. [exe |-> exe, env |-> v] \in Ids
    BY DEF TypeOK, Ids
  <2> QED BY <1>3, <2>1 DEF Call, Step, TypeOK, CP, disk, servers
<1>4. CASE UNCHANGED vars
  BY <1>4 DEF TypeOK, vars, disk, servers, callers
<1> QED BY <1>1, <1>2, <1>3, <1>4, Steps, TypesServer, TypesCaller

-----------------------------------------------------------------------------
(***************************************************************************)
(* Queues.                                                                 *)
(***************************************************************************)

LEMMA InEmpty == \A x : ~In(<<>>, x) /\ Single(<<>>, x)
BY DEF In, Single

LEMMA InAppend ==
    ASSUME NEW S, NEW q \in Seq(S), NEW x \in S, NEW y
    PROVE  /\ In(Append(q, x), y) <=> In(q, y) \/ y = x
           /\ Single(q, y) /\ (y = x => ~In(q, y)) => Single(Append(q, x), y)
<1>1. /\ DOMAIN q = 1..Len(q) /\ DOMAIN Append(q, x) = 1..(Len(q) + 1)
      /\ Len(q) \in Nat
      /\ \A i \in 1..Len(q) : Append(q, x)[i] = q[i]
      /\ Append(q, x)[Len(q) + 1] = x
  OBVIOUS
<1>2. \A i \in 1..(Len(q) + 1) : i \in 1..Len(q) \/ i = Len(q) + 1
  BY <1>1
<1>3. 1..Len(q) \subseteq 1..(Len(q) + 1) /\ Len(q) + 1 \in 1..(Len(q) + 1)
  BY <1>1
<1> DEFINE a == Append(q, x)
<1>4. DOMAIN a = 1..(Len(q) + 1) /\ (\A i \in 1..Len(q) : a[i] = q[i]) /\ a[Len(q) + 1] = x
  BY <1>1
<1> HIDE DEF a
<1>5. In(a, y) <=> In(q, y) \/ y = x
  BY <1>1, <1>2, <1>3, <1>4, Zenon DEF In
<1>6. Single(q, y) /\ (y = x => ~In(q, y)) => Single(a, y)
  BY <1>1, <1>2, <1>4, Zenon DEF In, Single
<1> QED BY <1>5, <1>6 DEF a

LEMMA InTail ==
    ASSUME NEW S, NEW q \in Seq(S), q # <<>>, NEW y
    PROVE  /\ In(q, y) <=> In(Tail(q), y) \/ y = Head(q)
           /\ Single(q, y) => Single(Tail(q), y) /\ (y = Head(q) => ~In(Tail(q), y))
<1>1. /\ Len(q) \in Nat \ {0} /\ DOMAIN q = 1..Len(q) /\ DOMAIN Tail(q) = 1..(Len(q) - 1)
      /\ \A i \in 1..(Len(q) - 1) : Tail(q)[i] = q[i + 1]
      /\ Head(q) = q[1]
  OBVIOUS
<1>2. \A i \in 1..Len(q) : i = 1 \/ (i - 1 \in 1..(Len(q) - 1) /\ Tail(q)[i - 1] = q[i])
  BY <1>1
<1>3. \A i \in 1..(Len(q) - 1) : i + 1 \in 1..Len(q) /\ i + 1 # 1
  BY <1>1
<1>4. 1 \in 1..Len(q)
  BY <1>1
<1>5. In(q, y) <=> In(Tail(q), y) \/ y = Head(q)
  BY <1>1, <1>2, <1>3, <1>4 DEF In
<1>6. ASSUME Single(q, y) PROVE Single(Tail(q), y) /\ (y = Head(q) => ~In(Tail(q), y))
  <2>1. ASSUME NEW i \in 1..(Len(q) - 1), NEW j \in 1..(Len(q) - 1), Tail(q)[i] = y, Tail(q)[j] = y
        PROVE  i = j
    <3>1. q[i + 1] = y /\ q[j + 1] = y /\ i + 1 \in DOMAIN q /\ j + 1 \in DOMAIN q
      BY <1>1, <1>3, <2>1
    <3>2. i + 1 = j + 1
      BY <1>6, <3>1 DEF Single
    <3> QED BY <3>2
  <2>2. ASSUME y = Head(q), NEW i \in 1..(Len(q) - 1), Tail(q)[i] = y PROVE FALSE
    <3>1. q[i + 1] = y /\ q[1] = y /\ i + 1 \in DOMAIN q /\ 1 \in DOMAIN q
      BY <1>1, <1>3, <1>4, <2>2
    <3>2. i + 1 = 1
      BY <1>6, <3>1 DEF Single
    <3> QED BY <1>3, <3>2
  <2> QED BY <1>1, <2>1, <2>2 DEF In, Single
<1> QED BY <1>5, <1>6

-----------------------------------------------------------------------------
(***************************************************************************)
(* Connections.                                                            *)
(***************************************************************************)

\* How the connections change.
Kept     == UNCHANGED <<backlog, conn>>
Joins(x) == \E t \in sock :
              /\ Listening(t) /\ UNCHANGED conn /\ backlog' = [backlog EXCEPT ![t] = Append(@, x)]
Drops(s) == UNCHANGED backlog /\ conn' = [conn EXCEPT ![s] = {}]
Loses(s) == backlog' = [backlog EXCEPT ![s] = <<>>] /\ conn' = [conn EXCEPT ![s] = {}]

LEMMA ConnectionSteps ==
    ASSUME [Next]_vars
    PROVE  \/ Kept
           \/ \E s \in Servers : Joins(s) /\ Probe(s)
           \/ \E c \in Callers : Joins(c) /\ Connect(c) /\ cpc[c] = "connect" /\ open' = [open EXCEPT ![c] = TRUE]
           \/ \E s \in Servers : Accept(s)
           \/ \E s \in Servers : Drops(s) /\ (Refuse(s) \/ Reply(s))
           \/ \E s \in Servers : Loses(s) /\ (Close(s) \/ KillServer(s))
<1>1. CASE \E s \in Servers : Probe(s)
  BY <1>1 DEF Probe, Kept, Joins
<1>2. CASE \E c \in Callers : Connect(c)
  BY <1>2 DEF Connect, Kept, Joins
<1>3. CASE \E s \in Servers : Refuse(s)
  BY <1>3 DEF Refuse, Dropped, Drops
<1>4. CASE \E s \in Servers : Reply(s)
  BY <1>4 DEF Reply, Dropped, Drops
<1>5. CASE \E s \in Servers : Close(s) \/ KillServer(s)
  BY <1>5 DEF Close, KillServer, End, Loses
<1>6. CASE Replace \/ UNCHANGED vars
  BY <1>6 DEF Replace, Kept, servers, vars
<1>7. CASE \E s \in Servers : Unlink(s) \/ Bind(s) \/ Run(s) \/ After(s) \/ Remove(s) \/ \E v \in Environments : Start(s, v)
  BY <1>7 DEF Unlink, Bind, Run, After, Remove, Start, Kept
<1>8. CASE \E c \in Callers : Identify(c) \/ Send(c) \/ Receive(c) \/ TurnDown(c) \/ Local(c) \/ KillCaller(c) \/ \E v \in Environments : Call(c, v)
  BY <1>8 DEF Identify, Send, Receive, TurnDown, Local, KillCaller, Call, Kept, servers
<1> QED BY <1>1, <1>2, <1>3, <1>4, <1>5, <1>6, <1>7, <1>8, Steps

\* Where a caller's connections come from.
LEMMA AtStep ==
    ASSUME TypeOK, [Next]_vars, NEW s \in Servers, NEW c \in Callers
    PROVE  /\ At(s, c)' => \/ At(s, c)
                           \/ /\ Connect(c) /\ cpc[c] = "connect" /\ open'[c]
                              /\ sock = {s} /\ Listening(s)
           /\ c \in conn'[s] => c \in conn[s] \/ (Accept(s) /\ In(backlog[s], c))
<1> USE DEF At
<1>1. CASE Kept
  BY <1>1 DEF Kept
<1>2. ASSUME NEW x \in Servers \cup Callers, Joins(x),
             x = c => Connect(c) /\ cpc[c] = "connect" /\ open' = [open EXCEPT ![c] = TRUE]
      PROVE  /\ At(s, c)' => \/ At(s, c)
                             \/ /\ Connect(c) /\ cpc[c] = "connect" /\ open'[c]
                                /\ sock = {s} /\ Listening(s)
             /\ c \in conn'[s] => c \in conn[s] \/ (Accept(s) /\ In(backlog[s], c))
  <2>1. PICK t \in sock : Listening(t) /\ UNCHANGED conn /\ backlog' = [backlog EXCEPT ![t] = Append(@, x)]
    BY <1>2 DEF Joins
  <2>2. t \in Servers /\ sock = {t}
    BY <2>1 DEF TypeOK
  <2>3. In(Append(backlog[t], x), c) <=> In(backlog[t], c) \/ c = x
    <3>1. backlog[t] \in Seq(Callers \cup Servers) /\ x \in Callers \cup Servers
      BY <2>2 DEF TypeOK
    <3> QED BY <3>1, InAppend
  <2>4. backlog'[s] = IF s = t THEN Append(backlog[t], x) ELSE backlog[s]
    BY <2>1, <2>2 DEF TypeOK
  <2> QED BY <1>2, <2>1, <2>2, <2>3, <2>4 DEF TypeOK
<1>3. ASSUME NEW t \in Servers, Accept(t)
      PROVE  /\ At(s, c)' => At(s, c)
             /\ c \in conn'[s] => c \in conn[s] \/ (Accept(s) /\ In(backlog[s], c))
  <2>1. In(backlog[t], c) <=> In(Tail(backlog[t]), c) \/ c = Head(backlog[t])
    <3>1. backlog[t] \in Seq(Callers \cup Servers) /\ backlog[t] # <<>>
      BY <1>3 DEF Accept, TypeOK
    <3> QED BY <3>1, InTail
  <2>2. /\ backlog'[s] = IF s = t THEN Tail(backlog[t]) ELSE backlog[s]
        /\ conn'[s] = IF s = t THEN {Head(backlog[t])} ELSE conn[s]
    BY <1>3 DEF Accept, TypeOK
  <2> QED BY <1>3, <2>1, <2>2
<1>4. ASSUME NEW t \in Servers, Drops(t) \/ Loses(t)
      PROVE  (At(s, c)' => At(s, c)) /\ (c \in conn'[s] => c \in conn[s])
  <2>1. /\ conn'[s] = IF s = t THEN {} ELSE conn[s]
        /\ backlog'[s] = backlog[s] \/ backlog'[s] = <<>>
    BY <1>4 DEF Drops, Loses, TypeOK
  <2> QED BY <2>1, InEmpty
<1> QED BY <1>1, <1>2, <1>3, <1>4, ConnectionSteps, ServeAssumption

-----------------------------------------------------------------------------
(***************************************************************************)
(* The parts of the invariant.                                             *)
(***************************************************************************)

LEMMA QuietStep == TypeOK /\ Quiet /\ [Next]_vars => Quiet'
<1> SUFFICES ASSUME TypeOK, Quiet, [Next]_vars PROVE Quiet'
  OBVIOUS
<1> USE DEF Quiet, Listening
<1>1. CASE UNCHANGED <<spc, backlog, conn>>
  BY <1>1
<1>2. ASSUME NEW x, Joins(x), UNCHANGED spc \/ \E s \in Servers : spc[s] = "probe" /\ Goto(s, "refused")
      PROVE  Quiet'
  <2>1. PICK t \in sock : Listening(t) /\ UNCHANGED conn /\ backlog' = [backlog EXCEPT ![t] = Append(@, x)]
    BY <1>2 DEF Joins
  <2> QED BY <1>2, <2>1 DEF TypeOK, Goto
<1>3. ASSUME NEW s \in Servers, Accept(s) PROVE Quiet'
  BY <1>3 DEF Accept, Goto, TypeOK
<1>4. ASSUME NEW s \in Servers, Refuse(s) PROVE Quiet'
  BY <1>4 DEF Refuse, Dropped, Goto, TypeOK
<1>5. ASSUME NEW s \in Servers, Reply(s) PROVE Quiet'
  BY <1>5 DEF Reply, Dropped, Goto, TypeOK
<1>6. ASSUME NEW s \in Servers, Close(s) \/ KillServer(s) PROVE Quiet'
  BY <1>6 DEF Close, KillServer, End, Goto, TypeOK
<1>7. ASSUME NEW s \in Servers,
             Unlink(s) \/ Bind(s) \/ Run(s) \/ After(s) \/ Remove(s) \/ \E v \in Environments : Start(s, v)
      PROVE  Quiet'
  <2>1. UNCHANGED <<backlog, conn>>
    BY <1>7 DEF Unlink, Bind, Run, After, Remove, Start
  <2>2. CASE Unlink(s) \/ \E v \in Environments : Start(s, v)
    BY <2>1, <2>2 DEF Unlink, Start, Goto, TypeOK
  <2>3. CASE Bind(s) \/ Remove(s)
    BY <2>1, <2>3 DEF Bind, Remove, Goto, TypeOK
  <2>4. CASE Run(s)
    <3>1. spc[s] = "answer" /\ Goto(s, "reply")
      BY <2>4 DEF Run
    <3> QED BY <2>1, <3>1 DEF Goto, TypeOK
  <2>5. CASE After(s)
    BY <2>1, <2>5 DEF After, Goto, TypeOK
  <2> QED BY <1>7, <2>2, <2>3, <2>4, <2>5
<1>8. ASSUME NEW s \in Servers, Probe(s) PROVE Quiet'
  <2>1. CASE Joins(s) /\ Goto(s, "refused")
    BY <1>2, <1>8, <2>1 DEF Probe
  <2>2. CASE UNCHANGED backlog /\ Goto(s, "unlink")
    <3>1. UNCHANGED conn
      BY <1>8 DEF Probe
    <3> QED BY <1>8, <2>2, <3>1 DEF Probe, Goto, TypeOK
  <2> QED BY <1>8, <2>1, <2>2 DEF Probe, Joins
<1>9. ASSUME NEW c \in Callers, Connect(c) PROVE Quiet'
  <2>1. CASE Joins(c)
    BY <1>2, <1>9, <2>1 DEF Connect
  <2>2. CASE ~Joins(c)
    BY <1>1, <1>9, <2>2 DEF Connect, Joins
  <2> QED BY <2>1, <2>2
<1>10. ASSUME NEW c \in Callers,
              Identify(c) \/ Send(c) \/ Receive(c) \/ TurnDown(c) \/ Local(c) \/ KillCaller(c) \/ \E v \in Environments : Call(c, v)
       PROVE  Quiet'
  BY <1>1, <1>10 DEF Identify, Send, Receive, TurnDown, Local, KillCaller, Call, servers
<1>11. CASE Replace \/ UNCHANGED vars
  BY <1>1, <1>11 DEF Replace, vars, servers
<1> QED BY <1>3, <1>4, <1>5, <1>6, <1>7, <1>8, <1>9, <1>10, <1>11, Steps

LEMMA OnceStep == TypeOK /\ Once /\ Held /\ Phases /\ [Next]_vars => Once'
<1> SUFFICES ASSUME TypeOK, Once, Held, Phases, [Next]_vars,
                    NEW c \in Callers, NEW s \in Servers
             PROVE  /\ \A t \in Servers : At(s, c)' /\ At(t, c)' => s = t
                    /\ c \in conn'[s] => ~In(backlog'[s], c)
                    /\ Single(backlog'[s], c)
  BY DEF Once, At
<1>1. ASSUME NEW t \in Servers, At(s, c)', At(t, c)' PROVE s = t
  <2>1. CASE Connect(c) /\ cpc[c] = "connect"
    <3>1. ~At(s, c) /\ ~At(t, c)
      BY <2>1 DEF Held, Phases
    <3>2. sock = {s} /\ sock = {t}
      BY <1>1, <3>1, AtStep
    <3> QED BY <3>2
  <2>2. CASE ~(Connect(c) /\ cpc[c] = "connect")
    BY <1>1, <2>2, AtStep DEF Once
  <2> QED BY <2>1, <2>2
<1>2. (c \in conn[s] => ~In(backlog[s], c)) /\ Single(backlog[s], c)
  BY DEF Once
<1>3. Kept => (c \in conn'[s] => ~In(backlog'[s], c)) /\ Single(backlog'[s], c)
  BY <1>2 DEF Kept
<1>4. ASSUME NEW x \in Servers \cup Callers, Joins(x), x = c => cpc[c] = "connect"
      PROVE  (c \in conn'[s] => ~In(backlog'[s], c)) /\ Single(backlog'[s], c)
  <2>1. PICK t \in sock : Listening(t) /\ UNCHANGED conn /\ backlog' = [backlog EXCEPT ![t] = Append(@, x)]
    BY <1>4 DEF Joins
  <2>2. backlog'[s] = IF s = t THEN Append(backlog[s], x) ELSE backlog[s]
    BY <2>1 DEF TypeOK
  <2>3. x = c => ~At(s, c)
    BY <1>4 DEF Held, Phases
  <2>4. backlog[s] \in Seq(Callers \cup Servers)
    BY DEF TypeOK
  <2>5. /\ In(Append(backlog[s], x), c) <=> In(backlog[s], c) \/ c = x
        /\ Single(backlog[s], c) /\ (c = x => ~In(backlog[s], c)) => Single(Append(backlog[s], x), c)
    BY <2>4, InAppend
  <2> QED BY <1>2, <2>1, <2>2, <2>3, <2>5 DEF At
<1>5. ASSUME NEW t \in Servers, Accept(t)
      PROVE  (c \in conn'[s] => ~In(backlog'[s], c)) /\ Single(backlog'[s], c)
  <2>1. /\ backlog'[s] = IF s = t THEN Tail(backlog[s]) ELSE backlog[s]
        /\ conn'[s] = IF s = t THEN {Head(backlog[s])} ELSE conn[s]
    BY <1>5 DEF Accept, TypeOK
  <2>2. backlog[t] \in Seq(Callers \cup Servers) /\ backlog[t] # <<>>
    BY <1>5 DEF Accept, TypeOK
  <2>3. s = t => (Single(backlog[s], c) => /\ Single(Tail(backlog[s]), c)
                                           /\ c = Head(backlog[s]) => ~In(Tail(backlog[s]), c))
    BY <2>2, InTail
  <2> QED BY <1>2, <2>1, <2>3
<1>6. ASSUME NEW t \in Servers, Drops(t) \/ Loses(t)
      PROVE  (c \in conn'[s] => ~In(backlog'[s], c)) /\ Single(backlog'[s], c)
  <2>1. /\ conn'[s] = IF s = t THEN {} ELSE conn[s]
        /\ backlog'[s] = backlog[s] \/ backlog'[s] = <<>>
    BY <1>6 DEF Drops, Loses, TypeOK
  <2> QED BY <1>2, <2>1, InEmpty
<1> QED BY <1>1, <1>3, <1>4, <1>5, <1>6, ConnectionSteps, ServeAssumption

\* A caller's connection is closed by its end or by the server that has it.
LEMMA CloseStep ==
    ASSUME TypeOK, Once, [Next]_vars, NEW s \in Servers, NEW c \in Callers, At(s, c), open[c]
    PROVE  open'[c] \/ KillCaller(c) \/ TurnDown(c) \/ ~At(s, c)'
<1>1. CASE UNCHANGED open
  BY <1>1
<1>2. ASSUME NEW t \in Servers, Refuse(t) \/ Reply(t), ~open'[c] PROVE ~At(s, c)'
  <2>1. c \in conn[t] /\ Drops(t)
    BY <1>2 DEF Refuse, Reply, Dropped, Drops, TypeOK
  <2>2. s = t /\ ~In(backlog[t], c)
    BY <2>1 DEF Once, At
  <2> QED BY <2>1, <2>2 DEF Drops, At, TypeOK
<1>3. ASSUME NEW t \in Servers, Close(t) \/ KillServer(t), ~open'[c] PROVE ~At(s, c)'
  <2>1. c \in Hangup(t) /\ Loses(t)
    BY <1>3 DEF Close, KillServer, End, Loses
  <2>2. s = t
    BY <2>1 DEF Once, At, In, Hangup
  <2>3. backlog'[s] = <<>> /\ conn'[s] = {}
    BY <2>1, <2>2 DEF Loses, TypeOK
  <2> QED BY <2>3, InEmpty DEF At
<1>4. ASSUME NEW d \in Callers, Connect(d) \/ KillCaller(d) \/ TurnDown(d)
      PROVE  open'[c] \/ KillCaller(c) \/ TurnDown(c)
  BY <1>4 DEF Connect, KillCaller, TurnDown, TypeOK
<1>5. CASE Replace \/ UNCHANGED vars
  BY <1>1, <1>5 DEF Replace, vars, callers
<1>6. ASSUME NEW t \in Servers,
             \/ Probe(t) \/ Unlink(t) \/ Bind(t) \/ Accept(t) \/ Run(t) \/ After(t) \/ Remove(t)
             \/ \E v \in Environments : Start(t, v)
      PROVE  UNCHANGED open
  BY <1>6 DEF Probe, Unlink, Bind, Accept, Run, After, Remove, Start, callers
<1>7. ASSUME NEW d \in Callers,
             Identify(d) \/ Send(d) \/ Receive(d) \/ Local(d) \/ \E v \in Environments : Call(d, v)
      PROVE  UNCHANGED open
  BY <1>7 DEF Identify, Send, Receive, Local, Call
<1> QED BY <1>1, <1>2, <1>3, <1>4, <1>5, <1>6, <1>7, Steps

\* A caller that is killed stays so.
LEMMA KilledStays ==
    ASSUME TypeOK, [Next]_vars, NEW c \in Callers, cpc[c] = "killed"
    PROVE  cpc'[c] = "killed"
<1>1. ASSUME NEW s \in Servers,
             \/ Probe(s) \/ Unlink(s) \/ Bind(s) \/ Accept(s) \/ Refuse(s) \/ Run(s) \/ Reply(s)
             \/ After(s) \/ Remove(s) \/ Close(s) \/ KillServer(s) \/ \E v \in Environments : Start(s, v)
      PROVE  UNCHANGED cpc
  BY <1>1 DEF Probe, Unlink, Bind, Accept, Refuse, Run, Reply, After, Remove, Close, KillServer, End, Start, callers
<1>2. ASSUME NEW d \in Callers,
             \/ Connect(d) \/ Identify(d) \/ Send(d) \/ Receive(d) \/ TurnDown(d) \/ Local(d) \/ KillCaller(d)
             \/ \E v \in Environments : Call(d, v)
      PROVE  cpc[d] # "killed" /\ \E to : Step(d, to)
  BY <1>2 DEF Connect, Identify, Send, Receive, TurnDown, Local, KillCaller, Call
<1>3. CASE Replace \/ UNCHANGED vars
  BY <1>3 DEF Replace, vars, callers
<1> QED BY <1>1, <1>2, <1>3, Steps DEF Step, TypeOK

LEMMA PhasesStep == TypeOK /\ Phases /\ Replies /\ [Next]_vars => Phases'
<1> SUFFICES ASSUME TypeOK, Phases, Replies, [Next]_vars PROVE Phases'
  OBVIOUS
<1>1. CASE UNCHANGED <<cpc, name, open, sent, reply, ran, lost>>
  BY <1>1 DEF Phases
<1>2. ASSUME NEW s \in Servers, Refuse(s) PROVE Phases'
  <2>1. UNCHANGED <<cpc, name, sent, ran, lost>>
    BY <1>2 DEF Refuse
  <2>2. ASSUME NEW c \in Callers
        PROVE  /\ open'[c] => open[c] /\ reply'[c] = reply[c]
               /\ reply'[c] # reply[c] => reply'[c] = "refused" /\ open[c]
    BY <1>2 DEF Refuse, Delivered, Undelivered, Dropped, TypeOK
  <2> QED BY <2>1, <2>2 DEF Phases
<1>3. ASSUME NEW s \in Servers, Run(s) PROVE Phases'
  <2>1. PICK c \in conn[s] \cap Callers :
             /\ sent[c] /\ ran' = [ran EXCEPT ![c] = @ \cup {[by |-> "server", id |-> me[s]]}]
             /\ UNCHANGED <<cpc, name, open, sent, reply, lost>>
    BY <1>3 DEF Run, Heard
  <2>2. cpc[c] \notin {"off", "connect", "identify", "send"}
    BY <2>1 DEF Phases
  <2>3. ASSUME NEW d \in Callers PROVE ran'[d] = IF d = c THEN ran[c] \cup {[by |-> "server", id |-> me[s]]} ELSE ran[d]
    BY <2>1 DEF TypeOK
  <2>4. \A r : r \in ran'[c] => r \in ran[c] \/ r.by = "server"
    BY <2>3
  <2>5. ran'[c] # {}
    BY <2>3
  <2> QED BY <2>1, <2>2, <2>3, <2>4, <2>5 DEF Phases
<1>4. ASSUME NEW s \in Servers, Reply(s) PROVE Phases'
  <2>1. PICK c \in conn[s] \cap Callers :
             /\ spc[s] = "reply" /\ (Delivered(c, "done") \/ Undelivered)
             /\ open' = [open EXCEPT ![c] = FALSE] /\ UNCHANGED <<cpc, name, sent, ran>>
             /\ lost' \subseteq lost \cup {c}
    BY <1>4 DEF Reply, Dropped
  <2>2. sent[c] /\ ran[c] # {}
    BY <2>1 DEF Replies
  <2>3. open[c] => cpc[c] = "wait"
    BY <2>2 DEF Phases
  <2>4. ASSUME NEW d \in Callers
        PROVE  /\ d # c => reply'[d] = reply[d]
               /\ reply'[c] = reply[c] \/ (open[c] /\ reply'[c] = "done")
               /\ open'[d] = IF d = c THEN FALSE ELSE open[d]
    BY <2>1 DEF Delivered, Undelivered, TypeOK
  <2>5. ~open'[c] /\ (reply'[c] = reply[c] \/ (cpc[c] = "wait" /\ reply'[c] = "done"))
    BY <2>3, <2>4
  <2>6. \A d \in Callers : d # c => reply'[d] = reply[d] /\ open'[d] = open[d]
    BY <2>4
  <2> QED BY <2>1, <2>2, <2>5, <2>6 DEF Phases
<1>5. ASSUME NEW s \in Servers, Close(s) \/ KillServer(s) PROVE Phases'
  <2>1. UNCHANGED <<cpc, name, sent, reply, ran>> /\ \A c \in Callers : open'[c] => open[c]
    BY <1>5 DEF Close, KillServer, End
  <2>2. \A c \in Callers : c \in lost' => c \in lost \/ sent[c]
    BY <1>5 DEF Close, KillServer, End, Replies
  <2> QED BY <2>1, <2>2 DEF Phases
<1>6. ASSUME NEW c \in Callers, NEW v \in Environments, Call(c, v) PROVE Phases'
  <2>1. cpc[c] = "off" /\ UNCHANGED <<name, open, sent, reply, ran, lost>>
    BY <1>6 DEF Call
  <2>2. \/ cpc' = [cpc EXCEPT ![c] = "connect"] \/ cpc' = [cpc EXCEPT ![c] = "local"]
    BY <1>6 DEF Call, Step
  <2> QED BY <2>1, <2>2 DEF Phases, TypeOK
<1>7. ASSUME NEW c \in Callers, Connect(c) PROVE Phases'
  <2>1. UNCHANGED <<name, sent, reply, ran, lost>> /\ cpc[c] = "connect"
    BY <1>7 DEF Connect
  <2>2. \/ Step(c, "identify") /\ open' = [open EXCEPT ![c] = TRUE]
        \/ Step(c, "local") /\ UNCHANGED open
    BY <1>7 DEF Connect
  <2> QED BY <2>1, <2>2 DEF Phases, Step, TypeOK
<1>8. ASSUME NEW c \in Callers, Identify(c) PROVE Phases'
  BY <1>8 DEF Identify, Step, Phases, TypeOK
<1>9. ASSUME NEW c \in Callers, Send(c) PROVE Phases'
  BY <1>9 DEF Send, Step, Phases, TypeOK
<1>10. ASSUME NEW c \in Callers, Receive(c) PROVE Phases'
  BY <1>10 DEF Receive, Answered, Then, Step, Phases, TypeOK
<1>11. ASSUME NEW c \in Callers, Local(c) PROVE Phases'
  <2>1. /\ UNCHANGED <<name, open, sent, reply, lost>> /\ cpc[c] = "local"
        /\ \A d \in Callers : cpc'[d] = IF d = c THEN "done" ELSE cpc[d]
        /\ \A d \in Callers : ran'[d] = IF d = c THEN ran[c] \cup {[by |-> "self", id |-> self[c]]} ELSE ran[d]
    BY <1>11 DEF Local, Step, TypeOK
  <2>2. ran'[c] # {}
    BY <2>1
  <2> QED BY <2>1, <2>2 DEF Phases
<1>12. ASSUME NEW c \in Callers, KillCaller(c) PROVE Phases'
  BY <1>12 DEF KillCaller, Step, Phases, TypeOK
<1>13. ASSUME NEW c \in Callers, TurnDown(c) PROVE Phases'
  BY <1>13 DEF TurnDown, Step, Phases, TypeOK
<1>14. ASSUME NEW s \in Servers,
              \/ Probe(s) \/ Unlink(s) \/ Bind(s) \/ Accept(s) \/ After(s) \/ Remove(s)
              \/ \E v \in Environments : Start(s, v)
       PROVE  Phases'
  BY <1>1, <1>14 DEF Probe, Unlink, Bind, Accept, After, Remove, Start, callers
<1>15. CASE Replace \/ UNCHANGED vars
  BY <1>1, <1>15 DEF Replace, vars, callers
<1> QED BY <1>2, <1>3, <1>4, <1>5, <1>6, <1>7, <1>8, <1>9, <1>10, <1>11, <1>12, <1>13, <1>14, <1>15, Steps

\* What a call has done stays done.
LEMMA Growing ==
    ASSUME TypeOK, Phases, [Next]_vars, NEW c \in Callers
    PROVE  /\ ran[c] \subseteq ran'[c]
           /\ sent[c] => sent'[c]
           /\ reply[c] = "done" => reply'[c] = "done"
           /\ c \in lost => c \in lost'
<1>1. ASSUME NEW s \in Servers, Refuse(s)
      PROVE  UNCHANGED <<sent, ran, lost>> /\ (reply[c] = "done" => reply'[c] = "done")
  BY <1>1 DEF Refuse, Delivered, Undelivered, TypeOK, Phases
<1>2. ASSUME NEW s \in Servers, Reply(s)
      PROVE  /\ UNCHANGED <<sent, ran>> /\ lost \subseteq lost'
             /\ reply[c] = "done" => reply'[c] = "done"
  BY <1>2 DEF Reply, Delivered, Undelivered, TypeOK
<1>3. ASSUME NEW s \in Servers, Run(s) PROVE UNCHANGED <<sent, reply, lost>> /\ ran[c] \subseteq ran'[c]
  BY <1>3 DEF Run, TypeOK
<1>4. ASSUME NEW s \in Servers,
             \/ Probe(s) \/ Unlink(s) \/ Bind(s) \/ Accept(s) \/ After(s) \/ Remove(s)
             \/ Close(s) \/ KillServer(s) \/ \E v \in Environments : Start(s, v)
      PROVE  UNCHANGED <<sent, reply, ran>> /\ lost \subseteq lost'
  BY <1>4 DEF Probe, Unlink, Bind, Accept, After, Remove, Close, KillServer, End, Start, callers
<1>5. ASSUME NEW d \in Callers, Send(d) PROVE UNCHANGED <<reply, ran, lost>> /\ (sent[c] => sent'[c])
  BY <1>5 DEF Send, TypeOK, Phases
<1>6. ASSUME NEW d \in Callers, Local(d) PROVE UNCHANGED <<sent, reply, lost>> /\ ran[c] \subseteq ran'[c]
  BY <1>6 DEF Local, TypeOK
<1>7. ASSUME NEW d \in Callers,
             \/ Connect(d) \/ Identify(d) \/ Receive(d) \/ TurnDown(d) \/ KillCaller(d)
             \/ \E v \in Environments : Call(d, v)
      PROVE  UNCHANGED <<sent, reply, ran>> /\ lost \subseteq lost'
  BY <1>7 DEF Connect, Identify, Receive, TurnDown, KillCaller, Call
<1>8. CASE Replace \/ UNCHANGED vars
  BY <1>8 DEF Replace, vars, callers
<1> QED BY <1>1, <1>2, <1>3, <1>4, <1>5, <1>6, <1>7, <1>8, Steps

\* A server that is to reply keeps its connection until it does so or is killed.
LEMMA ReplyStep ==
    ASSUME TypeOK, [Next]_vars, NEW s \in Servers
    PROVE  /\ spc[s] = "reply" => \/ spc'[s] = "reply" /\ conn'[s] = conn[s]
                                  \/ Reply(s) \/ KillServer(s)
           /\ spc'[s] = "reply" => spc[s] = "reply" \/ Run(s)
<1> DEFINE P == /\ spc[s] = "reply" => \/ spc'[s] = "reply" /\ conn'[s] = conn[s]
                                       \/ Reply(s) \/ KillServer(s)
                /\ spc'[s] = "reply" => spc[s] = "reply" \/ Run(s)
<1>1. UNCHANGED <<spc, conn>> => P
  OBVIOUS
<1>2. ASSUME NEW t \in Servers, Probe(t) \/ Unlink(t) \/ Bind(t) \/ After(t) \/ Remove(t)
      PROVE  P
  BY <1>2 DEF Probe, Unlink, Bind, After, Remove, Goto, TypeOK
<1>3. ASSUME NEW t \in Servers, NEW v \in Environments, Start(t, v) PROVE P
  BY <1>3 DEF Start, Goto, TypeOK
<1>4. ASSUME NEW t \in Servers, Accept(t) PROVE P
  BY <1>4 DEF Accept, Goto, TypeOK
<1>5. ASSUME NEW t \in Servers, Refuse(t) PROVE P
  BY <1>5 DEF Refuse, Dropped, Goto, TypeOK
<1>6. ASSUME NEW t \in Servers, Run(t) PROVE P
  <2>1. spc[t] = "answer" /\ Goto(t, "reply") /\ UNCHANGED conn
    BY <1>6 DEF Run
  <2> QED BY <1>6, <2>1 DEF Goto, TypeOK
<1>7. ASSUME NEW t \in Servers, Reply(t) PROVE P
  <2>1. spc[t] = "reply" /\ Goto(t, "after") /\ conn' = [conn EXCEPT ![t] = {}]
    BY <1>7 DEF Reply, Dropped
  <2> QED BY <1>7, <2>1 DEF Goto, TypeOK
<1>8. ASSUME NEW t \in Servers, Close(t) \/ KillServer(t) PROVE P
  BY <1>8 DEF Close, KillServer, End, Goto, TypeOK
<1>9. ASSUME NEW c \in Callers,
             \/ Connect(c) \/ Identify(c) \/ Send(c) \/ Receive(c) \/ TurnDown(c) \/ Local(c) \/ KillCaller(c)
             \/ \E v \in Environments : Call(c, v)
      PROVE  UNCHANGED <<spc, conn>>
  BY <1>9 DEF Connect, Identify, Send, Receive, TurnDown, Local, KillCaller, Call, servers
<1>10. ASSUME Replace \/ UNCHANGED vars PROVE P
  BY <1>1, <1>10 DEF Replace, vars, servers
<1> HIDE DEF P
<1>11. P
  BY <1>1, <1>2, <1>3, <1>4, <1>5, <1>6, <1>7, <1>8, <1>9, <1>10, Steps
<1> QED BY <1>11 DEF P

LEMMA HeldStep == TypeOK /\ Once /\ Held /\ Phases /\ [Next]_vars => Held'
<1> SUFFICES ASSUME TypeOK, Once, Held, Phases, [Next]_vars,
                    NEW c \in Callers, NEW s \in Servers, At(s, c)'
             PROVE  \/ open'[c] \/ cpc'[c] = "killed"
                    \/ c \in lost' /\ spc'[s] = "reply" /\ c \in conn'[s]
  BY DEF Held, At
<1>1. CASE ~At(s, c)
  BY <1>1, AtStep
<1>2. CASE At(s, c) /\ open[c]
  <2>1. KillCaller(c) => cpc'[c] = "killed"
    BY DEF KillCaller, Step, TypeOK
  <2>2. ASSUME TurnDown(c) PROVE c \in lost' /\ spc'[s] = "reply" /\ c \in conn'[s]
    <3>1. PICK t \in Servers : spc[t] = "reply" /\ c \in conn[t]
      BY <2>2 DEF TurnDown
    <3>2. s = t
      BY <1>2, <3>1 DEF Once, At
    <3> QED BY <2>2, <3>1, <3>2 DEF TurnDown, servers
  <2> QED BY <1>2, <2>1, <2>2, CloseStep
<1>3. CASE At(s, c) /\ cpc[c] = "killed"
  BY <1>3, KilledStays
<1>4. CASE c \in lost /\ spc[s] = "reply" /\ c \in conn[s]
  <2>1. c \in lost' /\ ~In(backlog[s], c)
    BY <1>4, Growing DEF Once
  <2>2. ASSUME Reply(s) PROVE FALSE
    <3>1. conn'[s] = {} /\ backlog'[s] = backlog[s]
      BY <2>2 DEF Reply, Dropped, TypeOK
    <3> QED BY <2>1, <3>1 DEF At
  <2>3. ASSUME KillServer(s) PROVE FALSE
    <3>1. conn'[s] = {} /\ backlog'[s] = <<>>
      BY <2>3 DEF KillServer, End, TypeOK
    <3> QED BY <3>1, InEmpty DEF At
  <2> QED BY <1>4, <2>1, <2>2, <2>3, ReplyStep
<1> QED BY <1>1, <1>2, <1>3, <1>4 DEF Held

LEMMA RepliesStep == TypeOK /\ Quiet /\ Phases /\ Replies /\ [Next]_vars => Replies'
<1> SUFFICES ASSUME TypeOK, Quiet, Phases, Replies, [Next]_vars,
                    NEW s \in Servers, spc'[s] = "reply", NEW x \in conn'[s]
             PROVE  x \in Callers /\ sent'[x] /\ ran'[x] # {}
  BY DEF Replies
<1>1. CASE spc[s] = "reply"
  <2>1. spc'[s] = "reply" /\ conn'[s] = conn[s]
    <3>1. (Reply(s) => spc'[s] = "after") /\ (KillServer(s) => spc'[s] = "killed")
      BY DEF Reply, KillServer, Goto, TypeOK
    <3> QED BY <1>1, <3>1, ReplyStep
  <2>2. x \in Callers /\ sent[x] /\ ran[x] # {}
    BY <1>1, <2>1 DEF Replies
  <2>3. ran[x] \subseteq ran'[x] /\ sent'[x]
    BY <2>2, Growing
  <2> QED BY <2>2, <2>3
<1>2. CASE Run(s)
  <2>1. PICK c \in conn[s] \cap Callers :
             /\ sent[c] /\ ran' = [ran EXCEPT ![c] = @ \cup {[by |-> "server", id |-> me[s]]}]
             /\ UNCHANGED <<sent, conn>>
    BY <1>2 DEF Run, Heard
  <2>2. x = c
    BY <2>1 DEF Quiet
  <2>3. ran'[c] # {}
    BY <2>1 DEF TypeOK
  <2> QED BY <2>1, <2>2, <2>3
<1> QED BY <1>1, <1>2, ReplyStep

LEMMA RanByServerStep ==
    TypeOK /\ Quiet /\ Phases /\ RanByServer /\ [Next]_vars => RanByServer'
<1> SUFFICES ASSUME TypeOK, Quiet, Phases, RanByServer, [Next]_vars,
                    NEW c \in Callers, NEW r \in ran'[c], r.by = "server"
             PROVE  \/ reply'[c] = "done" \/ c \in lost'
                    \/ \E s \in Servers : spc'[s] = "reply" /\ c \in conn'[s]
  BY DEF RanByServer
<1>1. CASE reply[c] = "done" \/ c \in lost
  BY <1>1, Growing
<1>2. ASSUME NEW s \in Servers, spc[s] = "reply", c \in conn[s]
      PROVE  \/ reply'[c] = "done" \/ c \in lost'
             \/ spc'[s] = "reply" /\ c \in conn'[s]
  <2>1. CASE Reply(s)
    <3>1. PICK d \in conn[s] \cap Callers :
               \/ reply' = [reply EXCEPT ![d] = "done"]
               \/ lost' = lost \cup {d}
      BY <2>1 DEF Reply, Delivered
    <3>2. d = c
      BY <1>2, <3>1 DEF Quiet
    <3> QED BY <3>1, <3>2 DEF TypeOK
  <2>2. CASE KillServer(s)
    BY <1>2, <2>2 DEF KillServer, End
  <2> QED BY <1>2, <2>1, <2>2, ReplyStep
<1>3. CASE r \in ran[c]
  BY <1>1, <1>2, <1>3 DEF RanByServer
<1>4. CASE r \notin ran[c]
  <2>1. ASSUME NEW s \in Servers, Run(s) PROVE spc'[s] = "reply" /\ c \in conn'[s]
    <3>1. PICK d \in conn[s] \cap Callers :
               /\ ran' = [ran EXCEPT ![d] = @ \cup {[by |-> "server", id |-> me[s]]}]
               /\ Goto(s, "reply") /\ UNCHANGED conn
      BY <2>1 DEF Run
    <3>2. d = c
      BY <1>4, <3>1 DEF TypeOK
    <3> QED BY <3>1, <3>2 DEF Goto, TypeOK
  <2>2. ASSUME NEW d \in Callers, Local(d) PROVE FALSE
    <3>1. ran' = [ran EXCEPT ![d] = @ \cup {[by |-> "self", id |-> self[d]]}]
      BY <2>2 DEF Local
    <3>2. ran'[c] \subseteq ran[c] \cup {[by |-> "self", id |-> self[d]]}
      BY <3>1 DEF TypeOK
    <3> QED BY <1>4, <3>2
  <2>3. ASSUME UNCHANGED ran PROVE FALSE
    BY <1>4, <2>3
  <2>4. ASSUME NEW s \in Servers,
               \/ Probe(s) \/ Unlink(s) \/ Bind(s) \/ Accept(s) \/ Refuse(s) \/ Reply(s) \/ After(s)
               \/ Remove(s) \/ Close(s) \/ KillServer(s) \/ \E v \in Environments : Start(s, v)
        PROVE  UNCHANGED ran
    BY <2>4 DEF Probe, Unlink, Bind, Accept, Refuse, Reply, After, Remove, Close, KillServer, End, Start, callers
  <2>5. ASSUME NEW d \in Callers,
               \/ Connect(d) \/ Identify(d) \/ Send(d) \/ Receive(d) \/ TurnDown(d) \/ KillCaller(d)
               \/ \E v \in Environments : Call(d, v)
        PROVE  UNCHANGED ran
    BY <2>5 DEF Connect, Identify, Send, Receive, TurnDown, KillCaller, Call
  <2>6. Replace \/ UNCHANGED vars => UNCHANGED ran
    BY DEF Replace, vars, callers
  <2> QED BY <2>1, <2>2, <2>3, <2>4, <2>5, <2>6, Steps
<1> QED BY <1>3, <1>4

\* Identities are taken when a process starts, and the name when it is asked for.
LEMMA IdentityStep ==
    ASSUME TypeOK, [Next]_vars
    PROVE  /\ exe <= exe'
           /\ \A s \in Servers :
                 /\ me'[s] # me[s] => spc[s] = "off" /\ me'[s].exe = exe'
                 /\ changed'[s] # changed[s] => Accept(s)
           /\ \A c \in Callers :
                 /\ self'[c] # self[c] => cpc[c] = "off" /\ self'[c].exe = exe'
                 /\ name'[c] # name[c] => name'[c] = Name(c) /\ UNCHANGED <<exe, self, me, conn, backlog>>
<1> DEFINE P == /\ exe <= exe'
                /\ \A s \in Servers :
                      /\ me'[s] # me[s] => spc[s] = "off" /\ me'[s].exe = exe'
                      /\ changed'[s] # changed[s] => Accept(s)
                /\ \A c \in Callers :
                      /\ self'[c] # self[c] => cpc[c] = "off" /\ self'[c].exe = exe'
                      /\ name'[c] # name[c] => name'[c] = Name(c) /\ UNCHANGED <<exe, self, me, conn, backlog>>
<1>0. exe \in Nat
  BY ServeAssumption DEF TypeOK, Exes
<1>1. UNCHANGED <<exe, me, self, name, changed>> => P
  BY <1>0
<1>2. ASSUME Replace PROVE P
  BY <1>0, <1>2 DEF Replace, servers, callers
<1>3. ASSUME NEW t \in Servers, NEW v \in Environments, Start(t, v) PROVE P
  BY <1>0, <1>3 DEF Start, TypeOK, disk, callers
<1>4. ASSUME NEW d \in Callers, NEW v \in Environments, Call(d, v) PROVE P
  BY <1>0, <1>4 DEF Call, TypeOK, disk, servers
<1>5. ASSUME NEW d \in Callers, Identify(d) PROVE P
  BY <1>0, <1>5 DEF Identify, TypeOK, disk, servers
<1>6. ASSUME NEW t \in Servers, Accept(t) PROVE P
  <2>1. UNCHANGED <<exe, me, self, name>> /\ \A s \in Servers : s # t => changed'[s] = changed[s]
    BY <1>6 DEF Accept, TypeOK, disk, callers
  <2> QED BY <1>0, <1>6, <2>1
<1>7. ASSUME NEW t \in Servers,
             \/ Probe(t) \/ Unlink(t) \/ Bind(t) \/ Refuse(t) \/ Run(t) \/ Reply(t) \/ After(t)
             \/ Remove(t) \/ Close(t) \/ KillServer(t)
      PROVE  UNCHANGED <<exe, me, self, name, changed>>
  BY <1>7 DEF Probe, Unlink, Bind, Refuse, Run, Reply, After, Remove, Close, KillServer, End, disk, callers
<1>8. ASSUME NEW d \in Callers, Connect(d) \/ Send(d) \/ Receive(d) \/ TurnDown(d) \/ Local(d) \/ KillCaller(d)
      PROVE  UNCHANGED <<exe, me, self, name, changed>>
  BY <1>8 DEF Connect, Send, Receive, TurnDown, Local, KillCaller, disk, servers
<1>9. UNCHANGED vars => UNCHANGED <<exe, me, self, name, changed>>
  BY DEF vars, disk, servers, callers
<1> HIDE DEF P
<1>10. P
  BY <1>1, <1>2, <1>3, <1>4, <1>5, <1>6, <1>7, <1>8, <1>9, Steps
<1> QED BY <1>10 DEF P

LEMMA OrderStep ==
    TypeOK /\ TypeOK' /\ Quiet /\ Held /\ Phases /\ Order /\ [Next]_vars => Order'
<1> SUFFICES ASSUME TypeOK, TypeOK', Quiet, Held, Phases, Order, [Next]_vars PROVE Order'
  OBVIOUS
<1>1. exe \in Nat /\ exe' \in Nat /\ exe <= exe'
  BY ServeAssumption, IdentityStep DEF TypeOK, Exes
<1>2. ASSUME NEW s \in Servers
      PROVE  me[s].exe \in Nat /\ me'[s].exe \in Nat /\ me'[s].exe <= exe'
  <2>1. me[s].exe \in Nat /\ me'[s].exe \in Nat
    BY ServeAssumption DEF TypeOK, Ids, Exes
  <2> QED BY <1>1, <2>1, IdentityStep DEF Order
<1>3. ASSUME NEW c \in Callers
      PROVE  self[c].exe \in Nat /\ self'[c].exe \in Nat /\ self'[c].exe <= exe'
  <2>1. self[c].exe \in Nat /\ self'[c].exe \in Nat
    BY ServeAssumption DEF TypeOK, Ids, Exes
  <2> QED BY <1>1, <2>1, IdentityStep DEF Order
\* Those who are connected keep their identities.
<1>4. ASSUME NEW s \in Servers, NEW c \in Callers, At(s, c)
      PROVE  me'[s] = me[s] /\ self'[c] = self[c]
  <2>1. spc[s] # "off"
    <3>1. spc[s] = "off" => backlog[s] = <<>> /\ conn[s] = {}
      BY DEF Quiet, Listening
    <3> QED BY <1>4, <3>1, InEmpty DEF At
  <2>2. cpc[c] # "off"
    BY <1>4 DEF Held, Phases
  <2> QED BY <2>1, <2>2, IdentityStep
<1>5. ASSUME NEW s \in Servers, NEW c \in Callers, At(s, c)', name'[c] = "named"
      PROVE  me'[s].exe <= self'[c].exe
  <2>1. CASE name'[c] # name[c]
    <3>1. name'[c] = Name(c) /\ UNCHANGED <<exe, self, me>>
      BY <2>1, IdentityStep
    <3>2. self[c].exe = exe
      BY <1>5, <3>1 DEF Name
    <3> QED BY <3>1, <3>2 DEF Order
  <2>2. CASE name'[c] = name[c]
    <3>1. At(s, c)
      <4>1. ASSUME cpc[c] = "connect" PROVE FALSE
        BY <1>5, <2>2, <4>1 DEF Phases
      <4> QED BY <1>5, <4>1, AtStep
    <3> QED BY <1>4, <1>5, <2>2, <3>1 DEF Order
  <2> QED BY <2>1, <2>2
<1>6. ASSUME NEW s \in Servers, NEW c \in Callers, c \in conn'[s], ~changed'[s]
      PROVE  self'[c].exe <= me'[s].exe
  <2>1. At(s, c)
    BY <1>6, AtStep DEF At
  <2>2. me'[s] = me[s] /\ self'[c] = self[c]
    BY <1>4, <2>1
  <2>3. CASE Accept(s)
    <3>1. exe = me[s].exe
      BY <1>6, <2>3 DEF Accept, HasChanged, TypeOK
    <3> QED BY <2>2, <3>1 DEF Order
  <2>4. CASE ~Accept(s)
    <3>1. c \in conn[s] /\ changed'[s] = changed[s]
      BY <1>6, <2>4, AtStep, IdentityStep
    <3> QED BY <1>6, <2>2, <3>1 DEF Order
  <2> QED BY <2>3, <2>4
<1> QED BY <1>2, <1>3, <1>5, <1>6 DEF Order, At

LEMMA SameResultStep ==
    TypeOK /\ Order /\ Phases /\ SameResult /\ [Next]_vars => SameResult'
<1> SUFFICES ASSUME TypeOK, Order, Phases, SameResult, [Next]_vars PROVE SameResult'
  OBVIOUS
<1>1. UNCHANGED <<ran, self>> => SameResult'
  BY DEF SameResult
<1>2. ASSUME NEW s \in Servers, Run(s) PROVE SameResult'
  <2>1. PICK c \in conn[s] \cap Callers :
             /\ Accepted(s, c) /\ UNCHANGED self
             /\ ran' = [ran EXCEPT ![c] = @ \cup {[by |-> "server", id |-> me[s]]}]
    BY <1>2 DEF Run, Heard
  <2>2. me[s] = self[c]
    <3>1. me[s].exe <= self[c].exe /\ self[c].exe <= me[s].exe
      BY <2>1 DEF Accepted, Order, At
    <3>2. me[s] \in Ids /\ self[c] \in Ids
      BY <2>1 DEF TypeOK
    <3>3. me[s].exe = self[c].exe
      BY <3>1, <3>2, ServeAssumption DEF Ids, Exes
    <3>4. me[s].env = self[c].env
      BY <2>1 DEF Accepted
    <3> QED BY <3>2, <3>3, <3>4 DEF Ids
  <2>3. \A d \in Callers : \A r \in ran'[d] : r \in ran[d] \/ (d = c /\ r.id = me[s])
    BY <2>1 DEF TypeOK
  <2> QED BY <2>1, <2>2, <2>3 DEF SameResult
<1>3. ASSUME NEW c \in Callers, Local(c) PROVE SameResult'
  <2>1. UNCHANGED self /\ \A d \in Callers : \A r \in ran'[d] : r \in ran[d] \/ (d = c /\ r.id = self[c])
    BY <1>3 DEF Local, TypeOK
  <2> QED BY <2>1 DEF SameResult
<1>4. ASSUME NEW c \in Callers, NEW v \in Environments, Call(c, v) PROVE SameResult'
  <2>1. ran[c] = {} /\ UNCHANGED ran /\ \A d \in Callers : d # c => self'[d] = self[d]
    BY <1>4 DEF Call, Phases, TypeOK
  <2> QED BY <2>1 DEF SameResult
<1>5. ASSUME NEW s \in Servers,
             \/ Probe(s) \/ Unlink(s) \/ Bind(s) \/ Accept(s) \/ Refuse(s) \/ Reply(s) \/ After(s)
             \/ Remove(s) \/ Close(s) \/ KillServer(s) \/ \E v \in Environments : Start(s, v)
      PROVE  UNCHANGED <<ran, self>>
  BY <1>5 DEF Probe, Unlink, Bind, Accept, Refuse, Reply, After, Remove, Close, KillServer, End, Start, callers
<1>6. ASSUME NEW d \in Callers, Connect(d) \/ Identify(d) \/ Send(d) \/ Receive(d) \/ TurnDown(d) \/ KillCaller(d)
      PROVE  UNCHANGED <<ran, self>>
  BY <1>6 DEF Connect, Identify, Send, Receive, TurnDown, KillCaller
<1>7. Replace \/ UNCHANGED vars => UNCHANGED <<ran, self>>
  BY DEF Replace, vars, callers
<1> QED BY <1>1, <1>2, <1>3, <1>4, <1>5, <1>6, <1>7, Steps

-----------------------------------------------------------------------------
(***************************************************************************)
(* The invariant holds.                                                    *)
(***************************************************************************)

LEMMA InitInv == Init => IInv
<1> SUFFICES ASSUME Init PROVE IInv
  OBVIOUS
<1>1. TypeOK
  BY TypesInit
<1>2. \A s \in Servers : backlog[s] = <<>> /\ conn[s] = {} /\ spc[s] = "off" /\ me[s].exe = exe
  BY DEF Init
<1>3. \A c \in Callers : /\ cpc[c] = "off" /\ ~open[c] /\ ~sent[c] /\ ran[c] = {} /\ name[c] = "unknown"
                         /\ reply[c] = "none" /\ self[c].exe = exe /\ c \notin lost
  BY DEF Init
<1>4. \A s \in Servers, c \in Callers : ~At(s, c) /\ Single(backlog[s], c)
  BY <1>2, InEmpty DEF At
<1>5. Quiet /\ Once /\ Held
  BY <1>2, <1>4 DEF Quiet, Once, Held, Listening
<1>6. Phases /\ Replies /\ RanByServer /\ SameResult
  BY <1>2, <1>3 DEF Phases, Replies, RanByServer, SameResult
<1>7. Order
  BY <1>1, <1>2, <1>3, <1>4, ServeAssumption DEF Order, TypeOK, Exes
<1> QED BY <1>1, <1>5, <1>6, <1>7 DEF IInv

LEMMA StepInv == IInv /\ [Next]_vars => IInv'
BY TypesStep, QuietStep, OnceStep, HeldStep, PhasesStep, RepliesStep, RanByServerStep, OrderStep,
   SameResultStep DEF IInv

\* The server and its callers keep their types, and everything IInv says of the
\* connections, the answers and the executables (serve.rs) is invariant.
THEOREM ServeInvariant == Spec => []IInv
BY InitInv, StepInv, PTL DEF Spec

\* serve::answer and main.rs: whoever runs a call, server or caller, does so with
\* the caller's own executable and environment, for any number of servers,
\* callers and replacements of the executable.
THEOREM ResultsAreTheCallersOwn == Spec => []SameResult
<1>1. IInv => SameResult
  BY DEF IInv
<1> QED BY <1>1, ServeInvariant, PTL

\* serve::ask: a caller that ends has had its call run, and runs none again that
\* the server has answered.
THEOREM AnswersAreRuns == Spec => []AnsweredMeansRun
<1>1. IInv => AnsweredMeansRun
  BY DEF IInv, Phases, AnsweredMeansRun
<1> QED BY <1>1, ServeInvariant, PTL

\* serve::answer, serve::ask and main.rs: a caller runs its call itself only when
\* no server has yet to run it, and one that a server ran only when that answer was
\* lost.
THEOREM RerunsNeedALoss == Spec => []NoNeedlessRerun
<1>1. ASSUME IInv PROVE NoNeedlessRerun
  <2>1. ASSUME NEW c \in Callers, NEW s \in Servers, cpc[c] \in {"local", "done"}, At(s, c)
        PROVE  c \in lost /\ spc[s] = "reply" /\ ~In(backlog[s], c)
    <3>1. ~open[c]
      BY <1>1, <2>1 DEF IInv, Phases
    <3>2. c \in lost /\ spc[s] = "reply" /\ c \in conn[s]
      BY <1>1, <2>1, <3>1 DEF IInv, Held
    <3> QED BY <1>1, <3>2 DEF IInv, Once
  <2>2. ASSUME NEW c \in Callers, cpc[c] \in {"local", "done"}, \E r \in ran[c] : r.by = "server"
        PROVE  reply[c] = "done" \/ c \in lost
    BY <1>1, <2>1, <2>2 DEF IInv, RanByServer, At
  <2> QED BY <2>1, <2>2 DEF NoNeedlessRerun, At, In
<1> QED BY <1>1, ServeInvariant, PTL
=============================================================================
