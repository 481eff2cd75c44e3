------------------------------ MODULE GoHelper ------------------------------
(***************************************************************************)
(* The Go helper client (crates/go/src/client.rs) together with the helper *)
(* process it talks to (go/helper/main.go).                                *)
(*                                                                         *)
(* Client threads: the owner of the `Helper` (variable main; submissions   *)
(* may come from any number of threads), the writer (write_loop) and the   *)
(* reader (read_loop).  Helper goroutines: one reader (readJobs), Workers  *)
(* workers and one writer (writeReplies).                                  *)
(*                                                                         *)
(* Every frame in transit is an element of wire and names its place:       *)
(*                                                                         *)
(*   outbox -> wbuf -> stdin -> jobs -> worker -> replies -> rbuf -> stdout *)
(*   channel  BufWriter pipe    chan    goroutine chan    bufio     pipe   *)
(*                                                                         *)
(* The queues are FIFO in the code.  Requests are independent of each      *)
(* other and the workers reorder them anyway, so here a place is a set;    *)
(* the only order that matters, Shutdown after every request, is kept by   *)
(* Oldest below.  A Hello is never in a queue with another frame.          *)
(***************************************************************************)
EXTENDS Integers, FiniteSets

CONSTANTS
    Requests,     \* requests the caller may submit, each at most once
    NoRequest,    \* an id that is not pending
    Oversize,     \* requests whose frame exceeds MAX_FRAME
    Growing,      \* requests whose reply frame exceeds MAX_FRAME
    Hellos,       \* what a located helper may say it is: [proto, version]
    PROTOCOL_VERSION, VERSION, DEV_VERSION,
    DebugBuild,   \* cfg!(debug_assertions)
    IdSpace,      \* ids are 0 .. IdSpace - 1 and wrap; 2^32 in the code
    PipeCap,      \* frames a pipe holds before a write blocks
    Workers,      \* GOMAXPROCS
    ChanCap       \* capacity of jobs and of replies; workers * 4 in the code

Ids == 0 .. IdSpace - 1

ASSUME RequestsAssumption ==
    /\ NoRequest \notin Requests
    /\ Oversize \subseteq Requests
    /\ Growing \subseteq Requests

ASSUME IdSpaceAssumption == IdSpace \in Nat /\ IdSpace > 1

ASSUME BoundsAssumption ==
    /\ PipeCap \in Nat \ {0}
    /\ Workers \in Nat \ {0}
    /\ ChanCap \in Nat \ {0}
    /\ DebugBuild \in BOOLEAN

VARIABLES
    main,       \* the thread that owns the Helper
    result,     \* what spawn or shutdown returned to it
    closing,    \* Shared::closing
    outboxOpen, \* the Sender of the outbox is alive
    hello,      \* the handshake channel, bounded(1)
    next_id, pending, failure,  \* State, behind one mutex
    ticket,     \* per request: how far submit has come, and its id
    answer,     \* per request: what its answer channel holds
    draining,   \* requests taken out of pending by fail, not yet told
    writer, reader, why,        \* the client's threads
    wire,       \* frames in transit
    child, torn,                \* the helper process; a torn last frame
    hread, hwriter              \* the helper's reader and writer

state    == <<next_id, pending, failure>>
requests == <<ticket, answer, draining>>
owner    == <<main, result, closing, outboxOpen>>
threads  == <<writer, reader, why>>
process  == <<child, torn, hread, hwriter>>
vars     == <<owner, hello, state, requests, threads, wire, process>>

-----------------------------------------------------------------------------
(* Frames and places *)

ClientPlaces == {"outbox", "wbuf"}
HelperPlaces == {"stdin", "jobs", "worker", "replies", "rbuf"}
Places       == ClientPlaces \cup HelperPlaces \cup {"stdout"}
Kinds        == {"hello", "process", "reply", "shutdown"}
Frames       == [kind : Kinds, id : Ids, req : Requests \cup {NoRequest}, at : Places]

At(place)      == {f \in wire : f.at = place}
HasRoom(place, cap) == Cardinality(At(place)) < cap

\* The frame may leave its queue now: Shutdown was queued last.
Oldest(f) == f.kind = "shutdown" => At(f.at) = {f}

Move(f, place) == wire' = (wire \ {f}) \cup {[f EXCEPT !.at = place]}
Take(f)        == wire' = wire \ {f}
Queue(kind, id, req, place) ==
    wire' = wire \cup {[kind |-> kind, id |-> id, req |-> req, at |-> place]}

Failures == {"none", "crashed", "protocol", "closed", "stopped"}
NoAnswer      == [kind |-> "none",   of |-> NoRequest, why |-> "none"]
ReplyOf(r)    == [kind |-> "reply",  of |-> r,         why |-> "none"]
TooLarge      == [kind |-> "large",  of |-> NoRequest, why |-> "none"]
ErrorOf(w)    == [kind |-> "error",  of |-> NoRequest, why |-> w]
Answers == [kind : {"none", "reply", "large", "error"},
            of : Requests \cup {NoRequest}, why : Failures]

TypeOK ==
    /\ main \in {"hello", "ready", "closing", "joinWriter", "joinReader",
                 "wait", "dropping", "dropFail", "dropSend", "dropKill",
                 "done", "dead"}
    /\ result \in {"none", "ok", "crashed", "protocol", "spawn", "version", "dropped"}
    /\ closing \in BOOLEAN
    /\ outboxOpen \in BOOLEAN
    /\ hello \in {"none", "compatible", "incompatible", "error"}
    /\ next_id \in Ids
    /\ pending \in [Ids -> Requests \cup {NoRequest}]
    /\ failure \in Failures
    /\ ticket \in [Requests -> [at : {"unused", "registered", "held", "refused"}, id : Ids]]
    /\ answer \in [Requests -> Answers]
    /\ draining \in [{"reader", "main"} -> SUBSET Requests]
    /\ writer \in {"recv", "flush", "done"}
    /\ reader \in {"hello", "replies", "fail", "send", "done"}
    /\ why \in Failures
    /\ wire \subseteq Frames
    /\ child \in {"running", "exit0", "exit1", "crashed", "killed"}
    /\ torn \in BOOLEAN
    /\ hread \in {"hello", "jobs", "closed"}
    /\ hwriter \in {"recv", "flush", "failed"}

\* Helper::start up to the handshake: the threads run, Hello is queued.
Init ==
    /\ main = "hello" /\ result = "none"
    /\ closing = FALSE /\ outboxOpen = TRUE
    /\ hello = "none"
    /\ next_id = 1
    /\ pending = [i \in Ids |-> NoRequest]
    /\ failure = "none"
    /\ ticket = [r \in Requests |-> [at |-> "unused", id |-> 0]]
    /\ answer = [r \in Requests |-> NoAnswer]
    /\ draining = [t \in {"reader", "main"} |-> {}]
    /\ writer = "recv" /\ reader = "hello" /\ why = "none"
    /\ wire = {[kind |-> "hello", id |-> 0, req |-> NoRequest, at |-> "outbox"]}
    /\ child = "running" /\ torn = FALSE
    /\ hread = "hello" /\ hwriter = "recv"

-----------------------------------------------------------------------------
(* Operations of Shared and State *)

compatible(h, dev_build) ==
    /\ h.proto = PROTOCOL_VERSION
    /\ h.version = VERSION \/ h.version = DEV_VERSION \/ dev_build

FreeId_IgnoresPending(id) == id # 0
\* allocate_id loops until this holds of an id.
FreeId(id) == id # 0 /\ pending[id] = NoRequest

\* wrapping_add(1)
NextId(id) == (id + 1) % IdSpace

\* The id allocate_id returns: the first free one from next_id on, wrapping.
allocate_id(id) ==
    /\ FreeId(id)
    /\ \E k \in Ids :
          /\ id = (next_id + k) % IdSpace
          /\ \A j \in 0 .. k - 1 : ~FreeId((next_id + j) % IdSpace)
    /\ next_id' = NextId(id)

\* get_or_insert: the first failure stays.
KeptFailure_LastWins(f) == f
KeptFailure(f) == IF failure = "none" THEN f ELSE failure

\* Shared::fail up to the unlock, run by thread t, which
\* then answers everything it drained, one send at a time (Tell).
fail(t, f) ==
    /\ failure' = KeptFailure(f)
    /\ draining' = [draining EXCEPT ![t] = {pending[i] : i \in Ids} \ {NoRequest}]
    /\ pending' = [i \in Ids |-> NoRequest]
    /\ UNCHANGED next_id

Tell(t, r) ==
    /\ r \in draining[t]
    /\ answer' = [answer EXCEPT ![r] = ErrorOf(failure)]
    /\ draining' = [draining EXCEPT ![t] = @ \ {r}]

\* try_send into the bounded(1) handshake channel.
TryHello(h) == hello' = IF hello = "none" THEN h ELSE hello

\* The process ends: what is inside it is lost, and the frame its writer was
\* flushing may have reached the pipe in part.
Dies(status) ==
    /\ child' = status
    /\ wire' = {f \in wire : f.at \notin HelperPlaces}
    /\ torn' \in (IF At("rbuf") # {} THEN BOOLEAN ELSE {FALSE})

\* Child::kill; killing an ended child changes nothing.
Kill ==
    IF child = "running" THEN Dies("killed") ELSE UNCHANGED <<child, torn, wire>>

-----------------------------------------------------------------------------
(* The owner: spawn, submit, shutdown, drop *)

\* spawn returns the helper.
HelloAccepted ==
    /\ main = "hello" /\ hello = "compatible"
    /\ main' = "ready" /\ hello' = "none"
    /\ UNCHANGED <<result, closing, outboxOpen, state, requests, threads, wire, process>>

\* spawn fails (a wrong version, a failed handshake, HANDSHAKE_TIMEOUT) and the
\* half-made helper is dropped.
SpawnFails ==
    /\ main = "hello" /\ hello # "compatible"
    /\ main' = "dropping"
    /\ result' = IF hello = "incompatible" THEN "version" ELSE "spawn"
    /\ UNCHANGED <<closing, outboxOpen, hello, state, requests, threads, wire, process>>

\* submit, oversize: answered on the spot.
SubmitOversize(r) ==
    /\ main = "ready" /\ ticket[r].at = "unused" /\ r \in Oversize
    /\ ticket' = [ticket EXCEPT ![r].at = "held"]
    /\ answer' = [answer EXCEPT ![r] = TooLarge]
    /\ UNCHANGED <<draining, owner, hello, state, threads, wire, process>>

\* submit on a failed helper.
SubmitRefused(r) ==
    /\ main = "ready" /\ ticket[r].at = "unused" /\ r \notin Oversize
    /\ failure # "none"
    /\ ticket' = [ticket EXCEPT ![r].at = "refused"]
    /\ answer' = [answer EXCEPT ![r] = ErrorOf(failure)]
    /\ UNCHANGED <<draining, owner, hello, state, threads, wire, process>>

\* submit goes on only when no failure is recorded.
Working == failure = "none"

\* submit, under the lock.
Submit(r) ==
    /\ main = "ready" /\ ticket[r].at = "unused" /\ r \notin Oversize
    /\ Working
    /\ \E id \in Ids :
          /\ allocate_id(id)
          /\ pending' = [pending EXCEPT ![id] = r]
          /\ ticket' = [ticket EXCEPT ![r] = [at |-> "registered", id |-> id]]
    /\ UNCHANGED <<failure, answer, draining, owner, hello, threads, wire, process>>

\* submit, after the lock: the frame goes into the outbox, unless the writer is
\* gone and took the channel with it.
Enqueue(r) ==
    /\ main = "ready" /\ ticket[r].at = "registered"
    /\ ticket' = [ticket EXCEPT ![r].at = "held"]
    /\ IF writer # "done" THEN Queue("process", ticket[r].id, r, "outbox")
       ELSE UNCHANGED wire
    /\ UNCHANGED <<answer, draining, owner, hello, state, threads, process>>

\* No submit is running: shutdown and drop own the Helper.
Idle == \A r \in Requests : ticket[r].at # "registered"

StoreClosing_Forgotten == UNCHANGED closing
StoreClosing == closing' = TRUE

CloseOutbox_Forgotten == UNCHANGED outboxOpen
CloseOutbox == outboxOpen' = FALSE

\* shutdown stores closing ...
ShutdownBegin ==
    /\ main = "ready" /\ Idle
    /\ StoreClosing
    /\ main' = "closing"
    /\ UNCHANGED <<result, outboxOpen, hello, state, requests, threads, wire, process>>

\* ... and then queues Shutdown and drops the outbox.
ShutdownSend ==
    /\ main = "closing"
    /\ IF writer # "done" THEN Queue("shutdown", 0, NoRequest, "outbox")
       ELSE UNCHANGED wire
    /\ CloseOutbox
    /\ main' = "joinWriter"
    /\ UNCHANGED <<result, closing, hello, state, requests, threads, process>>

\* shutdown and drop both join the writer, then the reader.
JoinWriter ==
    /\ main = "joinWriter" /\ writer = "done"
    /\ main' = "joinReader"
    /\ UNCHANGED <<result, closing, outboxOpen, hello, state, requests, threads, wire, process>>

ReaderJoined_TooEarly == TRUE
ReaderJoined == reader = "done"

JoinReader ==
    /\ main = "joinReader" /\ ReaderJoined
    /\ main' = IF result = "none" THEN "wait" ELSE "done"
    /\ UNCHANGED <<result, closing, outboxOpen, hello, state, requests, threads, wire, process>>

\* shutdown waits for the child and says how it went.
WaitChild ==
    /\ main = "wait" /\ child # "running"
    /\ main' = "done"
    /\ result' = CASE failure \in {"crashed", "stopped"} -> "crashed"
                   [] failure = "protocol" -> "protocol"
                   [] OTHER -> IF child = "exit0" THEN "ok" ELSE "crashed"
    /\ UNCHANGED <<closing, outboxOpen, hello, state, requests, threads, wire, process>>

\* The caller lets go of the helper without shutting it down.
DropHelper ==
    /\ main = "ready" /\ Idle
    /\ main' = "dropping" /\ result' = "dropped"
    /\ UNCHANGED <<closing, outboxOpen, hello, state, requests, threads, wire, process>>

\* drop: closing, then fail, then kill and wait, then the outbox and the joins.
DropClosing ==
    /\ main = "dropping"
    /\ StoreClosing /\ main' = "dropFail"
    /\ UNCHANGED <<result, outboxOpen, hello, state, requests, threads, wire, process>>

DropFail ==
    /\ main = "dropFail"
    /\ fail("main", "stopped")
    /\ main' = "dropSend"
    /\ UNCHANGED <<result, closing, outboxOpen, hello, ticket, answer, threads, wire, process>>

DropTell(r) ==
    /\ main = "dropSend"
    /\ Tell("main", r)
    /\ UNCHANGED <<ticket, owner, hello, state, threads, wire, process>>

DropKill ==
    /\ main = "dropSend" /\ draining["main"] = {}
    /\ Kill
    /\ CloseOutbox
    /\ main' = "joinWriter"
    /\ UNCHANGED <<result, closing, hello, state, requests, threads, hread, hwriter>>

\* fmtkit itself is killed: its threads and its ends of the pipes are gone.
ClientKilled ==
    /\ main \notin {"done", "dead"}
    /\ main' = "dead" /\ outboxOpen' = FALSE
    /\ writer' = "done" /\ reader' = "done"
    /\ wire' = {f \in wire : f.at \notin ClientPlaces \cup {"stdout"}}
    /\ UNCHANGED <<result, closing, hello, state, requests, why, process>>

-----------------------------------------------------------------------------
(* write_loop *)

\* A buffering writer has taken f: it flushes when the queue is empty, and
\* whenever the buffer happens to be full.
AfterTake_LazyFlush(f) == {"flush", "recv"}
AfterTake(f) == IF At(f.at) = {f} THEN {"flush"} ELSE {"flush", "recv"}

WriterTake(f) ==
    /\ writer = "recv" /\ f \in At("outbox") /\ Oldest(f)
    /\ Move(f, "wbuf")
    /\ writer' \in AfterTake(f)
    /\ UNCHANGED <<reader, why, owner, hello, state, requests, process>>

WriterFlush(f) ==
    /\ writer = "flush" /\ child = "running"
    /\ f \in At("wbuf") /\ Oldest(f)
    /\ HasRoom("stdin", PipeCap)
    /\ Move(f, "stdin")
    /\ writer' = IF At("wbuf") = {f} THEN "recv" ELSE "flush"
    /\ UNCHANGED <<reader, why, owner, hello, state, requests, process>>

\* The pipe is broken.  The helper is already gone then, so the kill the code
\* adds when it is not closing finds nothing to kill.
WriterError ==
    /\ writer = "flush" /\ child # "running"
    /\ writer' = "done"
    /\ wire' = {f \in wire : f.at \notin ClientPlaces}
    /\ UNCHANGED <<reader, why, owner, hello, state, requests, process>>

\* The outbox is closed and drained: the last flush, then stdin is closed.
WriterEnd ==
    /\ writer = "recv" /\ ~outboxOpen /\ At("outbox") = {}
    /\ writer' = IF At("wbuf") = {} THEN "done" ELSE "flush"
    /\ UNCHANGED <<reader, why, owner, hello, state, requests, wire, process>>

-----------------------------------------------------------------------------
(* read_loop, serve_replies, ended *)

ReaderHello(f) ==
    /\ reader = "hello" /\ f \in At("stdout") /\ f.kind = "hello"
    /\ \E h \in Hellos :
          TryHello(IF compatible(h, DebugBuild) THEN "compatible" ELSE "incompatible")
    /\ Take(f)
    /\ reader' = "replies"
    /\ UNCHANGED <<writer, why, owner, state, requests, process>>

\* pending.remove(&id)
Removed_Kept(id) == pending
Removed(id) == [pending EXCEPT ![id] = NoRequest]

\* Shared::deliver; a reply nobody waits for is a protocol failure.
deliver(f) ==
    IF pending[f.id] # NoRequest
      THEN /\ pending' = Removed(f.id)
           /\ answer' = [answer EXCEPT ![pending[f.id]] = ReplyOf(f.req)]
           /\ UNCHANGED <<reader, why>>
      ELSE /\ reader' = "fail" /\ why' = "protocol"
           /\ UNCHANGED <<pending, answer>>

ReaderReply(f) ==
    /\ reader = "replies" /\ f \in At("stdout")
    /\ f.kind = "reply" /\ f.req \notin Growing
    /\ deliver(f)
    /\ Take(f)
    /\ UNCHANGED <<next_id, failure, ticket, draining, writer, owner, hello, process>>

\* check_length refuses the frame.
ReaderMalformed(f) ==
    /\ reader = "replies" /\ f \in At("stdout")
    /\ f.kind = "reply" /\ f.req \in Growing
    /\ reader' = "fail" /\ why' = "protocol"
    /\ Take(f)
    /\ UNCHANGED <<writer, owner, hello, state, requests, process>>

\* The end of stdout: a torn frame is malformed, anything else is a crash
\* unless fmtkit is stopping the helper.
ended ==
    /\ reader \in {"hello", "replies"}
    /\ At("stdout") = {} /\ child # "running"
    /\ reader' = "fail"
    /\ why' = IF torn THEN "protocol" ELSE IF closing THEN "closed" ELSE "crashed"
    /\ UNCHANGED <<writer, owner, hello, state, requests, wire, process>>

\* The tail of read_loop: kill after a protocol failure, wake spawn, fail.
ReaderFail ==
    /\ reader = "fail"
    /\ IF why = "protocol" THEN Kill ELSE UNCHANGED <<child, torn, wire>>
    /\ TryHello("error")
    /\ fail("reader", why)
    /\ reader' = "send"
    /\ UNCHANGED <<writer, why, owner, ticket, answer, hread, hwriter>>

ReaderTell(r) ==
    /\ reader = "send"
    /\ Tell("reader", r)
    /\ UNCHANGED <<ticket, owner, hello, state, threads, wire, process>>

ReaderDone ==
    /\ reader = "send" /\ draining["reader"] = {}
    /\ reader' = "done"
    /\ UNCHANGED <<writer, why, owner, hello, state, requests, wire, process>>

-----------------------------------------------------------------------------
(* The helper process: serve, readJobs, the workers, writeReplies *)

\* Nothing more will arrive on stdin.
StdinEOF_Unseen == FALSE
StdinEOF == writer = "done" /\ At("stdin") = {}

HelperHello(f) ==
    /\ child = "running" /\ hread = "hello"
    /\ f \in At("stdin") /\ f.kind = "hello"
    /\ IF reader = "done" THEN Dies("exit1") /\ UNCHANGED hread
       ELSE Move(f, "stdout") /\ hread' = "jobs" /\ UNCHANGED <<child, torn>>
    /\ UNCHANGED <<hwriter, owner, hello, state, requests, threads>>

HelperRead(f) ==
    /\ child = "running" /\ hread = "jobs"
    /\ f \in At("stdin") /\ f.kind = "process"
    /\ HasRoom("jobs", ChanCap)
    /\ Move(f, "jobs")
    /\ UNCHANGED <<owner, hello, state, requests, threads, process>>

HelperShutdown(f) ==
    /\ child = "running" /\ hread = "jobs"
    /\ f \in At("stdin") /\ f.kind = "shutdown" /\ Oldest(f)
    /\ Take(f)
    /\ hread' = "closed"
    /\ UNCHANGED <<child, torn, hwriter, owner, hello, state, requests, threads>>

HelperEOF ==
    /\ child = "running" /\ hread \in {"hello", "jobs"} /\ StdinEOF
    /\ hread' = "closed"
    /\ UNCHANGED <<child, torn, hwriter, owner, hello, state, requests, threads, wire>>

WorkerTake(f) ==
    /\ child = "running" /\ f \in At("jobs") /\ HasRoom("worker", Workers)
    /\ Move(f, "worker")
    /\ UNCHANGED <<owner, hello, state, requests, threads, process>>

\* run: the handler's reply, or the error reply of a recovered panic.
WorkerReply(f) ==
    /\ child = "running" /\ f \in At("worker") /\ f.kind = "process"
    /\ HasRoom("replies", ChanCap)
    /\ wire' = (wire \ {f}) \cup {[f EXCEPT !.kind = "reply", !.at = "replies"]}
    /\ UNCHANGED <<owner, hello, state, requests, threads, process>>

\* writeReplies takes the next reply; after a failed write it only drains.
HelperBuffer(f) ==
    /\ child = "running" /\ hwriter \in {"recv", "failed"} /\ f \in At("replies")
    /\ IF hwriter = "failed" THEN Take(f) /\ UNCHANGED hwriter
       ELSE /\ Move(f, "rbuf")
            /\ hwriter' \in AfterTake(f)
    /\ UNCHANGED <<child, torn, hread, owner, hello, state, requests, threads>>

HelperFlush(f) ==
    /\ child = "running" /\ hwriter = "flush" /\ f \in At("rbuf")
    /\ IF reader = "done"
         THEN /\ wire' = {g \in wire : g.at # "rbuf"}
              /\ hwriter' = "failed"
         ELSE /\ HasRoom("stdout", PipeCap)
              /\ Move(f, "stdout")
              /\ hwriter' = IF At("rbuf") = {f} THEN "recv" ELSE "flush"
    /\ UNCHANGED <<child, torn, hread, owner, hello, state, requests, threads>>

\* The pool is through and the writer has drained replies and its buffer.
Drained_PoolNotAwaited == \A f \in wire : f.at \notin {"replies", "rbuf"}
Drained == \A f \in wire : f.at \notin {"jobs", "worker", "replies", "rbuf"}

\* serve returns; what a helper leaves unread or unfinished dies with it.
HelperExit ==
    /\ child = "running" /\ hread = "closed" /\ Drained
    /\ child' = IF hwriter = "failed" THEN "exit1" ELSE "exit0"
    /\ wire' = {f \in wire : f.at \notin HelperPlaces}
    /\ UNCHANGED <<torn, hread, hwriter, owner, hello, state, requests, threads>>

\* A fatal runtime error, a signal, the OOM killer.
HelperCrash ==
    /\ child = "running"
    /\ Dies("crashed")
    /\ UNCHANGED <<hread, hwriter, owner, hello, state, requests, threads>>

-----------------------------------------------------------------------------

Owner ==
    \/ HelloAccepted \/ SpawnFails \/ ShutdownBegin \/ ShutdownSend
    \/ JoinWriter \/ JoinReader \/ WaitChild
    \/ DropHelper \/ DropClosing \/ DropFail \/ DropKill
    \/ \E r \in Requests : DropTell(r)

Submissions ==
    \E r \in Requests :
        SubmitOversize(r) \/ SubmitRefused(r) \/ Submit(r) \/ Enqueue(r)

Writer == WriterError \/ WriterEnd \/ \E f \in wire : WriterTake(f) \/ WriterFlush(f)

Reader ==
    \/ ended \/ ReaderFail \/ ReaderDone
    \/ \E r \in Requests : ReaderTell(r)
    \/ \E f \in wire : ReaderHello(f) \/ ReaderReply(f) \/ ReaderMalformed(f)

HelperReader ==
    HelperEOF \/ HelperExit
    \/ \E f \in wire : HelperHello(f) \/ HelperRead(f) \/ HelperShutdown(f)

HelperWorkers == \E f \in wire : WorkerTake(f) \/ WorkerReply(f)
HelperWriter  == \E f \in wire : HelperBuffer(f) \/ HelperFlush(f)

\* Everything that can end has ended.
Ended ==
    /\ main \in {"done", "dead"} /\ child # "running"
    /\ writer = "done" /\ reader = "done"
    /\ UNCHANGED vars

Next ==
    \/ Owner \/ Submissions \/ ClientKilled
    \/ Writer \/ Reader
    \/ HelperReader \/ HelperWorkers \/ HelperWriter \/ HelperCrash
    \/ Ended

\* Threads that can run do run, the handler terminates (serve runs it to the
\* end) and the owner finishes what it began; nobody has to shut down, crash,
\* or submit.
Fairness ==
    /\ WF_vars(HelloAccepted \/ SpawnFails \/ ShutdownSend \/ JoinWriter \/ JoinReader
               \/ WaitChild \/ DropClosing \/ DropFail \/ DropKill
               \/ \E r \in Requests : DropTell(r))
    /\ \A r \in Requests : WF_vars(Enqueue(r))
    /\ WF_vars(Writer) /\ WF_vars(Reader)
    /\ WF_vars(HelperReader) /\ WF_vars(HelperWorkers) /\ WF_vars(HelperWriter)

Spec     == Init /\ [][Next]_vars
FairSpec == Spec /\ Fairness

-----------------------------------------------------------------------------
(* What must hold *)

Answered(r) == answer[r].kind # "none"

\* Replies come back out of order and ids wrap, and still a ticket gets the
\* reply to its own request (deliver, allocate_id).
OwnReply == \A r \in Requests : answer[r].kind = "reply" => answer[r].of = r

\* While no failure is recorded an id in transit is pending for the request it
\* carries, and no id is in transit twice, even after ids wrap: no live reply can
\* be misrouted or run into "unknown request id" (deliver).
Carries(f) == f.kind \in {"process", "reply"}
IdsInTransit ==
    failure = "none" =>
        /\ \A f \in wire : Carries(f) => pending[f.id] = f.req /\ f.req \in Requests
        /\ \A f, g \in wire : Carries(f) /\ Carries(g) /\ f.id = g.id => f = g

\* "every pending and later request fails with the same error": all errors a
\* caller sees are the recorded failure, and nothing is pending after it.
OneFailure ==
    /\ \A r \in Requests : answer[r].kind = "error" => answer[r].why = failure /\ failure # "none"
    /\ failure # "none" => \A i \in Ids : pending[i] = NoRequest

\* A submitted request is in exactly one hand until it is answered: in pending
\* under the id its ticket holds, or drained by the one thread that will tell it.
OneHand ==
    /\ \A i \in Ids : pending[i] # NoRequest =>
          /\ ticket[pending[i]].at \in {"registered", "held"}
          /\ ticket[pending[i]].id = i
          /\ answer[pending[i]].kind = "none"
          /\ pending[i] \notin draining["reader"] \cup draining["main"]
    /\ \A r \in Requests :
          /\ ticket[r].at = "registered" /\ failure = "none" =>
                pending[ticket[r].id] = r /\ \A f \in wire : Carries(f) => f.req # r
          /\ ticket[r].at = "unused" => answer[r].kind = "none"
    /\ \A t \in {"reader", "main"} : \A r \in draining[t] :
          /\ failure # "none" /\ answer[r].kind = "none"
          /\ ticket[r].at \in {"registered", "held"}
    /\ draining["reader"] \cap draining["main"] = {}
    /\ reader \notin {"send", "done"} => draining["reader"] = {}
    /\ main \notin {"dropSend", "dead"} => draining["main"] = {}
    /\ reader = "fail" => why # "none"

\* An answer channel is bounded(1): a second send would block the reader for
\* good, so an answer is never given twice; and the first failure stays.
AnswerOnce ==
    [][ /\ \A r \in Requests : Answered(r) => answer'[r] = answer[r]
        /\ failure # "none" => failure' = failure ]_vars

\* "Requests already submitted are answered first": shutdown succeeds only when
\* the helper has answered every request that was submitted.
ShutdownAnswersFirst ==
    result = "ok" => \A r \in Requests :
        ticket[r].at = "held" => answer[r].kind \in {"reply", "large"}

\* A shutdown error means the helper really crashed or sent a bad frame: the
\* helper's orderly exit is never taken for a crash (closing is set first).
NoFalseCrash ==
    /\ result = "crashed" => child = "crashed"
    /\ failure = "crashed" => child = "crashed"

\* When spawn, shutdown or drop is over, the process and both threads are.
NothingLeftBehind ==
    main = "done" => child # "running" /\ writer = "done" /\ reader = "done"

\* A submitted request is answered, whether or not anybody ever shuts down.
EveryTicketAnswered ==
    \A r \in Requests : ticket[r].at = "held" ~> Answered(r) \/ main = "dead"

\* shutdown and drop return: nobody waits for a full pipe or channel for ever.
OwnerReturns == main \in {"closing", "dropping"} ~> main \in {"done", "dead"}

\* The helper never outlives fmtkit, however fmtkit ends.
NoOrphan == main \in {"done", "dead"} ~> child # "running"

-----------------------------------------------------------------------------
(* The client implements what HelperApi promises *)

\* A request as its caller sees it: a ticket without an answer is waiting.
Status(r) ==
    CASE ticket[r].at = "unused"    -> "unused"
      [] answer[r].kind = "reply"   -> IF answer[r].of = r THEN "replied" ELSE "wrong"
      [] answer[r].kind = "large"   -> "large"
      [] answer[r].kind = "error"   -> answer[r].why
      [] OTHER                      -> "waiting"

Api == INSTANCE HelperApi WITH
    Causes <- Failures \ {"none"},
    status <- [r \in Requests |-> Status(r)],
    broken <- failure

\* Every step of the threads is a step of the promised interface or hidden:
\* no answer is lost, repeated, misrouted or given after the failure.
ImplementsApi == Api!Spec
=============================================================================
