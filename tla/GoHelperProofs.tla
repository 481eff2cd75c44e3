--------------------------- MODULE GoHelperProofs ---------------------------
(***************************************************************************)
(* Proofs about GoHelper, for any number of requests, any id space, any    *)
(* pipe and channel capacity and any number of workers; and that its       *)
(* threads, pipes and processes implement the interface of HelperApi.      *)
(***************************************************************************)
EXTENDS GoHelper, TLAPS

USE RequestsAssumption, IdSpaceAssumption

\* The wrapped successor of an id is an id (wrapping_add in allocate_id).
LEMMA NextIdType == \A id \in Ids : NextId(id) \in Ids
  BY DEF NextId, Ids

LEMMA ZeroOneIds == 0 \in Ids /\ 1 \in Ids
  BY DEF Ids

\* A frame keeps its type when it changes its place or becomes a reply.
LEMMA FrameTypes ==
    /\ \A f \in Frames, p \in Places :
          /\ [f EXCEPT !.at = p] \in Frames
          /\ [f EXCEPT !.kind = "reply", !.at = p] \in Frames
    /\ \A k \in Kinds, id \in Ids, r \in Requests \cup {NoRequest}, p \in Places :
          [kind |-> k, id |-> id, req |-> r, at |-> p] \in Frames
  BY DEF Frames, Kinds

\* What moves, enters or leaves the wire is a frame; a process that ends only
\* loses frames.
LEMMA WireTypes ==
    ASSUME wire \subseteq Frames
    PROVE  /\ \A f \in wire, p \in Places : Move(f, p) => wire' \subseteq Frames
           /\ \A f \in wire : Take(f) => wire' \subseteq Frames
           /\ \A k \in Kinds, id \in Ids, r \in Requests \cup {NoRequest}, p \in Places :
                 Queue(k, id, r, p) => wire' \subseteq Frames
<1>1. \A f \in wire, p \in Places : Move(f, p) => wire' \subseteq Frames
  BY FrameTypes DEF Move
<1>2. \A f \in wire : Take(f) => wire' \subseteq Frames
  BY DEF Take
<1>3. \A k \in Kinds, id \in Ids, r \in Requests \cup {NoRequest}, p \in Places :
         Queue(k, id, r, p) => wire' \subseteq Frames
  <2> SUFFICES ASSUME NEW k \in Kinds, NEW id \in Ids, NEW r \in Requests \cup {NoRequest},
                      NEW p \in Places, Queue(k, id, r, p)
               PROVE  wire' \subseteq Frames
    OBVIOUS
  <2> DEFINE new == [kind |-> k, id |-> id, req |-> r, at |-> p]
  <2>1. new \in Frames
    BY FrameTypes
  <2>2. wire' = wire \cup {new}
    BY DEF Queue
  <2> HIDE DEF new
  <2> QED BY <2>1, <2>2
<1> QED BY <1>1, <1>2, <1>3

Statuses == {"running", "exit0", "exit1", "crashed", "killed"}

LEMMA DeathTypes ==
    ASSUME wire \subseteq Frames, child \in Statuses, torn \in BOOLEAN
    PROVE  /\ \A st \in Statuses : Dies(st) =>
                 wire' \subseteq Frames /\ child' \in Statuses /\ torn' \in BOOLEAN
           /\ Kill => wire' \subseteq Frames /\ child' \in Statuses /\ torn' \in BOOLEAN
<1>1. \A st \in Statuses : Dies(st) =>
         wire' \subseteq Frames /\ child' \in Statuses /\ torn' \in BOOLEAN
  BY Zenon DEF Dies
<1> QED BY <1>1, Zenon DEF Kill, Statuses

LEMMA PlaceNames ==
    /\ "outbox" \in Places /\ "wbuf" \in Places /\ "stdin" \in Places /\ "jobs" \in Places
    /\ "worker" \in Places /\ "replies" \in Places /\ "rbuf" \in Places /\ "stdout" \in Places
    /\ "hello" \in Kinds /\ "process" \in Kinds /\ "reply" \in Kinds /\ "shutdown" \in Kinds
  BY DEF Places, ClientPlaces, HelperPlaces, Kinds

LEMMA AnswerTypes ==
    /\ NoAnswer \in Answers /\ TooLarge \in Answers
    /\ \A r \in Requests \cup {NoRequest} : ReplyOf(r) \in Answers
    /\ \A w \in Failures : ErrorOf(w) \in Answers
  BY DEF NoAnswer, TooLarge, ReplyOf, ErrorOf, Answers, Failures

LEMMA InitType == Init => TypeOK
<1> SUFFICES ASSUME Init PROVE TypeOK
  OBVIOUS
<1>1. wire \subseteq Frames
  <2> DEFINE first == [kind |-> "hello", id |-> 0, req |-> NoRequest, at |-> "outbox"]
  <2>1. first \in Frames
    BY ZeroOneIds, FrameTypes, PlaceNames
  <2>2. wire = {first}
    BY DEF Init
  <2> HIDE DEF first
  <2> QED BY <2>1, <2>2
<1>2. answer \in [Requests -> Answers]
  BY AnswerTypes DEF Init
<1>3. ticket \in [Requests -> [at : {"unused", "registered", "held", "refused"}, id : Ids]]
  BY ZeroOneIds DEF Init
<1>4. closing \in BOOLEAN /\ outboxOpen \in BOOLEAN /\ torn \in BOOLEAN
  BY DEF Init
<1>5. pending \in [Ids -> Requests \cup {NoRequest}] /\ next_id \in Ids
  BY ZeroOneIds DEF Init
<1>6. draining \in [{"reader", "main"} -> SUBSET Requests]
  BY DEF Init
<1> QED
  BY <1>1, <1>2, <1>3, <1>4, <1>5, <1>6 DEF Init, TypeOK, Failures

\* Every step keeps the types.
LEMMA StepType == TypeOK /\ [Next]_vars => TypeOK'
<1> SUFFICES ASSUME TypeOK, [Next]_vars PROVE TypeOK'
  OBVIOUS
<1> USE DEF TypeOK, owner, state, requests, threads, process
<1>0. child \in Statuses /\ torn \in BOOLEAN /\ wire \subseteq Frames
  BY DEF Statuses
<1>1. CASE UNCHANGED vars
  BY <1>1 DEF vars
<1>2. CASE HelloAccepted BY <1>2 DEF HelloAccepted
<1>3. CASE SpawnFails BY <1>3 DEF SpawnFails
<1>4. CASE ShutdownBegin BY <1>4 DEF ShutdownBegin, StoreClosing
<1>5. CASE ShutdownSend
  <2>1. wire' \subseteq Frames
    BY <1>5, WireTypes, PlaceNames, ZeroOneIds DEF ShutdownSend
  <2>2. /\ main' = "joinWriter" /\ outboxOpen' \in BOOLEAN
        /\ UNCHANGED <<result, closing, hello, state, requests, threads, process>>
    BY <1>5 DEF ShutdownSend, CloseOutbox
  <2> QED BY <2>1, <2>2
<1>6. CASE JoinWriter BY <1>6 DEF JoinWriter
<1>7. CASE JoinReader BY <1>7 DEF JoinReader
<1>8. CASE WaitChild BY <1>8 DEF WaitChild
<1>9. CASE DropHelper BY <1>9 DEF DropHelper
<1>10. CASE DropClosing BY <1>10 DEF DropClosing, StoreClosing
<1>11. CASE DropFail BY <1>11 DEF DropFail, fail, KeptFailure, Failures
<1>12. CASE DropKill
  <2>1. wire' \subseteq Frames /\ child' \in Statuses /\ torn' \in BOOLEAN
    BY <1>0, <1>12, DeathTypes DEF DropKill
  <2>2. /\ main' = "joinWriter" /\ outboxOpen' \in BOOLEAN
        /\ UNCHANGED <<result, closing, hello, state, requests, threads, hread, hwriter>>
    BY <1>12 DEF DropKill, CloseOutbox
  <2> QED BY <2>1, <2>2 DEF Statuses
<1>13. CASE \E r \in Requests : DropTell(r) BY <1>13, AnswerTypes DEF DropTell, Tell
<1>14. CASE Submissions
  <2> PICK r \in Requests : SubmitOversize(r) \/ SubmitRefused(r) \/ Submit(r) \/ Enqueue(r)
    BY <1>14 DEF Submissions
  <2>1. CASE SubmitOversize(r) BY <2>1, AnswerTypes DEF SubmitOversize
  <2>2. CASE SubmitRefused(r) BY <2>2, AnswerTypes DEF SubmitRefused
  <2>3. CASE Submit(r) BY <2>3, NextIdType DEF Submit, allocate_id
  <2>4. CASE Enqueue(r)
    <3>1. wire' \subseteq Frames
      BY <2>4, WireTypes, PlaceNames DEF Enqueue
    <3> QED BY <2>4, <3>1 DEF Enqueue
  <2> QED BY <2>1, <2>2, <2>3, <2>4
<1>15. CASE ClientKilled
  <2>1. wire' \subseteq Frames /\ outboxOpen' \in BOOLEAN
    BY <1>15 DEF ClientKilled
  <2>2. /\ main' = "dead" /\ writer' = "done" /\ reader' = "done"
        /\ UNCHANGED <<result, closing, hello, state, requests, why, process>>
    BY <1>15 DEF ClientKilled
  <2> QED BY <2>1, <2>2
<1>16. CASE Writer
  <2>1. CASE WriterError BY <2>1 DEF WriterError
  <2>2. CASE WriterEnd BY <2>2 DEF WriterEnd
  <2>3. CASE \E f \in wire : WriterTake(f)
    <3>1. wire' \subseteq Frames
      BY <2>3, WireTypes, PlaceNames DEF WriterTake
    <3> QED BY <2>3, <3>1 DEF WriterTake, AfterTake
  <2>4. CASE \E f \in wire : WriterFlush(f)
    <3>1. wire' \subseteq Frames
      BY <2>4, WireTypes, PlaceNames DEF WriterFlush
    <3> QED BY <2>4, <3>1 DEF WriterFlush
  <2> QED BY <1>16, <2>1, <2>2, <2>3, <2>4 DEF Writer
<1>17. CASE Reader
  <2>1. CASE ended BY <2>1 DEF ended, Failures
  <2>2. CASE ReaderFail
    <3>1. wire' \subseteq Frames /\ child' \in Statuses /\ torn' \in BOOLEAN
      BY <1>0, <2>2, DeathTypes DEF ReaderFail
    <3> QED BY <2>2, <3>1 DEF ReaderFail, fail, KeptFailure, TryHello, Statuses
  <2>3. CASE ReaderDone BY <2>3 DEF ReaderDone
  <2>4. CASE \E r \in Requests : ReaderTell(r) BY <2>4, AnswerTypes DEF ReaderTell, Tell
  <2>5. CASE \E f \in wire : ReaderHello(f) BY <2>5 DEF ReaderHello, TryHello, Take
  <2>6. CASE \E f \in wire : ReaderReply(f)
    <3> PICK f \in wire : ReaderReply(f)
      BY <2>6
    <3>1. wire' \subseteq Frames
      BY DEF ReaderReply, Take
    <3>2. f.id \in Ids /\ f.req \in Requests \cup {NoRequest}
      BY DEF Frames
    <3>3. pending[f.id] = NoRequest \/ pending[f.id] \in Requests
      BY <3>2
    <3>4. pending' \in [Ids -> Requests \cup {NoRequest}] /\ answer' \in [Requests -> Answers]
      BY <3>2, <3>3, AnswerTypes DEF ReaderReply, deliver, Removed
    <3>5. reader' \in {"replies", "fail"} /\ why' \in Failures
      BY DEF ReaderReply, deliver, Failures
    <3>6. UNCHANGED <<next_id, failure, ticket, draining, writer, owner, hello, process>>
      BY DEF ReaderReply
    <3> QED BY <3>1, <3>4, <3>5, <3>6
  <2>7. CASE \E f \in wire : ReaderMalformed(f) BY <2>7 DEF ReaderMalformed, Take, Failures
  <2> QED BY <1>17, <2>1, <2>2, <2>3, <2>4, <2>5, <2>6, <2>7 DEF Reader
<1>18. CASE HelperReader
  <2>1. CASE HelperEOF BY <2>1 DEF HelperEOF
  <2>2. CASE HelperExit BY <2>2 DEF HelperExit
  <2>3. CASE \E f \in wire : HelperHello(f)
    <3> PICK f \in wire : HelperHello(f)
      BY <2>3
    <3>1. wire' \subseteq Frames /\ child' \in Statuses /\ torn' \in BOOLEAN
      <4>1. CASE reader = "done"
        BY <1>0, <4>1, DeathTypes DEF HelperHello, Statuses
      <4>2. CASE reader # "done"
        BY <1>0, <4>2, WireTypes, PlaceNames DEF HelperHello
      <4> QED BY <4>1, <4>2
    <3> QED BY <3>1 DEF HelperHello, Statuses
  <2>4. CASE \E f \in wire : HelperRead(f)
    <3>1. wire' \subseteq Frames
      BY <2>4, WireTypes, PlaceNames DEF HelperRead
    <3> QED BY <2>4, <3>1 DEF HelperRead
  <2>5. CASE \E f \in wire : HelperShutdown(f) BY <2>5 DEF HelperShutdown, Take
  <2> QED BY <1>18, <2>1, <2>2, <2>3, <2>4, <2>5 DEF HelperReader
<1>19. CASE HelperWorkers
  <2>1. wire' \subseteq Frames
    <3>1. ASSUME NEW f \in wire, WorkerTake(f) PROVE wire' \subseteq Frames
      BY <3>1, WireTypes, PlaceNames DEF WorkerTake
    <3>2. ASSUME NEW f \in wire, WorkerReply(f) PROVE wire' \subseteq Frames
      <4> DEFINE done == [f EXCEPT !.kind = "reply", !.at = "replies"]
      <4>1. done \in Frames
        BY FrameTypes, PlaceNames
      <4>2. wire' = (wire \ {f}) \cup {done}
        BY <3>2 DEF WorkerReply
      <4> HIDE DEF done
      <4> QED BY <4>1, <4>2
    <3> QED BY <1>19, <3>1, <3>2 DEF HelperWorkers
  <2> QED BY <1>19, <2>1 DEF HelperWorkers, WorkerTake, WorkerReply
<1>20. CASE HelperWriter
  <2>1. CASE \E f \in wire : HelperBuffer(f)
    <3>1. wire' \subseteq Frames
      BY <2>1, WireTypes, PlaceNames DEF HelperBuffer
    <3> QED BY <2>1, <3>1 DEF HelperBuffer, AfterTake
  <2>2. CASE \E f \in wire : HelperFlush(f)
    <3>1. wire' \subseteq Frames
      BY <2>2, WireTypes, PlaceNames DEF HelperFlush
    <3> QED BY <2>2, <3>1 DEF HelperFlush
  <2> QED BY <1>20, <2>1, <2>2 DEF HelperWriter
<1>21. CASE HelperCrash
  <2>1. wire' \subseteq Frames /\ child' \in Statuses /\ torn' \in BOOLEAN
    BY <1>0, <1>21, DeathTypes DEF HelperCrash, Statuses
  <2> QED BY <1>21, <2>1 DEF HelperCrash, Statuses
<1> QED
  BY <1>1, <1>2, <1>3, <1>4, <1>5, <1>6, <1>7, <1>8, <1>9, <1>10, <1>11, <1>12, <1>13,
     <1>14, <1>15, <1>16, <1>17, <1>18, <1>19, <1>20, <1>21
  DEF Next, Owner, Ended

\* The client and the helper keep their types, whatever fails and in whatever
\* order the threads run.
THEOREM TypeCorrect == Spec => []TypeOK
  BY InitType, StepType, PTL DEF Spec

-----------------------------------------------------------------------------
(***************************************************************************)
(* Routing.  OwnReply and OneFailure are not inductive: that a reply finds  *)
(* its own ticket rests on ids in transit being pending and unique, which  *)
(* rests on every submitted request being in one hand.                     *)
(***************************************************************************)
IInv == TypeOK /\ IdsInTransit /\ OwnReply /\ OneFailure /\ OneHand

Unique(W) == \A f, g \in W : Carries(f) /\ Carries(g) /\ f.id = g.id => f = g

\* The wire after a step that only moves frames along or loses them.
Relocated ==
    /\ \A g \in wire' : Carries(g) => \E f \in wire : Carries(f) /\ f.id = g.id /\ f.req = g.req
    /\ Unique(wire) => Unique(wire')

\* A step that touches neither the mutex-protected state nor an answer.
Quiet ==
    /\ UNCHANGED <<pending, failure, ticket, answer, draining>>
    /\ reader \in {"send", "done"} => reader' \in {"send", "done"}
    /\ main \in {"dropSend", "dead"} => main' \in {"dropSend", "dead"} \/ draining["main"] = {}
    /\ reader' = "fail" => why' # "none"

LEMMA ShrinkRelocates == wire' \subseteq wire => Relocated
  BY DEF Relocated, Unique

LEMMA MoveRelocates ==
    ASSUME wire \subseteq Frames, NEW f \in wire, NEW p \in Places, Move(f, p)
    PROVE  Relocated
<1> DEFINE new == [f EXCEPT !.at = p]
<1>1. new.id = f.id /\ new.req = f.req /\ new.kind = f.kind
  BY DEF Frames
<1>2. wire' = (wire \ {f}) \cup {new}
  BY DEF Move
<1> HIDE DEF new
<1> QED BY <1>1, <1>2 DEF Relocated, Unique, Carries

\* Quiet steps keep the invariant.
LEMMA QuietStep == IInv /\ TypeOK' /\ Quiet /\ Relocated => IInv'
<1> SUFFICES ASSUME IInv, TypeOK', Quiet, Relocated PROVE IInv'
  OBVIOUS
<1> USE DEF IInv, Quiet
<1>1. OwnReply' /\ OneFailure'
  BY DEF OwnReply, OneFailure
<1>2. IdsInTransit'
  BY DEF IdsInTransit, Relocated, Unique
<1>3. OneHand'
  <2>1. \A r \in Requests : ticket[r].at = "registered" /\ failure = "none" =>
           \A f \in wire' : Carries(f) => f.req # r
    BY DEF OneHand, Relocated
  <2> QED BY <2>1 DEF OneHand
<1> QED BY <1>1, <1>2, <1>3

LEMMA InitIInv == Init => IInv
<1> SUFFICES ASSUME Init PROVE IInv
  OBVIOUS
<1>1. TypeOK
  BY InitType
<1>2. OwnReply /\ OneFailure
  BY DEF Init, OwnReply, OneFailure, NoAnswer
<1>3. IdsInTransit
  BY DEF Init, IdsInTransit, Carries
<1>4. OneHand
  BY DEF Init, OneHand, NoAnswer, Carries
<1> QED BY <1>1, <1>2, <1>3, <1>4 DEF IInv

\* submit registers a request under a free id: no frame in transit has that id.
LEMMA SubmitKeeps == ASSUME IInv, TypeOK', NEW r \in Requests, Submit(r) PROVE IInv'
<1> PICK id \in Ids :
       /\ FreeId(id)
       /\ pending' = [pending EXCEPT ![id] = r]
       /\ ticket' = [ticket EXCEPT ![r] = [at |-> "registered", id |-> id]]
  BY DEF Submit, allocate_id
<1>1. /\ ticket[r].at = "unused" /\ failure = "none" /\ pending[id] = NoRequest
      /\ UNCHANGED <<failure, answer, draining, wire, main, reader, why>>
  BY DEF Submit, FreeId, Working, owner, threads
<1> USE DEF IInv, TypeOK
<1>2. OwnReply'
  BY <1>1 DEF OwnReply
<1>3. OneFailure'
  BY <1>1 DEF OneFailure
<1>4. \A f \in wire : Carries(f) => f.id # id /\ f.req # r
  <2> TAKE f \in wire
  <2>1. f.id \in Ids
    BY DEF Frames
  <2> QED BY <2>1, <1>1 DEF IdsInTransit, OneHand
<1>5. IdsInTransit'
  BY <1>1, <1>4 DEF IdsInTransit, Frames
<1>6. \A i \in Ids : pending[i] # r
  BY <1>1 DEF OneHand
<1>7. \A i \in Ids : pending'[i] # NoRequest =>
          /\ ticket'[pending'[i]].at \in {"registered", "held"}
          /\ ticket'[pending'[i]].id = i
          /\ answer'[pending'[i]].kind = "none"
          /\ pending'[i] \notin draining'["reader"] \cup draining'["main"]
  <2> SUFFICES ASSUME NEW i \in Ids, pending'[i] # NoRequest
               PROVE  /\ ticket'[pending'[i]].at \in {"registered", "held"}
                      /\ ticket'[pending'[i]].id = i
                      /\ answer'[pending'[i]].kind = "none"
                      /\ pending'[i] \notin draining'["reader"] \cup draining'["main"]
    OBVIOUS
  <2>1. CASE i = id
    BY <2>1, <1>1 DEF OneHand
  <2>2. CASE i # id
    BY <2>2, <1>1, <1>6 DEF OneHand
  <2> QED BY <2>1, <2>2
<1>8. \A q \in Requests :
          /\ ticket'[q].at = "registered" /\ failure' = "none" =>
                pending'[ticket'[q].id] = q /\ \A f \in wire' : Carries(f) => f.req # q
          /\ ticket'[q].at = "unused" => answer'[q].kind = "none"
  BY <1>1, <1>4 DEF OneHand
<1>9. \A t \in {"reader", "main"} : \A q \in draining'[t] :
          /\ failure' # "none" /\ answer'[q].kind = "none"
          /\ ticket'[q].at \in {"registered", "held"}
  BY <1>1 DEF OneHand
<1>10. OneHand'
  BY <1>1, <1>7, <1>8, <1>9 DEF OneHand
<1> QED BY <1>2, <1>3, <1>5, <1>10

\* The frame of a registered request joins the outbox under its ticket's id.
LEMMA EnqueueKeeps == ASSUME IInv, TypeOK', NEW r \in Requests, Enqueue(r) PROVE IInv'
<1> DEFINE new == [kind |-> "process", id |-> ticket[r].id, req |-> r, at |-> "outbox"]
<1>1. /\ ticket[r].at = "registered"
      /\ ticket' = [ticket EXCEPT ![r].at = "held"]
      /\ UNCHANGED <<pending, failure, answer, draining, main, reader, why>>
  BY DEF Enqueue, owner, state, threads
<1>2. wire' = wire \/ wire' = wire \cup {new}
  BY DEF Enqueue, Queue
<1>3. new.kind = "process" /\ new.id = ticket[r].id /\ new.req = r
  OBVIOUS
<1> HIDE DEF new
<1> USE DEF IInv, TypeOK
<1>4. OwnReply'
  BY <1>1 DEF OwnReply
<1>5. OneFailure'
  BY <1>1 DEF OneFailure
<1>6. failure = "none" =>
         /\ pending[new.id] = r
         /\ \A f \in wire : Carries(f) => f.req # r /\ f.id # new.id
  <2> SUFFICES ASSUME failure = "none"
               PROVE  /\ pending[new.id] = r
                      /\ \A f \in wire : Carries(f) => f.req # r /\ f.id # new.id
    OBVIOUS
  <2>1. pending[new.id] = r /\ \A f \in wire : Carries(f) => f.req # r
    BY <1>1, <1>3 DEF OneHand
  <2> QED BY <2>1 DEF IdsInTransit
<1>7. IdsInTransit'
  BY <1>1, <1>2, <1>3, <1>6 DEF IdsInTransit
<1>8. \A q \in Requests : q # r => ticket'[q] = ticket[q]
  BY <1>1
<1>9. ticket'[r].at = "held" /\ ticket'[r].id = ticket[r].id
  BY <1>1
<1>10. OneHand'
  BY <1>1, <1>2, <1>3, <1>8, <1>9 DEF OneHand
<1> QED BY <1>4, <1>5, <1>7, <1>10

\* fail empties pending into the hand of the calling thread, which was empty.
LEMMA FailKeeps ==
    ASSUME IInv, TypeOK', Relocated, NEW t \in {"reader", "main"}, NEW w \in Failures,
           fail(t, w), w # "none", draining[t] = {},
           UNCHANGED <<ticket, answer>>,
           t = "reader" => reader' = "send" /\ main' = main,
           t = "main" => main' = "dropSend" /\ reader' = reader /\ why' = why
    PROVE  IInv'
<1> USE DEF IInv, TypeOK
<1>1. /\ failure' # "none"
      /\ failure # "none" => failure' = failure
      /\ draining' = [draining EXCEPT ![t] = {pending[i] : i \in Ids} \ {NoRequest}]
      /\ pending' = [i \in Ids |-> NoRequest]
  BY DEF fail, KeptFailure
<1>2. OwnReply'
  BY DEF OwnReply
<1>3. OneFailure'
  BY <1>1 DEF OneFailure
<1>4. IdsInTransit'
  BY <1>1 DEF IdsInTransit
<1>5. \A q \in draining'[t] : /\ answer[q].kind = "none"
                              /\ ticket[q].at \in {"registered", "held"}
                              /\ q \notin draining["reader"] \cup draining["main"]
  BY <1>1 DEF OneHand
<1>6. \A u \in {"reader", "main"} : u # t => draining'[u] = draining[u]
  BY <1>1
<1>7. OneHand'
  <2>1. \A i \in Ids : pending'[i] = NoRequest
    BY <1>1
  <2>2. \A u \in {"reader", "main"} : \A q \in draining'[u] :
           answer'[q].kind = "none" /\ ticket'[q].at \in {"registered", "held"}
    BY <1>5, <1>6 DEF OneHand
  <2>3. draining'["reader"] \cap draining'["main"] = {}
    BY <1>5, <1>6
  <2>4. reader' \notin {"send", "done"} => draining'["reader"] = {}
    BY <1>6 DEF OneHand
  <2>5. main' \notin {"dropSend", "dead"} => draining'["main"] = {}
    BY <1>6 DEF OneHand
  <2>6. reader' = "fail" => why' # "none"
    BY DEF OneHand
  <2> QED BY <1>1, <2>1, <2>2, <2>3, <2>4, <2>5, <2>6 DEF OneHand
<1> QED BY <1>2, <1>3, <1>4, <1>7

\* The thread that drained a request answers it with the recorded failure.
LEMMA TellKeeps ==
    ASSUME IInv, TypeOK', NEW t \in {"reader", "main"}, NEW r \in Requests, Tell(t, r),
           UNCHANGED <<ticket, pending, failure, wire, reader, main, why>>
    PROVE  IInv'
<1> USE DEF IInv, TypeOK
<1>1. /\ r \in draining[t]
      /\ answer' = [answer EXCEPT ![r] = ErrorOf(failure)]
      /\ draining' = [draining EXCEPT ![t] = draining[t] \ {r}]
  BY DEF Tell
<1>2. failure # "none" /\ answer[r].kind = "none"
  BY <1>1 DEF OneHand
<1>3. OwnReply'
  BY <1>1 DEF OwnReply, ErrorOf
<1>4. OneFailure'
  BY <1>1, <1>2 DEF OneFailure, ErrorOf
<1>5. IdsInTransit'
  BY <1>2 DEF IdsInTransit
<1>6. \A i \in Ids : pending[i] = NoRequest
  BY <1>2 DEF OneFailure
<1>7. \A u \in {"reader", "main"} : draining'[u] \subseteq draining[u] /\ r \notin draining'[u]
  BY <1>1 DEF OneHand
<1>8. ticket[r].at \in {"registered", "held"}
  BY <1>1 DEF OneHand
<1>9. OneHand'
  BY <1>1, <1>2, <1>6, <1>7, <1>8 DEF OneHand
<1> QED BY <1>3, <1>4, <1>5, <1>9

\* An answer given on the spot, to a request nobody has in hand.
LEMMA OnTheSpotKeeps ==
    ASSUME IInv, TypeOK', NEW r \in Requests, SubmitOversize(r) \/ SubmitRefused(r)
    PROVE  IInv'
<1> USE DEF IInv, TypeOK
<1>1. /\ ticket[r].at = "unused"
      /\ \E s \in {"held", "refused"} : ticket' = [ticket EXCEPT ![r].at = s]
      /\ \/ answer' = [answer EXCEPT ![r] = TooLarge]
         \/ failure # "none" /\ answer' = [answer EXCEPT ![r] = ErrorOf(failure)]
      /\ UNCHANGED <<pending, failure, draining, wire, main, reader, why>>
  BY DEF SubmitOversize, SubmitRefused, owner, state, threads
<1>2. \A q \in Requests : q # r => ticket'[q] = ticket[q] /\ answer'[q] = answer[q]
  BY <1>1
<1>3. ticket'[r].at \in {"held", "refused"}
  BY <1>1
<1>4. answer'[r].kind \in {"large", "error"} /\ (answer'[r].kind = "error" => failure # "none" /\ answer'[r].why = failure)
  BY <1>1 DEF TooLarge, ErrorOf
<1>5. (\A i \in Ids : pending[i] # r) /\ \A t \in {"reader", "main"} : r \notin draining[t]
  BY <1>1 DEF OneHand
<1>6. OwnReply'
  BY <1>2, <1>4 DEF OwnReply
<1>7. OneFailure'
  BY <1>1, <1>2, <1>4 DEF OneFailure
<1>8. IdsInTransit'
  BY <1>1 DEF IdsInTransit
<1>9. OneHand'
  BY <1>1, <1>2, <1>3, <1>5 DEF OneHand
<1> QED BY <1>6, <1>7, <1>8, <1>9

\* deliver hands the reply to the request that owns the id; that the reply is
\* that request's own is IdsInTransit.
LEMMA ReplyKeeps == ASSUME IInv, TypeOK', NEW f \in wire, ReaderReply(f) PROVE IInv'
<1> USE DEF IInv, TypeOK
<1>1. /\ Carries(f) /\ f.id \in Ids /\ wire' = wire \ {f} /\ reader = "replies"
      /\ UNCHANGED <<failure, ticket, draining, main>>
  BY DEF ReaderReply, Carries, Take, Frames, owner
<1>2. CASE pending[f.id] = NoRequest
  <2>1. /\ UNCHANGED <<pending, answer>> /\ reader' = "fail" /\ why' = "protocol"
    BY <1>2 DEF ReaderReply, deliver
  <2>2. Quiet
    BY <1>1, <2>1 DEF Quiet
  <2>3. Relocated
    BY <1>1, ShrinkRelocates
  <2> QED BY <2>2, <2>3, QuietStep
<1>3. CASE pending[f.id] # NoRequest
  <2> DEFINE r == pending[f.id]
  <2>1. /\ pending' = [pending EXCEPT ![f.id] = NoRequest]
        /\ answer' = [answer EXCEPT ![r] = ReplyOf(f.req)]
        /\ UNCHANGED <<reader, why>>
    BY <1>3 DEF ReaderReply, deliver, Removed
  <2>2. failure = "none" /\ r \in Requests
    BY <1>1, <1>3 DEF OneFailure
  <2>3. f.req = r
    BY <1>1, <2>2 DEF IdsInTransit
  <2>4. /\ ticket[r].at \in {"registered", "held"} /\ ticket[r].id = f.id
        /\ ticket[r].at # "registered"
    BY <1>1, <1>3, <2>2, <2>3 DEF OneHand
  <2>5. \A i \in Ids : i # f.id => pending[i] # r /\ pending'[i] = pending[i]
    BY <2>1, <2>2, <2>4 DEF OneHand
  <2>0. r = pending[f.id]
    OBVIOUS
  <2> HIDE DEF r
  <2>6. /\ \A q \in Requests : q # r => answer'[q] = answer[q]
        /\ answer'[r] = ReplyOf(r) /\ pending'[f.id] = NoRequest
    BY <1>1, <2>1, <2>2, <2>3
  <2>7. OwnReply'
    BY <2>6 DEF OwnReply, ReplyOf
  <2>8. OneFailure'
    BY <1>1, <2>2, <2>6 DEF OneFailure, ReplyOf
  <2>9. IdsInTransit'
    <3>1. \A g \in wire' : Carries(g) => g \in wire /\ g.id \in Ids /\ g.id # f.id
      BY <1>1, <2>2 DEF IdsInTransit, Frames
    <3> QED BY <1>1, <2>5, <3>1 DEF IdsInTransit
  <2>10. OneHand'
    <3>1. \A i \in Ids : pending'[i] # NoRequest => i # f.id /\ pending'[i] = pending[i] /\ pending[i] # r
      BY <2>5, <2>6
    <3>2. \A q \in Requests : ticket[q].at = "registered" => q # r /\ pending[ticket[q].id] = q
      BY <2>2, <2>4 DEF OneHand
    <3>3. \A t \in {"reader", "main"} : draining[t] = {}
      BY <2>2 DEF OneHand
    <3>4. \A q \in Requests : ticket'[q].at = "registered" /\ failure' = "none" =>
             pending'[ticket'[q].id] = q /\ \A g \in wire' : Carries(g) => g.req # q
      <4> SUFFICES ASSUME NEW q \in Requests, ticket[q].at = "registered"
                   PROVE  /\ pending'[ticket[q].id] = q
                          /\ \A g \in wire : Carries(g) => g.req # q
        BY <1>1
      <4>1. ticket[q].id \in Ids /\ ticket[q].id # f.id
        BY <2>0, <3>2
      <4> QED BY <2>2, <2>5, <3>2, <4>1 DEF OneHand
    <3>5. \A q \in Requests : ticket'[q].at = "unused" => answer'[q].kind = "none"
      BY <1>1, <2>4, <2>6 DEF OneHand
    <3>6. \A i \in Ids : pending'[i] # NoRequest =>
            /\ ticket'[pending'[i]].at \in {"registered", "held"}
            /\ ticket'[pending'[i]].id = i
            /\ answer'[pending'[i]].kind = "none"
      BY <1>1, <2>6, <3>1 DEF OneHand
    <3> QED BY <1>1, <2>1, <3>3, <3>4, <3>5, <3>6 DEF OneHand
  <2> QED BY <2>7, <2>8, <2>9, <2>10
<1> QED BY <1>2, <1>3

\* Every step keeps the inductive invariant.
LEMMA StepIInv == IInv /\ [Next]_vars => IInv'
<1> SUFFICES ASSUME IInv, [Next]_vars PROVE IInv'
  OBVIOUS
<1>0. TypeOK' /\ TypeOK /\ wire \subseteq Frames
  BY StepType DEF IInv, TypeOK
<1>a. ASSUME Quiet, Relocated PROVE IInv'
  BY <1>0, <1>a, QuietStep
<1> USE DEF owner, state, requests, threads, process
<1>1. CASE UNCHANGED vars
  <2>1. Quiet /\ wire' \subseteq wire
    BY <1>1 DEF vars, Quiet, IInv, OneHand
  <2> QED BY <1>a, <2>1, ShrinkRelocates
<1>2. CASE \/ HelloAccepted \/ SpawnFails \/ ShutdownBegin \/ JoinWriter \/ JoinReader
           \/ WaitChild \/ DropHelper \/ DropClosing
  <2>1. Quiet /\ wire' \subseteq wire
    BY <1>2 DEF HelloAccepted, SpawnFails, ShutdownBegin, JoinWriter, JoinReader, WaitChild,
                DropHelper, DropClosing, Quiet, IInv, OneHand
  <2> QED BY <1>a, <2>1, ShrinkRelocates
<1>3. CASE ShutdownSend
  <2>1. Quiet
    BY <1>3 DEF ShutdownSend, Quiet, IInv, OneHand
  <2>2. Relocated
    <3> DEFINE new == [kind |-> "shutdown", id |-> 0, req |-> NoRequest, at |-> "outbox"]
    <3>1. wire' = wire \/ wire' = wire \cup {new}
      BY <1>3 DEF ShutdownSend, Queue
    <3>2. new.kind = "shutdown"
      OBVIOUS
    <3> HIDE DEF new
    <3> QED BY <3>1, <3>2 DEF Relocated, Unique, Carries
  <2> QED BY <1>a, <2>1, <2>2
<1>4. CASE DropFail
  <2>1. /\ fail("main", "stopped") /\ draining["main"] = {} /\ main' = "dropSend"
        /\ UNCHANGED <<ticket, answer, wire, reader, why>>
    BY <1>4 DEF DropFail, IInv, OneHand
  <2>2. "stopped" \in Failures
    BY DEF Failures
  <2> QED BY <1>0, <2>1, <2>2, FailKeeps, ShrinkRelocates
<1>5. CASE DropKill
  <2>1. Quiet /\ wire' \subseteq wire
    BY <1>5 DEF DropKill, Kill, Dies, Quiet, IInv, OneHand
  <2> QED BY <1>a, <2>1, ShrinkRelocates
<1>6. CASE \E r \in Requests : DropTell(r)
  BY <1>0, <1>6, TellKeeps DEF DropTell
<1>7. CASE Submissions
  BY <1>0, <1>7, OnTheSpotKeeps, SubmitKeeps, EnqueueKeeps DEF Submissions
<1>8. CASE ClientKilled
  <2>1. Quiet /\ wire' \subseteq wire
    BY <1>8 DEF ClientKilled, Quiet
  <2> QED BY <1>a, <2>1, ShrinkRelocates
<1>9. CASE Writer
  <2>1. Quiet
    BY <1>9 DEF Writer, WriterError, WriterEnd, WriterTake, WriterFlush, Quiet, IInv, OneHand
  <2>2. CASE WriterError \/ WriterEnd
    BY <1>a, <2>1, <2>2, ShrinkRelocates DEF WriterError, WriterEnd
  <2>3. CASE \E f \in wire : WriterTake(f) \/ WriterFlush(f)
    BY <1>0, <1>a, <2>1, <2>3, MoveRelocates, PlaceNames DEF WriterTake, WriterFlush
  <2> QED BY <1>9, <2>2, <2>3 DEF Writer
<1>10. CASE Reader
  <2>1. CASE ended \/ ReaderDone
    <3>1. Quiet /\ wire' \subseteq wire
      BY <2>1 DEF ended, ReaderDone, Quiet, IInv, OneHand
    <3> QED BY <1>a, <3>1, ShrinkRelocates
  <2>2. CASE ReaderFail
    <3>1. /\ fail("reader", why) /\ draining["reader"] = {} /\ why # "none" /\ why \in Failures
          /\ reader' = "send" /\ UNCHANGED <<main, ticket, answer>>
      BY <2>2 DEF ReaderFail, IInv, OneHand, TypeOK
    <3>2. wire' \subseteq wire
      BY <2>2 DEF ReaderFail, Kill, Dies
    <3> QED BY <1>0, <3>1, <3>2, FailKeeps, ShrinkRelocates
  <2>3. CASE \E r \in Requests : ReaderTell(r)
    BY <1>0, <2>3, TellKeeps DEF ReaderTell
  <2>4. CASE \E f \in wire : ReaderHello(f) \/ ReaderMalformed(f)
    <3>1. Quiet /\ wire' \subseteq wire
      BY <2>4 DEF ReaderHello, ReaderMalformed, Take, Quiet
    <3> QED BY <1>a, <3>1, ShrinkRelocates
  <2>5. CASE \E f \in wire : ReaderReply(f)
    BY <1>0, <2>5, ReplyKeeps
  <2> QED BY <1>10, <2>1, <2>2, <2>3, <2>4, <2>5 DEF Reader
<1>11. CASE HelperReader
  <2>1. Quiet
    BY <1>11 DEF HelperReader, HelperEOF, HelperExit, HelperHello, HelperRead,
                 HelperShutdown, Quiet, IInv, OneHand
  <2>2. CASE HelperEOF \/ HelperExit \/ \E f \in wire : HelperShutdown(f)
    <3>1. wire' \subseteq wire
      BY <2>2 DEF HelperEOF, HelperExit, HelperShutdown, Take
    <3> QED BY <1>a, <2>1, <3>1, ShrinkRelocates
  <2>3. CASE \E f \in wire : HelperHello(f)
    <3> PICK f \in wire : HelperHello(f)
      BY <2>3
    <3>1. wire' \subseteq wire \/ Move(f, "stdout")
      BY DEF HelperHello, Dies
    <3> QED BY <1>0, <1>a, <2>1, <3>1, ShrinkRelocates, MoveRelocates, PlaceNames
  <2>4. CASE \E f \in wire : HelperRead(f)
    BY <1>0, <1>a, <2>1, <2>4, MoveRelocates, PlaceNames DEF HelperRead
  <2> QED BY <1>11, <2>2, <2>3, <2>4 DEF HelperReader
<1>12. CASE HelperWorkers
  <2>1. Quiet
    BY <1>12 DEF HelperWorkers, WorkerTake, WorkerReply, Quiet, IInv, OneHand
  <2>2. CASE \E f \in wire : WorkerTake(f)
    BY <1>0, <1>a, <2>1, <2>2, MoveRelocates, PlaceNames DEF WorkerTake
  <2>3. CASE \E f \in wire : WorkerReply(f)
    <3> PICK f \in wire : WorkerReply(f)
      BY <2>3
    <3> DEFINE done == [f EXCEPT !.kind = "reply", !.at = "replies"]
    <3>1. Carries(f) /\ Carries(done) /\ done.id = f.id /\ done.req = f.req
      BY <1>0 DEF WorkerReply, Carries, Frames
    <3>2. wire' = (wire \ {f}) \cup {done}
      BY DEF WorkerReply
    <3> HIDE DEF done
    <3>3. Relocated
      BY <3>1, <3>2 DEF Relocated, Unique
    <3> QED BY <1>a, <2>1, <3>3
  <2> QED BY <1>12, <2>2, <2>3 DEF HelperWorkers
<1>13. CASE HelperWriter
  <2>1. Quiet
    BY <1>13 DEF HelperWriter, HelperBuffer, HelperFlush, Quiet, IInv, OneHand
  <2> PICK f \in wire : HelperBuffer(f) \/ HelperFlush(f)
    BY <1>13 DEF HelperWriter
  <2>2. wire' \subseteq wire \/ Move(f, "rbuf") \/ Move(f, "stdout")
    BY DEF HelperBuffer, HelperFlush, Take
  <2> QED BY <1>0, <1>a, <2>1, <2>2, ShrinkRelocates, MoveRelocates, PlaceNames
<1>14. CASE HelperCrash
  <2>1. Quiet /\ wire' \subseteq wire
    BY <1>14 DEF HelperCrash, Dies, Quiet, IInv, OneHand
  <2> QED BY <1>a, <2>1, ShrinkRelocates
<1> QED
  BY <1>1, <1>2, <1>3, <1>4, <1>5, <1>6, <1>7, <1>8, <1>9, <1>10, <1>11, <1>12, <1>13, <1>14
  DEF Next, Owner, Ended

LEMMA Invariant == Spec => []IInv
  BY InitIInv, StepIInv, PTL DEF Spec

\* Whatever order replies come back in and however often ids wrap, a ticket
\* never gets another request's reply.
THEOREM RepliesAreRouted == Spec => []OwnReply
  BY Invariant, PTL DEF IInv

\* Whoever is told of a failure is told of the same, first one, and nobody is
\* left pending behind it.
THEOREM FailuresAgree == Spec => []OneFailure
  BY Invariant, PTL DEF IInv

-----------------------------------------------------------------------------
(***************************************************************************)
(* The helper's life.  A false crash, a request lost by an orderly         *)
(* shutdown or a process left behind would each need the threads and the   *)
(* process in an order the code excludes; which orders there are is what   *)
(* the invariant adds: who has ended when (Life, Exits), what the reader   *)
(* has found (Recorded), that nothing is queued behind Shutdown (Queues), so *)
(* that a request is in transit until it is answered (Kept, Served).       *)
(***************************************************************************)
\* Where the threads and the process are, and what follows from it.
Life ==
    /\ main = "dead" => reader = "done" /\ writer = "done"
    /\ closing => main \notin {"hello", "ready", "dropping"}
    /\ main \notin {"hello", "ready", "dropping", "dead"} => closing
    /\ main \notin {"ready", "dead"} => Idle
    /\ ~outboxOpen => closing \/ main = "dead"
    /\ main \in {"joinReader", "wait", "done"} => writer = "done"
    /\ main \in {"wait", "done"} => reader = "done"
    /\ main \in {"hello", "ready", "closing", "wait"} => result = "none"
    /\ main \in {"dropping", "dropFail", "dropSend"} => result # "none"

\* The helper ends by itself only when it was told to.
Exits ==
    /\ writer = "done" /\ child = "running" => closing \/ main = "dead"
    /\ hread = "closed" \/ child = "exit0" => closing \/ main = "dead"
    /\ child = "exit1" \/ hwriter = "failed" => main = "dead"
    /\ child = "killed" => /\ closing \/ reader \in {"send", "done"}
                           /\ failure = "protocol" \/ result # "none"

\* What the reader has found, and what it has recorded.
Recorded ==
    /\ why # "stopped" /\ (why = "crashed" => child = "crashed")
    /\ reader = "fail" => why # "none" /\ (why # "protocol" => child # "running" /\ At("stdout") = {})
    /\ reader \in {"send", "done"} => main = "dead" \/ (child # "running" /\ failure # "none")
    /\ failure # "none" /\ reader \notin {"send", "done"} => failure = "stopped"
    /\ failure = "stopped" => result # "none"
    /\ main = "dropSend" => failure # "none"
    /\ result = "ok" => main = "done" /\ failure = "closed" /\ child = "exit0"

\* Nothing is queued behind the shutdown.
Queues ==
    /\ writer = "done" => \A f \in wire : f.at \notin ClientPlaces
    /\ \A f \in wire : f.kind = "shutdown" =>
          /\ closing /\ main # "closing" /\ f.at \in {"outbox", "wbuf", "stdin"}
          /\ \A g \in wire : Carries(g) => /\ f.at = "wbuf" => g.at # "outbox"
                                           /\ f.at = "stdin" => g.at \notin ClientPlaces
    /\ hread = "closed" => \A g \in wire : Carries(g) => g.at \notin ClientPlaces \cup {"stdin"}
    /\ child = "exit0" => \A g \in wire : Carries(g) => g.at = "stdout"

\* While nothing has gone wrong, a request without an answer is in transit.
Calm ==
    /\ failure = "none" /\ main # "dead" /\ child \in {"running", "exit0"}
    /\ ~(reader = "fail" /\ why = "protocol")

Waiting(r) == ticket[r].at = "held" /\ answer[r].kind = "none"

Kept == Calm => \A r \in Requests : Waiting(r) => \E f \in wire : Carries(f) /\ f.req = r

\* The reader finds an orderly end only after the last reply.
Served ==
    failure = "closed" /\ child = "exit0" /\ main # "dead" =>
        /\ draining["reader"] = {} /\ draining["main"] = {}
        /\ \A r \in Requests : ticket[r].at = "held" => answer[r].kind \in {"reply", "large"}

LInv == IInv /\ Life /\ Exits /\ Recorded /\ Queues /\ Kept /\ Served /\ NoFalseCrash

\* The steps there are.
LEMMA Steps ==
    ASSUME [Next]_vars
    PROVE  \/ HelloAccepted \/ SpawnFails \/ ShutdownBegin \/ ShutdownSend \/ JoinWriter \/ JoinReader
           \/ WaitChild \/ DropHelper \/ DropClosing \/ DropFail \/ DropKill \/ ClientKilled
           \/ WriterError \/ WriterEnd \/ ended \/ ReaderFail \/ ReaderDone
           \/ HelperEOF \/ HelperExit \/ HelperCrash \/ UNCHANGED vars
           \/ \E r \in Requests : \/ SubmitOversize(r) \/ SubmitRefused(r) \/ Submit(r) \/ Enqueue(r)
                                  \/ DropTell(r) \/ ReaderTell(r)
           \/ \E f \in wire : \/ WriterTake(f) \/ WriterFlush(f) \/ ReaderHello(f) \/ ReaderReply(f)
                              \/ ReaderMalformed(f) \/ HelperHello(f) \/ HelperRead(f)
                              \/ HelperShutdown(f) \/ WorkerTake(f) \/ WorkerReply(f)
                              \/ HelperBuffer(f) \/ HelperFlush(f)
BY DEF Next, Owner, Submissions, Writer, Reader, HelperReader, HelperWorkers, HelperWriter, Ended

\* Steps of the helper process and of its channels touch no thread of the client.
LEMMA HelperSteps ==
    ASSUME \/ HelperEOF \/ HelperExit \/ HelperCrash
           \/ \E f \in wire : \/ HelperHello(f) \/ HelperRead(f) \/ HelperShutdown(f) \/ WorkerTake(f)
                              \/ WorkerReply(f) \/ HelperBuffer(f) \/ HelperFlush(f)
    PROVE  UNCHANGED <<owner, hello, state, requests, threads>>
BY DEF HelperEOF, HelperExit, HelperCrash, HelperHello, HelperRead, HelperShutdown, WorkerTake,
       WorkerReply, HelperBuffer, HelperFlush

LEMMA LifeStep == TypeOK /\ Life /\ [Next]_vars => Life'
<1> SUFFICES ASSUME TypeOK, Life, [Next]_vars PROVE Life'
  OBVIOUS
<1>0. UNCHANGED <<main, reader, writer, closing, outboxOpen, result, ticket>> => Life'
  BY DEF Life, Idle
<1>1. CASE HelloAccepted \/ SpawnFails
  BY <1>1 DEF HelloAccepted, SpawnFails, Life, Idle, requests, threads
<1>2. CASE ShutdownBegin \/ DropHelper \/ DropClosing
  BY <1>2 DEF ShutdownBegin, DropHelper, DropClosing, StoreClosing, Life, Idle, requests, threads
<1>3. CASE ShutdownSend \/ DropKill
  BY <1>3 DEF ShutdownSend, DropKill, CloseOutbox, Life, Idle, requests, threads
<1>4. CASE JoinWriter \/ JoinReader \/ WaitChild
  BY <1>4 DEF JoinWriter, JoinReader, ReaderJoined, WaitChild, Life, Idle, requests, threads
<1>5. CASE DropFail
  BY <1>5 DEF DropFail, fail, Life, Idle, threads
<1>6. CASE ClientKilled
  BY <1>6 DEF ClientKilled, Life, Idle, requests
<1>7. CASE WriterError \/ WriterEnd \/ ended \/ ReaderFail \/ ReaderDone
  BY <1>7 DEF WriterError, WriterEnd, ended, ReaderFail, ReaderDone, Life, Idle, owner, requests
<1>8. ASSUME NEW r \in Requests, SubmitOversize(r) \/ SubmitRefused(r) \/ Submit(r) \/ Enqueue(r) PROVE Life'
  <2>1. main = "ready" /\ UNCHANGED <<main, reader, writer, closing, outboxOpen, result>>
    BY <1>8 DEF SubmitOversize, SubmitRefused, Submit, Enqueue, owner, threads
  <2> QED BY <2>1 DEF Life, Idle
<1>9. ASSUME NEW r \in Requests, DropTell(r) \/ ReaderTell(r) PROVE Life'
  BY <1>0, <1>9 DEF DropTell, ReaderTell, owner, threads
<1>10. ASSUME NEW f \in wire, \/ WriterTake(f) \/ WriterFlush(f) \/ ReaderHello(f) \/ ReaderReply(f)
                              \/ ReaderMalformed(f)
       PROVE  Life'
  <2>1. /\ UNCHANGED <<main, closing, outboxOpen, result, ticket>>
        /\ writer # writer' => writer # "done"
        /\ reader # reader' => reader # "done"
    BY <1>10 DEF WriterTake, WriterFlush, ReaderHello, ReaderReply, deliver, ReaderMalformed, owner, requests
  <2> QED BY <2>1 DEF Life, Idle
<1>11. UNCHANGED <<owner, requests, threads>> => Life'
  BY <1>0 DEF owner, requests, threads
<1> QED BY <1>1, <1>2, <1>3, <1>4, <1>5, <1>6, <1>7, <1>8, <1>9, <1>10, <1>11, Steps, HelperSteps DEF vars

LEMMA ExitsStep == TypeOK /\ Life /\ Exits /\ Recorded /\ Queues /\ [Next]_vars => Exits'
<1> SUFFICES ASSUME TypeOK, Life, Exits, Recorded, Queues, [Next]_vars PROVE Exits'
  OBVIOUS
<1> USE DEF Exits
<1>0. UNCHANGED <<writer, child, closing, main, hread, hwriter, reader, failure, result>> => Exits'
  OBVIOUS
<1>1. CASE HelloAccepted \/ SpawnFails \/ JoinWriter \/ JoinReader
  BY <1>1 DEF HelloAccepted, SpawnFails, JoinWriter, JoinReader, state, threads, process
<1>2. CASE ShutdownBegin \/ DropHelper \/ DropClosing
  BY <1>2 DEF ShutdownBegin, DropHelper, DropClosing, StoreClosing, state, threads, process
<1>3. CASE ShutdownSend \/ WaitChild
  BY <1>3 DEF ShutdownSend, WaitChild, state, threads, process
<1>4. CASE DropFail
  BY <1>4 DEF DropFail, fail, Life, threads, process
<1>5. CASE DropKill
  BY <1>5 DEF DropKill, Kill, Dies, Life, state, threads
<1>6. CASE ClientKilled
  BY <1>6 DEF ClientKilled, state, process
<1>7. CASE WriterError \/ WriterEnd
  BY <1>7 DEF WriterError, WriterEnd, Life, owner, state, process
<1>8. CASE ended \/ ReaderDone
  BY <1>8 DEF ended, ReaderDone, owner, state, process
<1>9. CASE ReaderFail
  <2>1. /\ UNCHANGED <<writer, closing, main, result, hread, hwriter>> /\ reader' = "send" /\ reader = "fail"
        /\ failure' = KeptFailure(why)
        /\ IF why = "protocol" THEN Kill ELSE UNCHANGED child
    BY <1>9 DEF ReaderFail, fail, owner
  <2>2. child' = child \/ (why = "protocol" /\ child = "running" /\ child' = "killed")
    BY <2>1 DEF Kill, Dies
  <2>3. failure # "none" => failure = "stopped" /\ result # "none"
    BY <2>1 DEF Recorded
  <2> QED BY <2>1, <2>2, <2>3 DEF KeptFailure
<1>10. ASSUME NEW r \in Requests, \/ SubmitOversize(r) \/ SubmitRefused(r) \/ Submit(r) \/ Enqueue(r)
                                  \/ DropTell(r) \/ ReaderTell(r)
       PROVE  UNCHANGED <<writer, child, closing, main, hread, hwriter, reader, failure, result>>
  BY <1>10 DEF SubmitOversize, SubmitRefused, Submit, Enqueue, DropTell, ReaderTell, owner, state, threads, process
<1>11. ASSUME NEW f \in wire, \/ WriterTake(f) \/ WriterFlush(f) \/ ReaderHello(f) \/ ReaderReply(f)
                              \/ ReaderMalformed(f)
       PROVE  Exits'
  <2>1. /\ UNCHANGED <<child, closing, main, hread, hwriter, failure, result>>
        /\ writer' # "done" \/ writer' = writer
        /\ reader' = reader \/ reader \notin {"send", "done"}
    BY <1>11 DEF WriterTake, AfterTake, WriterFlush, ReaderHello, ReaderReply, deliver, ReaderMalformed, owner, state, process
  <2> QED BY <2>1
<1>12. CASE HelperEOF
  BY <1>12 DEF HelperEOF, StdinEOF, owner, state, threads
<1>13. CASE HelperExit
  BY <1>13 DEF HelperExit, owner, state, threads
<1>14. CASE HelperCrash
  BY <1>14 DEF HelperCrash, Dies, owner, state, threads
<1>15. ASSUME NEW f \in wire, HelperHello(f) PROVE Exits'
  BY <1>15 DEF HelperHello, Dies, Recorded, owner, state, threads
<1>16. ASSUME NEW f \in wire, HelperShutdown(f) PROVE Exits'
  BY <1>16 DEF HelperShutdown, Queues, At, owner, state, threads
<1>17. ASSUME NEW f \in wire, HelperRead(f) \/ WorkerTake(f) \/ WorkerReply(f) PROVE Exits'
  BY <1>0, <1>17 DEF HelperRead, WorkerTake, WorkerReply, owner, state, threads, process
<1>18. ASSUME NEW f \in wire, HelperBuffer(f) \/ HelperFlush(f) PROVE Exits'
  <2>1. /\ UNCHANGED <<writer, child, closing, main, hread, reader, failure, result>>
        /\ hwriter' = "failed" => hwriter = "failed" \/ (child = "running" /\ reader = "done")
    BY <1>18 DEF HelperBuffer, AfterTake, HelperFlush, owner, state, threads
  <2> QED BY <2>1 DEF Recorded
<1>19. UNCHANGED vars => Exits'
  BY <1>0 DEF vars, owner, state, threads, process
<1> QED BY <1>0, <1>1, <1>2, <1>3, <1>4, <1>5, <1>6, <1>7, <1>8, <1>9, <1>10, <1>11, <1>12, <1>13,
           <1>14, <1>15, <1>16, <1>17, <1>18, <1>19, Steps

\* Only a running helper writes to stdout.
LEMMA StdoutStays ==
    ASSUME TypeOK, [Next]_vars, child # "running", At("stdout") = {}
    PROVE  child' # "running" /\ At("stdout")' = {}
<1> DEFINE P == child' # "running" /\ At("stdout")' = {}
<1>1. child' # "running" /\ wire' \subseteq wire => P
  BY DEF At
<1>2. CASE UNCHANGED <<child, wire>>
  BY <1>2 DEF At
<1>3. CASE \/ HelloAccepted \/ SpawnFails \/ ShutdownBegin \/ JoinWriter \/ JoinReader \/ WaitChild
           \/ DropHelper \/ DropClosing \/ DropFail \/ WriterEnd \/ ended \/ ReaderDone \/ UNCHANGED vars
  BY <1>2, <1>3 DEF HelloAccepted, SpawnFails, ShutdownBegin, JoinWriter, JoinReader, WaitChild, DropHelper,
                    DropClosing, DropFail, WriterEnd, ended, ReaderDone, process, vars
<1>4. CASE DropKill \/ ReaderFail
  BY <1>2, <1>4 DEF DropKill, ReaderFail, Kill
<1>5. CASE ClientKilled \/ WriterError
  BY <1>1, <1>5 DEF ClientKilled, WriterError, process
<1>6. ASSUME NEW k, NEW id, NEW q, Queue(k, id, q, "outbox"), UNCHANGED child PROVE P
  BY <1>6 DEF Queue, At
<1>7. CASE ShutdownSend
  BY <1>2, <1>6, <1>7 DEF ShutdownSend, process
<1>8. ASSUME NEW r \in Requests, SubmitOversize(r) \/ SubmitRefused(r) \/ Submit(r) \/ DropTell(r) \/ ReaderTell(r)
      PROVE  P
  BY <1>2, <1>8 DEF SubmitOversize, SubmitRefused, Submit, DropTell, ReaderTell, process
<1>9. ASSUME NEW r \in Requests, Enqueue(r) PROVE P
  BY <1>2, <1>6, <1>9 DEF Enqueue, process
<1>10. ASSUME NEW f \in wire, ReaderHello(f) \/ ReaderReply(f) \/ ReaderMalformed(f) PROVE P
  BY <1>1, <1>10 DEF ReaderHello, ReaderReply, ReaderMalformed, Take, process
<1>11. ASSUME NEW f \in wire, WriterTake(f) PROVE P
  <2>1. [f EXCEPT !.at = "wbuf"].at = "wbuf"
    BY DEF TypeOK, Frames
  <2> QED BY <1>11, <2>1 DEF WriterTake, Move, At, process
<1>12. \/ HelperEOF \/ HelperExit \/ HelperCrash
       \/ \E f \in wire : \/ WriterFlush(f) \/ HelperHello(f) \/ HelperRead(f) \/ HelperShutdown(f) \/ WorkerTake(f)
                          \/ WorkerReply(f) \/ HelperBuffer(f) \/ HelperFlush(f)
       => FALSE
  BY DEF HelperEOF, HelperExit, HelperCrash, WriterFlush, HelperHello, HelperRead, HelperShutdown, WorkerTake,
         WorkerReply, HelperBuffer, HelperFlush
<1> QED BY <1>3, <1>4, <1>5, <1>7, <1>8, <1>9, <1>10, <1>11, <1>12, Steps

\* A process that has ended has ended; the first failure stays.
LEMMA EndsStay ==
    ASSUME [Next]_vars
    PROVE  /\ child # "running" => child' = child
           /\ failure # "none" => failure' = failure
           /\ main = "dead" => main' = "dead"
           /\ closing => closing'
<1> DEFINE P == /\ child # "running" => child' = child
                /\ failure # "none" => failure' = failure
                /\ main = "dead" => main' = "dead"
                /\ closing => closing'
<1>1. ASSUME UNCHANGED <<child, failure, closing>>, main # "dead" \/ main' = main PROVE P
  BY <1>1
<1>2. ASSUME \/ HelloAccepted \/ SpawnFails \/ ShutdownSend \/ JoinWriter \/ JoinReader \/ WaitChild
             \/ DropHelper \/ ClientKilled
      PROVE  P
  BY <1>1, <1>2 DEF HelloAccepted, SpawnFails, ShutdownSend, JoinWriter, JoinReader, WaitChild, DropHelper,
                    ClientKilled, state, process
<1>3. ASSUME ShutdownBegin \/ DropClosing PROVE P
  BY <1>3 DEF ShutdownBegin, DropClosing, StoreClosing, state, process
<1>4. ASSUME DropFail PROVE P
  BY <1>4 DEF DropFail, fail, KeptFailure, process
<1>5. ASSUME DropKill PROVE P
  BY <1>5 DEF DropKill, Kill, Dies, state
<1>6. ASSUME ReaderFail PROVE P
  BY <1>6 DEF ReaderFail, fail, KeptFailure, Kill, Dies, owner
<1>7. ASSUME WriterError \/ WriterEnd \/ ended \/ ReaderDone \/ UNCHANGED vars PROVE P
  BY <1>1, <1>7 DEF WriterError, WriterEnd, ended, ReaderDone, vars, owner, state, process
<1>8. ASSUME \/ \E r \in Requests : \/ SubmitOversize(r) \/ SubmitRefused(r) \/ Submit(r) \/ Enqueue(r)
                                    \/ DropTell(r) \/ ReaderTell(r)
      PROVE  P
  BY <1>1, <1>8 DEF SubmitOversize, SubmitRefused, Submit, Enqueue, DropTell, ReaderTell, owner, state, process
<1>9. ASSUME \E f \in wire : \/ WriterTake(f) \/ WriterFlush(f) \/ ReaderHello(f) \/ ReaderReply(f)
                             \/ ReaderMalformed(f)
      PROVE  P
  BY <1>1, <1>9 DEF WriterTake, WriterFlush, ReaderHello, ReaderReply, ReaderMalformed, owner, state, process
<1>10. ASSUME \/ HelperEOF \/ HelperExit \/ HelperCrash
              \/ \E f \in wire : \/ HelperHello(f) \/ HelperRead(f) \/ HelperShutdown(f) \/ WorkerTake(f)
                                 \/ WorkerReply(f) \/ HelperBuffer(f) \/ HelperFlush(f)
       PROVE  P
  <2>1. child = "running"
    BY <1>10 DEF HelperEOF, HelperExit, HelperCrash, HelperHello, HelperRead, HelperShutdown, WorkerTake,
                 WorkerReply, HelperBuffer, HelperFlush
  <2>2. UNCHANGED <<owner, state>>
    BY <1>10, HelperSteps
  <2> QED BY <2>1, <2>2 DEF owner, state
<1> HIDE DEF P
<1>11. P
  BY <1>2, <1>3, <1>4, <1>5, <1>6, <1>7, <1>8, <1>9, <1>10, Steps
<1> QED BY <1>11 DEF P

LEMMA RecordedStep == TypeOK /\ Life /\ Exits /\ Recorded /\ [Next]_vars => Recorded'
<1> SUFFICES ASSUME TypeOK, Life, Exits, Recorded, [Next]_vars PROVE Recorded'
  OBVIOUS
<1>0. ASSUME UNCHANGED <<why, reader, failure>>, result' = "ok" => result = "ok",
             main' = main \/ (main \notin {"done", "dead"} /\ main' # "dropSend"), result # "none" => result' # "none"
      PROVE  Recorded'
  BY <1>0, StdoutStays, EndsStay DEF Recorded
<1>1. CASE HelloAccepted \/ SpawnFails \/ JoinWriter \/ JoinReader \/ ShutdownBegin \/ DropHelper \/ DropClosing \/ ShutdownSend
  BY <1>0, <1>1 DEF HelloAccepted, SpawnFails, JoinWriter, JoinReader, ShutdownBegin, DropHelper, DropClosing,
                    ShutdownSend, state, threads
<1>2. CASE WaitChild
  <2>1. main = "wait" /\ main' = "done" /\ UNCHANGED <<why, reader, failure, child, wire>>
    BY <1>2 DEF WaitChild, state, threads, process
  <2>2. failure \notin {"none", "stopped"}
    BY <2>1 DEF Life, Recorded
  <2>3. result' # "none" /\ (result' = "ok" => child = "exit0" /\ failure \notin {"crashed", "stopped", "protocol"})
    BY <1>2 DEF WaitChild
  <2>4. failure \in Failures
    BY DEF TypeOK
  <2> QED BY <2>1, <2>2, <2>3, <2>4 DEF Recorded, Failures, At
<1>3. CASE DropFail
  <2>1. /\ failure' = KeptFailure("stopped") /\ main = "dropFail" /\ main' = "dropSend"
        /\ UNCHANGED <<why, reader, result, child, wire>>
    BY <1>3 DEF DropFail, fail, threads, process
  <2> QED BY <2>1 DEF KeptFailure, Recorded, Life, At
<1>4. CASE DropKill
  BY <1>0, <1>4 DEF DropKill, state, threads
<1>5. CASE ClientKilled
  <2>1. UNCHANGED <<why, failure, result, child>> /\ main' = "dead" /\ reader' = "done" /\ main # "done"
    BY <1>5 DEF ClientKilled, state, process
  <2> QED BY <2>1 DEF Recorded
<1>6. CASE WriterError \/ WriterEnd
  BY <1>0, <1>6 DEF WriterError, WriterEnd, owner, state
<1>7. CASE ended
  <2>1. /\ reader \in {"hello", "replies"} /\ reader' = "fail" /\ At("stdout") = {} /\ child # "running"
        /\ why' = IF torn THEN "protocol" ELSE IF closing THEN "closed" ELSE "crashed"
        /\ UNCHANGED <<main, result, failure, child, wire>>
    BY <1>7 DEF ended, owner, state, process
  <2>2. main # "dead"
    BY <2>1 DEF Life
  <2>3. ~closing => child = "crashed"
    BY <2>1, <2>2 DEF Exits, TypeOK
  <2> QED BY <2>1, <2>3 DEF Recorded, At
<1>8. CASE ReaderFail
  <2>1. /\ reader = "fail" /\ reader' = "send" /\ failure' = KeptFailure(why)
        /\ why = "protocol" => child' # "running"
        /\ UNCHANGED <<why, main, result>>
    BY <1>8 DEF ReaderFail, fail, Kill, Dies, owner
  <2>2. why # "none" /\ why # "stopped" /\ child' # "running"
    BY <2>1, EndsStay DEF Recorded
  <2>3. failure' # "none" /\ (failure' = "stopped" => result # "none")
    BY <2>1, <2>2 DEF KeptFailure, Recorded
  <2>4. main # "done"
    BY <2>1 DEF Life
  <2> QED BY <2>1, <2>2, <2>3, <2>4, EndsStay DEF Recorded
<1>9. CASE ReaderDone
  BY <1>9 DEF ReaderDone, Recorded, At, owner, state, process
<1>10. ASSUME NEW r \in Requests, \/ SubmitOversize(r) \/ SubmitRefused(r) \/ Submit(r) \/ Enqueue(r)
                                  \/ DropTell(r) \/ ReaderTell(r)
       PROVE  Recorded'
  BY <1>0, <1>10 DEF SubmitOversize, SubmitRefused, Submit, Enqueue, DropTell, ReaderTell, owner, state, threads
<1>11. ASSUME NEW f \in wire, WriterTake(f) \/ WriterFlush(f) PROVE Recorded'
  BY <1>0, <1>11 DEF WriterTake, WriterFlush, owner, state
<1>12. ASSUME NEW f \in wire, ReaderHello(f) \/ ReaderReply(f) \/ ReaderMalformed(f) PROVE Recorded'
  <2>1. /\ reader \in {"hello", "replies"} /\ UNCHANGED <<main, result, failure, child>>
        /\ \/ reader' \in {"hello", "replies"} /\ why' = why
           \/ reader' = "fail" /\ why' = "protocol"
    BY <1>12 DEF ReaderHello, ReaderReply, deliver, ReaderMalformed, owner, state, process
  <2> QED BY <2>1 DEF Recorded
<1>13. CASE UNCHANGED <<owner, state, threads>>
  BY <1>0, <1>13 DEF owner, state, threads
<1> QED BY <1>1, <1>2, <1>3, <1>4, <1>5, <1>6, <1>7, <1>8, <1>9, <1>10, <1>11, <1>12, <1>13, Steps, HelperSteps
        DEF vars

LEMMA NoFalseCrashStep ==
    TypeOK /\ Life /\ Exits /\ Recorded /\ NoFalseCrash /\ [Next]_vars => NoFalseCrash'
<1> SUFFICES ASSUME TypeOK, Life, Exits, Recorded, NoFalseCrash, [Next]_vars PROVE NoFalseCrash'
  OBVIOUS
<1>0. child = "crashed" => child' = "crashed"
  BY EndsStay
<1>1. CASE WaitChild
  <2>1. main = "wait" /\ child # "running" /\ UNCHANGED <<failure, child>>
    BY <1>1 DEF WaitChild, state, process
  <2>2. result' = "crashed" => failure = "crashed" \/ failure = "stopped" \/ (failure # "protocol" /\ child # "exit0")
    BY <1>1 DEF WaitChild
  <2>3. failure # "stopped" /\ child # "exit1" /\ (child = "killed" => failure = "protocol")
    BY <2>1 DEF Life, Exits, Recorded
  <2> QED BY <2>1, <2>2, <2>3 DEF NoFalseCrash, TypeOK
<1>2. CASE ReaderFail
  <2>1. failure' = KeptFailure(why) /\ UNCHANGED result
    BY <1>2 DEF ReaderFail, fail, owner
  <2> QED BY <1>0, <2>1 DEF KeptFailure, Recorded, NoFalseCrash
<1>3. CASE DropFail
  BY <1>0, <1>3 DEF DropFail, fail, KeptFailure, NoFalseCrash
<1>4. CASE SpawnFails \/ DropHelper
  BY <1>0, <1>4 DEF SpawnFails, DropHelper, NoFalseCrash, state
<1>5. CASE UNCHANGED <<result, failure>>
  BY <1>0, <1>5 DEF NoFalseCrash
<1>6. CASE HelloAccepted \/ ShutdownBegin \/ ShutdownSend \/ JoinWriter \/ JoinReader \/ DropClosing \/ DropKill \/ ClientKilled
  BY <1>5, <1>6 DEF HelloAccepted, ShutdownBegin, ShutdownSend, JoinWriter, JoinReader, DropClosing, DropKill,
                    ClientKilled, state
<1>7. CASE WriterError \/ WriterEnd \/ ended \/ ReaderDone \/ UNCHANGED vars
  BY <1>5, <1>7 DEF WriterError, WriterEnd, ended, ReaderDone, vars, owner, state
<1>8. CASE \E r \in Requests : \/ SubmitOversize(r) \/ SubmitRefused(r) \/ Submit(r) \/ Enqueue(r)
                               \/ DropTell(r) \/ ReaderTell(r)
  BY <1>5, <1>8 DEF SubmitOversize, SubmitRefused, Submit, Enqueue, DropTell, ReaderTell, owner, state
<1>9. CASE \E f \in wire : \/ WriterTake(f) \/ WriterFlush(f) \/ ReaderHello(f) \/ ReaderReply(f) \/ ReaderMalformed(f)
  BY <1>5, <1>9 DEF WriterTake, WriterFlush, ReaderHello, ReaderReply, ReaderMalformed, owner, state
<1>10. CASE UNCHANGED <<owner, state>>
  BY <1>5, <1>10 DEF owner, state
<1> QED BY <1>1, <1>2, <1>3, <1>4, <1>6, <1>7, <1>8, <1>9, <1>10, Steps, HelperSteps

\* A step that only loses frames keeps the order of the queues.
LEMMA QueuesShrink ==
    ASSUME Queues, wire' \subseteq wire, closing => closing', main' # "closing" \/ ~closing \/ main' = main,
           hread' = hread, child' = child \/ child' # "exit0", writer' = writer \/ writer' # "done"
    PROVE  Queues'
BY DEF Queues

\* So does one that moves a frame on inside the helper.
LEMMA QueuesForward ==
    ASSUME Queues, NEW f \in wire, NEW g, wire' = (wire \ {f}) \cup {g}, g.kind # "shutdown",
           g.at \notin ClientPlaces \cup {"stdin"}, child' # "exit0", UNCHANGED <<closing, main, hread, writer>>
    PROVE  Queues'
<1>1. \A h \in wire' : h \in wire \/ h = g
  OBVIOUS
<1> QED BY <1>1 DEF Queues, ClientPlaces

LEMMA QueuesStep == TypeOK /\ Life /\ Exits /\ Queues /\ [Next]_vars => Queues'
<1> SUFFICES ASSUME TypeOK, Life, Exits, Queues, [Next]_vars PROVE Queues'
  OBVIOUS
<1>0. /\ \A f \in wire, p \in Places : /\ [f EXCEPT !.at = p].at = p
                                       /\ [f EXCEPT !.at = p].kind = f.kind
                                       /\ [f EXCEPT !.kind = "reply", !.at = p].kind = "reply"
                                       /\ [f EXCEPT !.kind = "reply", !.at = p].at = p
  BY DEF TypeOK, Frames
<1>1. CASE \/ HelloAccepted \/ SpawnFails \/ ShutdownBegin \/ JoinWriter \/ JoinReader \/ WaitChild
           \/ DropHelper \/ DropClosing \/ DropFail \/ UNCHANGED vars
  <2>1. /\ wire' = wire /\ (closing => closing') /\ (main' # "closing" \/ ~closing \/ main' = main)
        /\ UNCHANGED <<hread, child, writer>>
    BY <1>1 DEF HelloAccepted, SpawnFails, ShutdownBegin, StoreClosing, JoinWriter, JoinReader, WaitChild, DropHelper,
                DropClosing, DropFail, Life, vars, owner, threads, process
  <2> QED BY <2>1, QueuesShrink
<1>2. CASE DropKill \/ ReaderFail
  <2>2. hread' = hread /\ writer' = writer
    BY <1>2 DEF DropKill, ReaderFail, threads
  <2>3. child' = child \/ child' # "exit0"
    BY <1>2 DEF DropKill, ReaderFail, Kill, Dies
  <2>4. wire' \subseteq wire /\ closing' = closing /\ (main' # "closing" \/ main' = main)
    BY <1>2 DEF DropKill, ReaderFail, Kill, Dies, owner
  <2> QED BY <2>2, <2>3, <2>4, QueuesShrink
<1>3. CASE ended \/ ReaderDone \/ HelperCrash
  <2>1. wire' \subseteq wire /\ UNCHANGED <<closing, main, hread, writer>>
    BY <1>3 DEF ended, ReaderDone, HelperCrash, Dies, owner, threads, process
  <2>2. child' = child \/ child' # "exit0"
    BY <1>3 DEF ended, ReaderDone, HelperCrash, Dies, process
  <2> QED BY <2>1, <2>2, QueuesShrink
<1>4. CASE \E r \in Requests : SubmitOversize(r) \/ SubmitRefused(r) \/ Submit(r) \/ DropTell(r) \/ ReaderTell(r)
  BY <1>4, QueuesShrink DEF SubmitOversize, SubmitRefused, Submit, DropTell, ReaderTell, owner, threads, process
<1>5. CASE \E f \in wire : ReaderHello(f) \/ ReaderReply(f) \/ ReaderMalformed(f)
  BY <1>5, QueuesShrink DEF ReaderHello, ReaderReply, ReaderMalformed, Take, owner, threads, process
<1>6. CASE ClientKilled \/ WriterError
  <2>1. /\ wire' \subseteq wire /\ (\A f \in wire' : f.at \notin ClientPlaces)
    BY <1>6 DEF ClientKilled, WriterError
  <2>2. UNCHANGED <<closing, hread, child>> /\ (main' # "closing" \/ main' = main)
    BY <1>6 DEF ClientKilled, WriterError, owner, process
  <2> QED BY <2>1, <2>2 DEF Queues
<1>7. CASE WriterEnd
  <2>1. /\ UNCHANGED <<wire, closing, main, hread, child>>
        /\ writer' = "done" => At("outbox") = {} /\ At("wbuf") = {}
    BY <1>7 DEF WriterEnd, owner, process
  <2> QED BY <2>1 DEF Queues, At, ClientPlaces
<1>8. CASE ShutdownSend
  <2> DEFINE new == [kind |-> "shutdown", id |-> 0, req |-> NoRequest, at |-> "outbox"]
  <2>1. /\ wire' = wire \/ (writer # "done" /\ wire' = wire \cup {new})
        /\ main = "closing" /\ main' = "joinWriter" /\ UNCHANGED <<closing, hread, child, writer>>
    BY <1>8 DEF ShutdownSend, Queue, threads, process
  <2>2. new.kind = "shutdown" /\ new.at = "outbox" /\ ~Carries(new)
    BY DEF Carries
  <2>3. closing
    BY <2>1 DEF Life
  <2> HIDE DEF new
  <2> QED BY <2>1, <2>2, <2>3 DEF Queues
<1>9. ASSUME NEW r \in Requests, Enqueue(r) PROVE Queues'
  <2> DEFINE new == [kind |-> "process", id |-> ticket[r].id, req |-> r, at |-> "outbox"]
  <2>1. /\ wire' = wire \/ (writer # "done" /\ wire' = wire \cup {new})
        /\ main = "ready" /\ UNCHANGED <<main, closing, hread, child, writer>>
    BY <1>9 DEF Enqueue, Queue, owner, threads, process
  <2>2. new.kind = "process"
    OBVIOUS
  <2>3. ~closing /\ main # "dead"
    BY <2>1 DEF Life
  <2>4. hread # "closed" /\ child # "exit0"
    BY <2>3 DEF Exits
  <2> HIDE DEF new
  <2> QED BY <2>1, <2>2, <2>3, <2>4 DEF Queues
<1>10. ASSUME NEW f \in wire, WriterTake(f) PROVE Queues'
  <2> DEFINE g == [f EXCEPT !.at = "wbuf"]
  <2>1. /\ f.at = "outbox" /\ wire' = (wire \ {f}) \cup {g} /\ (f.kind = "shutdown" => At("outbox") = {f})
        /\ writer' # "done" /\ UNCHANGED <<closing, main, hread, child>>
    BY <1>10 DEF WriterTake, AfterTake, Oldest, Move, At, owner, process
  <2>2. g.at = "wbuf" /\ g.kind = f.kind
    BY <1>0, PlaceNames
  <2> HIDE DEF g
  <2>3. \A h \in wire' : (h \in wire /\ h # f) \/ h = g
    BY <2>1
  <2>4. Carries(g) <=> Carries(f)
    BY <2>2 DEF Carries
  <2>5. hread = "closed" \/ child = "exit0" => ~Carries(g)
    BY <2>1, <2>4 DEF Queues, ClientPlaces
  <2>6. ASSUME NEW h \in wire', h.kind = "shutdown"
        PROVE  /\ closing /\ main # "closing" /\ h.at \in {"outbox", "wbuf", "stdin"}
               /\ \A k \in wire' : Carries(k) => /\ h.at = "wbuf" => k.at # "outbox"
                                                 /\ h.at = "stdin" => k.at \notin ClientPlaces
    <3>1. CASE h = g
      <4>1. f.kind = "shutdown" /\ At("outbox") = {f}
        BY <2>1, <2>2, <2>6, <3>1
      <4>2. \A k \in wire' : k.at # "outbox"
        BY <2>2, <2>3, <4>1 DEF At
      <4> QED BY <2>2, <3>1, <4>1, <4>2 DEF Queues
    <3>2. CASE h \in wire /\ h # g
      BY <2>1, <2>2, <2>3, <2>4, <2>6, <3>2 DEF Queues, ClientPlaces
    <3> QED BY <2>3, <3>1, <3>2
  <2>7. \A h \in wire' : Carries(h) => /\ hread = "closed" => h.at \notin ClientPlaces \cup {"stdin"}
                                       /\ child = "exit0" => h.at = "stdout"
    BY <2>3, <2>5 DEF Queues
  <2>8. UNCHANGED <<closing, main, hread, child>> /\ writer' # "done"
    BY <2>1
  <2> QED BY <2>6, <2>7, <2>8 DEF Queues
<1>11. ASSUME NEW f \in wire, WriterFlush(f) PROVE Queues'
  <2> DEFINE g == [f EXCEPT !.at = "stdin"]
  <2>1. /\ f.at = "wbuf" /\ wire' = (wire \ {f}) \cup {g} /\ (f.kind = "shutdown" => At("wbuf") = {f})
        /\ writer' # "done" /\ child = "running" /\ UNCHANGED <<closing, main, hread, child>>
    BY <1>11 DEF WriterFlush, Oldest, Move, At, owner, process
  <2>2. g.at = "stdin" /\ g.kind = f.kind
    BY <1>0, PlaceNames
  <2> HIDE DEF g
  <2>3. \A h \in wire' : (h \in wire /\ h # f) \/ h = g
    BY <2>1
  <2>4. Carries(g) <=> Carries(f)
    BY <2>2 DEF Carries
  <2>5. hread = "closed" => ~Carries(g)
    BY <2>1, <2>4 DEF Queues, ClientPlaces
  <2>6. ASSUME NEW h \in wire', h.kind = "shutdown"
        PROVE  /\ closing /\ main # "closing" /\ h.at \in {"outbox", "wbuf", "stdin"}
               /\ \A k \in wire' : Carries(k) => /\ h.at = "wbuf" => k.at # "outbox"
                                                 /\ h.at = "stdin" => k.at \notin ClientPlaces
    <3>1. CASE h = g
      <4>1. f.kind = "shutdown" /\ At("wbuf") = {f}
        BY <2>1, <2>2, <2>6, <3>1
      <4>2. \A k \in wire' : Carries(k) => k.at \notin {"outbox", "wbuf"}
        BY <2>1, <2>2, <2>3, <4>1 DEF At, Queues
      <4> QED BY <2>2, <3>1, <4>1, <4>2 DEF Queues, ClientPlaces
    <3>2. CASE h \in wire /\ h # g
      BY <2>1, <2>2, <2>3, <2>4, <2>6, <3>2 DEF Queues, ClientPlaces
    <3> QED BY <2>3, <3>1, <3>2
  <2> QED BY <2>1, <2>2, <2>3, <2>5, <2>6 DEF Queues
<1>12. CASE HelperEOF
  <2>1. /\ UNCHANGED <<wire, closing, main, child, writer>> /\ writer = "done" /\ At("stdin") = {}
    BY <1>12 DEF HelperEOF, StdinEOF, owner, threads
  <2> QED BY <2>1 DEF Queues, At
<1>13. CASE HelperExit
  <2>1. /\ wire' \subseteq wire /\ hread = "closed" /\ Drained /\ UNCHANGED <<closing, main, hread, writer>>
    BY <1>13 DEF HelperExit, owner, threads
  <2>2. \A g \in wire : Carries(g) => g.at = "stdout"
    <3>1. \A g \in wire : g.at \in Places
      BY DEF TypeOK, Frames
    <3> QED BY <2>1, <3>1 DEF Queues, Drained, Places, ClientPlaces, HelperPlaces
  <2> QED BY <2>1, <2>2 DEF Queues
<1>14. ASSUME NEW f \in wire, HelperShutdown(f) PROVE Queues'
  <2>1. /\ f.kind = "shutdown" /\ f.at = "stdin" /\ At("stdin") = {f} /\ wire' = wire \ {f}
        /\ UNCHANGED <<closing, main, child, writer>>
    BY <1>14 DEF HelperShutdown, Oldest, Take, At, owner, threads
  <2> QED BY <2>1 DEF Queues, At
<1>15. ASSUME NEW f \in wire, HelperHello(f) PROVE Queues'
  <2>1. CASE reader = "done"
    <3>1. /\ wire' \subseteq wire /\ child' = "exit1" /\ UNCHANGED <<closing, main, hread, writer>>
      BY <1>15, <2>1 DEF HelperHello, Dies, owner, threads
    <3> QED BY <3>1, QueuesShrink
  <2>2. CASE reader # "done"
    <3>1. /\ wire' = (wire \ {f}) \cup {[f EXCEPT !.at = "stdout"]} /\ f.kind = "hello" /\ child' = "running"
          /\ hread' = "jobs" /\ UNCHANGED <<closing, main, writer>>
      BY <1>15, <2>2 DEF HelperHello, Move, owner, threads
    <3> DEFINE g == [f EXCEPT !.at = "stdout"]
    <3>2. g.at = "stdout" /\ g.kind = "hello"
      BY <1>0, <3>1, PlaceNames
    <3>3. \A h \in wire' : h \in wire \/ h = g
      BY <3>1
    <3> HIDE DEF g
    <3> QED BY <3>1, <3>2, <3>3 DEF Queues, ClientPlaces
  <2> QED BY <2>1, <2>2
<1>16. ASSUME NEW f \in wire, HelperRead(f) \/ WorkerTake(f) PROVE Queues'
  <2>1. PICK p \in {"jobs", "worker"} : wire' = (wire \ {f}) \cup {[f EXCEPT !.at = p]}
    BY <1>16 DEF HelperRead, WorkerTake, Move
  <2>2. f.kind # "shutdown"
    BY <1>16 DEF HelperRead, WorkerTake, Queues, At
  <2>3. child' = "running" /\ UNCHANGED <<closing, main, hread, writer>>
    BY <1>16 DEF HelperRead, WorkerTake, owner, threads, process
  <2>4. [f EXCEPT !.at = p].kind # "shutdown" /\ [f EXCEPT !.at = p].at \notin ClientPlaces \cup {"stdin"}
    BY <1>0, <2>2, PlaceNames DEF ClientPlaces
  <2> QED BY <2>1, <2>3, <2>4, QueuesForward
<1>17. ASSUME NEW f \in wire, WorkerReply(f) PROVE Queues'
  <2>1. wire' = (wire \ {f}) \cup {[f EXCEPT !.kind = "reply", !.at = "replies"]}
    BY <1>17 DEF WorkerReply
  <2>2. child' = "running" /\ UNCHANGED <<closing, main, hread, writer>>
    BY <1>17 DEF WorkerReply, owner, threads, process
  <2>3. /\ [f EXCEPT !.kind = "reply", !.at = "replies"].kind # "shutdown"
        /\ [f EXCEPT !.kind = "reply", !.at = "replies"].at \notin ClientPlaces \cup {"stdin"}
    BY <1>0, PlaceNames DEF ClientPlaces
  <2> QED BY <2>1, <2>2, <2>3, QueuesForward
<1>18. ASSUME NEW f \in wire, HelperBuffer(f) \/ HelperFlush(f) PROVE Queues'
  <2>1. child' = "running" /\ UNCHANGED <<closing, main, hread, writer>> /\ f.at \in {"replies", "rbuf"}
    BY <1>18 DEF HelperBuffer, HelperFlush, At, owner, threads
  <2>2. wire' \subseteq wire \/ \E p \in {"rbuf", "stdout"} : wire' = (wire \ {f}) \cup {[f EXCEPT !.at = p]}
    BY <1>18 DEF HelperBuffer, HelperFlush, Take, Move
  <2>3. f.kind # "shutdown"
    BY <2>1 DEF Queues
  <2>4. \A p \in {"rbuf", "stdout"} : /\ [f EXCEPT !.at = p].kind # "shutdown"
                                      /\ [f EXCEPT !.at = p].at \notin ClientPlaces \cup {"stdin"}
    BY <1>0, <2>3, PlaceNames DEF ClientPlaces
  <2> QED BY <2>1, <2>2, <2>4, QueuesShrink, QueuesForward
<1> QED BY <1>1, <1>2, <1>3, <1>4, <1>5, <1>6, <1>7, <1>8, <1>9, <1>10, <1>11, <1>12, <1>13, <1>14, <1>15,
           <1>16, <1>17, <1>18, Steps

\* Nothing becomes calm again.
LEMMA CalmStays == TypeOK /\ Life /\ [Next]_vars => (Calm' => Calm)
<1> SUFFICES ASSUME TypeOK, Life, [Next]_vars, Calm' PROVE Calm
  OBVIOUS
<1>1. failure = "none" /\ main # "dead"
  BY EndsStay DEF Calm
<1>2. child \in {"running", "exit0"}
  BY EndsStay DEF Calm, TypeOK
<1>3. ASSUME reader = "fail", why = "protocol" PROVE FALSE
  <2>1. ASSUME ReaderFail PROVE FALSE
    <3>1. failure' = KeptFailure("protocol")
      BY <1>3, <2>1 DEF ReaderFail, fail
    <3> QED BY <3>1 DEF KeptFailure, Calm
  <2>2. ASSUME UNCHANGED <<reader, why>> PROVE FALSE
    BY <1>3, <2>2 DEF Calm
  <2>3. ASSUME ClientKilled PROVE FALSE
    BY <2>3 DEF ClientKilled, Calm
  <2>4. ASSUME \/ ended \/ ReaderDone \/ \E f \in wire : ReaderHello(f) \/ ReaderReply(f) \/ ReaderMalformed(f)
        PROVE  FALSE
    BY <1>3, <2>4 DEF ended, ReaderDone, ReaderHello, ReaderReply, ReaderMalformed
  <2>5. \/ HelloAccepted \/ SpawnFails \/ ShutdownBegin \/ ShutdownSend \/ JoinWriter \/ JoinReader
        \/ WaitChild \/ DropHelper \/ DropClosing \/ DropFail \/ DropKill \/ WriterError \/ WriterEnd
        => UNCHANGED <<reader, why>>
    BY DEF HelloAccepted, SpawnFails, ShutdownBegin, ShutdownSend, JoinWriter, JoinReader, WaitChild,
           DropHelper, DropClosing, DropFail, DropKill, WriterError, WriterEnd, threads
  <2>6. (\E r \in Requests : \/ SubmitOversize(r) \/ SubmitRefused(r) \/ Submit(r) \/ Enqueue(r)
                             \/ DropTell(r) \/ ReaderTell(r)) => UNCHANGED <<reader, why>>
    BY DEF SubmitOversize, SubmitRefused, Submit, Enqueue, DropTell, ReaderTell, threads
  <2>7. (\E f \in wire : WriterTake(f) \/ WriterFlush(f)) => UNCHANGED <<reader, why>>
    BY DEF WriterTake, WriterFlush
  <2>8. UNCHANGED threads => UNCHANGED <<reader, why>>
    BY DEF threads
  <2> QED BY <2>1, <2>2, <2>3, <2>4, <2>5, <2>6, <2>7, <2>8, Steps, HelperSteps DEF vars
<1> QED BY <1>1, <1>2, <1>3 DEF Calm

LEMMA KeptStep == IInv /\ Life /\ Exits /\ Recorded /\ Queues /\ Kept /\ [Next]_vars => Kept'
<1> SUFFICES ASSUME IInv, Life, Exits, Recorded, Queues, Kept, [Next]_vars, Calm', NEW r \in Requests, Waiting(r)'
             PROVE  \E f \in wire' : Carries(f) /\ f.req = r
  BY DEF Kept
<1> DEFINE Goal == \E f \in wire' : Carries(f) /\ f.req = r
<1>0. TypeOK /\ Calm
  BY CalmStays DEF IInv
<1>1. main # "dead" /\ failure = "none" /\ reader \notin {"send", "done"} /\ child \in {"running", "exit0"}
  <2>1. main # "dead" /\ failure = "none" /\ child \in {"running", "exit0"}
    BY <1>0 DEF Calm
  <2> QED BY <2>1 DEF Recorded
\* Every frame that carries a request is still there, in one place or another.
<1> DEFINE Still == \A f \in wire : Carries(f) => \E g \in wire' : Carries(g) /\ g.req = f.req
<1>2. ASSUME Waiting(r), Still PROVE Goal
  <2>1. PICK f \in wire : Carries(f) /\ f.req = r
    BY <1>0, <1>2 DEF Kept
  <2> QED BY <1>2, <2>1
<1>3. ASSUME NEW f \in wire, NEW g, wire' = (wire \ {f}) \cup {g}, g.req = f.req, Carries(f) => Carries(g)
      PROVE  Still
  BY <1>3
<1>4. \A f \in wire, p \in Places :
          /\ [f EXCEPT !.at = p].req = f.req /\ [f EXCEPT !.at = p].kind = f.kind
          /\ [f EXCEPT !.kind = "reply", !.at = p].req = f.req
          /\ [f EXCEPT !.kind = "reply", !.at = p].kind = "reply"
  BY <1>0 DEF TypeOK, Frames
<1>5. ASSUME NEW f \in wire, NEW p \in Places, Move(f, p) PROVE Still
  <2>1. [f EXCEPT !.at = p].req = f.req /\ (Carries(f) => Carries([f EXCEPT !.at = p]))
    BY <1>4 DEF Carries
  <2> QED BY <1>3, <1>5, <2>1 DEF Move
<1>6. UNCHANGED wire => Still
  OBVIOUS
<1> HIDE DEF Still, Goal
<1>7. UNCHANGED <<ticket, answer>> => Waiting(r)
  BY DEF Waiting
<1>8. CASE \/ HelloAccepted \/ SpawnFails \/ ShutdownBegin \/ JoinWriter \/ JoinReader \/ WaitChild
           \/ DropHelper \/ DropClosing \/ WriterEnd \/ ended \/ ReaderDone \/ UNCHANGED vars
  <2>1. UNCHANGED <<ticket, answer, wire>>
    BY <1>8 DEF HelloAccepted, SpawnFails, ShutdownBegin, JoinWriter, JoinReader, WaitChild, DropHelper,
                DropClosing, WriterEnd, ended, ReaderDone, vars, requests
  <2> QED BY <1>2, <1>6, <1>7, <2>1 DEF Goal
<1>9. CASE ShutdownSend
  <2>1. UNCHANGED <<ticket, answer>> /\ wire \subseteq wire'
    BY <1>9 DEF ShutdownSend, Queue, requests
  <2>2. Still
    BY <2>1 DEF Still
  <2> QED BY <1>2, <1>7, <2>1, <2>2 DEF Goal
<1>10. ASSUME DropFail \/ DropKill \/ ClientKilled \/ ReaderFail \/ HelperCrash PROVE FALSE
  <2>1. CASE DropFail
    BY <2>1 DEF DropFail, fail, KeptFailure, Calm
  <2>2. CASE DropKill
    BY <1>1, <2>2 DEF DropKill, Recorded
  <2>3. CASE ClientKilled \/ HelperCrash
    BY <2>3 DEF ClientKilled, HelperCrash, Dies, Calm
  <2>4. CASE ReaderFail
    BY <2>4 DEF ReaderFail, fail, KeptFailure, Calm, Recorded
  <2> QED BY <1>10, <2>1, <2>2, <2>3, <2>4
<1>11. CASE WriterError
  <2>1. UNCHANGED <<ticket, answer>> /\ child # "running" /\ wire' = {f \in wire : f.at \notin ClientPlaces}
    BY <1>11 DEF WriterError, requests
  <2>2. \A f \in wire : Carries(f) => f.at = "stdout"
    BY <1>1, <2>1 DEF Queues
  <2>3. Still
    BY <2>1, <2>2 DEF Still, ClientPlaces
  <2> QED BY <1>2, <1>7, <2>1, <2>3 DEF Goal
<1>12. ASSUME NEW q \in Requests, SubmitOversize(q) \/ SubmitRefused(q) \/ Submit(q) PROVE Goal
  <2>1. wire' = wire
    BY <1>12 DEF SubmitOversize, SubmitRefused, Submit
  <2>2. q # r
    BY <1>0, <1>12 DEF SubmitOversize, SubmitRefused, Submit, TooLarge, Waiting, TypeOK
  <2>3. Waiting(r)
    BY <1>0, <1>12, <2>2 DEF SubmitOversize, SubmitRefused, Submit, Waiting, TypeOK
  <2> QED BY <1>2, <1>6, <2>1, <2>3
<1>13. ASSUME NEW q \in Requests, Enqueue(q) PROVE Goal
  <2> DEFINE new == [kind |-> "process", id |-> ticket[q].id, req |-> q, at |-> "outbox"]
  <2>1. /\ main = "ready" /\ UNCHANGED <<answer, child>>
        /\ IF writer # "done" THEN wire' = wire \cup {new} ELSE wire' = wire
        /\ ticket' = [ticket EXCEPT ![q].at = "held"]
    BY <1>13 DEF Enqueue, Queue, process
  <2>2. writer # "done"
    <3>1. ~closing /\ main # "dead"
      BY <2>1 DEF Life
    <3> QED BY <1>1, <3>1 DEF Exits
  <2>3. new \in wire' /\ wire \subseteq wire'
    BY <2>1, <2>2
  <2>4. CASE q = r
    <3>1. Carries(new) /\ new.req = q
      BY DEF Carries
    <3> QED BY <2>3, <2>4, <3>1 DEF Goal
  <2>5. CASE q # r
    <3>1. Waiting(r)
      BY <1>0, <2>1, <2>5 DEF Waiting, TypeOK
    <3>2. Still
      BY <2>3 DEF Still
    <3> QED BY <1>2, <3>1, <3>2
  <2> QED BY <2>4, <2>5
<1>14. ASSUME NEW q \in Requests, DropTell(q) \/ ReaderTell(q) PROVE FALSE
  BY <1>1, <1>14 DEF DropTell, ReaderTell, Recorded
<1>15. ASSUME NEW f \in wire, WriterTake(f) \/ WriterFlush(f) \/ HelperRead(f) \/ WorkerTake(f) PROVE Goal
  <2>1. UNCHANGED <<ticket, answer>> /\ (Move(f, "wbuf") \/ Move(f, "stdin") \/ Move(f, "jobs") \/ Move(f, "worker"))
    BY <1>15 DEF WriterTake, WriterFlush, HelperRead, WorkerTake, requests
  <2> QED BY <1>2, <1>5, <1>7, <2>1, PlaceNames
<1>16. ASSUME NEW f \in wire, ReaderHello(f) \/ HelperShutdown(f) PROVE Goal
  <2>1. UNCHANGED <<ticket, answer>> /\ wire' = wire \ {f} /\ ~Carries(f)
    BY <1>16 DEF ReaderHello, HelperShutdown, Take, Carries, requests
  <2>2. Still
    BY <2>1 DEF Still
  <2> QED BY <1>2, <1>7, <2>1, <2>2
<1>17. ASSUME NEW f \in wire, ReaderMalformed(f) PROVE FALSE
  BY <1>17 DEF ReaderMalformed, Calm
<1>18. ASSUME NEW f \in wire, ReaderReply(f) PROVE Goal
  <2>1. /\ f.kind = "reply" /\ wire' = wire \ {f} /\ UNCHANGED ticket
        /\ pending[f.id] # NoRequest => answer' = [answer EXCEPT ![pending[f.id]] = ReplyOf(f.req)]
        /\ pending[f.id] = NoRequest => reader' = "fail" /\ why' = "protocol"
    BY <1>18 DEF ReaderReply, deliver, Take
  <2>2. pending[f.id] = f.req /\ f.req \in Requests
    BY <1>1, <2>1 DEF IInv, IdsInTransit, Carries
  <2>3. answer' = [answer EXCEPT ![f.req] = ReplyOf(f.req)]
    BY <2>1, <2>2
  <2>4. f.req # r /\ Waiting(r)
    <3>1. answer'[f.req].kind = "reply"
      BY <1>0, <2>2, <2>3 DEF TypeOK, ReplyOf
    <3>2. f.req # r
      BY <3>1 DEF Waiting
    <3> QED BY <1>0, <2>1, <2>3, <3>2 DEF Waiting, TypeOK
  <2>5. PICK g \in wire : Carries(g) /\ g.req = r
    BY <1>0, <2>4 DEF Kept
  <2> QED BY <2>1, <2>4, <2>5 DEF Goal
<1>19. CASE HelperEOF
  BY <1>2, <1>6, <1>7, <1>19 DEF HelperEOF, requests, Goal
<1>20. CASE HelperExit
  <2>1. /\ UNCHANGED <<ticket, answer>> /\ hread = "closed" /\ Drained
        /\ wire' = {f \in wire : f.at \notin HelperPlaces}
    BY <1>20 DEF HelperExit, requests
  <2>2. \A f \in wire : Carries(f) => f.at = "stdout"
    <3>1. \A f \in wire : f.at \in Places
      BY <1>0 DEF TypeOK, Frames
    <3> QED BY <2>1, <3>1 DEF Queues, Drained, Places, ClientPlaces, HelperPlaces
  <2>3. Still
    BY <2>1, <2>2 DEF Still, HelperPlaces
  <2> QED BY <1>2, <1>7, <2>1, <2>3 DEF Goal
<1>21. ASSUME NEW f \in wire, HelperHello(f) PROVE Goal
  <2>1. UNCHANGED <<ticket, answer>> /\ Move(f, "stdout")
    BY <1>1, <1>21 DEF HelperHello, requests
  <2> QED BY <1>2, <1>5, <1>7, <2>1, PlaceNames
<1>22. ASSUME NEW f \in wire, WorkerReply(f) PROVE Goal
  <2>1. UNCHANGED <<ticket, answer>> /\ wire' = (wire \ {f}) \cup {[f EXCEPT !.kind = "reply", !.at = "replies"]}
    BY <1>22 DEF WorkerReply, requests
  <2>2. /\ [f EXCEPT !.kind = "reply", !.at = "replies"].req = f.req
        /\ Carries([f EXCEPT !.kind = "reply", !.at = "replies"])
    BY <1>4, PlaceNames DEF Carries
  <2>3. Still
    BY <1>3, <2>1, <2>2
  <2> QED BY <1>2, <1>7, <2>1, <2>3
<1>23. ASSUME NEW f \in wire, HelperBuffer(f) \/ HelperFlush(f) PROVE Goal
  <2>1. UNCHANGED <<ticket, answer>>
    BY <1>23 DEF HelperBuffer, HelperFlush, requests
  <2>2. hwriter # "failed"
    BY <1>1 DEF Exits
  <2>3. Move(f, "rbuf") \/ Move(f, "stdout")
    BY <1>1, <1>23, <2>2 DEF HelperBuffer, HelperFlush
  <2> QED BY <1>2, <1>5, <1>7, <2>1, <2>3, PlaceNames
<1>24. Goal
  BY <1>8, <1>9, <1>10, <1>11, <1>12, <1>13, <1>14, <1>15, <1>16, <1>17, <1>18, <1>19, <1>20, <1>21, <1>22, <1>23,
     Steps DEF Goal
<1> QED BY <1>24 DEF Goal

LEMMA ServedStep == IInv /\ Life /\ Exits /\ Recorded /\ Queues /\ Kept /\ Served /\ [Next]_vars => Served'
<1> SUFFICES ASSUME IInv, Life, Exits, Recorded, Queues, Kept, Served, [Next]_vars,
                    failure' = "closed", child' = "exit0", main' # "dead"
             PROVE  /\ draining'["reader"] = {} /\ draining'["main"] = {}
                    /\ \A r \in Requests : ticket'[r].at = "held" => answer'[r].kind \in {"reply", "large"}
  BY DEF Served
<1> DEFINE Goal == /\ draining'["reader"] = {} /\ draining'["main"] = {}
                   /\ \A r \in Requests : ticket'[r].at = "held" => answer'[r].kind \in {"reply", "large"}
<1>0. TypeOK /\ main # "dead"
  BY EndsStay DEF IInv
<1>1. CASE failure = "none"
  <2>1. ReaderFail
    <3>1. ASSUME UNCHANGED failure PROVE FALSE
      BY <1>1, <3>1
    <3>2. ASSUME DropFail PROVE FALSE
      BY <1>1, <3>2 DEF DropFail, fail, KeptFailure
    <3>3. \/ HelloAccepted \/ SpawnFails \/ ShutdownBegin \/ ShutdownSend \/ JoinWriter \/ JoinReader
          \/ WaitChild \/ DropHelper \/ DropClosing \/ DropKill \/ ClientKilled
          => UNCHANGED failure
      BY DEF HelloAccepted, SpawnFails, ShutdownBegin, ShutdownSend, JoinWriter, JoinReader, WaitChild,
             DropHelper, DropClosing, DropKill, ClientKilled, state
    <3>4. WriterError \/ WriterEnd \/ ended \/ ReaderDone \/ UNCHANGED vars => UNCHANGED failure
      BY DEF WriterError, WriterEnd, ended, ReaderDone, vars, state
    <3>5. (\E r \in Requests : \/ SubmitOversize(r) \/ SubmitRefused(r) \/ Submit(r) \/ Enqueue(r)
                               \/ DropTell(r) \/ ReaderTell(r)) => UNCHANGED failure
      BY DEF SubmitOversize, SubmitRefused, Submit, Enqueue, DropTell, ReaderTell, state
    <3>6. (\E f \in wire : \/ WriterTake(f) \/ WriterFlush(f) \/ ReaderHello(f) \/ ReaderReply(f)
                           \/ ReaderMalformed(f)) => UNCHANGED failure
      BY DEF WriterTake, WriterFlush, ReaderHello, ReaderReply, ReaderMalformed, state
    <3>7. UNCHANGED state => UNCHANGED failure
      BY DEF state
    <3> QED BY <3>1, <3>2, <3>3, <3>4, <3>5, <3>6, <3>7, Steps, HelperSteps
  <2>2. /\ reader = "fail" /\ failure' = KeptFailure(why) /\ UNCHANGED <<ticket, answer>>
        /\ draining' = [draining EXCEPT !["reader"] = {pending[i] : i \in Ids} \ {NoRequest}]
    BY <2>1 DEF ReaderFail, fail
  <2>3. why = "closed"
    BY <1>1, <2>2 DEF KeptFailure
  <2>4. child = "exit0" /\ At("stdout") = {}
    BY <2>2, <2>3, EndsStay DEF Recorded
  <2>5. Calm
    BY <1>0, <1>1, <2>3, <2>4 DEF Calm
  <2>6. \A f \in wire : ~Carries(f)
    BY <2>4 DEF Queues, At
  <2>7. \A r \in Requests : ~Waiting(r)
    BY <2>5, <2>6 DEF Kept
  <2>8. \A r \in Requests : ticket[r].at = "held" => answer[r].kind \in {"reply", "large"}
    <3>1. \A r \in Requests : answer[r].kind \in {"none", "reply", "large", "error"}
      BY <1>0 DEF TypeOK, Answers
    <3> QED BY <1>1, <2>7, <3>1 DEF Waiting, IInv, OneFailure
  <2>9. \A i \in Ids : pending[i] = NoRequest
    <3>1. closing /\ main # "ready"
      BY <1>0, <2>4 DEF Exits, Life
    <3>2. \A r \in Requests : ticket[r].at # "registered"
      BY <1>0, <3>1 DEF Life, Idle
    <3>3. ASSUME NEW i \in Ids, pending[i] # NoRequest PROVE FALSE
      <4>1. pending[i] \in Requests
        BY <1>0, <3>3 DEF TypeOK
      <4>2. ticket[pending[i]].at = "held" /\ answer[pending[i]].kind = "none"
        BY <3>2, <3>3, <4>1 DEF IInv, OneHand
      <4> QED BY <2>7, <4>1, <4>2 DEF Waiting
    <3> QED BY <3>3
  <2>10. draining["main"] = {} /\ draining["reader"] = {}
    <3>1. \A t \in {"reader", "main"} : \A r \in draining[t] : FALSE
      BY <1>1 DEF IInv, OneHand
    <3> QED BY <3>1
  <2>11. draining'["reader"] = {} /\ draining'["main"] = {}
    BY <1>0, <2>2, <2>9, <2>10 DEF TypeOK
  <2> QED BY <2>2, <2>8, <2>11
<1>2. CASE failure # "none"
  <2>1. failure = "closed" /\ reader \in {"send", "done"} /\ child = "exit0"
    <3>1. failure = "closed" /\ reader \in {"send", "done"}
      BY <1>2, EndsStay DEF Recorded
    <3>2. child # "running"
      BY <1>0, <3>1 DEF Recorded
    <3> QED BY <3>1, <3>2, EndsStay
  <2>2. /\ draining["reader"] = {} /\ draining["main"] = {}
        /\ \A r \in Requests : ticket[r].at = "held" => answer[r].kind \in {"reply", "large"}
    BY <1>0, <2>1 DEF Served
  <2>3. ASSUME UNCHANGED <<ticket, answer, draining>> PROVE Goal
    BY <2>2, <2>3
  <2>4. main # "ready"
    BY <1>0, <2>1 DEF Exits, Life
  <2>5. ASSUME DropFail PROVE Goal
    <3>1. \A i \in Ids : pending[i] = NoRequest
      BY <1>2 DEF IInv, OneFailure
    <3>2. /\ draining' = [draining EXCEPT !["main"] = {pending[i] : i \in Ids} \ {NoRequest}]
          /\ UNCHANGED <<ticket, answer>>
      BY <2>5 DEF DropFail, fail
    <3>3. draining'["main"] = {} /\ draining'["reader"] = {}
      BY <1>0, <2>2, <3>1, <3>2 DEF TypeOK
    <3> QED BY <2>2, <3>2, <3>3
  <2>6. ASSUME NEW r \in Requests, \/ SubmitOversize(r) \/ SubmitRefused(r) \/ Submit(r) \/ Enqueue(r)
                                   \/ DropTell(r) \/ ReaderTell(r)
        PROVE  FALSE
    BY <2>2, <2>4, <2>6 DEF SubmitOversize, SubmitRefused, Submit, Enqueue, DropTell, ReaderTell, Tell
  <2>7. ASSUME ended \/ ReaderFail \/ \E f \in wire : ReaderHello(f) \/ ReaderReply(f) \/ ReaderMalformed(f)
        PROVE  FALSE
    BY <2>1, <2>7 DEF ended, ReaderFail, ReaderHello, ReaderReply, ReaderMalformed
  <2>8. \/ HelloAccepted \/ SpawnFails \/ ShutdownBegin \/ ShutdownSend \/ JoinWriter \/ JoinReader
        \/ WaitChild \/ DropHelper \/ DropClosing \/ DropKill \/ ClientKilled
        => UNCHANGED <<ticket, answer, draining>>
    BY DEF HelloAccepted, SpawnFails, ShutdownBegin, ShutdownSend, JoinWriter, JoinReader, WaitChild,
           DropHelper, DropClosing, DropKill, ClientKilled, requests
  <2>9. \/ WriterError \/ WriterEnd \/ ReaderDone \/ UNCHANGED vars
        \/ \E f \in wire : WriterTake(f) \/ WriterFlush(f)
        => UNCHANGED <<ticket, answer, draining>>
    BY DEF WriterError, WriterEnd, ReaderDone, WriterTake, WriterFlush, vars, requests
  <2>10. UNCHANGED requests => UNCHANGED <<ticket, answer, draining>>
    BY DEF requests
  <2> HIDE DEF Goal
  <2>11. Goal
    BY <2>3, <2>5, <2>6, <2>7, <2>8, <2>9, <2>10, Steps, HelperSteps
  <2> QED BY <2>11 DEF Goal
<1> QED BY <1>1, <1>2

LEMMA InitLInv == Init => LInv
<1> SUFFICES ASSUME Init PROVE LInv
  OBVIOUS
<1>1. IInv
  BY InitIInv
<1>2. \A f \in wire : f.kind = "hello" /\ f.at = "outbox"
  BY DEF Init
<1>3. Life /\ Exits /\ Recorded /\ NoFalseCrash /\ Served
  BY DEF Init, Life, Idle, Exits, Recorded, NoFalseCrash, Served
<1>4. Queues
  BY <1>2 DEF Init, Queues, Carries
<1>5. Kept
  BY DEF Init, Kept, Waiting
<1> QED BY <1>1, <1>3, <1>4, <1>5 DEF LInv

LEMMA StepLInv == LInv /\ [Next]_vars => LInv'
<1> SUFFICES ASSUME LInv, [Next]_vars PROVE LInv'
  OBVIOUS
<1>1. TypeOK /\ IInv'
  BY StepIInv DEF LInv, IInv
<1> QED BY <1>1, LifeStep, ExitsStep, RecordedStep, QueuesStep, KeptStep, ServedStep, NoFalseCrashStep DEF LInv

LEMMA LifeInvariant == Spec => []LInv
  BY InitLInv, StepLInv, PTL DEF Spec

\* Helper::shutdown, read_loop (ended): a recorded or returned crash is one; the
\* helper's orderly exit is never taken for it, whichever of the threads, the
\* owner and the process comes first.
THEOREM CrashesAreReal == Spec => []NoFalseCrash
<1>1. LInv => NoFalseCrash
  BY DEF LInv
<1> QED BY <1>1, LifeInvariant, PTL

\* Helper::shutdown: when it succeeds, every request that was submitted has been
\* answered by the helper, for any number of requests and any capacity.
THEOREM ShutdownLosesNothing == Spec => []ShutdownAnswersFirst
<1>1. LInv => ShutdownAnswersFirst
  BY DEF LInv, Recorded, Served, ShutdownAnswersFirst
<1> QED BY <1>1, LifeInvariant, PTL

\* Helper::shutdown and drop: when they are over, so are the process and both of
\* the client's threads.
THEOREM NothingOutlivesTheOwner == Spec => []NothingLeftBehind
<1>1. LInv => NothingLeftBehind
  BY DEF LInv, Life, Recorded, NothingLeftBehind
<1> QED BY <1>1, LifeInvariant, PTL

--------------------------------------------------------------------------------

\* The refinement: an inductive step over the invariant above.

\* Steps that change no ticket, no answer and no failure, as callers see them.
Hidden == UNCHANGED <<ticket, answer, failure>>

LEMMA HiddenStutters == Hidden => UNCHANGED Api!api
<1> SUFFICES ASSUME Hidden PROVE UNCHANGED Api!api
  OBVIOUS
<1>1. \A r \in Requests : Status(r)' = Status(r)
  BY DEF Hidden, Status
<1>2. [r \in Requests |-> Status(r)]' = [r \in Requests |-> Status(r)]
  BY <1>1
<1> QED BY <1>2 DEF Hidden, Api!api

\* Sorting the steps of GoHelper by what a caller sees of them.
Visible ==
    \/ Hidden
    \/ \E r \in Requests : SubmitOversize(r) \/ SubmitRefused(r) \/ Submit(r) \/ Enqueue(r)
    \/ \E t \in {"reader", "main"}, w \in Failures \ {"none"} :
          fail(t, w) /\ UNCHANGED <<ticket, answer>>
    \/ \E t \in {"reader", "main"}, r \in Requests : Tell(t, r) /\ UNCHANGED <<ticket, failure>>
    \/ \E f \in wire : ReaderReply(f)

LEMMA StepsAreVisible == IInv /\ [Next]_vars => Visible
<1> SUFFICES ASSUME IInv, [Next]_vars PROVE Visible
  OBVIOUS
<1> USE DEF owner, state, requests, threads, process
<1>1. CASE UNCHANGED vars \/ ClientKilled \/ HelperCrash
  <2>1. Hidden
    BY <1>1 DEF vars, ClientKilled, HelperCrash, Hidden
  <2> QED BY <2>1 DEF Visible
<1>2. CASE Owner
  <2>1. CASE DropFail
    <3>1. "stopped" \in Failures \ {"none"}
      BY DEF Failures
    <3> QED BY <2>1, <3>1 DEF DropFail, Visible
  <2>2. CASE \E r \in Requests : DropTell(r)
    BY <2>2 DEF DropTell, Visible
  <2>3. CASE \/ HelloAccepted \/ SpawnFails \/ ShutdownBegin \/ ShutdownSend \/ JoinWriter
             \/ JoinReader \/ WaitChild \/ DropHelper \/ DropClosing \/ DropKill
    <3>1. Hidden
      BY <2>3 DEF HelloAccepted, SpawnFails, ShutdownBegin, ShutdownSend, JoinWriter,
                  JoinReader, WaitChild, DropHelper, DropClosing, DropKill, Hidden
    <3> QED BY <3>1 DEF Visible
  <2> QED BY <1>2, <2>1, <2>2, <2>3 DEF Owner
<1>3. CASE Submissions
  BY <1>3 DEF Submissions, Visible
<1>4. CASE Writer
  <2>1. Hidden
    BY <1>4 DEF Writer, WriterError, WriterEnd, WriterTake, WriterFlush, Hidden
  <2> QED BY <2>1 DEF Visible
<1>5. CASE Reader
  <2>1. CASE ReaderFail
    <3>1. why \in Failures \ {"none"}
      BY <2>1 DEF ReaderFail, IInv, TypeOK, OneHand
    <3> QED BY <2>1, <3>1 DEF ReaderFail, Visible
  <2>2. CASE \E r \in Requests : ReaderTell(r)
    BY <2>2 DEF ReaderTell, Visible
  <2>3. CASE \E f \in wire : ReaderReply(f)
    BY <2>3 DEF Visible
  <2>4. CASE ended \/ ReaderDone \/ \E f \in wire : ReaderHello(f) \/ ReaderMalformed(f)
    <3>1. Hidden
      BY <2>4 DEF ended, ReaderDone, ReaderHello, ReaderMalformed, Hidden
    <3> QED BY <3>1 DEF Visible
  <2> QED BY <1>5, <2>1, <2>2, <2>3, <2>4 DEF Reader
<1>6. CASE HelperReader
  <2>1. Hidden
    BY <1>6 DEF HelperReader, HelperEOF, HelperExit, HelperHello, HelperRead,
                HelperShutdown, Hidden
  <2> QED BY <2>1 DEF Visible
<1>7. CASE HelperWorkers \/ HelperWriter
  <2>1. Hidden
    BY <1>7 DEF HelperWorkers, WorkerTake, WorkerReply, HelperWriter, HelperBuffer,
                HelperFlush, Hidden
  <2> QED BY <2>1 DEF Visible
<1> QED BY <1>1, <1>2, <1>3, <1>4, <1>5, <1>6, <1>7 DEF Next, Ended

-----------------------------------------------------------------------------

LEMMA StepAnswersOnce ==
    IInv /\ Visible =>
        /\ \A r \in Requests : Answered(r) => answer'[r] = answer[r]
        /\ failure # "none" => failure' = failure
<1> SUFFICES ASSUME IInv, Visible
             PROVE  /\ \A r \in Requests : Answered(r) => answer'[r] = answer[r]
                    /\ failure # "none" => failure' = failure
  OBVIOUS
<1> USE DEF IInv, TypeOK, Answered
<1>1. CASE Hidden
  BY <1>1 DEF Hidden
<1>2. CASE \E r \in Requests : SubmitOversize(r) \/ SubmitRefused(r) \/ Submit(r) \/ Enqueue(r)
  BY <1>2 DEF SubmitOversize, SubmitRefused, Submit, Enqueue, state, OneHand
<1>3. CASE \E t \in {"reader", "main"}, w \in Failures \ {"none"} :
              fail(t, w) /\ UNCHANGED <<ticket, answer>>
  BY <1>3 DEF fail, KeptFailure
<1>4. CASE \E t \in {"reader", "main"}, r \in Requests : Tell(t, r) /\ UNCHANGED <<ticket, failure>>
  BY <1>4 DEF Tell, OneHand
<1>5. CASE \E f \in wire : ReaderReply(f)
  <2> PICK f \in wire : ReaderReply(f)
    BY <1>5
  <2>1. f.id \in Ids
    BY DEF Frames
  <2> QED BY <2>1 DEF ReaderReply, deliver, Removed, OneHand
<1> QED BY <1>1, <1>2, <1>3, <1>4, <1>5 DEF Visible

\* No ticket is answered twice and no failure replaces another, in any
\* interleaving of a late reply, a crash, a drop and a shutdown.
THEOREM AnsweredOnce == Spec => AnswerOnce
<1>1. IInv /\ [Next]_vars =>
         [ /\ \A r \in Requests : Answered(r) => answer'[r] = answer[r]
           /\ failure # "none" => failure' = failure ]_vars
  BY StepsAreVisible, StepAnswersOnce
<1> QED BY <1>1, Invariant, PTL DEF Spec, AnswerOnce

-----------------------------------------------------------------------------

\* A step that touches one request changes one status.
LEMMA OneStatus ==
    ASSUME NEW r \in Requests, NEW from, NEW to,
           \A q \in Requests : q # r =>
              ticket'[q].at = ticket[q].at /\ answer'[q] = answer[q],
           Status(r) = from, Status(r)' = to
    PROVE  Api!Set(r, from, to)
<1>1. \A q \in Requests : q # r => Status(q)' = Status(q)
  BY DEF Status
<1>2. [q \in Requests |-> Status(q)]' =
         [[q \in Requests |-> Status(q)] EXCEPT ![r] = to]
  BY <1>1
<1> QED BY <1>2 DEF Api!Set

LEMMA RefineInit == Init => Api!Init
<1> SUFFICES ASSUME Init PROVE Api!Init
  OBVIOUS
<1>1. \A r \in Requests : Status(r) = "unused"
  BY DEF Init, Status, NoAnswer
<1>2. failure = "none"
  BY DEF Init
<1> QED BY <1>1, <1>2 DEF Api!Init

\* Every visible step is a step of the interface.
LEMMA RefineStep == IInv /\ Visible => [Api!Next]_(Api!api)
<1> SUFFICES ASSUME IInv, Visible PROVE Api!Next \/ UNCHANGED Api!api
  OBVIOUS
<1> USE DEF IInv, TypeOK
<1>1. CASE Hidden
  BY <1>1, HiddenStutters
<1>2. ASSUME NEW r \in Requests, SubmitOversize(r) PROVE Api!Next
  <2>1. Api!Set(r, "unused", "large")
    <3>1. /\ Status(r) = "unused"
          /\ \A q \in Requests : q # r => ticket'[q].at = ticket[q].at /\ answer'[q] = answer[q]
      BY <1>2 DEF SubmitOversize, Status, OneHand
    <3>2. ticket'[r].at = "held" /\ answer'[r].kind = "large"
      BY <1>2 DEF SubmitOversize, TooLarge
    <3>3. Status(r)' = "large"
      BY <3>2 DEF Status
    <3> QED BY <3>1, <3>3, OneStatus
  <2> QED BY <1>2, <2>1 DEF SubmitOversize, Api!AnswerLarge, Api!Next, state
<1>3. ASSUME NEW r \in Requests, SubmitRefused(r) PROVE Api!Next
  <2>1. Api!Set(r, "unused", failure)
    <3>1. /\ Status(r) = "unused"
          /\ \A q \in Requests : q # r => ticket'[q].at = ticket[q].at /\ answer'[q] = answer[q]
      BY <1>3 DEF SubmitRefused, Status, OneHand
    <3>2. ticket'[r].at = "refused" /\ answer'[r].kind = "error" /\ answer'[r].why = failure
      BY <1>3 DEF SubmitRefused, ErrorOf
    <3>3. Status(r)' = failure
      BY <3>2 DEF Status
    <3> QED BY <3>1, <3>3, OneStatus
  <2> QED BY <1>3, <2>1 DEF SubmitRefused, Api!Fail, Api!Next, state
<1>4. ASSUME NEW r \in Requests, Submit(r) PROVE Api!Next
  <2>1. answer[r].kind = "none" /\ failure = "none" /\ r \notin Oversize /\ failure' = failure
    BY <1>4 DEF Submit, OneHand, Working
  <2>2. Api!Set(r, "unused", "waiting")
    BY <1>4, <2>1, OneStatus DEF Submit, Status
  <2> QED BY <2>1, <2>2 DEF Api!Accept, Api!Next
<1>5. ASSUME NEW r \in Requests, Enqueue(r) PROVE UNCHANGED Api!api
  <2>1. \A q \in Requests : Status(q)' = Status(q)
    BY <1>5 DEF Enqueue, Status
  <2>2. [q \in Requests |-> Status(q)]' = [q \in Requests |-> Status(q)]
    BY <2>1
  <2> QED BY <1>5, <2>2 DEF Enqueue, state, Api!api
<1>6. ASSUME NEW t \in {"reader", "main"}, NEW w \in Failures \ {"none"},
             fail(t, w), UNCHANGED <<ticket, answer>>
      PROVE  Api!Next \/ UNCHANGED Api!api
  <2>1. [q \in Requests |-> Status(q)]' = [q \in Requests |-> Status(q)]
    <3>1. \A q \in Requests : Status(q)' = Status(q)
      BY <1>6 DEF Status
    <3> QED BY <3>1
  <2>2. CASE failure = "none"
    BY <1>6, <2>1, <2>2 DEF fail, KeptFailure, Api!Break, Api!Next
  <2>3. CASE failure # "none"
    BY <1>6, <2>1, <2>3 DEF fail, KeptFailure, Api!api
  <2> QED BY <2>2, <2>3
<1>7. ASSUME NEW t \in {"reader", "main"}, NEW r \in Requests, Tell(t, r),
             UNCHANGED <<ticket, failure>>
      PROVE  Api!Next
  <2>1. failure # "none" /\ answer[r].kind = "none" /\ ticket[r].at \in {"registered", "held"}
    BY <1>7 DEF Tell, OneHand
  <2>2. Api!Set(r, "waiting", failure)
    <3>1. /\ Status(r) = "waiting"
          /\ \A q \in Requests : q # r => ticket'[q].at = ticket[q].at /\ answer'[q] = answer[q]
      BY <1>7, <2>1 DEF Tell, Status
    <3>2. ticket'[r].at = ticket[r].at /\ answer'[r].kind = "error" /\ answer'[r].why = failure
      BY <1>7 DEF Tell, ErrorOf
    <3>3. Status(r)' = failure
      BY <2>1, <3>2 DEF Status
    <3> QED BY <3>1, <3>3, OneStatus
  <2> QED BY <1>7, <2>1, <2>2 DEF Api!Fail, Api!Next
<1>8. ASSUME NEW f \in wire, ReaderReply(f) PROVE Api!Next \/ UNCHANGED Api!api
  <2>1. Carries(f) /\ f.id \in Ids /\ UNCHANGED <<ticket, failure>>
    BY <1>8 DEF ReaderReply, Carries, Frames
  <2>2. CASE pending[f.id] = NoRequest
    <3>1. Hidden
      BY <1>8, <2>1, <2>2 DEF ReaderReply, deliver, Hidden
    <3> QED BY <3>1, HiddenStutters
  <2>3. CASE pending[f.id] # NoRequest
    <3> DEFINE r == pending[f.id]
    <3>1. r \in Requests /\ failure = "none"
      BY <2>1, <2>3 DEF OneFailure
    <3>2. f.req = r
      BY <2>1, <3>1 DEF IdsInTransit
    <3>3. answer[r].kind = "none" /\ ticket[r].at \in {"registered", "held"}
      BY <2>1, <2>3 DEF OneHand
    <3>4. answer' = [answer EXCEPT ![r] = ReplyOf(r)]
      BY <1>8, <2>3, <3>2 DEF ReaderReply, deliver
    <3> HIDE DEF r
    <3>5. Api!Set(r, "waiting", "replied")
      BY <2>1, <3>1, <3>3, <3>4, OneStatus DEF Status, ReplyOf
    <3> QED BY <2>1, <3>1, <3>5 DEF Api!Reply, Api!Next
  <2> QED BY <2>2, <2>3
<1> QED BY <1>1, <1>2, <1>3, <1>4, <1>5, <1>6, <1>7, <1>8 DEF Visible

\* The client, its threads, the pipes and the helper process together behave as
\* the interface HelperApi says, for any sizes.
THEOREM HelperImplementsApi == Spec => ImplementsApi
<1>1. IInv /\ [Next]_vars => [Api!Next]_(Api!api)
  BY StepsAreVisible, RefineStep
<1> QED BY <1>1, RefineInit, Invariant, PTL DEF Spec, ImplementsApi, Api!Spec
=============================================================================
