----------------------------- MODULE HelperApi ------------------------------
(***************************************************************************)
(* What the Go helper client promises its callers (Helper::submit,         *)
(* Ticket::wait and the module comment of crates/go/src/client.rs), with   *)
(* no threads, pipes, frames or ids: a request is answered at most once,   *)
(* with its own reply, until the helper fails; the first failure is final, *)
(* reaches every waiting request and refuses every later one.              *)
(***************************************************************************)
CONSTANTS Requests, Oversize, Causes

VARIABLES status, broken

api == <<status, broken>>

Statuses == {"unused", "waiting", "replied", "large"} \cup Causes

Init ==
    /\ status = [r \in Requests |-> "unused"]
    /\ broken = "none"

Set(r, from, to) == status[r] = from /\ status' = [status EXCEPT ![r] = to]

\* A request is accepted only while the helper works.
Accept(r) == r \notin Oversize /\ broken = "none" /\ Set(r, "unused", "waiting") /\ UNCHANGED broken

\* Too large for a frame: answered without the helper, working or not.
AnswerLarge(r) == r \in Oversize /\ Set(r, "unused", "large") /\ UNCHANGED broken

\* The helper's own reply to r.
Reply(r) == broken = "none" /\ Set(r, "waiting", "replied") /\ UNCHANGED broken

\* The helper fails, once.
Break(cause) == broken = "none" /\ broken' = cause /\ UNCHANGED status

\* A waiting request learns of the failure; a later one is refused with it.
Fail(r) ==
    /\ broken # "none"
    /\ \/ Set(r, "waiting", broken)
       \/ r \notin Oversize /\ Set(r, "unused", broken)
    /\ UNCHANGED broken

Next ==
    \/ \E r \in Requests : Accept(r) \/ AnswerLarge(r) \/ Reply(r) \/ Fail(r)
    \/ \E cause \in Causes : Break(cause)

Spec == Init /\ [][Next]_api
=============================================================================
