------------------------------- MODULE Dealer -------------------------------
(***************************************************************************)
(* Request and reply between two processes over the broker: the tools of   *)
(* the MCP server call IpcDealerAsync.send (lib/ipc/router_dealer), the    *)
(* backend's dealer runs the handler, IpcRouter carries the messages.      *)
(*                                                                         *)
(* A reply carries no correlation ID: it goes to whichever send() waits    *)
(* when it arrives.  send() serialises its callers with an asyncio.Lock,   *)
(* which is first come, first served.  One step is what a coroutine does   *)
(* between two awaits.  The number of a request is for the properties      *)
(* only; nothing in the protocol carries it.                               *)
(***************************************************************************)
EXTENDS Replies, Sequences

CONSTANT Task  \* the coroutines that call send()

ASSUME DealerAssumption == MaxSends \in Nat

VARIABLES
    step,      \* step[t]: where in send() task t is
    req,       \* req[t]: the request it makes
    sent,      \* how many were made
    queue,     \* the holder of _send_lock and the tasks that wait for it, in order
    pending,   \* _pending_reply: the request whose future it is; 0 is None
    future,    \* what that future was resolved with
    outcome,   \* outcome[n]: what the send() of request n returned
    loop,      \* start(): "running", "cancelled" by close(), and then _recv_task is None
    open,      \* the DEALER socket is open
    toPeer, toUs,   \* the messages under way
    handling   \* the request the peer's handler works on, or 0

wire == <<toPeer, toUs, handling>>
life == <<loop, open>>
vars == <<step, req, sent, queue, pending, future, outcome, life, wire>>

Init ==
    /\ step = [t \in Task |-> "idle"]
    /\ req = [t \in Task |-> 0] /\ sent = 0
    /\ queue = <<>>
    /\ pending = 0 /\ future = Unresolved
    /\ outcome = [n \in Request |-> Unresolved]
    /\ loop = "running" /\ open = TRUE
    /\ toPeer = <<>> /\ toUs = <<>> /\ handling = 0

-----------------------------------------------------------------------------
(* IpcDealerAsync.send                                                     *)

Call(t) ==
    /\ step[t] = "idle"
    /\ loop # "gone"
    /\ sent < MaxSends
    /\ sent' = sent + 1
    /\ req' = [req EXCEPT ![t] = sent + 1]
    /\ queue' = Append(queue, t)
    /\ step' = [step EXCEPT ![t] = "lock"]
    /\ UNCHANGED <<pending, future, outcome, life, wire>>

\* Mutant: send() without its lock.
BeginUnlocked(t) ==
    /\ step[t] = "lock"
    /\ pending' = req[t] /\ future' = Unresolved
    /\ step' = [step EXCEPT ![t] = "send"]
    /\ UNCHANGED <<req, sent, queue, outcome, life, wire>>

\* The lock is acquired and the future of this request becomes _pending_reply.
Begin(t) ==
    /\ step[t] = "lock"
    /\ t = Head(queue)
    /\ pending' = req[t] /\ future' = Unresolved
    /\ step' = [step EXCEPT ![t] = "send"]
    /\ UNCHANGED <<req, sent, queue, outcome, life, wire>>

\* The lock's queue less task t, which is in it.
Without(t) ==
    LET place == CHOOSE i \in DOMAIN queue : queue[i] = t
    IN SubSeq(queue, 1, place - 1) \o SubSeq(queue, place + 1, Len(queue))

\* send() returns: the finally clause forgets the future, the lock is passed on.
Return(t, result) ==
    /\ outcome' = [outcome EXCEPT ![req[t]] = result]
    /\ pending' = 0 /\ future' = Unresolved
    /\ queue' = Without(t)
    /\ step' = [step EXCEPT ![t] = "idle"]

\* The router may drop the message: an unknown destination, a full queue.  The await of
\* send_multipart has no timeout: with a broker that is down and as many messages unsent as the
\* socket's high-water mark it lasts until the broker is back, here no step of t meanwhile.
Transmit(t) ==
    /\ step[t] = "send"
    /\ open
    /\ toPeer' \in {Append(toPeer, req[t]), toPeer}
    /\ step' = [step EXCEPT ![t] = "reply"]
    /\ UNCHANGED <<req, sent, queue, pending, future, outcome, life, toUs, handling>>

\* ZMQError, for certain when the socket is closed.
SendFails(t) ==
    /\ step[t] = "send"
    /\ Return(t, Failure("error"))
    /\ UNCHANGED <<req, sent, life, wire>>

Resume(t) ==
    /\ step[t] = "reply"
    /\ future # Unresolved
    /\ Return(t, future)
    /\ UNCHANGED <<req, sent, life, wire>>

\* Mutant: it is the receive loop that looks at the deadline.
TimeoutInLoop(t) ==
    /\ step[t] = "reply"
    /\ loop = "running"
    /\ Return(t, Failure("timeout"))
    /\ UNCHANGED <<req, sent, life, wire>>

\* The timer of wait_for wins even when the reply came in the same turn of the event loop.
Timeout(t) ==
    /\ step[t] = "reply"
    /\ Return(t, Failure("timeout"))
    /\ UNCHANGED <<req, sent, life, wire>>

\* The calling task is cancelled: while it holds the lock, and while it waits for it.
Cancel(t) ==
    /\ step[t] \in {"send", "reply"}
    /\ Return(t, Failure("cancelled"))
    /\ UNCHANGED <<req, sent, life, wire>>

CancelWaiting(t) ==
    /\ step[t] = "lock"
    /\ queue' = Without(t)
    /\ outcome' = [outcome EXCEPT ![req[t]] = Failure("cancelled")]
    /\ step' = [step EXCEPT ![t] = "idle"]
    /\ UNCHANGED <<req, sent, pending, future, life, wire>>

-----------------------------------------------------------------------------
(* IpcDealerAsync.start, the receive loop, and close.                      *)

Waiting == pending # 0 /\ future = Unresolved

\* A 2-frame message: for the pending future if there is one, or dropped.
Receive ==
    /\ loop = "running"
    /\ toUs # <<>>
    /\ toUs' = Tail(toUs)
    /\ future' = IF Waiting THEN Reply(Head(toUs)) ELSE future
    /\ UNCHANGED <<step, req, sent, queue, pending, outcome, life, toPeer, handling>>

Close ==
    /\ loop = "running"
    /\ loop' = "cancelled"
    /\ future' = IF Waiting THEN Failure("cancelled") ELSE future
    /\ UNCHANGED <<step, req, sent, queue, pending, outcome, open, wire>>

CloseSocket ==
    /\ loop = "cancelled"
    /\ loop' = "gone" /\ open' = FALSE
    /\ UNCHANGED <<step, req, sent, queue, pending, future, outcome, wire>>

-----------------------------------------------------------------------------
(* The peer: its receive loop awaits one handler after the other, for as   *)
(* long as they take, and its process may be restarted.                    *)

Handle ==
    /\ handling = 0
    /\ toPeer # <<>>
    /\ handling' = Head(toPeer) /\ toPeer' = Tail(toPeer)
    /\ UNCHANGED <<step, req, sent, queue, pending, future, outcome, life, toUs>>

\* Mutant: replies to messages that are none of its requests.
SendReplyToAnything ==
    /\ toUs' \in {Append(toUs, handling), toUs}
    /\ handling' = 0
    /\ UNCHANGED <<step, req, sent, queue, pending, future, outcome, life, toPeer>>

SendReply ==
    /\ handling # 0
    /\ toUs' \in {Append(toUs, handling), toUs}
    /\ handling' = 0
    /\ UNCHANGED <<step, req, sent, queue, pending, future, outcome, life, toPeer>>

PeerRestarts ==
    /\ handling' = 0 /\ toPeer' = <<>>
    /\ UNCHANGED <<step, req, sent, queue, pending, future, outcome, life, toUs>>

-----------------------------------------------------------------------------

Send(t) == Begin(t) \/ Transmit(t) \/ SendFails(t) \/ Resume(t) \/ Timeout(t)

Peer == Handle \/ SendReply \/ PeerRestarts

Next ==
    \/ \E t \in Task : Call(t) \/ Send(t) \/ Cancel(t) \/ CancelWaiting(t)
    \/ Receive \/ Close \/ CloseSocket
    \/ Peer

Spec == Init /\ [][Next]_vars

\* The event loop runs every task that can go on, and the timer of wait_for is one of them.
\* Nothing is asked of the peer or the receive loop, and of the router only that the socket's
\* send queue does not stay full for ever: Send(t) has Transmit, and the code no way out of it.
Fairness == \A t \in Task : WF_vars(Send(t))

FairSpec == Spec /\ Fairness

-----------------------------------------------------------------------------

\* The type invariant.
TypeOK ==
    /\ step \in [Task -> {"idle", "lock", "send", "reply"}]
    /\ req \in [Task -> 0..MaxSends] /\ sent \in 0..MaxSends
    /\ queue \in Seq(Task)
    /\ pending \in 0..MaxSends /\ future \in Result
    /\ outcome \in [Request -> Result]
    /\ loop \in {"running", "cancelled", "gone"} /\ open \in BOOLEAN
    /\ toPeer \in Seq(Request) /\ toUs \in Seq(Request) /\ handling \in 0..MaxSends

\* The lock stands in for the missing correlation ID as long as no send() is abandoned: send()
\* keeps the promise that both dealers give.  It answers a request with its own reply or, when
\* some earlier one was abandoned, with an earlier one's that nobody else got.
Promise == INSTANCE RequestReply WITH sent <- sent, outcome <- outcome
ImplementsRequestReply == Promise!Spec

\* Every send() returns, whatever becomes of the peer and the messages and also when the
\* dealer is closed under it: no waiter is left in the lock's queue or on a dead future.  Not
\* when the broker stays down with the socket's send queue full: see Fairness.
SendReturns == \A t \in Task : step[t] = "lock" ~> step[t] = "idle"

\* tests_router_dealer.py:1410-1416 states it: a late reply does not corrupt the next send().
OwnReply == \A n \in Request : outcome[n].kind = "reply" => outcome[n].of = n
=============================================================================
