----------------------------- MODULE SyncDealer -----------------------------
(***************************************************************************)
(* IpcDealerClient (lib/ipc/router_dealer/dealer/client.py), the dealer of *)
(* the processes that have threads instead of an event loop.  A thread     *)
(* that calls send() hands its command to the loop thread through a pipe   *)
(* and waits for an event; the loop thread puts the reply in a slot.  One  *)
(* step is one access that the other threads can observe, or the loop's    *)
(* work on one message.                                                    *)
(*                                                                         *)
(* Router and peer are a set of requests the reply to which may still      *)
(* come: whenever it likes, in any order, or never.                        *)
(***************************************************************************)
EXTENDS Replies, Sequences

CONSTANTS Thread,      \* the threads that call send()
          Nobody       \* not a thread

VARIABLES
    step,      \* step[t]: where in send() thread t is
    req,       \* req[t]: the request it makes
    sent,      \* how many were made
    lock,      \* the holder of _send_lock, or Nobody
    pipe,      \* the commands in the pipe: requests, and Stop
    slot,      \* _reply_slot; Unresolved is None
    event,     \* _reply_event is set
    outcome,   \* outcome[n]: what the send() of request n returned
    awaiting,  \* the loop's awaiting_reply
    running,   \* _running
    loop,      \* the loop thread: "new", "polling", "gone"
    deaf,      \* the poller has another socket than self.socket
    closing,   \* close(): "no", "flagged", "done"
    wire       \* the requests whose reply may come

caller == <<step, req, sent, lock, outcome>>
handover == <<slot, event, awaiting>>
life == <<running, loop, closing>>
vars == <<caller, pipe, handover, life, deaf, wire>>

Stop == 0  \* _PIPE_STOP

Init ==
    /\ step = [t \in Thread |-> "idle"] /\ req = [t \in Thread |-> 0] /\ sent = 0
    /\ lock = Nobody /\ outcome = [n \in Request |-> Unresolved]
    /\ pipe = <<>>
    /\ slot = Unresolved /\ event = FALSE /\ awaiting = FALSE
    /\ running = FALSE /\ loop = "new" /\ closing = "no"
    /\ deaf = FALSE
    /\ wire = {}

-----------------------------------------------------------------------------
(* send                                                                    *)

\* send() asserts that the loop runs, and that it is not called from the loop's thread.
Call(t) ==
    /\ step[t] = "idle"
    /\ running
    /\ step' = [step EXCEPT ![t] = "lock"]
    /\ UNCHANGED <<req, sent, lock, outcome, pipe, handover, life, deaf, wire>>

\* Mutant: send() without its lock.
AcquireUnlocked(t) ==
    /\ step[t] = "lock"
    /\ sent < MaxSends
    /\ lock' = t
    /\ sent' = sent + 1 /\ req' = [req EXCEPT ![t] = sent + 1]
    /\ event' = FALSE
    /\ step' = [step EXCEPT ![t] = "erase"]
    /\ UNCHANGED <<outcome, pipe, slot, awaiting, life, deaf, wire>>

\* A threading.Lock: any of the waiting threads may be the next.
Acquire(t) ==
    /\ step[t] = "lock"
    /\ lock = Nobody
    /\ sent < MaxSends
    /\ lock' = t
    /\ sent' = sent + 1 /\ req' = [req EXCEPT ![t] = sent + 1]
    /\ event' = FALSE
    /\ step' = [step EXCEPT ![t] = "erase"]
    /\ UNCHANGED <<outcome, pipe, slot, awaiting, life, deaf, wire>>

Erase(t) ==
    /\ step[t] = "erase"
    /\ slot' = Unresolved
    /\ step' = [step EXCEPT ![t] = "write"]
    /\ UNCHANGED <<req, sent, lock, outcome, pipe, event, awaiting, life, deaf, wire>>

Write(t) ==
    /\ step[t] = "write"
    /\ loop # "gone"
    /\ pipe' = Append(pipe, req[t])
    /\ step' = [step EXCEPT ![t] = "wait"]
    /\ UNCHANGED <<req, sent, lock, outcome, handover, life, deaf, wire>>

\* send() returns and the lock is released.
Return(t, result) ==
    /\ outcome' = [outcome EXCEPT ![req[t]] = result]
    /\ lock' = Nobody
    /\ step' = [step EXCEPT ![t] = "idle"]
    /\ UNCHANGED <<req, sent>>

\* The pipe is full, or the loop has closed it.
WriteFails(t) ==
    /\ step[t] = "write"
    /\ Return(t, Failure("error"))
    /\ UNCHANGED <<pipe, handover, life, deaf, wire>>

Wake(t) ==
    /\ step[t] = "wait"
    /\ event
    /\ Return(t, IF slot = Unresolved THEN Failure("empty") ELSE slot)
    /\ slot' = Unresolved
    /\ UNCHANGED <<pipe, event, awaiting, life, deaf, wire>>

\* Also when the event is set at the last moment.
Timeout(t) ==
    /\ step[t] = "wait"
    /\ Return(t, Failure("timeout"))
    /\ UNCHANGED <<pipe, handover, life, deaf, wire>>

-----------------------------------------------------------------------------
(* start, the thread of the loop.                                          *)

Start ==
    /\ loop = "new"
    /\ loop' = "polling" /\ running' = TRUE
    /\ UNCHANGED <<caller, pipe, handover, closing, deaf, wire>>

Deposit(result) == slot' = result /\ event' = TRUE

\* _handle_pipe_event; the router may drop the message, unseen.
Command ==
    /\ loop = "polling"
    /\ pipe # <<>>
    /\ pipe' = Tail(pipe)
    /\ IF Head(pipe) = Stop
       THEN running' = FALSE /\ UNCHANGED <<handover, wire>>
       ELSE /\ \/ wire' = wire \cup {Head(pipe)} /\ awaiting' = TRUE /\ UNCHANGED <<slot, event>>
               \/ Deposit(Failure("error")) /\ UNCHANGED <<awaiting, wire>>
            /\ UNCHANGED running
    /\ UNCHANGED <<caller, loop, closing, deaf>>

\* _handle_dealer_event, a reply: a late one is dropped unless a send() is awaited again.
Receive ==
    /\ loop = "polling" /\ ~deaf
    /\ \E m \in wire :
          /\ wire' = wire \ {m}
          /\ IF awaiting THEN Deposit(Reply(m)) ELSE UNCHANGED <<slot, event>>
    /\ awaiting' = FALSE
    /\ UNCHANGED <<caller, pipe, life, deaf>>

\* A receive error: the new socket is not the one the poller knows.
ReceiveFails ==
    /\ loop = "polling" /\ ~deaf
    /\ running
    /\ deaf' = TRUE
    /\ awaiting' = FALSE
    /\ IF awaiting THEN Deposit(Failure("error")) ELSE UNCHANGED <<slot, event>>
    /\ UNCHANGED <<caller, pipe, life, wire>>

PollFails ==
    /\ loop = "polling"
    /\ running
    /\ deaf' = FALSE
    /\ UNCHANGED <<caller, pipe, handover, life, wire>>

Finish ==
    /\ loop = "polling"
    /\ ~running
    /\ loop' = "gone"
    /\ pipe' = <<>>
    /\ UNCHANGED <<caller, handover, running, closing, deaf, wire>>

-----------------------------------------------------------------------------
(* close, in the main thread.                                              *)

Close ==
    /\ closing = "no"
    /\ running' = FALSE
    /\ closing' = "flagged"
    /\ UNCHANGED <<caller, pipe, handover, loop, deaf, wire>>

\* Mutant: trusts the flag alone.
CloseSendsNothing ==
    /\ closing = "flagged"
    /\ closing' = "done"
    /\ UNCHANGED <<caller, pipe, handover, running, loop, deaf, wire>>

CloseSends ==
    /\ closing = "flagged"
    /\ pipe' = IF loop = "gone" THEN pipe ELSE Append(pipe, Stop)
    /\ closing' = "done"
    /\ UNCHANGED <<caller, handover, running, loop, deaf, wire>>

-----------------------------------------------------------------------------

Send(t) ==
    \/ Acquire(t) \/ Erase(t) \/ Write(t) \/ WriteFails(t)
    \/ Wake(t) \/ Timeout(t)

Loop == Start \/ Command \/ Receive \/ ReceiveFails \/ PollFails \/ Finish

Next ==
    \/ \E t \in Thread : Call(t) \/ Send(t)
    \/ Loop
    \/ Close \/ CloseSends

Spec == Init /\ [][Next]_vars

\* The operating system runs every thread that can go on; of the loop's turns, those that
\* drain the pipe and those that find _running cleared come again and again.
Fairness ==
    /\ \A t \in Thread : WF_vars(Send(t))
    /\ WF_vars(Command) /\ WF_vars(Finish) /\ WF_vars(CloseSends)

FairSpec == Spec /\ Fairness

-----------------------------------------------------------------------------

\* The type invariant.
TypeOK ==
    /\ step \in [Thread -> {"idle", "lock", "erase", "write", "wait"}]
    /\ req \in [Thread -> 0..MaxSends] /\ sent \in 0..MaxSends
    /\ lock \in Thread \cup {Nobody}
    /\ outcome \in [Request -> Result]
    /\ pipe \in Seq(0..MaxSends)
    /\ slot \in Result /\ event \in BOOLEAN /\ awaiting \in BOOLEAN
    /\ running \in BOOLEAN /\ deaf \in BOOLEAN
    /\ loop \in {"new", "polling", "gone"} /\ closing \in {"no", "flagged", "done"}
    /\ wire \subseteq Request

\* The slot, the event and the flag stand in for a correlation ID as well as the lock of the
\* other dealer does: a thread gets the reply to its own request, or, after some failure,
\* to an earlier one, and no reply is given out twice, wherever timeouts, late replies,
\* receive errors and close() fall between the accesses of the two threads.
Promise == INSTANCE RequestReply WITH sent <- sent, outcome <- outcome
ImplementsRequestReply == Promise!Spec

\* What close() asks for happens, also when it comes before the loop thread has set _running:
\* the loop ends and closes its sockets.  And every send() returns, also one whose loop is gone.
LoopEnds == closing = "done" ~> loop = "gone" \/ loop = "new"
SendReturns == \A t \in Thread : lock = t ~> lock # t
=============================================================================
