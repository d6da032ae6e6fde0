-------------------------- MODULE BackendShutdown ---------------------------
(***************************************************************************)
(* How the backend ends (PngRunner in apps/backend/pits_n_giggles.py): by  *)
(* the launcher's shutdown command, by Ctrl-C, or because a task failed.   *)
(* run() gathers the tasks; the first that is cancelled or fails makes     *)
(* gather raise, upon which asyncio.run cancels all that are left, once,   *)
(* and waits for them.  AsyncInterTaskCommunicator.receive takes a         *)
(* cancellation for "no message": a task that loops over it goes on unless *)
(* the shutdown event is set, and the shutdown task, which waits in it     *)
(* too, begins the shutdown.                                               *)
(***************************************************************************)
EXTENDS Naturals, FiniteSets

CONSTANT Consumer    \* the tasks that loop over receive: front end, HUD, forwarder, ...

VARIABLES
    main,        \* run(): gathers the tasks, or asyncio.run cleans up, or the process is gone
    state,       \* of every task
    stopper,     \* where _shutdown_tasks is
    pending,     \* the tasks that cancel() was called on and that did not run since
    event,       \* m_shutdown_event
    sentinel,    \* the consumers whose queue holds the sentinel of unblock_receivers
    asked,       \* a message is in the "shutdown" queue
    interrupted  \* Ctrl-C

vars == <<main, state, stopper, pending, event, sentinel, asked, interrupted>>

\* "publisher" and "control" are the reconnect loops of m_ipc_pub and of the race engineer's
\* publisher, "others" the web server, the dealer and the periodic updates.  The watchdogs end
\* with the receiver.  The save is the just-in-case save, which is no child of gather.
Child == Consumer \cup {"receiver", "publisher", "control", "others", "stopper"}
Task == Child \cup {"save"}

\* What a task is about, or how it ended.
Over == {"ended", "cancelled", "failed"}
Done(t) == state[t] \in Over \cup {"none"}
AllDone == \A t \in Task : Done(t)

Init ==
    /\ main = "gather"
    /\ state = [t \in Task |-> IF t \in Consumer THEN "receiving"
                               ELSE IF t = "save" THEN "none" ELSE "running"]
    /\ stopper = "waiting"
    /\ pending = {} /\ event = FALSE /\ sentinel = {} /\ asked = FALSE /\ interrupted = FALSE

-----------------------------------------------------------------------------
(* The tasks at work.                                                      *)

\* Runs only if no cancellation is to be delivered first.
Runs(t) == t \notin pending

Becomes(t, s) == state' = [state EXCEPT ![t] = s]

\* The loop condition of a consumer.
Looped == IF event THEN "ended" ELSE "receiving"

Get(c) ==
    /\ Runs(c) /\ state[c] = "receiving"
    /\ Becomes(c, "working")
    /\ UNCHANGED <<main, stopper, pending, event, sentinel, asked, interrupted>>

Worked(c) ==
    /\ Runs(c) /\ state[c] = "working"
    /\ Becomes(c, Looped)
    /\ UNCHANGED <<main, stopper, pending, event, sentinel, asked, interrupted>>

Unblocked(c) ==
    /\ Runs(c) /\ state[c] = "receiving" /\ c \in sentinel
    /\ Becomes(c, Looped)
    /\ sentinel' = sentinel \ {c}
    /\ UNCHANGED <<main, stopper, pending, event, asked, interrupted>>

\* The web server is stopped, the periodic tasks look at the event.
OthersEnd ==
    /\ event
    /\ Runs("others") /\ state["others"] = "running"
    /\ Becomes("others", "ended")
    /\ UNCHANGED <<main, stopper, pending, event, sentinel, asked, interrupted>>

\* _handleSuspiciousSessionStart, in the receiver
SaveStarts ==
    /\ Runs("receiver") /\ state["receiver"] = "running" /\ state["save"] = "none"
    /\ Becomes("save", "running")
    /\ UNCHANGED <<main, stopper, pending, event, sentinel, asked, interrupted>>

SaveEnds ==
    /\ Runs("save") /\ state["save"] = "running"
    /\ Becomes("save", "none")
    /\ UNCHANGED <<main, stopper, pending, event, sentinel, asked, interrupted>>

-----------------------------------------------------------------------------
(* Why the backend ends.                                                   *)

Ask ==
    /\ ~asked
    /\ asked' = TRUE
    /\ UNCHANGED <<main, state, stopper, pending, event, sentinel, interrupted>>

\* An exception nobody catches, in a packet handler or in what a consumer does.
Fail(t) ==
    /\ Runs(t)
    /\ \/ t = "receiver" /\ state[t] = "running"
       \/ t \in Consumer /\ state[t] = "working"
    /\ Becomes(t, "failed")
    /\ UNCHANGED <<main, stopper, pending, event, sentinel, asked, interrupted>>

\* cancel() on these tasks.  One that awaits the save passes it on.
Cancelling(tasks) ==
    LET reached == tasks \cup IF "stopper" \in tasks /\ stopper = "save" THEN {"save"} ELSE {}
    IN pending' = pending \cup {t \in reached : ~Done(t)}

Interrupt ==
    /\ main = "gather" /\ ~interrupted
    /\ interrupted' = TRUE
    /\ Cancelling(Child)
    /\ UNCHANGED <<main, state, stopper, event, sentinel, asked>>

-----------------------------------------------------------------------------
(* _shutdown_tasks.                                                        *)

\* Its receive returns for a message and for a cancellation alike.
Begin ==
    /\ state["stopper"] = "running" /\ stopper = "waiting"
    /\ asked \/ "stopper" \in pending
    /\ stopper' = "web"
    /\ event' = TRUE
    /\ sentinel' = Consumer
    /\ pending' = pending \ {"stopper"}
    /\ UNCHANGED <<main, state, asked, interrupted>>

StopperRuns == Runs("stopper") /\ state["stopper"] = "running"

\* Mutant: the publisher is closed first.
StopHandlerLast ==
    /\ StopperRuns /\ stopper = "web"
    /\ stopper' = IF state["save"] # "none" THEN "save" ELSE "dealer"
    /\ Cancelling({"receiver", "publisher"})
    /\ UNCHANGED <<main, state, event, sentinel, asked, interrupted>>

\* web_server.stop is through; telemetry_handler.stop up to its only await; then, when there
\* is no save, m_ipc_pub.close, which awaits nothing.
StopHandler ==
    /\ StopperRuns /\ stopper = "web"
    /\ IF state["save"] # "none" THEN stopper' = "save" /\ Cancelling({"receiver"})
       ELSE stopper' = "dealer" /\ Cancelling({"receiver", "publisher"})
    /\ UNCHANGED <<main, state, event, sentinel, asked, interrupted>>

\* Mutant: the reconnect loop is left to find out that _running is False.
AwaitSaveLeavesTask ==
    /\ StopperRuns /\ stopper = "save"
    /\ \/ state["save"] = "none" /\ UNCHANGED state
       \/ state["save"] = "running" /\ Runs("save") /\ Becomes("save", "ended")
    /\ stopper' = "dealer"
    /\ UNCHANGED <<main, pending, event, sentinel, asked, interrupted>>

\* The save is finished, or cancelled after five seconds; m_ipc_pub.close.
AwaitSave ==
    /\ StopperRuns /\ stopper = "save"
    /\ \/ state["save"] = "none" /\ UNCHANGED state
       \/ state["save"] = "running" /\ Runs("save") /\ Becomes("save", "ended")
    /\ stopper' = "dealer"
    /\ Cancelling({"publisher"})
    /\ UNCHANGED <<main, event, sentinel, asked, interrupted>>

\* To await a save that was cancelled raises CancelledError.
SaveCut ==
    /\ StopperRuns /\ stopper = "save" /\ state["save"] = "cancelled"
    /\ Becomes("stopper", "cancelled")
    /\ UNCHANGED <<main, stopper, pending, event, sentinel, asked, interrupted>>

\* m_ipc_dealer.close and a second of sleep.
Finish ==
    /\ StopperRuns /\ stopper = "dealer"
    /\ Becomes("stopper", "ended")
    /\ UNCHANGED <<main, stopper, pending, event, sentinel, asked, interrupted>>

-----------------------------------------------------------------------------
(* Cancellation, and the end.                                              *)

\* What a cancellation makes of a task.  The receiver ends as if nothing had happened; a consumer in receive takes another turn, and so does one whose work swallows it.
Outcomes(t) ==
    IF t \in Consumer THEN {Looped} \cup IF state[t] = "working" THEN {"cancelled"} ELSE {}
    ELSE IF t = "receiver" THEN {"ended"} ELSE {"cancelled"}

Deliver(t) ==
    /\ t \in pending
    /\ t = "stopper" => stopper # "waiting"
    /\ pending' = pending \ {t}
    /\ \E s \in Outcomes(t) : Becomes(t, s)
    /\ UNCHANGED <<main, stopper, event, sentinel, asked, interrupted>>

\* gather is through; after a cancellation run() asks for the shutdown; asyncio.run cancels
\* what is left.
CleanUp ==
    /\ main = "gather"
    /\ \/ \E t \in Child : state[t] \in {"cancelled", "failed"}
       \/ \A t \in Child : Done(t)
    /\ main' = "cleanup"
    /\ asked' = (asked \/ \A t \in Child : state[t] # "failed")
    /\ Cancelling(Task)
    /\ UNCHANGED <<state, stopper, event, sentinel, interrupted>>

Exit ==
    /\ main = "cleanup" /\ AllDone
    /\ main' = "exited"
    /\ UNCHANGED <<state, stopper, pending, event, sentinel, asked, interrupted>>

Next ==
    \/ \E c \in Consumer : Get(c) \/ Worked(c) \/ Unblocked(c)
    \/ \E t \in Task : Fail(t) \/ Deliver(t)
    \/ OthersEnd \/ SaveStarts \/ SaveEnds \/ Ask \/ Interrupt
    \/ Begin \/ StopHandler \/ AwaitSave \/ SaveCut \/ Finish \/ CleanUp \/ Exit

Spec == Init /\ [][Next]_vars

\* The event loop runs what can run; the works of the consumers have timeouts, as has the
\* wait for the save.  A save may take for ever.
Fairness ==
    /\ \A c \in Consumer : WF_vars(Worked(c)) /\ WF_vars(Unblocked(c))
    /\ \A t \in Task : WF_vars(Deliver(t))
    /\ WF_vars(Begin) /\ WF_vars(StopHandler) /\ WF_vars(AwaitSave)
    /\ WF_vars(SaveCut) /\ WF_vars(Finish)
    /\ WF_vars(CleanUp) /\ WF_vars(Exit)

FairSpec == Spec /\ Fairness

-----------------------------------------------------------------------------

\* The type invariant.
TypeOK ==
    /\ main \in {"gather", "cleanup", "exited"}
    /\ state \in [Task -> Over \cup {"none", "running", "receiving", "working"}]
    /\ stopper \in {"waiting", "web", "save", "dealer"}
    /\ pending \subseteq {t \in Task : ~Done(t)} /\ sentinel \subseteq Consumer
    /\ {event, asked, interrupted} \subseteq BOOLEAN

\* Asked to, interrupted or bereft of a task the backend ends, although its consumers ignore
\* cancellations, the race engineer's publisher is never closed, and all that are left are
\* cancelled only once.
BackendEnds ==
    asked \/ interrupted \/ (\E t \in Child : state[t] = "failed") ~> main = "exited"

\* A just-in-case save that runs when the launcher asks the backend to end is not cut: it is
\* cancelled only after its five seconds, by Ctrl-C or when a task failed.
SaveAwaited ==
    state["save"] = "cancelled" => interrupted \/ \E t \in Child : state[t] = "failed"
=============================================================================
