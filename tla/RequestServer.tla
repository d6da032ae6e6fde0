--------------------------- MODULE RequestServer ---------------------------
(***************************************************************************)
(* The launcher's requests to a child (lib/ipc/reqrep): one server in the  *)
(* child takes them one after the other, heartbeats among them, and a      *)
(* monitor beside it ends the process when too many heartbeats are missed, *)
(* "probably orphaned".  A heartbeat waits like any other request while a  *)
(* handler awaits, so the time a handler takes decides whether a child     *)
(* outlives its work.  Time is in seconds.                                 *)
(***************************************************************************)
EXTENDS Naturals, Sequences, FiniteSets

CONSTANTS Period,       \* heartbeat_timeout, also the sleep of _heartbeat_monitor
          MaxMissed,    \* max_missed_heartbeats
          Interval,     \* heartbeat_interval of the launcher
          BeatTimeout,      \* RCVTIMEO of its heartbeat
          MaxHandler,   \* the longest a handler takes
          MaxPending    \* commands of the launcher that wait or are served at once

VARIABLES
    beat,      \* the launcher's heartbeat thread: waits, has asked, or is off
    queue,     \* requests that reached the server's socket
    serving,   \* the request whose handler runs, and for how long it will
    since,     \* time since _last_heartbeat
    busy,      \* history: how much of it the handlers took
    missed,    \* _missed_heartbeats
    check,     \* until the monitor wakes
    child      \* "runs", "ended" by a shutdown, or "orphaned": it has ended itself

vars == <<beat, queue, serving, since, busy, missed, check, child>>

Off == [at |-> "off"]
Idle == [what |-> "nothing"]
LongAgo == Period * (MaxMissed + 1)   \* since and busy count no further

\* The thread begins within two seconds of the start of the child, and may be late by one.
Init ==
    /\ beat \in [at : {"waits"}, left : 0..2]
    /\ queue = <<>> /\ serving = Idle
    /\ since = 0 /\ busy = 0 /\ missed = 0 /\ check = Period
    /\ child = "runs"

Waits == [at : {"waits"}, left : Interval..Interval + 1]

-----------------------------------------------------------------------------
(* The launcher.  What it makes of a child that is gone is SubsystemMgr's  *)
(* matter: nothing more is sent to it here.                                *)

SendBeat ==
    /\ child = "runs" /\ beat.at = "waits" /\ beat.left = 0
    /\ queue' = Append(queue, "heartbeat")
    /\ beat' = [at |-> "asked", left |-> BeatTimeout]
    /\ UNCHANGED <<serving, since, busy, missed, check, child>>

\* A heartbeat that timed out stays with the server.
BeatTimesOut ==
    /\ child = "runs" /\ beat.at = "asked" /\ beat.left = 0
    /\ beat' \in Waits
    /\ UNCHANGED <<queue, serving, since, busy, missed, check, child>>

Commands == {i \in DOMAIN queue : queue[i] = "command"}
Pending == Cardinality(Commands) + (IF serving = Idle THEN 0 ELSE 1)

\* A button, a settings change or a status request.  The launcher waits for none of them longer
\* than its own timeout, so several may be there.
Command ==
    /\ child = "runs" /\ beat # Off /\ Pending < MaxPending
    /\ queue' = Append(queue, "command")
    /\ UNCHANGED <<beat, serving, since, busy, missed, check, child>>

\* stop() ends the heartbeats and asks for the shutdown.
Stop ==
    /\ child = "runs" /\ beat # Off
    /\ beat' = Off
    /\ queue' = Append(queue, "shutdown")
    /\ UNCHANGED <<serving, since, busy, missed, check, child>>

LauncherDies ==
    /\ child = "runs" /\ beat # Off
    /\ beat' = Off
    /\ UNCHANGED <<queue, serving, since, busy, missed, check, child>>

-----------------------------------------------------------------------------
(* The child: the server's loop and its monitor.                           *)

\* The launcher waits for the answer to the last heartbeat only.
Awaited == beat.at = "asked" /\ \A i \in 2..Len(queue) : queue[i] # "heartbeat"

\* Mutant: a heartbeat is noted but not counted.
HeartbeatKeepsCount ==
    /\ child = "runs" /\ serving = Idle
    /\ queue # <<>> /\ Head(queue) = "heartbeat"
    /\ queue' = Tail(queue)
    /\ since' = 0 /\ busy' = 0
    /\ IF Awaited THEN beat' \in Waits ELSE UNCHANGED beat
    /\ UNCHANGED <<serving, missed, check, child>>

\* _handle_heartbeat; only the answer to the last one is waited for.
Heartbeat ==
    /\ child = "runs" /\ serving = Idle
    /\ queue # <<>> /\ Head(queue) = "heartbeat"
    /\ queue' = Tail(queue)
    /\ since' = 0 /\ busy' = 0 /\ missed' = 0
    /\ IF Awaited THEN beat' \in Waits ELSE UNCHANGED beat
    /\ UNCHANGED <<serving, check, child>>

Serve ==
    /\ child = "runs" /\ serving = Idle
    /\ queue # <<>> /\ Head(queue) # "heartbeat"
    /\ queue' = Tail(queue)
    /\ serving' \in [what : {Head(queue)}, left : 0..MaxHandler]
    /\ UNCHANGED <<beat, since, busy, missed, check, child>>

\* The handler is through.  A shutdown ends the loop and the monitor, unless its handler raised.
Reply ==
    /\ child = "runs" /\ serving # Idle
    /\ serving.left = 0
    /\ serving' = Idle
    /\ child' \in IF serving.what = "shutdown" THEN {"ended", "runs"} ELSE {"runs"}
    /\ UNCHANGED <<beat, queue, since, busy, missed, check>>

\* Mutant: the count is capped one short of its limit.
CheckOnce ==
    /\ child = "runs" /\ check = 0
    /\ check' = Period
    /\ missed' = IF since >= Period /\ missed + 1 < MaxMissed THEN missed + 1 ELSE missed
    /\ child' = IF since >= Period /\ missed = MaxMissed THEN "orphaned" ELSE "runs"
    /\ UNCHANGED <<beat, queue, serving, since, busy>>

\* _heartbeat_monitor wakes; the handlers of a missed heartbeat all end the process at once.
\* since = Period may be a little more or a little less.
Check ==
    /\ child = "runs" /\ check = 0
    /\ check' = Period
    /\ \E overdue \in IF since = Period THEN BOOLEAN ELSE {since > Period} :
         /\ missed' = IF overdue THEN missed + 1 ELSE missed
         /\ child' = IF missed' >= MaxMissed THEN "orphaned" ELSE "runs"
    /\ UNCHANGED <<beat, queue, serving, since, busy>>

-----------------------------------------------------------------------------

Down(t) == IF t.left = 0 THEN t ELSE [t EXCEPT !.left = @ - 1]

\* A second passes when nothing is due.
Tick ==
    /\ child = "runs"
    /\ check > 0
    /\ beat.at # "off" => beat.left > 0
    /\ IF serving = Idle THEN queue = <<>> ELSE serving.left > 0
    /\ check' = check - 1
    /\ beat' = IF beat = Off THEN Off ELSE Down(beat)
    /\ serving' = IF serving = Idle THEN Idle ELSE Down(serving)
    /\ since' = IF since = LongAgo THEN since ELSE since + 1
    /\ busy' = IF since = LongAgo \/ serving = Idle THEN busy ELSE busy + 1
    /\ UNCHANGED <<queue, missed, child>>

\* What happens without anyone's doing, each as soon as it can.
Due == SendBeat \/ BeatTimesOut \/ Heartbeat \/ Serve \/ Reply \/ Check \/ Tick

Next == Due \/ Command \/ Stop \/ LauncherDies

Spec == Init /\ [][Next]_vars
FairSpec == Spec /\ WF_vars(Due)

-----------------------------------------------------------------------------

\* The least time from one heartbeat that is not answered to the next.
Spacing == BeatTimeout + Interval

\* The type invariant.  A shutdown, a heartbeat and the commands wait, and as many heartbeats more
\* as time out while the handlers before the first of them take their time.
TypeOK ==
    /\ beat \in {Off} \cup [at : {"waits"}, left : 0..Interval + 1]
                      \cup [at : {"asked"}, left : 0..BeatTimeout]
    /\ queue \in Seq({"heartbeat", "command", "shutdown"})
    /\ Len(queue) * Spacing <= (MaxPending + 2) * Spacing + MaxHandler * MaxPending
    /\ serving \in {Idle} \cup [what : {"command", "shutdown"}, left : 0..MaxHandler]
    /\ since \in 0..LongAgo /\ busy \in 0..LongAgo /\ missed \in 0..MaxMissed /\ check \in 0..Period
    /\ child \in {"runs", "ended", "orphaned"}

\* A child to which the launcher sends heartbeats takes itself for an orphan only when its own
\* handlers kept it busy: they took all of the MaxMissed periods but the pause between two
\* heartbeats.  Heartbeats that time out, are late or pile up behind handlers never do it alone.
OrphanedOrBusy == child = "orphaned" => beat = Off \/ busy + Interval + 1 >= Period * MaxMissed

\* apps/race_engineer/mgmt.py:58, "This process has probably been orphaned": no child ends itself
\* while its launcher sends heartbeats.  A handler of the race engineer that waits 10 s for a typed
\* question is enough to break it.
OnlyOrphansEnd == child = "orphaned" => beat = Off

\* A child whose launcher has died or wants it stopped ends, also when its shutdown handler raises
\* or requests are left in its queue.
OrphanEnds == beat = Off ~> child # "runs"
=============================================================================
