------------------------------ MODULE Callouts ------------------------------
(***************************************************************************)
(* What the race engineer says (apps/race_engineer/race_engineer.py, with  *)
(* lib/race_engineer/voice_queue.py and radio_timing.py).  Handlers of the *)
(* subscriber and of the launcher's IPC server queue callouts; a worker    *)
(* takes one, holds it back while the driver is busy, and speaks it in a   *)
(* task that a new session or a mute cancels.  All of it runs in one event *)
(* loop: an action reaches from one await to the next.                     *)
(* One callout is queued at a time: the several of one message come as     *)
(* several messages do.                                                    *)
(***************************************************************************)
EXTENDS Naturals, Sequences, FiniteSets

CONSTANTS QueueSize,     \* max_queue_size
          MaxCallouts,   \* bound on the number of callouts ever offered
          MaxSessions,   \* bound on the number of session UIDs
          MaxSwitches,   \* bound on the number of times it is muted or enabled
          NoSnapshot

ASSUME CalloutsAssumption ==
    /\ QueueSize \in Nat \ {0}
    /\ MaxCallouts \in Nat /\ MaxSessions \in Nat /\ MaxSwitches \in Nat

VARIABLES
    enabled,
    generation,    \* _session_generation; 0 is before the first session UID
    snapshot,      \* the generation in which _last_snapshot came
    recent,        \* _last_voice_queued_at is set
    busy,          \* _last_radio_timing_sample is recent and of a corner, braking or the like
    queue,         \* voice_queue
    worker,        \* what _voice_worker and the task it speaks in are about
    question,      \* question[a]: the question that handler a awaits an answer for
    offered,       \* how many callouts were made
    counted,       \* _announcements_count + _voice_failures_count + _dropped_announcements_count
    switches,      \* how often it was muted or enabled
    spokenMuted    \* how many callouts on the race began since it was muted

vars == <<enabled, generation, snapshot, recent, busy, queue, worker, question, offered,
          counted, switches, spokenMuted>>

Asker == {"subscriber", "launcher"}

\* "critical" and "automatic" callouts come from telemetry; "system" ones report the state of
\* the app; "answer" and "typed" are the answers to questions of the two askers.
OnTheRace == {"critical", "automatic"}
Kind == OnTheRace \cup {"system", "answer", "typed"}

\* gen: the session_generation it is tagged with; of: that of the telemetry it is made from.
Callout == [kind : Kind, gen : 0..MaxSessions, of : 0..MaxSessions \cup {NoSnapshot}]

Idle == [state |-> "idle"]
None == [step |-> "none"]

Init ==
    /\ enabled \in BOOLEAN
    /\ generation = 0 /\ snapshot = NoSnapshot
    /\ recent = FALSE /\ busy = FALSE
    /\ queue = <<>> /\ worker = Idle
    /\ question = [a \in Asker |-> None]
    /\ offered = 0 /\ counted = 0 /\ switches = 0 /\ spokenMuted = 0

-----------------------------------------------------------------------------
(* BoundedLatestVoiceQueue, and _queue_announcement that fills it.         *)

\* Mutant: nothing is too long for an asyncio.Queue.
PushUnbounded(items, c) == Append(items, c)

\* push: a full queue drops its oldest.
Push(items, c) == Append(IF Len(items) = QueueSize THEN Tail(items) ELSE items, c)

\* drop_matching: the critical ones stay, in their order.
DropLower(items) ==
    LET kept == {i \in DOMAIN items : items[i].kind = "critical"}
    IN [k \in 1..Cardinality(kept) |->
           items[CHOOSE i \in kept : Cardinality(kept \cap 1..i) = k]]

\* Mutant: a critical callout just takes its place.
EnqueueInTurn(items, c) == Push(items, c)

Enqueue(items, c) == Push(IF c.kind = "critical" THEN DropLower(items) ELSE items, c)

\* A callout goes to what is left of the queue after "cleared" callouts were dropped; "gen" is
\* the generation by then.
Queue(kind, of, gen, items, cleared) ==
    /\ offered < MaxCallouts
    /\ offered' = offered + 1
    /\ queue' = Enqueue(items, [kind |-> kind, gen |-> gen, of |-> of])
    /\ counted' = counted + cleared + Len(items) + 1 - Len(queue')
    /\ recent' = TRUE

Say(kind, of) == Queue(kind, of, generation, queue, 0)

\* _cancel_active_voice: a task not yet run never runs, one that awaits the engine is
\* interrupted.  A callout held back has no task.
Cancelled(w) == IF w.state \in {"spawned", "speaking"} THEN [w EXCEPT !.state = "cancelled"]
                ELSE w

-----------------------------------------------------------------------------
(* Telemetry.  While a handler of the subscriber awaits the answer to a    *)
(* question, no other handler of the subscriber runs.                      *)

Free(a) == question[a] = None

\* Mutant: does not stop what is being said.
ResetSpeaksOn(new) ==
    LET gen == IF new THEN generation + 1 ELSE generation
        left == IF new THEN <<>> ELSE queue
        cleared == IF new THEN Len(queue) ELSE 0
        unlimited == new \/ ~recent
    IN
    /\ new => generation < MaxSessions
    /\ generation' = gen
    /\ worker' = worker
    /\ \/ /\ queue' = left /\ counted' = counted + cleared /\ recent' = ~unlimited
          /\ UNCHANGED offered
       \/ enabled /\ \E kind \in OnTheRace : Queue(kind, gen, gen, left, cleared)

\* _reset_for_new_session_if_needed, then at most one callout.  One that is not critical may
\* fall to the minimum interval when another was queued before it in the session.
Reset(new) ==
    LET gen == IF new THEN generation + 1 ELSE generation
        left == IF new THEN <<>> ELSE queue
        cleared == IF new THEN Len(queue) ELSE 0
        unlimited == new \/ ~recent
    IN
    /\ new => generation < MaxSessions
    /\ generation' = gen
    /\ worker' = IF new THEN Cancelled(worker) ELSE worker
    /\ \/ /\ queue' = left /\ counted' = counted + cleared /\ recent' = ~unlimited
          /\ UNCHANGED offered
       \/ enabled /\ \E kind \in OnTheRace : Queue(kind, gen, gen, left, cleared)
       \/ /\ enabled /\ ~unlimited /\ offered < MaxCallouts
          /\ offered' = offered + 1 /\ counted' = counted + 1
          /\ UNCHANGED <<queue, recent>>

\* race-table-update
RaceTable(new) ==
    /\ Free("subscriber")
    /\ Reset(new)
    /\ snapshot' = generation'
    /\ busy' = (busy /\ ~new)
    /\ UNCHANGED <<enabled, question, switches, spokenMuted>>

\* race-engineer-trace-update and stream-overlay-update.  The first session UID of all leaves
\* the snapshot alone.
Trace(new) ==
    /\ Free("subscriber")
    /\ Reset(new)
    /\ snapshot' = IF new /\ generation > 0 THEN NoSnapshot ELSE snapshot
    /\ IF enabled THEN busy' \in BOOLEAN ELSE busy' = (busy /\ ~new)
    /\ UNCHANGED <<enabled, question, switches, spokenMuted>>

\* A sample of more than 2.5 s ago counts no more.
SampleAges ==
    /\ busy
    /\ busy' = FALSE
    /\ UNCHANGED <<enabled, generation, snapshot, recent, queue, worker, question, offered,
                   counted, switches, spokenMuted>>

-----------------------------------------------------------------------------
(* Commands and questions, from the subscriber and from the launcher.      *)

\* Mutant: what waits is said all the same.
SetEnabledKeepsQueue(a, announce) ==
    /\ Free(a)
    /\ switches < MaxSwitches
    /\ switches' = switches + 1
    /\ enabled' = ~enabled
    /\ spokenMuted' = 0
    /\ worker' = Cancelled(worker)
    /\ recent' = FALSE
    /\ UNCHANGED <<generation, snapshot, busy, question, queue, offered, counted>>

\* set_enabled
SetEnabled(a, announce) ==
    /\ Free(a)
    /\ switches < MaxSwitches
    /\ switches' = switches + 1
    /\ enabled' = ~enabled
    /\ spokenMuted' = 0
    /\ worker' = Cancelled(worker)
    /\ IF announce THEN Queue("system", generation, generation, <<>>, Len(queue))
       ELSE /\ queue' = <<>> /\ counted' = counted + Len(queue) /\ recent' = FALSE
            /\ UNCHANGED offered
    /\ UNCHANGED <<generation, snapshot, busy, question>>

\* queue_system_announcement, and the replies to a question when muted or not understood.
Report(a) ==
    /\ Free(a)
    /\ Say("system", generation)
    /\ UNCHANGED <<enabled, generation, snapshot, busy, worker, question, switches,
                   spokenMuted>>

AskAgent(a) == question' = [question EXCEPT ![a] = [step |-> "answer", of |-> snapshot]]

\* ask_text_question, unmuted
Ask(a) ==
    /\ Free(a) /\ enabled
    /\ AskAgent(a)
    /\ UNCHANGED <<enabled, generation, snapshot, recent, busy, queue, worker, offered,
                   counted, switches, spokenMuted>>

\* handle_audio_question, up to the recognizer
AskAloud ==
    /\ Free("subscriber") /\ enabled
    /\ question' = [question EXCEPT !["subscriber"] = [step |-> "transcribe"]]
    /\ UNCHANGED <<enabled, generation, snapshot, recent, busy, queue, worker, offered,
                   counted, switches, spokenMuted>>

\* The text goes to the agent unless muted meanwhile; what was not understood is reported.
Transcribed ==
    /\ question["subscriber"].step = "transcribe"
    /\ \/ /\ enabled
          /\ AskAgent("subscriber")
          /\ UNCHANGED <<recent, queue, offered, counted>>
       \/ /\ Say("system", generation)
          /\ question' = [question EXCEPT !["subscriber"] = None]
    /\ UNCHANGED <<enabled, generation, snapshot, busy, worker, switches, spokenMuted>>

\* The answer is tagged with the session, and spoken whether muted or not, of its own time.
Answer(a) ==
    /\ question[a].step = "answer"
    /\ Say(IF a = "launcher" THEN "typed" ELSE "answer", question[a].of)
    /\ question' = [question EXCEPT ![a] = None]
    /\ UNCHANGED <<enabled, generation, snapshot, busy, worker, switches, spokenMuted>>

-----------------------------------------------------------------------------
(* _voice_worker and _speak_announcement.                                  *)

Obsolete(c) == c.gen # generation

\* Mutant: looks at the driver before it looks at the clock.
DelayUnbounded(c, late) == c.kind = "automatic" /\ busy

\* decide_radio_timing; "late" when the callout was queued max_delay_seconds ago.
Delay(c, late) == c.kind = "automatic" /\ busy /\ ~late

others == <<enabled, generation, snapshot, recent, busy, question, offered, switches>>

\* An obsolete callout is counted; another waits for its moment or gets a task.
Consider(c, late) ==
    /\ IF Obsolete(c) THEN worker' = Idle /\ counted' = counted + 1
       ELSE /\ worker' = [state |-> IF Delay(c, late) THEN "window" ELSE "spawned",
                          item |-> c, late |-> late]
            /\ UNCHANGED counted
    /\ UNCHANGED <<others, spokenMuted>>

Take ==
    /\ worker.state = "idle" /\ queue # <<>>
    /\ queue' = Tail(queue)
    /\ \E late \in BOOLEAN : Consider(Head(queue), late)

\* _wait_for_radio_timing_window looks again after check_interval_seconds.
Recheck ==
    /\ worker.state = "window"
    /\ Consider(worker.item, worker.late)
    /\ UNCHANGED queue

MaxDelayPasses ==
    /\ worker.state = "window" /\ ~worker.late
    /\ worker' = [worker EXCEPT !.late = TRUE]
    /\ UNCHANGED <<others, queue, counted, spokenMuted>>

\* The task runs up to the voice engine.
Begin ==
    /\ worker.state = "spawned"
    /\ worker' = [worker EXCEPT !.state = "speaking"]
    /\ spokenMuted' = IF ~enabled /\ worker.item.kind \in OnTheRace THEN spokenMuted + 1
                      ELSE spokenMuted
    /\ UNCHANGED <<others, queue, counted>>

\* Mutant: a callout that was interrupted is not counted.
EndSpokenOnly ==
    /\ worker.state \in {"speaking", "cancelled"}
    /\ worker' = Idle
    /\ counted' = IF worker.state = "speaking" THEN counted + 1 ELSE counted
    /\ UNCHANGED <<others, queue, spokenMuted>>

\* The engine is done, well or not, or the task was cancelled; either way the callout is
\* counted and the worker goes on.
End ==
    /\ worker.state \in {"speaking", "cancelled"}
    /\ worker' = Idle
    /\ counted' = counted + 1
    /\ UNCHANGED <<others, queue, spokenMuted>>

-----------------------------------------------------------------------------

Next ==
    \/ \E new \in BOOLEAN : RaceTable(new) \/ Trace(new)
    \/ SampleAges
    \/ \E a \in Asker : \/ \E announce \in BOOLEAN : SetEnabled(a, announce)
                        \/ Report(a) \/ Ask(a) \/ Answer(a)
    \/ AskAloud \/ Transcribed
    \/ Take \/ Recheck \/ MaxDelayPasses \/ Begin \/ End

Spec == Init /\ [][Next]_vars

\* The loop runs every task that can go on, voice engines give up in the end (they have
\* timeouts) and time passes.
Fairness == WF_vars(Take) /\ WF_vars(Recheck) /\ WF_vars(MaxDelayPasses) /\ WF_vars(Begin)
            /\ WF_vars(End)

FairSpec == Spec /\ Fairness

-----------------------------------------------------------------------------

\* The type invariant.
TypeOK ==
    /\ enabled \in BOOLEAN /\ recent \in BOOLEAN
    /\ generation \in 0..MaxSessions /\ snapshot \in 0..MaxSessions \cup {NoSnapshot}
    /\ busy \in BOOLEAN
    /\ queue \in Seq(Callout) /\ Len(queue) <= QueueSize
    /\ worker \in {Idle} \cup [state : {"window", "spawned", "speaking", "cancelled"},
                               item : Callout, late : BOOLEAN]
    /\ question \in [Asker -> {None, [step |-> "transcribe"]} \cup
                              [step : {"answer"}, of : 0..MaxSessions \cup {NoSnapshot}]]
    /\ offered \in 0..MaxCallouts /\ counted \in 0..MaxCallouts
    /\ switches \in 0..MaxSwitches /\ spokenMuted \in 0..MaxCallouts

\* The statistics lose and double nothing: every callout ever made waits, is in the worker's
\* hands, or was counted once, as spoken, failed or dropped, whichever of the queue's limits,
\* a critical callout, a mute, a session change or a cancelled task got in its way.
CalloutsCounted == offered = counted + Len(queue) + IF worker = Idle THEN 0 ELSE 1

\* apps/race_engineer/README.md:73: old-session advice is not spoken in the next run.  What is being said was
\* made in this session from telemetry of this session.  Only the answer to a typed question
\* may be older, for the launcher's questions run beside the subscriber; and a first
\* question may be answered from what came before the first session UID.
OldSessionSilent ==
    worker.state = "speaking" =>
        LET c == worker.item IN
        /\ c.gen = generation
        /\ c.kind # "typed" => c.of \in {generation, 0, NoSnapshot}

\* A mute leaves no callout on the race in the queue, and none is queued until it is enabled
\* again, whatever telemetry, sessions and questions come.
MutedQueue == ~enabled => \A i \in DOMAIN queue : queue[i].kind \notin OnTheRace

\* docs/RACE_ENGINEER_ASSISTANT.md:451: "When the engineer is muted, automatic telemetry callouts
\* are suppressed".  The one that is held back at that moment is in neither the queue nor a
\* task, and _wait_for_radio_timing_window lets it go without a look at "enabled".
MutedSilence == spokenMuted = 0

\* No callout waits in the queue ahead of a critical one, and a critical one is never held back.
CriticalsAhead ==
    /\ \A i, j \in DOMAIN queue : i < j /\ queue[j].kind = "critical" =>
                                  queue[i].kind = "critical"
    /\ worker.state = "window" => worker.item.kind = "automatic"

\* apps/race_engineer/README.md:150: "Max radio delay caps the wait so advice cannot get stuck", nor anything
\* behind it: the worker always comes back for the next callout.
WorkerReturns == worker.state # "idle" ~> worker.state = "idle"

\* apps/race_engineer/README.md:74: urgent messages are spoken first.  When a callout that was held back is let
\* go, none that is critical waits.
CriticalFirst ==
    [][worker.state = "window" /\ worker'.state = "spawned" =>
        \A i \in DOMAIN queue : queue[i].kind # "critical"]_vars
=============================================================================
