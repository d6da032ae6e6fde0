# Pits n' Giggles: specifications

TLA+ models of the parts of Pits n' Giggles whose correctness depends on the
order of things: packets that UDP loses, repeats and delays, threads and tasks
that share fields, processes that crash and are restarted, replies that come too
late. TLC checks the models on small instances; TLAPS proves the properties that
matter most for every value of the constants. `PROJECT.json` maps each definition
to the lines of `src/` it stands for.

    tlc -workers 2 -config TelemetryReceiver.cfg MCTelemetryReceiver.tla
    tlapm TelemetryReceiver_proofs.tla

## The system

The launcher (a Qt program) starts six children and looks after them: the
backend, the broker, the HUD, the save viewer, the MCP server and the race
engineer. The game sends UDP packets to the backend, which keeps the state of the
session, writes it to disk at its end and publishes it through the broker to the
others. Request and reply between children goes through the broker's router; the
launcher asks its children directly.

| Component | State | Operations | Hard behaviour | What makes it correct | Module |
|---|---|---|---|---|---|
| Receive loop, `lib/telemetry_manager` | last session, frame, types seen in it | parse, `should_accept`, dispatch | late, repeated, reordered packets; a handler that raises | fresh packets get through, stale ones do not | `TelemetryReceiver` |
| Backend tasks, `pits_n_giggles.py`, `inter_task_communicator.py` | queues, shutdown event, task states | gather, receive, shut down | cancellations that are swallowed, a save under way | every task ends, no save is cut | `BackendShutdown` |
| Session life cycle, `telemetry_handler.py`, `session_state.py` | session info, driver data, flags in two objects, the save task | one handler per packet type, clear, autosave | lost start events, repeated classification, saves on request and under way while data change | data of one session only, saved once | `TelemetrySession` |
| Driver records, `data_per_driver` | laps, snapshots, tyre stints, pending events | lap change, flashback, tyre set change | laps undone, packets of one frame in any order | no record of an undone lap, wear of the right tyres | `DriverLaps` |
| Fastest lap, `session_state.py` | best laps, holder | history, event, lap data | three views of different age | the holder is the fastest | `FastestLap` |
| Delta, `lib/delta` | samples per lap | record, rewind, interpolate | laps undone, late events | distances increase, deltas are of driven laps | `LapDelta` |
| Subsystem manager, `base_mgr.py` | process, PID, port, flags, lock, stop event, generation | start, stop, restart, auto-restart, output, monitor, heartbeat | seven threads, half of the accesses outside the lock | stop is exclusive, no second child, crashes are noticed, stops return | `SubsystemMgr` |
| Launcher requests, `lib/ipc/reqrep` | queue, last heartbeat, misses | serve, heartbeat, monitor | heartbeats behind a slow handler | orphans end, and a busy child is not taken for one | `RequestServer` |
| Dealers and router, `lib/ipc/router_dealer` | pending reply, lock, socket, pipe | send, receive loop, close, forward | lost and late messages, cancellation, close under a caller | a reply is the reply to one's own request; every send returns | `RequestReply` (the promise), `Dealer`, `SyncDealer` |
| Publish and subscribe, `lib/ipc/pubsub` | message numbers, connection, batch | publish, reconnect, receive, dispatch | gaps, restarts of either side | gaps are counted, order kept per topic | `PubSub` |
| Race engineer's voice | queue, worker, session, mute | push, drop, hold back, speak, cancel | a mute or new session at any await | nothing lost, no stale or muted talk | `Callouts` |
| Push-to-talk | hold, buffer, microphone thread | start, append, stop | lost release, chunks after a restart | a clip is one recording, the microphone follows the button | `PushToTalk` |
| Overlays of the HUD, `apps/hud`, and the synchronous watchdog | visible, locked, active, hidden by the user; the response slot | toggle, lock, data come and stop, capture the layout | four threads command one queue, fades end later, answers come late | an overlay is hidden only for a reason, an answer is one's own | `Overlays` |
| Asynchronous watchdogs, forwarding | last kick; sockets | kick, run, forward | | | only as tasks of `BackendShutdown` |
| Advice, prompts, speech services of the race engineer; fuel and wear estimates | telemetry history | compute, format | floats, text | | not modelled |
| Save viewer, MCP server, what the overlays draw, web front end, packet layouts, settings | | presentation, parsing | | | not modelled: I/O and data |

How they interact: the receive loop awaits each handler, so a slow or failing
handler holds up or ends the loop; handlers write `SessionState`, which web and
publishing tasks read between packets; the manager in the launcher asks its child
over a request socket for heartbeats and shutdown and reads PID, port and
"initialised" from its output; MCP tools call the dealer's `send`; the race engineer
hears telemetry as a subscriber and button presses as commands of the backend, and so
does the HUD, which the launcher asks besides to lock its overlays and to say where they are.

The hazards list of `PROJECT.json` names, at its line, what in this code a test
would hardly reach, and the properties that would catch it.

## The modules

Parts that share no state are run together where that costs nothing: an `MC` module
extends one of them, instantiates the others, and a variable `part` says which one a
behaviour follows, so that the state spaces add up instead of multiplying. Its
properties are those of the parts, some of them joined.

### OrderedFeed and TelemetryReceiver

`OrderedFeed` says what the handlers are promised, on the list of packets handed
over: a packet is fresh unless the current run (one session, frame counter not
restarted) holds a later frame or the same frame and type. `TelemetryReceiver` is
the code: `SessionFrameGate` with its two scalars and one set, and the receive
loop. `DropReason` is the chain of early returns of `should_accept`, `Note` what
the accepting branches assign; `Drop` and `Process` are the two ways through
`_processPacket`, `Unparsable` the third. A handler that raises ends the loop
(`alive`): the exception is raised again, and only two parser exceptions are
caught. The next packet is any packet, which covers loss, repetition, reordering
and packets of old sessions.

Run `TelemetryReceiver` (`MCTelemetryReceiver`, part "packets"): two sessions, frames 0 (which the gate treats as a
reset), 1 and 2, two types, at most five packets handed over (`MaxDelivered`).
Five are enough for a run, a reset inside it and a run after it, each with a
packet that is repeated and one that is late. Dropped packets are not bounded.
`Ordered`, `GateDecidesFreshness` and the refinement `ImplementsOrderedFeed` hold.

Proved for any sets of sessions, frames and types: `TypeCorrect`, `GateCorrect`,
`DeliveryOrdered`, `Refinement`. The inductive invariant `GateInv` says what the
gate's variables stand for: the last packet's session and frame, the types of that
frame in the run, and that frames in a run never go back. `Refinement` assumes
`Enabled`: with the setting off everything is accepted.

### BackendShutdown

The tasks that `PngRunner.run` gathers, the shutdown task among them, the
just-in-case save beside them, and what asyncio does with a cancellation: it is
delivered at the task's next await, once. `AsyncInterTaskCommunicator.receive`
swallows it and returns None, so a consumer goes round its loop again and ends only
with the shutdown event; the model has that, the sentinel of `unblock_receivers`, and
the clean-up of `asyncio.run`, which cancels all that are left a single time. One
cancellation is enough because the shutdown task waits in `receive` as well: a
cancellation makes it begin the shutdown. It also shows what an orderly exit rests on:
the race engineer's publisher is never closed, and only the publisher task, which
`close()` cancels, makes `gather` raise and the clean-up begin.

Run `TelemetryReceiver`, part "tasks": two consumers (two can be in different states;
a third would repeat one), every other task once. `Fairness`: the event loop runs
what can run, and the work of a consumer and the wait for the save have timeouts;
nothing for the save itself. `BackendEnds` is liveness under it; `SaveAwaited` says
that only Ctrl-C or a failed task cuts a save. A final classification's autosave is
awaited by the receive task and is lost with it.

Proved for any number of consumers: `SavesAwaited` (`SaveAwaited`), in
`TelemetryReceiver_proofs`, and `BothTyped`, the types of both parts. `BackendInv` follows
the order in which things are cancelled: the save is cancelled only by the clean-up, the
clean-up begins only when `gather` has ended, and `gather` ends in order only after the
shutdown task has waited for the save.

### TelemetrySession

`F1TelemetryHandler` and the part of `SessionState` that says which session the
driver data belong to. Driver data are abstracted to a set of pairs (packet type,
session it came from): enough to see data of two sessions mixed. `CAR_STATUS`
stands for every car packet that is stored unconditionally. `SessionData` covers
the nested clears of `processSessionUpdate` and of the handler. The just-in-case
save captures its contents at once (`Captured`) and writes them in a task
(`WriteJustInCase`) while packets go on arriving; the classification's autosave is
awaited in its handler and may fail. A manual save (`ManualSave`) is asked of the IPC
server between two handlers and goes through the same function, which marks the race as
completed although no classification has come; the next lap data take the mark back.
`FlagsAgree` says therefore that a completed race has its classification or was saved by
hand (`byHand`, a history variable), and that neither outlives the data. The file of a
manual save is not followed in `files`: `LapsArePure` and `SavedOnce` are about autosaves, and a
driver may save twice, or before the SESSION packet of a new session.

`now`, `stage` and `started` are the environment: the game plays sessions in
order, any packet may be lost or repeated, and packets of a finished session do
not come back. Two things are assumed of the game. SESSION_STARTED comes before the
other packets of its session, and again at its end (the F1 25 bug the just-in-case
save exists for). SESSION is sent twice a second, so one of a session's many gets
through before its last lap, its end, and the next session, unless nothing of the
session is heard at all. Without the second assumption `LapsArePure` is false.

Run `TelemetrySession` (`MCTelemetrySession`, part "session"): two sessions, both autosaved, just-in-case on, at most
three clears (`MaxEpoch`) and two files (`MaxFiles`, the one being written included), as a
state constraint. One
change of session, with a clear before, in and after it, shows every order of start
events; the proofs carry the result to any number. `SessionUnclassified` needs one
session.

Proved for any number of sessions and any settings: `TypeCorrect`, `FlagsCorrect`
(`FlagsAgree` is inductive as it stands), `StartCorrect`, `LapsCorrect`,
`OnceCorrect`. `StartInv` adds what the handler's `lastUid` and `dataCleared` know
of the data's age; `PureInv` that lap data agree with the session info, or that the
info is empty and so are the laps; `OnceInv` that the epoch of a saved file is past
or its data are marked as classified.

### Overlays

The HUD's visibility, lock and layout. Four threads call `OverlaysMgr`: the subscriber
(data), the watchdog's own, the server (the launcher's commands) and the dealer (the
driver's buttons). A command is a Qt signal whose emission posts an event for every
overlay, one by one (`Post`), since the overlays live in the GUI thread; two threads'
events may mix. The GUI thread takes them in order (`HandleCmd`, `HandleRequest`). A fade-out
leaves the window visible until it ends (`fading`, `FadedOut`), and the next animation
replaces it. `WindowManager.request` waits on one slot under a mutex that the GUI thread
needs to store an answer; a timeout leaves the events in the queue. Between `Look` and
`Judge` the watchdog's thread has computed how long ago the last kick was and not yet
acted on it; `gap` says whether that is too long. It is assumed that this time passes only
while the subscriber waits for data, not in the middle of an update.

Three properties, joined with the type invariant as `OverlaysSound`. `HiddenForAReason`:
an overlay is hidden, or about to be, only because the user toggled it away, or because it
is locked and telemetry is not active for it. `AnswerIsOwn`: `request()` returns the answer of the
overlay it asked. Its exception, `behind`, is the code's: the slot does not tell whose an
answer is, so after one timeout each answer is taken for the next request's, and locking
saves each overlay's position as its neighbour's, until the queue has run dry of requests
before one is made. `FollowsWatchdog`: once the queue is empty and the threads are at rest,
telemetry is active for an overlay exactly if it is for the watchdog and the driver is in no
menu. Its exception, `crossed`, is a change of the watchdog that met an update: the two
threads write `_local_wdt_ok` in either order, and the overlays may then stay away while
data arrive, or stay when data have stopped, until the watchdog changes again. TLC finds each
property false without its exception.

Run `TelemetrySession`, part "hud": one overlay and three updates; one overlay, two commands
and one update; two overlays and two commands. Three updates let data come, stop, return and
stop with a menu between. Two commands are what crosses (a toggle in a lock, a statistics
request behind a layout capture); two overlays are what answers can be mistaken between. A
third overlay answers as the second does.

Proved, in `TelemetrySession_proofs`, for any overlays, commands and updates:
`OverlaysAreSound` (`OverlaysSound`), assuming only that no overlay is registered twice.
`HiddenForAReason` is inductive with the types, and the other two each have an invariant of
their own. `AskInv`: unless the answers are behind, only the overlay asked last has yet to
answer, once, whatever other threads have put into the same queue; this is what `WireInv`
says of a socket. `FollowInv`: unless `crossed`, one thread at a time changes what the watchdog
says, the subscriber only while the watchdog's thread is calm and that one only while the
subscriber is idle, so whoever emits last tells the target, and each overlay has heard it, will
hear it from the queue, or is still to be posted to.

### SubsystemMgr

`PngAppMgrBase`. Each thread is a program counter in `pc`: users (button, settings
change, shutdown), and for each child an output reader, an exit monitor, a
heartbeat and, after a crash, an auto-restart thread. One step is one access that
another thread can observe or one hold of `_process_lock`; `stop` holds the lock
over several steps, since the child and the unlocked threads move meanwhile.
Children, heartbeat generations and stop events share their numbers: `gen` is both
`_heartbeat_gen_num` and which event `_stop_heartbeat` is. A port is named by the
child that listens on it. A request to a child is answered or not; `wait` ends with
the child's exit or with its timeout. The except branch of `start` is two actions:
`SpawnFails` when `Popen` raised, and `ThreadFails` when a thread could not be started, which
leaves a child that runs, with some of its threads, and a manager that believes nothing does.

Run `Subsystem` (`MCSubsystemMgr`): two users, every command, every line of output and several
children together are out of reach, and most of it does not meet, so a behaviour is
confined to one of `MCScopes`:

- one child that tells its port, and its PID or its end of initialisation, one user with any
  command, a crash: all three waits of `stop` happen (the reply to the shutdown request,
  the exit, the exit after SIGTERM), and the exit handler runs against each;
- two children that crash and the button: an auto-restart that is due or under way while the
  user starts or stops the child;
- two children and a start that fails half-way, followed by another start;
- two users at once with any command: the initial start, the button and a change of settings
  call `start`, `stop` and `restart` against each other.

Two children are needed for threads of one to meet the fields of the next; a third would
meet the second as the second meets the first. `MaxStarts` and `MaxCommands` are guards of
`Spawn` and `Issue`; a scope bounds further.

Fairness: weak fairness for each launcher thread as a whole, as the operating system
schedules them; none for the child, the user or the output reader, which may wait for a
line for ever. Under it `StopReturns`, `HeartbeatEnds` and `SettledCrashIsNoticed` hold.
`NoDoubleStart` has one exception, a child whose own `start` failed half-way (`failed`): the
next `start` drops it. `SettledCrashIsNoticed` is for a child that ran at a moment when no
restart was under way or due (`settled`); a crash that finds one is lost, see below. Due
matters as well as under way: an auto-restart that sleeps wakes up over the child a user
has started meanwhile and sets `_is_restarting` under it.

Proved for any number of users, children and commands: `TypeCorrect`, `LockInvariant`,
`StopExclusive`, `StartsOnlyFromStopped`. `LockInv` says that exactly the thread
inside `stop` holds the lock, that the manager is then running and stopping with a
process, and that a manager that is not running has no process unless its start failed:
the mutual exclusion alone does not say that the exit handler, which is no holder, waits
too.

### DriverLaps, LapDelta, FastestLap

`DriverLaps` is `DataPerDriver` with its tyre stints, wear curve and
`PendingEventsManager`. The car's drive is `road`, a sequence of moments, two to a lap
(before and after the garage), each with the tyres on the car; a flashback cuts it.
Packets of the current moment arrive in any order, or not at all. A damage record
carries its moment and whether a flashback has undone it since, which the program does
not know and the properties need. `raised` is a handler that raised. `LapDelta` is
`LapDeltaManager` with the two handlers that feed it, the flashback being a flag that
one packet sets and another acts on. `FastestLap` is `m_fastest_index` under the three
packets that change it.

Run `SessionState` (`MCSessionState`): tracks with the garage before and after the
line, offline races and others; two tyre sets (symmetric), one stop, one flashback, five
moments when the car waits for its packets and three when it does not, which is a stop
and a flashback over the line in either order; for the delta two laps of three points and
one flashback, so that a flashback may land in the lap before; for the record two drivers
(the index breaks ties) and three changes of a best lap, a fourth repeating what a third
can do. The three share packets and no state.

What a reader may not expect, and the properties therefore say precisely. After a
flashback the lap it lands on is snapshotted again at once, from the packet copies of the
undone lap, and the re-driven lap is then skipped (`StaleOnlyWhereLanded` is true with
that exception). A stint begun on a later lap survives a flashback. Tyre sets heard before
any damage packet make the next lap change raise; so does a waiting tyre change when a
flashback or a reader empties the history it needs (`OnlyKnownFailures`); either ends the
receive task. A reader of the stint history removes a stint just added when the last
session history is older (`ReadHistory`). Sector records are not reset by a flashback (not modelled).

Proved, in `SessionState_proofs`, for any drive, any tracks and sessions and whatever
packets are lost or repeated: `SnapshotsBehindCar` and `SnapshotsFinal`
(`LapsBehindCar` and `HistoryIsFinal`). The first is inductive once the record's types
are known; the argument is one lemma about `OnLapChange`, which adds at most one snapshot,
and one about all that a tyre change does, which leaves the snapshots alone.
`FailuresKnown` (`OnlyKnownFailures`) needs `BookInv`, which says of the whole book what
keeps a handler from raising: nothing is derived from damage data that never came, and
until the first flashback the worst wear is known, no stint lies ahead of the car and each
has a wear, and a tyre change that waits has a stint to end, unless a reader dropped it.
Each function that changes the book has a lemma that says so of its result.
`NothingLeftBehind` (`StaleOnlyWhereLanded`), for any number of flashbacks, rests on
`LeftInv`: the record of a lap tells of that lap or of the first moment of the next, so a
flashback that undoes it lands on that lap or before it, and the lap data packet that
notices deletes it; and while a lap change is due the last damage packet still stands.
`WearsOfOwnTyres` (`WearOfOwnTyres`), for one tyre change in a steady session without
flashbacks, rests on `OwnInv`: until the change is heard of, everything tells of the tyres
of the grid (`Unnoticed`); while it waits, the damage packets of both sets are mixed, but
the worst wear kept is still the first tyres', because the second have hardly any
(`Waiting`); when it is through, the stint before holds the one and the stint after
begins with the other (`Done`). The car does not move on before it heard what it waits
for, which bounds the wear of the second set at each stage.
`RecordsTyped` (`TypesOK`) is the types of all three records. For any number
of laps and flashbacks, `DeltaSound` (`DeltaIsSound`): the samples of a lap are strictly
ordered by distance because a sample is appended only behind the last one and a flashback
cuts a tail; that they were driven needs to know besides what the flag of a flashback not
yet dealt with stands for. For any cars and lap times, `RecordCorrect` (`RecordIsRight`). What
the property needs besides is that `best` and `history` agree with the game for every
driver whose history is current, and that a least lap time exists. `AllParts` says that
the composition that is run keeps every step of each part.

### Replies, RequestReply, Dealer, SyncDealer

`RequestReply` is what both dealers promise: replies carry no correlation ID, so a
request may get an earlier one's reply, but only after some request up to that one
failed, and no reply is given out twice. The number of a request is not in the protocol;
it exists for the properties.

`Dealer` is `IpcDealerAsync`: `send` called by several tasks, cancelled at any await, its
receive loop and `close`, the router (which may drop a message, in `Transmit` and
`SendReply`) and a peer that handles one request after the other for as long as it
takes, or restarts. One step is what a coroutine does between two awaits. `SyncDealer`
is `IpcDealerClient`: callers hand commands through a pipe to the loop thread and wait
for an event; a step is one access that the other threads can observe. After a receive
error the socket is recreated but the poller keeps the old one, and the dealer is deaf
from then on (`deaf`). Both implement `RequestReply` (`ImplementsRequestReply`,
`SyncImplementsRequestReply`), with `sent` and `outcome` as they are.

That they do is proved as well, for any number of tasks or threads and of requests
(`Refinement` in `Ipc_proofs` and in `SyncDealer_proofs`; the results that travel are
in `Replies_proofs`). The arguments differ. In `Dealer` the lock is FIFO and the wire keeps
the order, so what was received is older than all that is still under way (`LockInv`,
`WireInv`): a reply given out can only be the caller's own or an older, abandoned one, and
never comes again. In `SyncDealer` nothing is assumed of the order of replies. The lock is
taken before a request is numbered, so its holder makes the youngest request
(`LockInv`), and a number is in one place at a time, pipe, wire, slot or outcome
(`PlaceInv`); that carries the promise although three variables are shared unlocked.
`SyncKeepsPromise` carries it over to the threads of the run.

### PubSub

One publisher, which numbers per topic and may restart, a channel that drops messages
(full queues, dead sockets, a broker that restarts) and keeps the order of one
publisher, and either subscriber. The synchronous one drains its socket into one message
per topic before it calls a handler; a receive error in between throws that batch away,
uncounted, which is `HandledInOrder`'s exception.

Proved, in `Ipc_proofs`, for any topics and any number of messages and lives:
`SubscribersSound` (`SubscriberSound`). `PSInv` is that the numbers of a topic and a life
grow along a message's way, from the handlers back over the batch and the channel to the
publisher, so that what a subscriber finds missing in between was lost. There are finitely
many numbered messages (`MessagesFinite`), so a channel without duplicates is a bounded one.

### RequestServer

The server in a child (`IpcServerAsync`; the synchronous one has the same loop in
threads) takes requests one at a time, heartbeats among them, and a monitor counts
periods of five seconds without one and ends the process at the third. The launcher
sends a heartbeat five seconds after the last was answered or timed out. Time is in
seconds; `Tick` passes when nothing is due. A handler takes up to ten seconds
(`MaxHandler`), which is the default of the race engineer's `ask-text`: it awaits a model's
answer (launch_profile.py:91, settable up to 120), and the launcher waits for it
accordingly. Other handlers take less, which the model leaves open. Two commands may be
pending in the run. Once the child is gone nothing more is sent; the launcher's own count of failures is in `SubsystemMgr`.

Ten seconds are enough for a child to end itself while its launcher lives, although three
periods are fifteen: the interval before the heartbeat that waits counts too. The run
`ServerOrphans` shows it. What does hold is `OrphanedOrBusy`: `busy` is how much of the time
since the last heartbeat the handlers took, and a child whose launcher sends heartbeats is
taken for an orphan only when that is all of the `MaxMissed` periods but the pause between
two heartbeats. A heartbeat that times out, is late or waits behind others never does it.

Proved, in `Ipc_proofs`, for all times and any number of requests: `OrphansOrBusy`
(`OrphanedOrBusy`); `ServerAssumption` gives the times their types and no more. `RSInv`
is that while the launcher lives the next heartbeat is on its way within an interval or waits
behind a handler, so that what is not `busy` of the time since the last one is at most that
pause, and that the monitor has counted no more periods than have passed since then.

How long the server's queue can get is less plain than it looks, since a heartbeat that timed
out stays queued. `RoomInv` is that a launcher adds one only after `Spacing`, its timeout and
its interval, so that queue and handler hold as many as were added in the time that the
commands take; the bound follows from that budget and is in terms of these times. A bound
that counts commands and a constant number of heartbeats is wrong: it holds for the run's
times and fails for longer handlers.

`AllTyped` (`TypesOK`) joins the types of the four parts, for finitely many topics
(`PubSubAssumption`).

Run `Ipc` (`MCIpc`), four parts. Asynchronous dealer: two tasks, four requests, so that a
request is abandoned, the next one gets its reply, and the displaced reply meets a third
and a fourth. Synchronous: two threads, one request each, a late reply and a `close` at
any point between them. Publish and subscribe: two topics, three messages of each life,
two lives. Fairness: each task's and thread's own steps, of which the timer of
`wait_for` is one, since event loop and operating system run what can run; of the
synchronous loop only the turns that find a command or `_running` cleared; in
`RequestServer` whatever is due. Nothing is assumed of peers and messages. One thing is
assumed of the socket: that it takes a message or refuses it. The asynchronous dealer's
`send_multipart` (async_client.py:289) has no timeout and waits while the broker is down and
the queue of outgoing messages is at its high-water mark; a caller would hang there, and
`NoDealerHangs` is about the others. The synchronous dealer sends with NOBLOCK.
`NoDealerHangs`: no caller is left waiting, also when the dealer is closed under it or its
loop is deaf. `OrphanEnds`: a child whose launcher has died, or wants it stopped and gets
an exception, ends.

### Callouts and PushToTalk

`Callouts` is the race engineer's mouth. Handlers of the subscriber and of the launcher's
server queue callouts; the worker takes one, holds an automatic one back while the driver
is busy (`decide_radio_timing`), and speaks it in a task that a mute or a new session
cancels. A step reaches from one await to the next. A callout is its kind and two session
numbers: when it was queued and of what the advice was made. `PushToTalk` follows the
button: hold tracker in the backend, commands that may be lost, handlers, buffer, and
the microphone's thread, which calls the buffer between any two steps without its lock.

Run `RaceEngineer` (`MCRaceEngineer`): a queue of two, three callouts, two sessions, one
mute or unmute; three presses, clips of at most two chunks. Three callouts fill the queue
and the worker's hand; two sessions give a callout of the session before. Fairness: the
loop's tasks, voice engines with timeouts, and time, which ends the longest wait; no
fairness for telemetry, which may stop. `CalloutsCounted`: nothing is lost or counted
twice. `MutedQueue`: a mute leaves no callout on the
race in the queue, and none is queued until it is lifted. The callout that the worker holds
back when the mute comes is in no queue and is spoken although muted (`MutedSilence`, below).
`HoldIsRespected`: a clip holds chunks of its own recording
only, and the microphone is not on behind the driver's back unless the last command was
lost; a lost release leaves it on and costs the next hold. Cancelling a callout does not
stop audio that a thread is already playing (azure_voice.py:191).

Proved, in `RaceEngineer_proofs`, for any number of callouts, sessions, mutes and presses and
any size of the queue and of a clip: all of these (`EveryCalloutCounted`,
`AdviceOfThisSession`, `MuteClears`, `CriticalAheadOfAll`, `HoldRespected`), and `MutedOnce`:
what is spoken although muted is one callout at most.
`CalloutsInvariant` says where a callout can be at each await of the worker, and that what
an earlier session or a mute should have taken away is no longer in the queue; the
microphone's thread needs that a chunk it is about to append is of the recording it reads.
`EngineerTyped` (`TypesOK`) is the types of both parts. That a recording's number stays in its
range rests on `PressInv`: recordings and start commands on their way are together no more
than the presses, so a lost or late command never makes a recording without a press.

## What the violations show

- `SubsystemSwallowed` (`CrashIsNoticed`): a child that crashes before `restart()`
  has cleared `_is_restarting` is taken for the expected exit; the manager shows it
  as running for ever. `_auto_restart` has the same window, and opens it also over a child
  that a user started while it slept.
- `SessionUnclassified` (`ReceiverSurvives`): a final classification that finds a
  SESSION packet but no driver record raises, and the receive loop ends.
- `DealerLateReply` (`OwnReply`): a late reply is returned to the next request, which
  a test's description says cannot happen.
- `RaceEngineerCritical` (`CriticalFirst`): a critical callout waits behind an automatic
  one that is held back, and is spoken after it; the README of the app says it preempts.
- `RaceEngineerMuted` (`MutedSilence`): a callout that is held back when the mute comes is
  let go by a wait that never looks at `enabled`; docs/RACE_ENGINEER_ASSISTANT.md:451 says
  that automatic callouts are suppressed while muted.
- `ServerOrphans` (`OnlyOrphansEnd`): one handler of ten seconds, the default of `ask-text`,
  makes a child take itself for an orphan while its launcher sends heartbeats.

## What is proved and what is only checked

Every theorem is for all values of the constants under a named assumption, which TLC
evaluates in a run: of the module (`ReceiverAssumption`, `ManagerAssumption`,
`SessionAssumption`, `DealerAssumption`, `DriverLapsAssumption` with
`NoDamageAssumption`, `CalloutsAssumption`), of the `MC` module for those that runs instantiate
(`ConsumerAssumption`, `OverlaysAssumption`, `DeltaAssumption`, `RecordAssumption`,
`ServerAssumption`, `PubSubAssumption`, `MaxPressesAssumption`), or as
the hypothesis `Constants` of the theorem (`SyncDealer_proofs`), which `MCIpc` repeats for
its values. The arguments are all of one form: an
inductive invariant, one lemma or step per action, `PTL` at the end; the three
`Refinement` theorems show in addition that a step is a step of the abstract
specification or leaves it unchanged. Each inductive invariant was checked by TLC on a small instance
of its module before it was proved.

Assumptions about the game and the environment are the guards of the actions that play
them; the proofs use nothing else about them.

Only liveness is model-checked and not proved, for it is out of the prover's reach:
`StopReturns`, `HeartbeatEnds`, `SettledCrashIsNoticed`, `NoDealerHangs`, `OrphanEnds`,
`BackendEnds`, `WorkerReturns`.

## Seen while modelling

Behaviour that no property forbids, since no text of the repository speaks of it, that a
property excepts, or that lies in parts that are not modelled:

- On a track whose garage comes before the line, a second tyre change ends its stint with
  the wear of the first tyres if the window that the worst wear is taken from still holds
  them. It holds 1500 readings (tyre_info.py:37), which its comment counts as 25 seconds at
  60 per second; where the game sends CAR_DAMAGE less often it spans longer.
  `WearOfOwnTyres` is therefore about one change.
- The assertion at base_mgr.py:590, that the heartbeat thread does not start with the stop
  flag set, fails when the child exits within the thread's random initial delay (583): the
  monitor sets the event first (532). The thread dies of it, which is as good an end as any
  (`HeartbeatEnds` counts it).
- The answer to a typed question of the old session is spoken in the new one:
  race_engineer.py:551-556 tags it with the session after the await, while
  apps/race_engineer/README.md:72-73 says that old-session advice is not spoken.
  `OldSessionSilent` excepts it. An answer that was awaited when the mute came is spoken too.
- A shutdown handler that raises leaves the child running until its monitor ends it;
  `__terminate__` is never answered; after a shutdown the synchronous server's last
  `close()` does nothing, for `_running` is False already (sync_server.py:272, 300); its
  monitor stops after a callback that raises, the asynchronous one goes on.
- `IpcDealerAsync.close()` called from a handler that the receive loop awaits would wait
  for itself. `_close_sockets` of the synchronous dealer closes the pipe without
  `_pipe_lock`.
- The driving coach takes any lap with 55 % of its distance bins for a reference
  (lap_trace.py), also one cut short by a pit stop, an invalid part or a flashback, and
  sorts it first, because the duration of fewer samples is shorter;
  docs/RACE_ENGINEER_ASSISTANT.md:484 wants clean laps only. The pace history keeps laps
  that a flashback has undone and skips the re-driven ones (history.py, `_seen_laps`).
- In the HUD a layout reset does not reach hidden overlays, for it is sent without high
  priority, though success is returned (overlays_mgr.py); locking saves the layout of
  registered overlays only; `lock_callback` flips its flag also when the request failed
  (hud_mgr.py). Answers that shift after a timeout and overlays that contradict the watchdog
  are the exceptions of `Overlays`.
- The subsystem settings `heartbeat_interval` and `num_missable_heartbeats`
  (subsys_ctrl.py) are read by nobody; the manager has its own constants.

## What is not modelled

- Qt events that `stop()` dispatches in its middle (`base_mgr.py:333`) while it holds
  the lock: a callback that stops the same subsystem would wait for its own thread.
  `StopReturns` is about `stop()` as such. The buttons are disabled and the settings
  dialog is modal; what remains is a close event that is already pending, and its wait
  gives up after ten seconds.
- `debug_mode` of the launcher, which turns the heartbeat's stop off.
- In the backend: button actions other than push-to-talk, notifications to the front end,
  the web server, and the readers of the session state except that of the tyre stints.
- Of the drivers: fuel, sectors, pit times, penalties, overtakes, collisions; the
  regressions that estimate fuel and wear, which compute with floats.
- In the dealers: `fire()`, a peer that is a client itself, identities. In publish and
  subscribe: connection callbacks and latency statistics.
- In the race engineer: which advice is given, prompts, answers, voice and speech services.
  It is the largest package of the repository, and nearly all of it formats text.
- In the HUD: what is drawn, pages, opacity, positions and their reset, the fast data path,
  shutdown, and the restart of the watchdog's thread.
- Save viewer, MCP tools, web front end, packet layouts, settings, file formats,
  which is most of the repository's lines: data and presentation, whose errors are not
  errors of order. The share of the lines that the map names is small for this reason.

## Plan

The driving coach with laps cut short and undone, against "clean reference laps".

`TelemetryReceiver` and `TelemetrySession` are to be composed, with a channel that
brings back packets of a finished session, once it is settled what the receiver
promises there.
