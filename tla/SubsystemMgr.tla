---------------------------- MODULE SubsystemMgr ----------------------------
(***************************************************************************)
(* PngAppMgrBase (apps/launcher/subsystems/base_mgr.py): the launcher's    *)
(* manager of one child process.  Every start spawns three threads for the *)
(* new child: a reader of its output, a monitor of its exit and a          *)
(* heartbeat.  They share the manager's fields with the threads that run   *)
(* the user's commands and with the auto-restart thread.  Only some of the *)
(* accesses are under _process_lock; one step here is one access that      *)
(* another thread can observe, or one hold of the lock.                    *)
(***************************************************************************)
EXTENDS Naturals, Sequences, FiniteSets

CONSTANTS User,          \* the threads that run start_stop, restart and stop
          MainThread,    \* the one of them that runs auto_start_subsystems
          Command,       \* the commands they issue
          MaxStarts,     \* bound on the number of children ever spawned
          MaxCommands,   \* bound on the number of commands ever issued
          MaxAttempts,   \* max_restart_attempts
          MaxMissed,     \* num_missable_heartbeats
          AutoRestart,   \* auto_restart
          ExitCode,      \* how a child ends by itself
          Token,         \* the lines of its output the manager reacts to
          Nobody

\* Children are numbered in the order they are spawned: child g belongs to heartbeat
\* generation g and to the g-th _stop_heartbeat event.  0 is no child.
Child == 1..MaxStarts
Gen == 0..MaxStarts

Hb(g)  == <<"heartbeat", g>>
Mon(g) == <<"monitor", g>>
Cap(g) == <<"output", g>>
Ar(g)  == <<"auto-restart", g>>

HbThreads == {Hb(g) : g \in Child}
ArThreads == {Ar(g) : g \in Child}
Stopper == User \cup HbThreads          \* the threads that call stop()
Starter == User \cup ArThreads          \* the threads that call start()
Thread == User \cup HbThreads \cup ArThreads
               \cup {Mon(g) : g \in Child} \cup {Cap(g) : g \in Child}

ASSUME ManagerAssumption ==
    /\ User \cap ({"heartbeat", "monitor", "output", "auto-restart"} \X Nat) = {}
    /\ Nobody \notin Thread
    /\ MainThread \in User
    /\ {MaxStarts, MaxCommands, MaxAttempts, MaxMissed} \subseteq Nat
    /\ AutoRestart \in BOOLEAN
    /\ Command \subseteq {"start_stop", "restart", "stop"}
    /\ ExitCode \subseteq {"crash", "fatal", "term"}
    /\ Token \subseteq {"pid", "port", "init"}

VARIABLES
    process,       \* self.process
    childPid,      \* self.child_pid
    isRunning,     \* self.is_running
    isStopping,    \* self._is_stopping
    isRestarting,  \* self._is_restarting
    restartCount,  \* self._restart_count
    initDone,      \* self._init_complete_received
    port,          \* self.ipc_port, named by the child that listens on it; 0 is None
    postFired,     \* self._post_start_fired
    gen,           \* self._heartbeat_gen_num, and which event self._stop_heartbeat is
    hbStop,        \* hbStop[g]: the g-th _stop_heartbeat event is set
    lock,          \* the holder of self._process_lock
    pc,            \* what each thread is about to do
    command,       \* command[u]: the command user thread u runs
    commands,      \* how many commands were issued
    child,         \* child[g]: the operating system's view of the g-th child
    exitCode,      \* exitCode[g]: what it returned
    failed,        \* the children whose start() failed once they ran (history)
    told,          \* told[g]: the tokens it has written to its output
    heard,         \* heard[g]: how many of them were read
    capOf,         \* capOf[g]: the child whose output the g-th output thread reads
    monOf,         \* monOf[g]: the child the g-th monitor waits for
    monGen,        \* monGen[g]: the event the g-th monitor will set
    missed,        \* missed[g]: failed_count of the g-th heartbeat thread
    hbPort         \* hbPort[g]: the port its request in flight went to

flags    == <<isStopping, isRestarting>>
identity == <<process, childPid, isRunning>>
startup  == <<initDone, port, postFired>>
locals   == <<capOf, monOf, monGen, missed, hbPort>>
os       == <<child, exitCode, failed, told>>
users    == <<command, commands>>

vars == <<identity, flags, restartCount, startup, gen, hbStop, lock, pc, users, os,
          heard, locals>>

\* What a thread may be about to do; inside stop(), it holds the lock.
Holding == {"shutdown", "wait", "terminate", "cleanup"}
Label == Holding \cup
         {"idle", "branch", "start", "unflag", "stop",                 \* the commands
          "enter", "read", "fire",                                     \* _capture_output
          "watch", "judge", "handle", "decide", "finally",             \* _monitor_exit
          "count", "sleep",                                            \* _auto_restart
          "delay", "AssertionError", "loop", "request", "exit",        \* _send_heartbeat
          "done"}

Goto(t, label) == pc' = [pc EXCEPT ![t] = label]
Free == lock = Nobody

Init ==
    /\ process = 0 /\ childPid = 0 /\ isRunning = FALSE
    /\ isStopping = FALSE /\ isRestarting = FALSE
    /\ restartCount = 0
    /\ initDone = FALSE /\ port = 0 /\ postFired = FALSE
    /\ gen = 0
    /\ hbStop = [g \in Gen |-> FALSE]
    /\ lock = Nobody
    /\ \E autoStart \in BOOLEAN :
          pc = [t \in Thread |-> IF autoStart /\ t = MainThread THEN "start" ELSE "idle"]
    /\ command = [u \in User |-> "none"] /\ commands = 0
    /\ child = [g \in Child |-> "unborn"]
    /\ exitCode = [g \in Child |-> "none"]
    /\ failed = {}
    /\ told = [g \in Child |-> <<>>]
    /\ heard = [g \in Child |-> 0]
    /\ capOf = [g \in Child |-> 0]
    /\ monOf = [g \in Child |-> 0]
    /\ monGen = [g \in Child |-> 0]
    /\ missed = [g \in Child |-> 0]
    /\ hbPort = [g \in Child |-> 0]

-----------------------------------------------------------------------------
(* The child process.                                                      *)

\* The child reports its PID first, then its IPC port and the end of its initialisation in
\* either order (lib/child_proc_mgmt).
Report(g, token) ==
    /\ child[g] = "alive"
    /\ token \notin {told[g][i] : i \in 1..Len(told[g])}
    /\ "pid" \in Token /\ told[g] = <<>> => token = "pid"
    /\ told' = [told EXCEPT ![g] = Append(@, token)]
    /\ UNCHANGED <<identity, flags, restartCount, startup, gen, hbStop, lock, pc, users,
                   child, exitCode, failed, heard, locals>>

\* It exits: a crash, an error the manager must not restart, or somebody's SIGTERM.
Exit(g, code) ==
    /\ child[g] = "alive"
    /\ child' = [child EXCEPT ![g] = "dead"]
    /\ exitCode' = [exitCode EXCEPT ![g] = code]
    /\ UNCHANGED <<identity, flags, restartCount, startup, gen, hbStop, lock, pc, users,
                   failed, told, heard, locals>>

\* It obeys a shutdown request and exits with code 0.
Obey(g) ==
    /\ child[g] = "leaving"
    /\ child' = [child EXCEPT ![g] = "dead"]
    /\ exitCode' = [exitCode EXCEPT ![g] = "clean"]
    /\ UNCHANGED <<identity, flags, restartCount, startup, gen, hbStop, lock, pc, users,
                   failed, told, heard, locals>>

-----------------------------------------------------------------------------
(* start()                                                                 *)

AfterStart(t) ==
    IF t \in ArThreads \/ command[t] = "restart" THEN "unflag" ELSE "idle"

AlreadyRunning(t) ==
    /\ pc[t] = "start" /\ Free
    /\ isRunning
    /\ Goto(t, AfterStart(t))
    /\ UNCHANGED <<identity, flags, restartCount, startup, gen, hbStop, lock, users, os,
                   heard, locals>>

\* Popen succeeded: a new event and generation, then the three threads.
Spawn(t) ==
    LET g == gen + 1 IN
    /\ pc[t] = "start" /\ Free
    /\ ~isRunning
    /\ g \in Child
    /\ initDone' = FALSE /\ postFired' = FALSE /\ port' = 0
    /\ process' = g /\ childPid' = g /\ isRunning' = TRUE
    /\ gen' = g
    /\ child' = [child EXCEPT ![g] = "alive"]
    /\ pc' = [pc EXCEPT ![t] = AfterStart(t), ![Hb(g)] = "delay",
                        ![Mon(g)] = "enter", ![Cap(g)] = "enter"]
    /\ UNCHANGED <<flags, restartCount, hbStop, lock, users, exitCode, failed, told, heard,
                   locals>>

\* The except branch of start(), when Popen raised.
SpawnFails(t) ==
    /\ pc[t] = "start" /\ Free
    /\ ~isRunning
    /\ initDone' = FALSE /\ postFired' = FALSE /\ port' = 0
    /\ Goto(t, AfterStart(t))
    /\ UNCHANGED <<identity, flags, restartCount, gen, hbStop, lock, users, os, heard, locals>>

\* The same branch, when a thread could not be started: the child runs, and those threads
\* that were started before, but the manager believes that nothing does.
ThreadFails(t) ==
    LET g == gen + 1 IN
    /\ pc[t] = "start" /\ Free
    /\ ~isRunning
    /\ g \in Child
    /\ initDone' = FALSE /\ postFired' = FALSE /\ port' = 0
    /\ process' = g /\ childPid' = g /\ isRunning' = FALSE
    /\ gen' = g
    /\ child' = [child EXCEPT ![g] = "alive"]
    /\ failed' = failed \cup {g}
    /\ \E n \in 0..3 :
          pc' = [pc EXCEPT ![t] = AfterStart(t),
                           ![Cap(g)] = IF n >= 1 THEN "enter" ELSE @,
                           ![Mon(g)] = IF n >= 2 THEN "enter" ELSE @,
                           ![Hb(g)]  = IF n = 3  THEN "delay" ELSE @]
    /\ UNCHANGED <<flags, restartCount, hbStop, lock, users, exitCode, told, heard, locals>>

-----------------------------------------------------------------------------
(* stop(): holds the lock from its first test to the end.                  *)

AfterStop(t) ==
    IF t \in HbThreads THEN "exit"
    ELSE IF command[t] = "restart" THEN "start" ELSE "idle"

NotRunning(t) ==
    /\ pc[t] = "stop" /\ Free
    /\ ~isRunning
    /\ Goto(t, AfterStop(t))
    /\ UNCHANGED <<identity, flags, restartCount, startup, gen, hbStop, lock, users, os,
                   heard, locals>>

BeginStop(t) ==
    /\ pc[t] = "stop" /\ Free
    /\ isRunning
    /\ lock' = t
    /\ isStopping' = TRUE
    /\ Goto(t, "shutdown")
    /\ UNCHANGED <<identity, isRestarting, restartCount, startup, gen, hbStop, users, os,
                   heard, locals>>

\* Mutant: with a port to go to, waits for the answer without a timeout.
RequestShutdownForever(t) ==
    /\ pc[t] = "shutdown"
    /\ \/ /\ port # 0
          /\ child[port] = "alive"
          /\ child' = [child EXCEPT ![port] = "leaving"]
          /\ Goto(t, "wait")
       \/ /\ port = 0
          /\ child' = child
          /\ Goto(t, "terminate")
    /\ UNCHANGED <<identity, flags, restartCount, startup, gen, hbStop, lock, users,
                   exitCode, failed, told, heard, locals>>

\* _send_ipc_shutdown: whoever listens on the port may answer, or nobody.
RequestShutdown(t) ==
    /\ pc[t] = "shutdown"
    /\ \/ /\ port # 0
          /\ child[port] = "alive"
          /\ child' = [child EXCEPT ![port] = "leaving"]
          /\ Goto(t, "wait")
       \/ /\ child' = child
          /\ Goto(t, "terminate")
    /\ UNCHANGED <<identity, flags, restartCount, startup, gen, hbStop, lock, users,
                   exitCode, failed, told, heard, locals>>

\* self.process.wait(timeout=10)
WaitExit(t) ==
    /\ pc[t] = "wait"
    /\ \/ child[process] = "dead" /\ Goto(t, "cleanup")
       \/ Goto(t, "terminate")
    /\ UNCHANGED <<identity, flags, restartCount, startup, gen, hbStop, lock, users, os,
                   heard, locals>>

\* _terminate_process: prefers a child_pid that differs from the process it spawned.
Terminate(t) ==
    LET target == IF childPid # 0 /\ childPid # process THEN childPid ELSE process IN
    /\ pc[t] = "terminate"
    /\ IF child[target] = "dead" THEN UNCHANGED <<child, exitCode>>
       ELSE /\ child' = [child EXCEPT ![target] = "dead"]
            /\ exitCode' = [exitCode EXCEPT ![target] = "term"]
    /\ Goto(t, "cleanup")
    /\ UNCHANGED <<identity, flags, restartCount, startup, gen, hbStop, lock, users,
                   failed, told, heard, locals>>

FinishStop(t) ==
    /\ pc[t] = "cleanup"
    /\ port' = 0 /\ initDone' = FALSE /\ postFired' = FALSE
    /\ process' = 0 /\ childPid' = 0 /\ isRunning' = FALSE
    /\ isStopping' = FALSE
    /\ lock' = Nobody
    /\ Goto(t, AfterStop(t))
    /\ UNCHANGED <<isRestarting, restartCount, gen, hbStop, users, os, heard, locals>>

-----------------------------------------------------------------------------
(* The user's commands: start_stop(), restart(), stop().                   *)

Issue(u, c) ==
    /\ pc[u] = "idle"
    /\ commands < MaxCommands
    /\ commands' = commands + 1
    /\ command' = [command EXCEPT ![u] = c]
    /\ CASE c = "stop"                     -> Goto(u, "stop")
         [] c = "start_stop" /\ isRunning  -> Goto(u, "stop")
         [] c = "start_stop" /\ ~isRunning -> Goto(u, "start")
         [] c = "restart"                  -> Goto(u, "branch")
    /\ restartCount' = IF c = "start_stop" /\ ~isRunning THEN 0 ELSE restartCount
    /\ isRestarting' = (isRestarting \/ c = "restart")
    /\ UNCHANGED <<identity, isStopping, startup, gen, hbStop, lock, os, heard, locals>>

\* restart() stops only what it believes to be running.
Branch(u) ==
    /\ pc[u] = "branch"
    /\ Goto(u, IF isRunning THEN "stop" ELSE "start")
    /\ UNCHANGED <<identity, flags, restartCount, startup, gen, hbStop, lock, users, os,
                   heard, locals>>

\* The end of restart() and of _auto_restart().
Unflag(t) ==
    /\ pc[t] = "unflag"
    /\ isRestarting' = FALSE
    /\ Goto(t, "idle")
    /\ UNCHANGED <<identity, isStopping, restartCount, startup, gen, hbStop, lock, users, os,
                   heard, locals>>
-----------------------------------------------------------------------------
(* _capture_output                                                         *)

\* The snapshot of self.process, taken when the thread gets to run.
OpenOutput(g) ==
    /\ pc[Cap(g)] = "enter" /\ Free
    /\ capOf' = [capOf EXCEPT ![g] = process]
    /\ Goto(Cap(g), IF process = 0 THEN "done" ELSE "read")
    /\ UNCHANGED <<identity, flags, restartCount, startup, gen, hbStop, lock, users, os,
                   heard, monOf, monGen, missed, hbPort>>

\* One token is read and stored, whichever child the manager looks after by now.
Hear(g) ==
    LET c == capOf[g]
        token == told[c][heard[c] + 1]
    IN
    /\ pc[Cap(g)] = "read" /\ Free
    /\ heard[c] < Len(told[c])
    /\ heard' = [heard EXCEPT ![c] = @ + 1]
    /\ childPid' = IF token = "pid" THEN c ELSE childPid
    /\ port' = IF token = "port" THEN c ELSE port
    /\ initDone' = (initDone \/ token = "init")
    /\ Goto(Cap(g), IF token = "pid" THEN "read" ELSE "fire")
    /\ UNCHANGED <<process, isRunning, flags, restartCount, postFired, gen, hbStop, lock,
                   users, os, locals>>

\* _maybe_fire_post_start: the first test is outside the lock and saves taking it.
Fire(g) ==
    /\ pc[Cap(g)] = "fire"
    /\ postFired \/ Free
    /\ postFired' = (postFired \/ (initDone /\ port # 0))
    /\ Goto(Cap(g), "read")
    /\ UNCHANGED <<identity, flags, restartCount, initDone, port, gen, hbStop, lock, users,
                   os, heard, locals>>

-----------------------------------------------------------------------------
(* _monitor_exit and _handle_unexpected_exit: every test is outside the    *)
(* lock, and so is the gap between the last one and the lock.              *)

Watch(g) ==
    /\ pc[Mon(g)] = "enter"
    /\ monOf' = [monOf EXCEPT ![g] = process]
    /\ monGen' = [monGen EXCEPT ![g] = gen]
    /\ Goto(Mon(g), IF process = 0 THEN "finally" ELSE "watch")
    /\ UNCHANGED <<identity, flags, restartCount, startup, gen, hbStop, lock, users, os,
                   heard, capOf, missed, hbPort>>

\* wait() returned; is it still the current process?
NoticeExit(g) ==
    /\ pc[Mon(g)] = "watch"
    /\ child[monOf[g]] = "dead"
    /\ Goto(Mon(g), IF process = monOf[g] THEN "judge" ELSE "finally")
    /\ UNCHANGED <<identity, flags, restartCount, startup, gen, hbStop, lock, users, os,
                   heard, locals>>

\* Mutant: an exit before the end of the initialisation is not taken for a crash.
UnexpectedOnceReady(g) ==
    ~isRestarting /\ ~isStopping /\ exitCode[monOf[g]] # "term" /\ isRunning /\ initDone

Unexpected(g) ==
    ~isRestarting /\ ~isStopping /\ exitCode[monOf[g]] # "term" /\ isRunning

JudgeExit(g) ==
    /\ pc[Mon(g)] = "judge"
    /\ Goto(Mon(g), IF Unexpected(g) THEN "handle" ELSE "finally")
    /\ UNCHANGED <<identity, flags, restartCount, startup, gen, hbStop, lock, users, os,
                   heard, locals>>

\* Mutants: without taking _process_lock; without dropping self.process.
ClearAfterExitUnlocked(g) ==
    /\ pc[Mon(g)] = "handle"
    /\ process' = 0 /\ childPid' = 0 /\ isRunning' = FALSE
    /\ port' = 0 /\ initDone' = FALSE /\ postFired' = TRUE
    /\ Goto(Mon(g), "decide")
    /\ UNCHANGED <<flags, restartCount, gen, hbStop, lock, users, os, heard, locals>>

ClearAfterExitKeepsProcess(g) ==
    /\ pc[Mon(g)] = "handle" /\ Free
    /\ childPid' = 0 /\ isRunning' = FALSE
    /\ port' = 0 /\ initDone' = FALSE /\ postFired' = TRUE
    /\ Goto(Mon(g), "decide")
    /\ UNCHANGED <<process, flags, restartCount, gen, hbStop, lock, users, os, heard, locals>>

\* The fields are cleared for whatever child they speak of by now.
ClearAfterExit(g) ==
    /\ pc[Mon(g)] = "handle" /\ Free
    /\ process' = 0 /\ childPid' = 0 /\ isRunning' = FALSE
    /\ port' = 0 /\ initDone' = FALSE /\ postFired' = TRUE
    /\ Goto(Mon(g), "decide")
    /\ UNCHANGED <<flags, restartCount, gen, hbStop, lock, users, os, heard, locals>>

\* _should_auto_restart
ShouldRestart(g) ==
    AutoRestart /\ exitCode[monOf[g]] # "fatal" /\ restartCount < MaxAttempts

\* The auto-restart thread is spawned, or not, and the finally clause ends the heartbeat.
FinishExit(g) ==
    /\ pc[Mon(g)] \in {"decide", "finally"}
    /\ pc' = [pc EXCEPT ![Mon(g)] = "done",
                        ![Ar(g)] = IF pc[Mon(g)] = "decide" /\ ShouldRestart(g)
                                   THEN "count" ELSE @]
    /\ hbStop' = [hbStop EXCEPT ![monGen[g]] = TRUE]
    /\ UNCHANGED <<identity, flags, restartCount, startup, gen, lock, users, os, heard,
                   locals>>

-----------------------------------------------------------------------------
(* _auto_restart                                                           *)

\* Mutant: counts down.
CountAttemptDown(t) ==
    /\ pc[t] = "count"
    /\ restartCount' = restartCount - 1
    /\ Goto(t, "sleep")
    /\ UNCHANGED <<identity, flags, startup, gen, hbStop, lock, users, os, heard, locals>>

CountAttempt(t) ==
    /\ pc[t] = "count"
    /\ restartCount' = restartCount + 1
    /\ Goto(t, "sleep")
    /\ UNCHANGED <<identity, flags, startup, gen, hbStop, lock, users, os, heard, locals>>

Attempt(t) ==
    /\ pc[t] = "sleep"
    /\ isRestarting' = TRUE
    /\ Goto(t, "start")
    /\ UNCHANGED <<identity, isStopping, restartCount, startup, gen, hbStop, lock, users, os,
                   heard, locals>>

-----------------------------------------------------------------------------
(* _send_heartbeat: no access is under the lock, and the event tested and  *)
(* cleared is whichever self._stop_heartbeat is by then.                   *)

\* After the random initial delay: the assertion that the stop flag is clear.
BeginHeartbeat(g) ==
    /\ pc[Hb(g)] = "delay"
    /\ Goto(Hb(g), IF hbStop[gen] THEN "AssertionError" ELSE "loop")
    /\ UNCHANGED <<identity, flags, restartCount, startup, gen, hbStop, lock, users, os,
                   heard, locals>>

HeartbeatOver(g) == hbStop[gen] \/ g # gen \/ isStopping \/ isRestarting

LeaveLoop(g) ==
    /\ pc[Hb(g)] = "loop"
    /\ HeartbeatOver(g)
    /\ Goto(Hb(g), "exit")
    /\ UNCHANGED <<identity, flags, restartCount, startup, gen, hbStop, lock, users, os,
                   heard, locals>>

SendHeartbeat(g) ==
    /\ pc[Hb(g)] = "loop"
    /\ ~HeartbeatOver(g)
    /\ hbPort' = [hbPort EXCEPT ![g] = port]
    /\ Goto(Hb(g), "request")
    /\ UNCHANGED <<identity, flags, restartCount, startup, gen, hbStop, lock, users, os,
                   heard, capOf, monOf, monGen, missed>>

HeartbeatOK(g) ==
    /\ pc[Hb(g)] = "request"
    /\ hbPort[g] # 0
    /\ child[hbPort[g]] = "alive"
    /\ missed' = [missed EXCEPT ![g] = 0]
    /\ hbPort' = [hbPort EXCEPT ![g] = 0]
    /\ Goto(Hb(g), "loop")
    /\ UNCHANGED <<identity, flags, restartCount, startup, gen, hbStop, lock, users, os,
                   heard, capOf, monOf, monGen>>

\* Mutant: a heartbeat that has no port to go to is not a missed one.
MissHeartbeatOnlyWithPort(g) ==
    /\ pc[Hb(g)] = "request"
    /\ missed' = [missed EXCEPT ![g] = IF hbPort[g] = 0 THEN @ ELSE @ + 1]
    /\ hbPort' = [hbPort EXCEPT ![g] = 0]
    /\ Goto(Hb(g), IF missed'[g] > MaxMissed THEN "stop" ELSE "loop")
    /\ UNCHANGED <<identity, flags, restartCount, startup, gen, hbStop, lock, users, os,
                   heard, capOf, monOf, monGen>>

\* No port yet, no answer in time, or an error.
MissHeartbeat(g) ==
    /\ pc[Hb(g)] = "request"
    /\ missed' = [missed EXCEPT ![g] = @ + 1]
    /\ hbPort' = [hbPort EXCEPT ![g] = 0]
    /\ Goto(Hb(g), IF missed[g] + 1 > MaxMissed THEN "stop" ELSE "loop")
    /\ UNCHANGED <<identity, flags, restartCount, startup, gen, hbStop, lock, users, os,
                   heard, capOf, monOf, monGen>>

EndHeartbeat(g) ==
    /\ pc[Hb(g)] = "exit"
    /\ hbStop' = [hbStop EXCEPT ![gen] = FALSE]
    /\ missed' = [missed EXCEPT ![g] = 0]
    /\ Goto(Hb(g), "done")
    /\ UNCHANGED <<identity, flags, restartCount, startup, gen, lock, users, os, heard,
                   capOf, monOf, monGen, hbPort>>

-----------------------------------------------------------------------------

Environment ==
    \E g \in Child :
        \/ \E token \in Token : Report(g, token)
        \/ \E code \in ExitCode : Exit(g, code)

Start(t) == AlreadyRunning(t) \/ Spawn(t) \/ SpawnFails(t) \/ ThreadFails(t)

Stop(t) ==
    \/ NotRunning(t) \/ BeginStop(t) \/ RequestShutdown(t)
    \/ WaitExit(t) \/ Terminate(t) \/ FinishStop(t)

Output(g) == OpenOutput(g) \/ Hear(g) \/ Fire(g)

Monitor(g) ==
    \/ Watch(g) \/ NoticeExit(g) \/ JudgeExit(g)
    \/ ClearAfterExit(g) \/ FinishExit(g)

Heartbeat(g) ==
    \/ BeginHeartbeat(g) \/ LeaveLoop(g) \/ SendHeartbeat(g)
    \/ HeartbeatOK(g) \/ MissHeartbeat(g) \/ EndHeartbeat(g)

Restarter(t) == CountAttempt(t) \/ Attempt(t)

Next ==
    \/ Environment
    \/ \E u \in User, c \in Command : Issue(u, c)
    \/ \E u \in User : Branch(u)
    \/ \E t \in Starter : Start(t) \/ Unflag(t)
    \/ \E t \in Stopper : Stop(t)
    \/ \E t \in ArThreads : Restarter(t)
    \/ \E g \in Child : Obey(g) \/ Output(g) \/ Monitor(g) \/ Heartbeat(g)

Spec == Init /\ [][Next]_vars

-----------------------------------------------------------------------------

\* The type invariant.
TypeOK ==
    /\ process \in Gen /\ childPid \in Gen /\ isRunning \in BOOLEAN
    /\ isStopping \in BOOLEAN /\ isRestarting \in BOOLEAN
    /\ restartCount \in Nat
    /\ initDone \in BOOLEAN /\ port \in Gen /\ postFired \in BOOLEAN
    /\ gen \in Gen
    /\ hbStop \in [Gen -> BOOLEAN]
    /\ lock \in Stopper \cup {Nobody}
    /\ pc \in [Thread -> Label]
    /\ command \in [User -> Command \cup {"none"}] /\ commands \in Nat
    /\ child \in [Child -> {"unborn", "alive", "leaving", "dead"}]
    /\ exitCode \in [Child -> ExitCode \cup {"none", "clean", "term"}]
    /\ failed \subseteq Child
    /\ told \in [Child -> Seq(Token)]
    /\ heard \in [Child -> Nat]
    /\ capOf \in [Child -> Gen] /\ monOf \in [Child -> Gen] /\ monGen \in [Child -> Gen]
    /\ missed \in [Child -> Nat] /\ hbPort \in [Child -> Gen]

\* stop() drops and clears self.process at its end but uses it, unchecked, for many
\* seconds before.  While one thread is inside stop(), no other is, no start replaces the
\* child, and no exit handler takes the child away: self.process.wait() never meets None.
StopIsExclusive ==
    \A t \in Stopper : pc[t] \in Holding =>
        /\ lock = t /\ isStopping
        /\ isRunning /\ process # 0

\* start() never launches a second child over one that runs, from whichever threads it is
\* called at once: the button, a settings change or an auto-restart.  The one child that can
\* be replaced is one whose own start() failed half-way.
NoDoubleStart ==
    [][process' > process => ~isRunning /\ process \in {0} \cup failed]_process

\* Every thread of the launcher keeps running, each being one sequence of steps; a child need
\* not do anything and no command is due.  The output threads do not even need fairness.
UserStep(u) == Start(u) \/ Stop(u) \/ Branch(u) \/ Unflag(u)
RestarterStep(t) == Restarter(t) \/ Start(t) \/ Unflag(t)
HeartbeatStep(g) == Heartbeat(g) \/ Stop(Hb(g))

Fairness ==
    /\ \A u \in User : WF_vars(UserStep(u))
    /\ \A t \in ArThreads : WF_vars(RestarterStep(t))
    /\ \A g \in Child : WF_vars(Monitor(g)) /\ WF_vars(HeartbeatStep(g))

FairSpec == Spec /\ Fairness

\* A stop() that was called returns and gives the lock back, whatever the child does: its
\* three waits (the lock, the shutdown request, the exit) are all bounded.  This is about
\* stop() as such: what the GUI thread does when window.process_events() runs other
\* callbacks in the middle of it (base_mgr.py:333) is not modelled.
StopReturns ==
    \A t \in Stopper : pc[t] = "stop" ~> pc[t] \notin Holding \cup {"stop"}

\* Once a child is gone its heartbeat thread, if it was started at all, ends, whichever of the
\* ways out it finds: the event, the generation, the flags, or too many misses.  No thread is
\* left behind to ping a reused port.
HeartbeatEnds ==
    \A g \in Child : child[g] = "dead" ~> pc[Hb(g)] \in {"idle", "done", "AssertionError"}

Crashed(g) == process = g /\ child[g] = "dead" /\ exitCode[g] # "term"
TakenForRunning(g) == process = g /\ isRunning

\* A child that ends by itself, other than by SIGTERM, is noticed: the manager does not take
\* it for a running one for ever.  base_mgr.py:503 says so of _monitor_exit.
CrashIsNoticed == \A g \in Child : Crashed(g) ~> ~TakenForRunning(g)
=============================================================================
