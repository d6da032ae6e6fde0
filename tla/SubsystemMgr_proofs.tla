------------------------ MODULE SubsystemMgr_proofs ------------------------
(***************************************************************************)
(* For any number of children, commands and user threads: stop() works on  *)
(* a child nobody takes away from under it, and start() never loses one    *)
(* but a child whose own start failed.  Both rest on LockInv, which ties   *)
(* the lock to the threads inside stop(), to the stopping flag and to the  *)
(* child.                                                                  *)
(***************************************************************************)
EXTENDS SubsystemMgr, TLAPS

PcOK == pc \in [Thread -> Label]

LockInv ==
    /\ PcOK
    /\ lock \in Stopper \cup {Nobody}
    /\ isStopping \in BOOLEAN
    /\ gen \in Nat /\ process \in Nat
    \* exactly the holder of the lock is inside stop()
    /\ \A t \in Stopper : pc[t] \in Holding <=> lock = t
    /\ isStopping <=> lock # Nobody
    \* what stop() found when it took the lock still holds
    /\ lock # Nobody => isRunning
    /\ isRunning => process # 0
    \* and a child that is there without running is one whose start() failed
    /\ process # 0 /\ ~isRunning => process \in failed

-----------------------------------------------------------------------------

LEMMA Threads ==
    /\ Stopper \subseteq Thread /\ Starter \subseteq Thread
    /\ Nobody \notin Stopper
    /\ \A g \in Child : /\ {Hb(g), Mon(g), Cap(g), Ar(g)} \subseteq Thread
                        /\ Mon(g) \notin Stopper
                        /\ Cap(g) \notin Stopper
                        /\ Ar(g) \notin Stopper
<1>1. ASSUME NEW g \in Child
      PROVE  {<<"heartbeat", g>>, <<"monitor", g>>, <<"output", g>>, <<"auto-restart", g>>}
                \cap User = {}
  BY <1>1, ManagerAssumption DEF Child
<1>2. ASSUME NEW g \in Child
      PROVE  {<<"monitor", g>>, <<"output", g>>, <<"auto-restart", g>>} \cap HbThreads = {}
  BY DEF HbThreads, Hb
<1>. QED
  BY <1>1, <1>2, ManagerAssumption
     DEF Stopper, Starter, Thread, HbThreads, ArThreads, Hb, Mon, Cap, Ar

\* A thread that moves on outside stop(), and leaves the lock alone, changes no holder.
LEMMA MoveOutside ==
    ASSUME LockInv, NEW t \in Thread, NEW label \in Label, Goto(t, label),
           t \in Stopper => pc[t] \notin Holding, label \notin Holding
    PROVE  PcOK' /\ \A u \in Stopper : pc'[u] \in Holding <=> pc[u] \in Holding
BY Threads DEF LockInv, PcOK, Goto

\* The holder of the lock moves on inside stop().
LEMMA MoveInside ==
    ASSUME LockInv, NEW t \in Thread, NEW label \in Label, Goto(t, label),
           pc[t] \in Holding, label \in Holding
    PROVE  PcOK' /\ \A u \in Stopper : pc'[u] \in Holding <=> pc[u] \in Holding
BY Threads DEF LockInv, PcOK, Goto
\* A step that keeps the holders, the lock, the flag and the child keeps the invariant.
LEMMA KeepLock ==
    ASSUME LockInv, PcOK', \A u \in Stopper : pc'[u] \in Holding <=> pc[u] \in Holding,
           UNCHANGED <<lock, isStopping, isRunning, process, gen, failed>>
    PROVE  LockInv'
BY DEF LockInv

\* A step that only reads what LockInv speaks of, and moves one thread on outside stop().
LEMMA QuietMove ==
    ASSUME LockInv, NEW t \in Thread, NEW label \in Label, Goto(t, label),
           t \in Stopper => pc[t] \notin Holding, label \notin Holding,
           UNCHANGED <<lock, isStopping, isRunning, process, gen, failed>>
    PROVE  LockInv'
BY MoveOutside, KeepLock

-----------------------------------------------------------------------------
(* The steps.                                                              *)

LEMMA LockInit == Init => LockInv
<1> SUFFICES ASSUME Init PROVE LockInv
  OBVIOUS
<1>1. PICK autoStart \in BOOLEAN :
        pc = [t \in Thread |-> IF autoStart /\ t = MainThread THEN "start" ELSE "idle"]
  BY DEF Init
<1>2. PcOK /\ \A t \in Stopper : pc[t] \notin Holding
  BY <1>1, Threads DEF PcOK, Holding, Label
<1>. QED BY <1>2, Threads DEF Init, LockInv

\* The child's own steps touch nothing of the manager.
LEMMA EnvironmentStep ==
    ASSUME LockInv, Environment \/ \E g \in Child : Obey(g)
    PROVE  LockInv'
<1>1. UNCHANGED <<lock, isStopping, isRunning, process, gen, failed, pc>>
  BY DEF Environment, Report, Exit, Obey, identity, os, flags
<1>. QED BY <1>1 DEF LockInv, PcOK

LEMMA StartStep ==
    ASSUME LockInv, NEW t \in Starter, Start(t)
    PROVE  LockInv'
<1>1. t \in Thread /\ AfterStart(t) \in Label /\ AfterStart(t) \notin Holding
  BY Threads DEF AfterStart, Holding, Label
<1>2. pc[t] \notin Holding
  BY DEF Start, AlreadyRunning, Spawn, SpawnFails, ThreadFails, Holding, Label
<1>3. CASE AlreadyRunning(t) \/ SpawnFails(t)
  BY <1>1, <1>2, <1>3, QuietMove DEF AlreadyRunning, SpawnFails, identity, os, flags
<1>4. CASE Spawn(t)
  <2> DEFINE g == gen + 1
  <2>1. g \in Child /\ g # 0
    BY <1>4 DEF Spawn, Child
  <2>2. /\ pc' = [pc EXCEPT ![t] = AfterStart(t), ![Hb(g)] = "delay",
                           ![Mon(g)] = "enter", ![Cap(g)] = "enter"]
        /\ lock = Nobody
        /\ process' = g /\ isRunning' = TRUE /\ gen' = g
        /\ UNCHANGED <<lock, isStopping, failed>>
    BY <1>4 DEF Spawn, Free, flags
  <2>3. PcOK'
    <3>1. {"delay", "enter"} \subseteq Label
      BY DEF Label
    <3>. QED BY <1>1, <2>2, <3>1 DEF LockInv, PcOK
  <2>4. \A u \in Stopper : pc'[u] \notin Holding
    BY <1>1, <2>2, Threads DEF LockInv, PcOK, Holding, Label
  <2>5. isStopping = FALSE /\ gen \in Nat
    BY <2>2 DEF LockInv
  <2>6. \A u \in Stopper : pc'[u] \in Holding <=> lock' = u
    BY <2>2, <2>4, Threads
  <2>7. gen' \in Nat /\ process' \in Nat /\ process' # 0
    BY <2>1, <2>2, <2>5
  <2>. QED BY <2>2, <2>3, <2>5, <2>6, <2>7 DEF LockInv
<1>5. CASE ThreadFails(t)
  <2> DEFINE g == gen + 1
  <2>1. g \in Child /\ g # 0
    BY <1>5 DEF ThreadFails, Child
  <2>2. PICK n \in 0..3 :
          pc' = [pc EXCEPT ![t] = AfterStart(t),
                           ![Cap(g)] = IF n >= 1 THEN "enter" ELSE @,
                           ![Mon(g)] = IF n >= 2 THEN "enter" ELSE @,
                           ![Hb(g)]  = IF n = 3  THEN "delay" ELSE @]
    BY <1>5 DEF ThreadFails
  <2>3. /\ lock = Nobody
        /\ process' = g /\ isRunning' = FALSE /\ gen' = g
        /\ failed' = failed \cup {g}
        /\ UNCHANGED <<lock, isStopping>>
    BY <1>5 DEF ThreadFails, Free, flags
  <2>4. {"delay", "enter"} \subseteq Label /\ {"delay", "enter"} \cap Holding = {}
    BY DEF Label, Holding
  <2>5. \A u \in Thread : pc'[u] \in {pc[u], AfterStart(t), "delay", "enter"}
    BY <2>1, <2>2, Threads DEF LockInv, PcOK
  <2>6. PcOK'
    BY <1>1, <2>2, <2>4, <2>5 DEF LockInv, PcOK
  <2>7. \A u \in Stopper : pc'[u] \notin Holding
    BY <1>1, <2>3, <2>4, <2>5, Threads DEF LockInv
  <2>8. gen' \in Nat /\ process' \in Nat
    BY <2>1, <2>3 DEF LockInv
  <2>9. isStopping = FALSE
    BY <2>3 DEF LockInv
  <2>. QED BY <2>3, <2>6, <2>7, <2>8, <2>9, Threads DEF LockInv
<1>. QED BY <1>3, <1>4, <1>5 DEF Start

LEMMA StopStep ==
    ASSUME LockInv, NEW t \in Stopper, Stop(t)
    PROVE  LockInv'
<1>1. t \in Thread /\ AfterStop(t) \in Label /\ AfterStop(t) \notin Holding
  <2>1. AfterStop(t) = "exit" \/ AfterStop(t) = "start" \/ AfterStop(t) = "idle"
    BY DEF AfterStop
  <2>. QED BY <2>1, Threads DEF Holding, Label
<1>2. CASE NotRunning(t)
  <2>1. pc[t] \notin Holding /\ Goto(t, AfterStop(t))
    BY <1>2 DEF NotRunning, Holding, Label
  <2>2. UNCHANGED <<lock, isStopping, isRunning, process, gen, failed>>
    BY <1>2 DEF NotRunning, identity, os, flags
  <2>. QED BY <1>1, <2>1, <2>2, QuietMove
<1>3. CASE BeginStop(t)
  <2>1. /\ lock = Nobody /\ isRunning /\ lock' = t /\ isStopping' = TRUE
        /\ pc' = [pc EXCEPT ![t] = "shutdown"]
        /\ UNCHANGED <<isRunning, process, gen>>
    BY <1>3 DEF BeginStop, Free, Goto, identity, os
  <2>2. PcOK' /\ \A u \in Stopper : pc'[u] \in Holding <=> u = t
    BY <1>1, <2>1, Threads DEF LockInv, PcOK, Holding, Label
  <2>. QED BY <2>1, <2>2, Threads DEF LockInv
<1>4. CASE RequestShutdown(t)
  <2>1. PICK label \in {"wait", "terminate"} : Goto(t, label)
    BY <1>4 DEF RequestShutdown
  <2>2. pc[t] \in Holding /\ UNCHANGED <<lock, isStopping, isRunning, process, gen, failed>>
    BY <1>4 DEF RequestShutdown, Holding, Label, identity, os, flags
  <2>. QED BY <1>1, <2>1, <2>2, MoveInside, KeepLock DEF Holding, Label
<1>5. CASE WaitExit(t)
  <2>1. PICK label \in {"cleanup", "terminate"} : Goto(t, label)
    BY <1>5 DEF WaitExit
  <2>2. pc[t] \in Holding /\ UNCHANGED <<lock, isStopping, isRunning, process, gen, failed>>
    BY <1>5 DEF WaitExit, Holding, Label, identity, os, flags
  <2>. QED BY <1>1, <2>1, <2>2, MoveInside, KeepLock DEF Holding, Label
<1>6. CASE Terminate(t)
  <2>1. /\ Goto(t, "cleanup") /\ pc[t] \in Holding
        /\ UNCHANGED <<lock, isStopping, isRunning, process, gen, failed>>
    BY <1>6 DEF Terminate, Holding, Label, identity, os, flags
  <2>. QED BY <1>1, <2>1, MoveInside, KeepLock DEF Holding, Label
<1>7. CASE FinishStop(t)
  <2>1. /\ pc[t] \in Holding /\ lock' = Nobody /\ isStopping' = FALSE
        /\ process' = 0 /\ isRunning' = FALSE /\ gen' = gen
        /\ pc' = [pc EXCEPT ![t] = AfterStop(t)]
    BY <1>7 DEF FinishStop, Holding, Label, Goto
  <2>2. PcOK' /\ \A u \in Stopper : pc'[u] \notin Holding
    BY <1>1, <2>1, Threads DEF LockInv, PcOK
  <2>. QED BY <2>1, <2>2, Threads DEF LockInv
<1>. QED BY <1>2, <1>3, <1>4, <1>5, <1>6, <1>7 DEF Stop

LEMMA CommandStep ==
    ASSUME LockInv, NEW u \in User,
           (\E c \in Command : Issue(u, c)) \/ Branch(u)
    PROVE  LockInv'
<1>1. u \in Thread
  BY DEF Thread
<1>2. ASSUME NEW c \in Command, Issue(u, c) PROVE LockInv'
  <2>1. PICK label \in {"stop", "start", "branch"} : Goto(u, label)
    BY <1>2, ManagerAssumption DEF Issue
  <2>. QED BY <1>1, <1>2, <2>1, QuietMove DEF Issue, Holding, Label, identity, os
<1>3. CASE Branch(u)
  <2>1. PICK label \in {"stop", "start"} : Goto(u, label)
    BY <1>3 DEF Branch
  <2>. QED BY <1>1, <1>3, <2>1, QuietMove DEF Branch, Holding, Label, identity, os, flags
<1>. QED BY <1>2, <1>3

LEMMA RestarterLock ==
    ASSUME LockInv, NEW t \in Starter, Unflag(t) \/ (t \in ArThreads /\ Restarter(t))
    PROVE  LockInv'
<1>1. t \in Thread
  BY Threads
<1>2. PICK label \in {"idle", "sleep", "start"} : Goto(t, label)
  BY DEF Unflag, Restarter, CountAttempt, Attempt
<1>3. pc[t] \notin Holding /\ UNCHANGED <<lock, isStopping, isRunning, process, gen, failed>>
  BY DEF Unflag, Restarter, CountAttempt, Attempt, Holding, Label, identity, os, flags
<1>. QED BY <1>1, <1>2, <1>3, QuietMove DEF Holding, Label

LEMMA OutputStep ==
    ASSUME LockInv, NEW g \in Child, Output(g)
    PROVE  LockInv'
<1>1. Cap(g) \in Thread /\ Cap(g) \notin Stopper
  BY Threads
<1>2. PICK label \in {"done", "read", "fire"} : Goto(Cap(g), label)
  BY DEF Output, OpenOutput, Hear, Fire
<1>3. UNCHANGED <<lock, isStopping, isRunning, process, gen, failed>>
  BY DEF Output, OpenOutput, Hear, Fire, identity, os, flags
<1>. QED BY <1>1, <1>2, <1>3, QuietMove DEF Holding, Label

LEMMA MonitorStep ==
    ASSUME LockInv, NEW g \in Child, Monitor(g)
    PROVE  LockInv'
<1>1. Mon(g) \in Thread /\ Mon(g) \notin Stopper /\ Ar(g) \in Thread /\ Ar(g) \notin Stopper
  BY Threads
<1>2. CASE Watch(g) \/ NoticeExit(g) \/ JudgeExit(g)
  <2>1. PICK label \in {"finally", "watch", "judge", "handle"} : Goto(Mon(g), label)
    BY <1>2 DEF Watch, NoticeExit, JudgeExit
  <2>2. UNCHANGED <<lock, isStopping, isRunning, process, gen, failed>>
    BY <1>2 DEF Watch, NoticeExit, JudgeExit, identity, os, flags
  <2>. QED BY <1>1, <2>1, <2>2, QuietMove DEF Holding, Label
<1>3. CASE ClearAfterExit(g)
  <2>1. /\ lock = Nobody /\ Goto(Mon(g), "decide")
        /\ process' = 0 /\ isRunning' = FALSE
        /\ UNCHANGED <<lock, isStopping, gen>>
    BY <1>3 DEF ClearAfterExit, Free, flags
  <2>2. PcOK' /\ \A u \in Stopper : pc'[u] \in Holding <=> pc[u] \in Holding
    BY <1>1, <2>1, MoveOutside DEF Holding, Label
  <2>. QED BY <2>1, <2>2 DEF LockInv
<1>4. CASE FinishExit(g)
  <2>1. UNCHANGED <<lock, isStopping, isRunning, process, gen, failed>>
    BY <1>4 DEF FinishExit, identity, os, flags
  <2>2. PICK label \in Label :
           pc' = [pc EXCEPT ![Mon(g)] = "done", ![Ar(g)] = label]
    <3>1. pc[Ar(g)] \in Label /\ {"done", "count"} \subseteq Label /\ Mon(g) # Ar(g)
      BY <1>1 DEF LockInv, PcOK, Label, Mon, Ar
    <3> DEFINE next == IF pc[Mon(g)] = "decide" /\ ShouldRestart(g)
                       THEN "count" ELSE pc[Ar(g)]
    <3>2. next \in Label
      BY <3>1
    <3>3. pc' = [pc EXCEPT ![Mon(g)] = "done", ![Ar(g)] = next]
      BY <1>1, <1>4, <3>1 DEF FinishExit, LockInv, PcOK
    <3>. QED BY <3>2, <3>3
  <2>3. PcOK' /\ \A u \in Stopper : pc'[u] = pc[u]
    <3>1. "done" \in Label
      BY DEF Label
    <3>. QED BY <1>1, <2>2, <3>1, Threads DEF LockInv, PcOK
  <2>. QED BY <2>1, <2>3, KeepLock
<1>. QED BY <1>2, <1>3, <1>4 DEF Monitor

LEMMA HeartbeatStepInv ==
    ASSUME LockInv, NEW g \in Child, Heartbeat(g)
    PROVE  LockInv'
<1>1. Hb(g) \in Thread
  BY Threads
<1>2. PICK label \in {"AssertionError", "loop", "exit", "request", "stop", "done"} :
        Goto(Hb(g), label)
  BY DEF Heartbeat, BeginHeartbeat, LeaveLoop, SendHeartbeat, HeartbeatOK, MissHeartbeat,
         EndHeartbeat
<1>3. pc[Hb(g)] \notin Holding /\ UNCHANGED <<lock, isStopping, isRunning, process, gen, failed>>
  BY DEF Heartbeat, BeginHeartbeat, LeaveLoop, SendHeartbeat, HeartbeatOK, MissHeartbeat,
         EndHeartbeat, Holding, Label, identity, os, flags
<1>. QED BY <1>1, <1>2, <1>3, QuietMove DEF Holding, Label

LEMMA LockStep == LockInv /\ [Next]_vars => LockInv'
<1> SUFFICES ASSUME LockInv, [Next]_vars PROVE LockInv'
  OBVIOUS
<1>1. CASE UNCHANGED vars
  <2>1. UNCHANGED <<lock, isStopping, isRunning, process, gen, failed, pc>>
    BY <1>1 DEF vars, identity, os, flags
  <2>. QED BY <2>1 DEF LockInv, PcOK
<1>2. CASE Environment \/ \E g \in Child : Obey(g)
  BY <1>2, EnvironmentStep
<1>3. ASSUME NEW u \in User, (\E c \in Command : Issue(u, c)) \/ Branch(u) PROVE LockInv'
  BY <1>3, CommandStep
<1>4. ASSUME NEW t \in Starter, Start(t) \/ Unflag(t) PROVE LockInv'
  BY <1>4, StartStep, RestarterLock
<1>5. ASSUME NEW t \in Stopper, Stop(t) PROVE LockInv'
  BY <1>5, StopStep
<1>6. ASSUME NEW t \in ArThreads, Restarter(t) PROVE LockInv'
  BY <1>6, RestarterLock DEF Starter
<1>7. ASSUME NEW g \in Child, Output(g) \/ Monitor(g) \/ Heartbeat(g) PROVE LockInv'
  BY <1>7, OutputStep, MonitorStep, HeartbeatStepInv
<1>. QED BY <1>1, <1>2, <1>3, <1>4, <1>5, <1>6, <1>7 DEF Next

THEOREM LockInvariant == Spec => []LockInv
BY LockInit, LockStep, PTL DEF Spec

-----------------------------------------------------------------------------
(* Types.  LockInv has those of pc and lock.                               *)

LEMMA TypeInit == Init => TypeOK
<1>. SUFFICES ASSUME Init PROVE TypeOK
  OBVIOUS
<1>1. LockInv /\ MaxStarts \in Nat
  BY LockInit, ManagerAssumption
<1>2. 0 \in Gen /\ gen = 0
  BY <1>1 DEF Gen, Init
<1>3. told \in [Child -> Seq(Token)]
  BY DEF Init
<1>. QED BY <1>1, <1>2, <1>3 DEF Init, TypeOK, LockInv, PcOK

\* A step that leaves most of the types to the lock's invariant or alone.
LEMMA TypeStep ==
    ASSUME TypeOK, LockInv, LockInv', [Next]_vars
    PROVE  TypeOK'
<1>. USE DEF identity, flags, startup, users, os, locals
<1>0. /\ pc' \in [Thread -> Label] /\ lock' \in Stopper \cup {Nobody}
      /\ MaxStarts \in Nat /\ 0 \in Gen /\ Child \subseteq Gen
  BY ManagerAssumption DEF LockInv, PcOK, Gen, Child
<1>1. CASE Environment \/ \E g \in Child : Obey(g)
  <2>1. ASSUME NEW g \in Child, NEW token \in Token, Report(g, token) PROVE TypeOK'
    <3>1. told[g] \in Seq(Token) /\ Append(told[g], token) \in Seq(Token)
      BY DEF TypeOK
    <3>. QED BY <1>0, <2>1, <3>1 DEF Report, TypeOK
  <2>2. ASSUME NEW g \in Child, NEW code \in ExitCode, Exit(g, code) PROVE TypeOK'
    BY <1>0, <2>2 DEF Exit, TypeOK
  <2>3. ASSUME NEW g \in Child, Obey(g) PROVE TypeOK'
    BY <1>0, <2>3 DEF Obey, TypeOK
  <2>. QED BY <1>1, <2>1, <2>2, <2>3 DEF Environment
<1>2. ASSUME NEW t \in Starter, Start(t) PROVE TypeOK'
  <2>1. CASE Spawn(t)
    <3>1. gen' \in Child /\ process' = gen' /\ childPid' = gen' /\ port' = 0
      BY <2>1 DEF Spawn
    <3>. QED BY <1>0, <2>1, <3>1 DEF Spawn, TypeOK
  <2>2. CASE AlreadyRunning(t) \/ SpawnFails(t)
    BY <1>0, <2>2 DEF AlreadyRunning, SpawnFails, TypeOK
  <2>3. CASE ThreadFails(t)
    <3>1. gen' \in Child /\ process' = gen' /\ childPid' = gen' /\ port' = 0
      BY <2>3 DEF ThreadFails
    <3>2. failed' \subseteq Child
      BY <2>3 DEF ThreadFails, TypeOK
    <3>. QED BY <1>0, <2>3, <3>1, <3>2 DEF ThreadFails, TypeOK
  <2>. QED BY <1>2, <2>1, <2>2, <2>3 DEF Start
<1>3. ASSUME NEW t \in Stopper, Stop(t) PROVE TypeOK'
  <2>1. CASE NotRunning(t) \/ BeginStop(t) \/ WaitExit(t) \/ FinishStop(t)
    BY <1>0, <2>1 DEF NotRunning, BeginStop, WaitExit, FinishStop, TypeOK
  <2>2. CASE RequestShutdown(t)
    BY <1>0, <2>2 DEF RequestShutdown, TypeOK
  <2>3. CASE Terminate(t)
    BY <1>0, <2>3 DEF Terminate, TypeOK
  <2>. QED BY <1>3, <2>1, <2>2, <2>3 DEF Stop
<1>4. ASSUME NEW u \in User, NEW c \in Command, Issue(u, c) PROVE TypeOK'
  <2>1. restartCount' \in Nat /\ isRestarting' \in BOOLEAN /\ commands' \in Nat
    BY <1>4 DEF Issue, TypeOK
  <2>. QED BY <1>0, <1>4, <2>1 DEF Issue, TypeOK
<1>5. ASSUME NEW t \in Thread, Branch(t) \/ Unflag(t) \/ Restarter(t) PROVE TypeOK'
  <2>1. CASE Branch(t) \/ Unflag(t)
    BY <1>0, <2>1 DEF Branch, Unflag, TypeOK
  <2>2. CASE CountAttempt(t)
    BY <1>0, <2>2 DEF CountAttempt, TypeOK
  <2>3. CASE Attempt(t)
    BY <1>0, <2>3 DEF Attempt, TypeOK
  <2>. QED BY <1>5, <2>1, <2>2, <2>3 DEF Restarter
<1>6. ASSUME NEW g \in Child, Output(g) PROVE TypeOK'
  <2>1. CASE OpenOutput(g) \/ Fire(g)
    BY <1>0, <2>1 DEF OpenOutput, Fire, TypeOK
  <2>2. CASE Hear(g)
    <3>1. capOf[g] \in Gen
      BY DEF TypeOK
    <3>2. childPid' \in Gen /\ port' \in Gen /\ initDone' \in BOOLEAN
      BY <2>2, <3>1 DEF Hear, TypeOK
    <3>3. heard' \in [Child -> Nat]
      <4>1. heard' = [heard EXCEPT ![capOf[g]] = @ + 1] /\ heard \in [Child -> Nat]
        BY <2>2 DEF Hear, TypeOK
      <4>2. \A x \in Child : heard'[x] \in {heard[x], heard[x] + 1} /\ heard[x] \in Nat
        BY <4>1
      <4>3. DOMAIN heard' = Child /\ heard' = [x \in Child |-> heard'[x]]
        BY <4>1
      <4>. QED BY <4>2, <4>3
    <3>. QED BY <1>0, <2>2, <3>2, <3>3 DEF Hear, TypeOK
  <2>. QED BY <1>6, <2>1, <2>2 DEF Output
<1>7. ASSUME NEW g \in Child, Monitor(g) PROVE TypeOK'
  <2>1. CASE Watch(g)
    BY <1>0, <2>1 DEF Watch, TypeOK
  <2>2. CASE NoticeExit(g)
    BY <1>0, <2>2 DEF NoticeExit, TypeOK
  <2>3. CASE JudgeExit(g)
    BY <1>0, <2>3 DEF JudgeExit, TypeOK
  <2>4. CASE ClearAfterExit(g)
    BY <1>0, <2>4 DEF ClearAfterExit, TypeOK
  <2>5. CASE FinishExit(g)
    BY <1>0, <2>5 DEF FinishExit, TypeOK
  <2>. QED BY <1>7, <2>1, <2>2, <2>3, <2>4, <2>5 DEF Monitor
<1>8. ASSUME NEW g \in Child, Heartbeat(g) PROVE TypeOK'
  <2>1. CASE BeginHeartbeat(g) \/ LeaveLoop(g) \/ SendHeartbeat(g)
    BY <1>0, <2>1 DEF BeginHeartbeat, LeaveLoop, SendHeartbeat, TypeOK
  <2>2. CASE HeartbeatOK(g)
    <3>1. missed' \in [Child -> Nat] /\ hbPort' \in [Child -> Gen]
      BY <1>0, <2>2 DEF HeartbeatOK, TypeOK
    <3>. QED BY <1>0, <2>2, <3>1 DEF HeartbeatOK, TypeOK
  <2>3. CASE EndHeartbeat(g)
    <3>1. missed' \in [Child -> Nat] /\ hbStop' \in [Gen -> BOOLEAN]
      BY <1>0, <2>3 DEF EndHeartbeat, TypeOK
    <3>. QED BY <1>0, <2>3, <3>1 DEF EndHeartbeat, TypeOK
  <2>4. CASE MissHeartbeat(g)
    <3>1. missed' \in [Child -> Nat]
      BY <2>4 DEF MissHeartbeat, TypeOK
    <3>. QED BY <1>0, <2>4, <3>1 DEF MissHeartbeat, TypeOK
  <2>. QED BY <1>8, <2>1, <2>2, <2>3, <2>4 DEF Heartbeat
<1>9. CASE UNCHANGED vars
  BY <1>9 DEF vars, TypeOK
<1>10. User \cup Starter \cup ArThreads \subseteq Thread
  BY DEF Thread, Starter
<1>. QED
  BY <1>1, <1>2, <1>3, <1>4, <1>5, <1>6, <1>7, <1>8, <1>9, <1>10 DEF Next

-----------------------------------------------------------------------------
(* The theorems.                                                           *)

\* Every reachable state is well typed.
THEOREM TypeCorrect == Spec => []TypeOK
<1>1. TypeOK /\ LockInv /\ [Next]_vars => TypeOK'
  BY TypeStep, LockStep
<1>. QED BY <1>1, TypeInit, LockInvariant, PTL DEF Spec

\* Whoever is inside stop() holds the lock and has a child to stop until it has cleared it
\* itself: no start, exit handler or other stop() interferes, for any number of threads.
THEOREM StopExclusive == Spec => []StopIsExclusive
<1>1. LockInv => StopIsExclusive
  BY Threads DEF LockInv, StopIsExclusive
<1>. QED BY <1>1, LockInvariant, PTL

\* A child is only ever spawned when none runs, so none is lost by a start, but for those
\* whose own start failed.
THEOREM StartsOnlyFromStopped == Spec => NoDoubleStart
<1>1. LockInv /\ [Next]_vars =>
           [process' > process => ~isRunning /\ process \in {0} \cup failed]_process
  <2> SUFFICES ASSUME LockInv, Next, process' # process, process' > process
               PROVE  ~isRunning /\ process \in {0} \cup failed
    BY DEF vars, identity
  <2>1. CASE \E t \in Starter : Spawn(t) \/ ThreadFails(t)
    BY <2>1 DEF Spawn, ThreadFails, LockInv
  <2>2. CASE \E t \in Stopper : FinishStop(t)
    BY <2>2 DEF FinishStop, LockInv
  <2>3. CASE \E g \in Child : ClearAfterExit(g)
    BY <2>3 DEF ClearAfterExit, LockInv
  <2>. QED
    BY <2>1, <2>2, <2>3
       DEF Next, Environment, Report, Exit, Obey, Issue, Branch, Start, AlreadyRunning,
           SpawnFails, Unflag, Stop, NotRunning, BeginStop, RequestShutdown, WaitExit,
           Terminate, Restarter, CountAttempt, Attempt, Output, OpenOutput, Hear, Fire,
           Monitor, Watch, NoticeExit, JudgeExit, FinishExit, Heartbeat, BeginHeartbeat,
           LeaveLoop, SendHeartbeat, HeartbeatOK, MissHeartbeat, EndHeartbeat, identity, os
<1>. QED BY <1>1, LockInvariant, PTL DEF Spec, NoDoubleStart
=============================================================================
