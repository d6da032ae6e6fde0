--------------------------- MODULE MCSubsystemMgr ---------------------------
(***************************************************************************)
(* SubsystemMgr on small instances.  Two users with every command and      *)
(* every line of output over several children are out of TLC's reach, and  *)
(* most of that does not meet: a behaviour is confined to one of Scopes,   *)
(* each of which is there for a contention of its own.                     *)
(***************************************************************************)
EXTENDS SubsystemMgr

CONSTANTS Scopes, ui, pool

\* At most so many children, commands, children that crash and starts that fail half-way; who
\* issues commands, which, and the lines of output written.
Scope == [starts : Nat, commands : Nat, users : SUBSET User, issue : SUBSET Command,
          tokens : SUBSET Token, crashes : Nat, failures : Nat]

ASSUME ScopesAssumption == Scopes \subseteq Scope

MCScopes ==
    \* one child, which tells its port; or its port and the end of its initialisation
    {[starts |-> 1, commands |-> 1, users |-> {ui}, issue |-> Command,
      tokens |-> tokens, crashes |-> 1, failures |-> 0] :
         tokens \in {{"pid", "port"}, {"port", "init"}}}
    \cup
    \* two children: the button pressed while an auto-restart is due; a child that runs
    \* although its start failed
    {[starts |-> 2, commands |-> 1, users |-> {ui}, issue |-> {"start_stop"},
      tokens |-> {}, crashes |-> 2, failures |-> 0],
     [starts |-> 2, commands |-> 1, users |-> {ui}, issue |-> {"start_stop"},
      tokens |-> {}, crashes |-> 0, failures |-> 1],
     \* two users at once: the initial start, the button, a change of settings
     [starts |-> 2, commands |-> 1, users |-> {ui, pool}, issue |-> Command,
      tokens |-> {}, crashes |-> 0, failures |-> 0]}

VARIABLES
    scope,     \* the scope of this behaviour
    settled    \* the children that ran at a moment when no restart was pending (history)

\* Without output to read the output threads do not run.
InScope ==
    /\ gen <= scope.starts
    /\ commands <= scope.commands
    /\ \A u \in User : command[u] # "none" => u \in scope.users /\ command[u] \in scope.issue
    /\ \A g \in Child : \A i \in 1..Len(told[g]) : told[g][i] \in scope.tokens
    /\ scope.tokens = {} => \A g \in Child : pc[Cap(g)] \in {"idle", "enter"}
    /\ Cardinality({g \in Child : exitCode[g] \in {"crash", "fatal"}}) <= scope.crashes
    /\ Cardinality(failed) <= scope.failures

\* restart() or _auto_restart() is under way or due.
RestartPending ==
    \/ isRestarting
    \/ \E g \in Child : pc[Mon(g)] = "decide" \/ pc[Ar(g)] # "idle"

MCInit == Init /\ scope \in Scopes /\ settled = {}

MCNext ==
    /\ scope' = scope
    /\ Next /\ InScope'
    /\ settled' = settled \cup
          {g \in Child : process' = g /\ child'[g] = "alive" /\ ~RestartPending'}

\* A start may always fail at once, so no scope stands in the way of a thread.
MCSpec == MCInit /\ [][MCNext]_<<vars, scope, settled>> /\ Fairness

\* CrashIsNoticed for a child that ran at some moment when no restart was under way or due:
\* no later interleaving of an exit, the heartbeat, a user's command and the auto-restart
\* loses its crash.  It must be due as well as under way: an auto-restart that sleeps sets
\* _is_restarting over the child a user started meanwhile (base_mgr.py:428).
SettledCrashIsNoticed ==
    \A g \in Child : Crashed(g) /\ g \in settled ~> ~TakenForRunning(g)
=============================================================================
