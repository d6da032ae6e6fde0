------------------------------ MODULE Overlays ------------------------------
(***************************************************************************)
(* The HUD's overlays and the threads that command them.  The subscriber,  *)
(* the dealer, the IPC server and the watchdog's thread (listener/task.py, *)
(* ipc/task.py, lib/wdt/wdt_sync.py) call OverlaysMgr, which emits Qt      *)
(* signals; an emission posts one event for each overlay to the queue of   *)
(* the GUI thread, where the overlays live (ui/overlays/base).  Answers    *)
(* come back through the single slot of WindowManager.request.  A step is  *)
(* one access that another thread can observe.                             *)
(*                                                                         *)
(* Left out: commands that change neither visibility nor lock (pages,      *)
(* opacity, positions), and the data that is drawn.                        *)
(***************************************************************************)
EXTENDS Naturals, Sequences, SequencesExt

CONSTANTS Overlay,    \* the overlays there are
          Everyone,   \* the empty recipient of a broadcast
          Scopes      \* bounds: the overlays that are registered, in the order they are connected,
                      \* and how many user commands and race table updates still come

VARIABLES
    cfg,          \* which of auto_hide_in_menu and the watchdog the settings ask for
    gap,          \* no data for longer than the watchdog's timeout
    dogActive,    \* WatchDogTimerSync.active
    localOk,      \* _local_wdt_ok
    pc,           \* what each thread is about to do
    events,       \* the GUI thread's queue
    window,       \* window[o]: the fields of overlay o
    asks,         \* what the IPC server has still to ask: of which overlays, and for what
    slot,         \* _response_data, and whether the one who waits was woken
    behind,       \* a request timed out and its answer, or one after it, is still to come
    answer,       \* the last answer that request() returned, and what it was to
    inMenu,       \* what the last update said; "unheard" before the first
    crossed,      \* the last change of the watchdog crossed an update
    scope         \* a member of Scopes that shrinks with each command and update

vars == <<cfg, gap, dogActive, localOk, pc, events, window, asks, slot, behind, answer,
          inMenu, crossed, scope>>

dog == <<gap, dogActive, localOk, inMenu, crossed>>
asking == <<asks, slot, behind, answer>>

Thread == {"sub", "dog", "ipc", "dealer"}
Kind == {"info", "stats"}
NoAnswer == [of |-> Everyone, kind |-> "info"]
Idle == [at |-> "idle"]

Init ==
    /\ scope \in Scopes
    /\ cfg \in [autoHide : BOOLEAN, watched : BOOLEAN]
    /\ gap = TRUE /\ dogActive = FALSE /\ localOk = FALSE
    /\ pc = [t \in Thread |-> Idle]
    /\ events = <<>>
    /\ window = [o \in ToSet(scope.overlays) |->
          [visible |-> TRUE, fading |-> FALSE, locked |-> TRUE, active |-> TRUE,
           userHidden |-> FALSE]]
    /\ asks = [left |-> <<>>, kind |-> "info"]
    /\ slot = [data |-> NoAnswer, woken |-> FALSE]
    /\ behind = FALSE
    /\ answer = [to |-> NoAnswer, got |-> NoAnswer, behind |-> FALSE]
    /\ inMenu = "unheard" /\ crossed = FALSE

Goto(t, label) == pc' = [pc EXCEPT ![t] = label]

\* Thread t is about to emit a command to one overlay or to everyone, and to go on at "then".
Emitting(name, for, value, then) ==
    [at |-> "post", cmd |-> [name |-> name, for |-> for, value |-> value],
     left |-> scope.overlays, then |-> then]

Spend(what) == scope[what] > 0 /\ scope' = [scope EXCEPT ![what] = @ - 1]

\* emit: a queued connection posts an event for each overlay in turn; other threads may post
\* in between.
Post(t) ==
    /\ pc[t].at = "post"
    /\ events' = Append(events, [to |-> Head(pc[t].left), cmd |-> pc[t].cmd])
    /\ Goto(t, IF Len(pc[t].left) = 1 THEN pc[t].then
                                      ELSE [pc[t] EXCEPT !.left = Tail(@)])
    /\ UNCHANGED <<cfg, scope, dog, window, asking>>

-----------------------------------------------------------------------------
(* The watchdog and the subscriber.                                        *)

Calm == pc["dog"].at \in {"idle", "judge"}     \* the watchdog's thread is not calling back

\* Time without data passes while the subscriber waits for some.
DataStop ==
    /\ pc["sub"] = Idle /\ ~gap /\ gap' = TRUE
    /\ UNCHANGED <<cfg, scope, dogActive, localOk, inMenu, crossed, pc, events, window, asking>>

\* _run: how long it has been,
Look ==
    /\ cfg.watched /\ pc["dog"] = Idle
    /\ Goto("dog", [at |-> "judge", elapsed |-> gap])
    /\ UNCHANGED <<cfg, scope, dog, events, window, asking>>

\* and whether that is too long.
Judge ==
    /\ pc["dog"].at = "judge"
    /\ IF dogActive /\ pc["dog"].elapsed
       THEN /\ dogActive' = FALSE
            /\ crossed' = (pc["sub"] # Idle)
            /\ Goto("dog", [at |-> "set", active |-> FALSE, then |-> Idle])
       ELSE /\ Goto("dog", Idle)
            /\ UNCHANGED <<dogActive, crossed>>
    /\ UNCHANGED <<cfg, scope, gap, localOk, inMenu, events, window, asking>>

\* race_table_update, called by the subscriber: kick(), which calls back when the watchdog was
\* not active, and then _handle_in_menu_status.
RaceTableUpdate ==
    /\ pc["sub"] = Idle /\ Spend("updates")
    /\ gap' = FALSE
    /\ inMenu' \in {"driving", "menu"}
    /\ LET status == [at |-> IF cfg.autoHide THEN "status" ELSE "idle"]
           kicks  == cfg.watched /\ ~dogActive
       IN /\ dogActive' = (dogActive \/ cfg.watched)
          /\ Goto("sub", IF kicks THEN [at |-> "set", active |-> TRUE, then |-> status]
                                  ELSE status)
          /\ crossed' = (~Calm \/ (crossed /\ ~kicks))
    /\ UNCHANGED <<cfg, localOk, events, window, asking>>

\* _wdt_status_callback: the field is set,
SetLocalOk(t) ==
    /\ pc[t].at = "set"
    /\ localOk' = pc[t].active
    /\ Goto(t, [at |-> "update", then |-> pc[t].then])
    /\ UNCHANGED <<cfg, scope, gap, dogActive, inMenu, crossed, events, window, asking>>

\* and _update_telemetry_active reads it and emits what it read.
UpdateTelemetryActive(t) ==
    /\ pc[t].at = "update"
    /\ Goto(t, Emitting("active", Everyone, cfg.watched => localOk, pc[t].then))
    /\ UNCHANGED <<cfg, scope, dog, events, window, asking>>

\* _handle_in_menu_status: hide in a menu or in the garage, else as the watchdog has it.
InMenuStatus ==
    /\ pc["sub"].at = "status"
    /\ Goto("sub", IF inMenu = "menu" THEN Emitting("active", Everyone, FALSE, Idle)
                                      ELSE [at |-> "update", then |-> Idle])
    /\ UNCHANGED <<cfg, scope, dog, events, window, asking>>

-----------------------------------------------------------------------------
(* The dealer and the IPC server, whose thread runs one command at a time. *)

\* hud-toggle-notification: one overlay or all.
ToggleNotification ==
    /\ pc["dealer"] = Idle /\ Spend("commands")
    /\ \E for \in DOMAIN window \cup {Everyone} :
          Goto("dealer", Emitting("toggle", for, TRUE, Idle))
    /\ UNCHANGED <<cfg, dog, events, window, asking>>

\* toggle-overlays-visibility, and set-overlays-layout, which ends by showing every overlay.
Command(name) ==
    /\ pc["ipc"] = Idle /\ Spend("commands")
    /\ Goto("ipc", Emitting(name, Everyone, TRUE, Idle))
    /\ UNCHANGED <<cfg, dog, events, window, asking>>

\* on_locked_state_change: a lock captures the layout afterwards.
LockWidgets ==
    /\ pc["ipc"] = Idle /\ Spend("commands")
    /\ \E locked \in BOOLEAN :
          /\ Goto("ipc", Emitting("lock", Everyone, locked,
                                  IF locked THEN [at |-> "ask"] ELSE Idle))
          /\ asks' = IF locked THEN [left |-> scope.overlays, kind |-> "info"] ELSE asks
    /\ UNCHANGED <<cfg, dog, events, window, slot, behind, answer>>

GetStats ==
    /\ pc["ipc"] = Idle /\ Spend("commands")
    /\ Goto("ipc", [at |-> "ask"])
    /\ asks' = [left |-> scope.overlays, kind |-> "stats"]
    /\ UNCHANGED <<cfg, dog, events, window, slot, behind, answer>>

\* request() takes the mutex, clears the slot and emits; the mutex is free again once it waits.
Request ==
    /\ pc["ipc"].at = "ask"
    /\ slot' = [data |-> NoAnswer, woken |-> FALSE]
    /\ behind' = (behind /\ \E i \in DOMAIN events : events[i].cmd.name = "request")
    /\ Goto("ipc", Emitting("request", Head(asks.left), asks.kind, [at |-> "wait"]))
    /\ UNCHANGED <<cfg, scope, dog, events, window, asks, answer>>

MutexHeld == pc["ipc"].at = "post" /\ pc["ipc"].cmd.name = "request"

\* The IPC server goes on to the next overlay.
AskNext ==
    /\ asks' = [asks EXCEPT !.left = Tail(@)]
    /\ Goto("ipc", IF Len(asks.left) = 1 THEN Idle ELSE [at |-> "ask"])

\* Statistics are no OverlayPosition: the capture is aborted.
Answered ==
    /\ pc["ipc"].at = "wait" /\ slot.woken
    /\ answer' = [to |-> [of |-> Head(asks.left), kind |-> asks.kind], got |-> slot.data,
                  behind |-> behind]
    /\ IF asks.kind = "info" /\ slot.data.kind = "stats"
       THEN Goto("ipc", Idle) /\ asks' = [asks EXCEPT !.left = <<>>]
       ELSE AskNext
    /\ UNCHANGED <<cfg, scope, dog, events, window, slot, behind>>

\* The request is given up, but its events are still in the queue.
Timeout ==
    /\ pc["ipc"].at = "wait" /\ ~slot.woken
    /\ AskNext
    /\ behind' = TRUE
    /\ UNCHANGED <<cfg, scope, dog, events, window, slot, answer>>

-----------------------------------------------------------------------------
(* The GUI thread.                                                         *)

\* set_visibility: a fade-in shows the window at once, a fade-out hides it at its end, unless
\* the next animation replaces it.
Shown(w) == [w EXCEPT !.visible = TRUE, !.fading = FALSE]
Hidden(w) == [w EXCEPT !.fading = TRUE]

\* Mutant: unlocking leaves hidden what is hidden.
SetLockedStateShowsNothing(w, locked) ==
    LET l == [w EXCEPT !.locked = locked]
    IN IF locked /\ ~w.active THEN Hidden(l) ELSE l

SetLockedState(w, locked) ==
    LET l == [w EXCEPT !.locked = locked]
    IN IF ~locked THEN Shown(l) ELSE IF ~w.active THEN Hidden(l) ELSE l

ToggleVisibility(w) ==
    IF w.visible THEN Hidden([w EXCEPT !.userHidden = TRUE])
                 ELSE Shown([w EXCEPT !.userHidden = FALSE])

\* Mutant: an overlay that is being edited does not take note.
SetTelemetryActiveLockedOnly(w, active) ==
    LET a == [w EXCEPT !.active = active]
    IN IF w.active = active \/ ~w.locked THEN w
       ELSE IF ~active THEN Hidden(a)
       ELSE IF ~w.userHidden THEN Shown(a) ELSE a

SetTelemetryActive(w, active) ==
    LET a == [w EXCEPT !.active = active]
    IN IF w.active = active \/ ~w.locked THEN a
       ELSE IF ~active THEN Hidden(a)
       ELSE IF ~w.userHidden THEN Shown(a) ELSE a

\* Mutant: every overlay takes everything for its own.
ForAnyone(e) == e.to = e.to

\* An overlay looks only at what is for it.
For(e) == e.cmd.for \in {Everyone, e.to}

\* _handle_cmd; all of these commands are of high priority.
HandleCmd ==
    /\ events # <<>>
    /\ LET e == Head(events)
           w == window[e.to]
       IN /\ e.cmd.name # "request"
          /\ window' = IF ~For(e) THEN window ELSE [window EXCEPT ![e.to] =
                CASE e.cmd.name = "lock"   -> SetLockedState(w, e.cmd.value)
                  [] e.cmd.name = "toggle" -> ToggleVisibility(w)
                  [] e.cmd.name = "active" -> SetTelemetryActive(w, e.cmd.value)
                  [] e.cmd.name = "show"   -> Shown(w)]
    /\ events' = Tail(events)
    /\ UNCHANGED <<cfg, scope, dog, pc, asking>>

\* _handle_request, and _store_response, which waits for the mutex.
HandleRequest ==
    /\ events # <<>>
    /\ LET e == Head(events)
       IN /\ e.cmd.name = "request"
          /\ IF For(e)
             THEN /\ ~MutexHeld
                  /\ slot' = [data |-> [of |-> e.to, kind |-> e.cmd.value], woken |-> TRUE]
             ELSE slot' = slot
    /\ events' = Tail(events)
    /\ UNCHANGED <<cfg, scope, dog, pc, window, asks, behind, answer>>

\* A fade-out ends.
FadedOut(o) ==
    /\ window[o].fading
    /\ window' = [window EXCEPT ![o].visible = FALSE, ![o].fading = FALSE]
    /\ UNCHANGED <<cfg, scope, dog, pc, events, asking>>

Next ==
    \/ DataStop \/ Look \/ Judge \/ RaceTableUpdate \/ InMenuStatus
    \/ ToggleNotification \/ Command("toggle") \/ Command("show") \/ LockWidgets \/ GetStats
    \/ Request \/ Answered \/ Timeout
    \/ HandleCmd \/ HandleRequest
    \/ \E t \in Thread : Post(t) \/ SetLocalOk(t) \/ UpdateTelemetryActive(t)
    \/ \E o \in DOMAIN window : FadedOut(o)

Spec == Init /\ [][Next]_vars

-----------------------------------------------------------------------------
(* Properties.                                                             *)

\* The type invariant.
TypeOK ==
    /\ cfg \in [autoHide : BOOLEAN, watched : BOOLEAN]
    /\ {gap, dogActive, localOk, behind, crossed} \subseteq BOOLEAN
    /\ scope \in [overlays : Seq(Overlay), commands : Nat, updates : Nat]
    /\ inMenu \in {"unheard", "driving", "menu"}
    /\ \A t \in Thread : pc[t].at \in {"idle", "judge", "set", "update", "status", "post",
                                       "ask", "wait"}
    /\ \A i \in DOMAIN events : events[i].to \in Overlay
    /\ window \in [ToSet(scope.overlays) ->
          [visible : BOOLEAN, fading : BOOLEAN, locked : BOOLEAN, active : BOOLEAN,
           userHidden : BOOLEAN]]
    /\ asks \in [left : Seq(Overlay), kind : Kind]
    /\ slot.data \in [of : Overlay \cup {Everyone}, kind : Kind]

\* An overlay is hidden, or on its way there, only because the user toggled it away or because
\* it is locked and there is no telemetry for it: what other commands, in whatever order the
\* threads post them and the fades end, hide, one of them shows again.
HiddenForAReason ==
    \A o \in DOMAIN window :
        \/ window[o].visible /\ ~window[o].fading
        \/ window[o].userHidden
        \/ window[o].locked /\ ~window[o].active

\* request() returns the answer of the overlay it asked, to what it asked, unless a request
\* timed out before and the answers have not caught up since: the slot does not tell whose an
\* answer is, so from then on each overlay's layout is stored as the next one's.
AnswerIsOwn == answer.got = answer.to \/ answer.behind

\* Once everything posted is handled, an overlay takes telemetry for active exactly if the
\* watchdog does and the driver is not in a menu, unless the watchdog's last change crossed an
\* update: then _local_wdt_ok may contradict the watchdog until its next change, and the
\* overlays stay away while data arrive.
FollowsWatchdog ==
    LET quiet == events = <<>> /\ pc["sub"] = Idle /\ Calm
        shown == (cfg.watched => dogActive) /\ ~(cfg.autoHide /\ inMenu = "menu")
    IN quiet /\ inMenu # "unheard" /\ ~crossed => \A o \in DOMAIN window : window[o].active = shown
=============================================================================
