------------------------- MODULE MCTelemetrySession -------------------------
(***************************************************************************)
(* What the backend keeps of a session, and the HUD's overlays that show   *)
(* it.  TelemetrySession and Overlays share no state, so a behaviour of    *)
(* this module follows one of them, "part", and the state spaces add up.   *)
(* The epochs of the session and its files, the one being written among    *)
(* them, are bounded.                                                      *)
(***************************************************************************)
EXTENDS TelemetrySession, FiniteSets

CONSTANTS MaxEpoch, MaxFiles,
          Overlay, Everyone, Scopes, o1, o2

ASSUME BoundAssumption == MaxEpoch \in Nat /\ MaxFiles \in Nat

VARIABLES part,
          cfg, gap, dogActive, localOk, pc, events, window, asks, slot, behind, answer,
          inMenu, crossed, scope

hudVars == <<cfg, gap, dogActive, localOk, pc, events, window, asks, slot, behind, answer,
             inMenu, crossed, scope>>

\* No overlay is registered twice.
ASSUME OverlaysAssumption ==
    /\ Everyone \notin Overlay
    /\ Scopes \subseteq [overlays : Seq(Overlay) \ {<<>>}, commands : Nat, updates : Nat]
    /\ \A s \in Scopes : \A i, j \in DOMAIN s.overlays : s.overlays[i] = s.overlays[j] => i = j

HUD == INSTANCE Overlays

\* One overlay with data only, or commanded as data come and stop; and two that are told apart.
MCScopes ==
    {[overlays |-> <<o1>>, commands |-> 0, updates |-> 3],
     [overlays |-> <<o1>>, commands |-> 2, updates |-> 1],
     [overlays |-> <<o1, o2>>, commands |-> 2, updates |-> 0]}

\* The part that is not followed starts in one state.
MCInit ==
    /\ part \in {"session", "hud"}
    /\ Init /\ HUD!Init
    /\ part # "hud" => ~cfg.watched /\ ~cfg.autoHide /\ scope.commands = 0

MCNext ==
    /\ part' = part
    /\ \/ part = "session" /\ Next /\ UNCHANGED hudVars
       \/ part = "hud" /\ HUD!Next /\ UNCHANGED vars

MCSpec == MCInit /\ [][MCNext]_<<part, vars, hudVars>>

Bounded == epoch <= MaxEpoch /\ Len(files) + Cardinality(saveTask) <= MaxFiles

\* The type invariant and the properties of Overlays, stated and explained there: why an overlay
\* is hidden, what the saved layouts are worth, and when the overlays follow the watchdog.
OverlaysSound ==
    HUD!TypeOK /\ HUD!HiddenForAReason /\ HUD!AnswerIsOwn /\ HUD!FollowsWatchdog
=============================================================================
