---------------------------- MODULE OrderedFeed ----------------------------
(***************************************************************************)
(* What the telemetry receiver promises the packet handlers of the backend *)
(* when packet ordering is switched on, stated on the list of packets      *)
(* already handed over and without the gate's own bookkeeping.             *)
(*                                                                         *)
(* A packet is fresh unless the current run of handed-over packets holds a *)
(* packet of a later frame, or one of the same frame and type.  A run is   *)
(* the longest tail of the list made of one session, whose frame counter   *)
(* has not restarted at 0.  A fresh packet must be handed over and a stale *)
(* one must not: the feed neither repeats, reorders nor starves.           *)
(***************************************************************************)
EXTENDS Naturals, Sequences

CONSTANTS Session,    \* the session UIDs the game may use
          Frame,      \* the values of overallFrameIdentifier
          Type        \* the packet types with a registered handler

VARIABLES delivered,  \* the packets handed to the handlers, oldest first
          alive       \* the receive loop is still running

feedVars == <<delivered, alive>>

Packet == [session : Session, frame : Frame, type : Type]

\* Entry i of s belongs to the run that s ends with.
InRun(s, i) ==
    \A j \in (i+1)..Len(s) : s[j].frame # 0 /\ s[j].session = s[i].session

\* A packet that opens a run: the first one, a new session or a restarted counter.
OpensRun(s, p) ==
    \/ s = <<>>
    \/ p.session # s[Len(s)].session
    \/ p.frame = 0

Fresh(s, p) ==
    \/ OpensRun(s, p)
    \/ \A i \in 1..Len(s) :
          InRun(s, i) => /\ s[i].frame <= p.frame
                         /\ s[i].frame = p.frame => s[i].type # p.type

FeedInit == delivered = <<>> /\ alive = TRUE

\* The handler of p runs; alive' is FALSE when it raises.
Deliver(p) ==
    /\ alive
    /\ Fresh(delivered, p)
    /\ delivered' = Append(delivered, p)
    /\ alive' \in BOOLEAN

FeedNext == \E p \in Packet : Deliver(p)

FeedSpec == FeedInit /\ [][FeedNext]_feedVars
=============================================================================
