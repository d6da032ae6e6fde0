------------------------- MODULE TelemetryReceiver -------------------------
(***************************************************************************)
(* The backend's receive loop, lib/telemetry_manager: every datagram of    *)
(* the game is parsed, passed through SessionFrameGate and, if the gate    *)
(* accepts it, given to the handler of its type.  The datagrams come over  *)
(* UDP, so the next one is any packet at all: late, repeated, of an older  *)
(* session, or not a packet.                                               *)
(***************************************************************************)
EXTENDS Naturals, Sequences, FiniteSets

CONSTANTS Session, Frame, Type,
          Enabled,     \* the setting Network.enable_pkt_ordering
          None         \* Python's None

OutOfOrder == "OUT_OF_ORDER_PKT"
Duplicate  == "DUPLICATE_PACKET_TYPE"

ASSUME ReceiverAssumption ==
    /\ Frame \subseteq Nat
    /\ Enabled \in BOOLEAN
    /\ None \notin Session /\ None \notin Frame
    /\ None \notin {OutOfOrder, Duplicate}

VARIABLES lastSession,   \* SessionFrameGate._last_session_uid
          lastFrame,     \* SessionFrameGate._last_frame
          seen,          \* SessionFrameGate._seen_packet_types
          lastDrop,      \* SessionFrameGate._last_drop_reason
          delivered,     \* the packets given to the callbacks, oldest first
          alive          \* the receive loop has not died of an exception

gateVars == <<lastSession, lastFrame, seen>>
vars == <<lastSession, lastFrame, seen, lastDrop, delivered, alive>>

Packet == [session : Session, frame : Frame, type : Type]

Init ==
    /\ lastSession = None
    /\ lastFrame = None
    /\ seen = {}
    /\ lastDrop = None
    /\ delivered = <<>>
    /\ alive = TRUE

-----------------------------------------------------------------------------
(* SessionFrameGate.should_accept: the early returns, in the code's order. *)

NewSession(p) == lastSession = None \/ p.session # lastSession

\* Mutants: without the duplicate rule; with rule 4 taken to include the current frame.
DropReasonNoDuplicates(p) ==
    IF ~Enabled \/ NewSession(p) \/ p.frame = 0 THEN None
    ELSE IF p.frame < lastFrame THEN OutOfOrder
    ELSE None

DropReasonSameFrame(p) ==
    IF ~Enabled \/ NewSession(p) \/ p.frame = 0 THEN None
    ELSE IF p.frame <= lastFrame THEN OutOfOrder
    ELSE None

\* The reason the gate drops p for, or None when it accepts it.
DropReason(p) ==
    IF ~Enabled \/ NewSession(p) \/ p.frame = 0 THEN None
    ELSE IF p.frame < lastFrame THEN OutOfOrder
    ELSE IF p.frame = lastFrame /\ p.type \in seen THEN Duplicate
    ELSE None

\* Mutants: a restarted counter forgets the frame; the first packet of a frame is not noted.
NoteForgetsFrame(p) ==
    IF ~Enabled THEN UNCHANGED gateVars
    ELSE /\ lastSession' = p.session
         /\ lastFrame' = IF p.frame = 0 THEN None ELSE p.frame
         /\ seen' = {}

NoteSkipsFirst(p) ==
    IF ~Enabled THEN UNCHANGED gateVars
    ELSE /\ lastSession' = p.session
         /\ lastFrame' = p.frame
         /\ seen' = IF p.frame # 0 /\ ~NewSession(p) /\ p.frame = lastFrame
                    THEN seen \cup {p.type}
                    ELSE {}

\* What an accepted packet leaves in the gate.
Note(p) ==
    IF ~Enabled THEN UNCHANGED gateVars
    ELSE /\ lastSession' = p.session
         /\ lastFrame' = p.frame
         /\ seen' = IF p.frame = 0 THEN {}
                    ELSE IF ~NewSession(p) /\ p.frame = lastFrame
                         THEN seen \cup {p.type}
                    ELSE {p.type}

-----------------------------------------------------------------------------
(* AsyncF1TelemetryManager._processPacket                                  *)

\* A datagram the parser refuses: too short, unknown type or format, no handler, a bad
\* payload.  Some of these raise, and the receive loop catches exactly those.
Unparsable ==
    /\ alive
    /\ UNCHANGED vars

Drop(p) ==
    /\ alive
    /\ DropReason(p) # None
    /\ lastDrop' = DropReason(p)
    /\ UNCHANGED <<gateVars, delivered, alive>>

\* The handler is awaited in the receive loop; whatever it raises is raised again and ends
\* the loop, and the gate has taken note of the packet by then.
Process(p, raises) ==
    /\ alive
    /\ DropReason(p) = None
    /\ Note(p)
    /\ lastDrop' = None
    /\ delivered' = Append(delivered, p)
    /\ alive' = ~raises

Receive(p) == Drop(p) \/ \E raises \in BOOLEAN : Process(p, raises)

Next == Unparsable \/ \E p \in Packet : Receive(p)

Spec == Init /\ [][Next]_vars

-----------------------------------------------------------------------------

\* The type invariant.
TypeOK ==
    /\ lastSession \in Session \cup {None}
    /\ lastFrame \in Frame \cup {None}
    /\ (lastSession = None) <=> (lastFrame = None)
    /\ seen \subseteq Type
    /\ lastDrop \in {None, OutOfOrder, Duplicate}
    /\ delivered \in Seq(Packet)
    /\ alive \in BOOLEAN

\* Between two handed-over packets that no session change and no frame 0 separates, the
\* frame never goes back, and a frame never brings one packet type twice: the handlers
\* that write lap times and positions rely on it (SessionFrameGate's rules 4 and 5).
Ordered ==
    Enabled =>
    \A i, j \in 1..Len(delivered) :
        /\ i < j
        /\ \A k \in (i+1)..j : /\ delivered[k].frame # 0
                               /\ delivered[k].session = delivered[i].session
        => /\ delivered[i].frame <= delivered[j].frame
           /\ delivered[i].frame = delivered[j].frame
                 => delivered[i].type # delivered[j].type

\* The gate's two scalars and one set stand for the whole run of packets handed over since
\* the last reset: the abstract feed, whose freshness is defined on the list, is what the
\* receive loop implements.
Feed == INSTANCE OrderedFeed WITH delivered <- delivered, alive <- alive

ImplementsOrderedFeed == Feed!FeedSpec

\* The gate is neither over-eager nor lax: it accepts a packet exactly when the list of
\* handed-over packets shows it to be fresh, so no fresh telemetry is lost and nothing stale
\* gets through.
GateDecidesFreshness ==
    Enabled => \A p \in Packet : DropReason(p) = None <=> Feed!Fresh(delivered, p)
=============================================================================
