----------------------------- MODULE PushToTalk -----------------------------
(***************************************************************************)
(* Push-to-talk from the button to the clip that is recognized:            *)
(* UdpHoldActionTracker in the backend (lib/race_engineer/control.py,      *)
(* telemetry_handler.py), the race engineer's handlers                     *)
(* (apps/race_engineer/race_engineer.py), its buffer (push_to_talk.py) and *)
(* the thread of the microphone (microphone.py).  The handlers run in the  *)
(* event loop without an await but for the answer to a question; the       *)
(* microphone's thread calls the buffer in between, without a lock.        *)
(***************************************************************************)
EXTENDS Naturals, Sequences

CONSTANTS MaxPresses,   \* bound on the number of times the button is pressed
          MaxSwitches,  \* bound on the number of times the engineer is muted or enabled
          MaxAudio      \* max_audio_bytes, in chunks: at least one

VARIABLES
    hold,       \* m_udp_hold_action_tracker has the button down
    wire,       \* commands on their way: the backend's queue, publisher, broker, subscriber
    lastLost,   \* the last command published is lost
    enabled,
    asking,     \* the subscriber awaits the answer to a clip
    starting,   \* a start command is between the buffer's start and the microphone's
    buffer,     \* _active, _chunks, _raw_audio_bytes; a chunk is the recording it was made in
    recording,  \* how often push_to_talk_buffer was started
    mic,        \* microphone_capture._active
    thread,     \* what _poll_loop is about
    clip,       \* the last clip handed to the recognizer
    presses,
    switches

vars == <<hold, wire, lastLost, enabled, asking, starting, buffer, recording, mic, thread, clip,
          presses, switches>>

Empty == [active |-> FALSE, chunks |-> <<>>, raw |-> 0]
Polling == [at |-> "poll"]

Init ==
    /\ hold = FALSE /\ wire = <<>> /\ lastLost = FALSE
    /\ enabled \in BOOLEAN
    /\ asking = FALSE /\ starting = FALSE
    /\ buffer = Empty /\ recording = 0
    /\ mic = FALSE /\ thread = Polling
    /\ clip = [of |-> 0, chunks |-> <<>>]
    /\ presses = 0 /\ switches = 0

-----------------------------------------------------------------------------
(* The backend.                                                            *)

\* update: a BUTTON_STATUS packet shows a change; packets in between may be lost.  The command
\* that tells of it may be lost on the way.
Transition ==
    /\ ~hold => presses < MaxPresses
    /\ hold' = ~hold
    /\ presses' = IF hold THEN presses ELSE presses + 1
    /\ \/ wire' = Append(wire, IF hold THEN "stop" ELSE "start") /\ lastLost' = FALSE
       \/ wire' = wire /\ lastLost' = TRUE
    /\ UNCHANGED <<enabled, asking, starting, buffer, recording, mic, thread, clip, switches>>

-----------------------------------------------------------------------------
(* The microphone's thread: handle_push_to_talk_audio.                     *)

\* A chunk for a buffer that is not active is ignored, one too many empties the buffer; the
\* microphone goes on either way.
Hear ==
    /\ mic /\ thread = Polling
    /\ buffer.active
    /\ IF buffer.raw + 1 > MaxAudio
       THEN buffer' = Empty /\ UNCHANGED thread
       ELSE /\ thread' = [at |-> "append", chunk |-> recording, size |-> buffer.raw + 1]
            /\ UNCHANGED buffer
    /\ UNCHANGED <<hold, wire, lastLost, enabled, asking, starting, recording, mic, clip,
                   presses, switches>>

AppendChunk ==
    /\ thread.at = "append"
    /\ buffer' = [buffer EXCEPT !.chunks = Append(@, thread.chunk)]
    /\ thread' = [thread EXCEPT !.at = "size"]
    /\ UNCHANGED <<hold, wire, lastLost, enabled, asking, starting, recording, mic, clip,
                   presses, switches>>

SetSize ==
    /\ thread.at = "size"
    /\ buffer' = [buffer EXCEPT !.raw = thread.size]
    /\ thread' = Polling
    /\ UNCHANGED <<hold, wire, lastLost, enabled, asking, starting, recording, mic, clip,
                   presses, switches>>

\* What the microphone still holds when it stops, after the thread was joined.
Drained(b) ==
    IF ~b.active THEN {b}
    ELSE {b, IF b.raw + 1 > MaxAudio THEN Empty
             ELSE [b EXCEPT !.chunks = Append(@, recording), !.raw = @ + 1]}

-----------------------------------------------------------------------------
(* The race engineer.                                                      *)

\* Mutant: the buffer starts where it was left.
StartKeepsChunks ==
    /\ ~asking /\ ~starting
    /\ wire # <<>> /\ Head(wire) = "start"
    /\ wire' = Tail(wire)
    /\ IF enabled THEN /\ buffer' = [buffer EXCEPT !.active = TRUE]
                       /\ recording' = recording + 1 /\ starting' = TRUE
       ELSE UNCHANGED <<buffer, recording, starting>>
    /\ UNCHANGED <<hold, lastLost, enabled, asking, mic, thread, clip, presses, switches>>

\* handle_push_to_talk_control up to the buffer; when muted it only reports that.
Start ==
    /\ ~asking /\ ~starting
    /\ wire # <<>> /\ Head(wire) = "start"
    /\ wire' = Tail(wire)
    /\ IF enabled THEN /\ buffer' = [Empty EXCEPT !.active = TRUE]
                       /\ recording' = recording + 1 /\ starting' = TRUE
       ELSE UNCHANGED <<buffer, recording, starting>>
    /\ UNCHANGED <<hold, lastLost, enabled, asking, mic, thread, clip, presses, switches>>

\* The microphone starts, unless it runs already or fails to; then the buffer is cancelled.
StartMicrophone ==
    /\ starting
    /\ starting' = FALSE
    /\ \/ ~mic /\ mic' = TRUE /\ UNCHANGED buffer
       \/ buffer' = Empty /\ UNCHANGED mic
    /\ UNCHANGED <<hold, wire, lastLost, enabled, asking, recording, thread, clip, presses,
                   switches>>

\* Mutant: when the buffer is gone there is nothing to stop.
StopWhatRecords ==
    /\ ~asking /\ ~starting /\ thread = Polling
    /\ wire # <<>> /\ Head(wire) = "stop"
    /\ wire' = Tail(wire)
    /\ mic' = (mic /\ ~buffer.active)
    /\ \E b \in IF mic THEN Drained(buffer) ELSE {buffer} :
        IF b.active /\ b.chunks # <<>>
        THEN clip' = [of |-> recording, chunks |-> b.chunks] /\ asking' = TRUE
        ELSE UNCHANGED <<clip, asking>>
    /\ buffer' = IF buffer.active THEN Empty ELSE buffer
    /\ UNCHANGED <<hold, lastLost, enabled, starting, recording, thread, presses, switches>>

\* finish_push_to_talk.  A buffer that is not active is left as it is.
Stop ==
    /\ ~asking /\ ~starting /\ thread = Polling
    /\ wire # <<>> /\ Head(wire) = "stop"
    /\ wire' = Tail(wire)
    /\ mic' = FALSE
    /\ \E b \in IF mic THEN Drained(buffer) ELSE {buffer} :
        IF b.active /\ b.chunks # <<>>
        THEN clip' = [of |-> recording, chunks |-> b.chunks] /\ asking' = TRUE
        ELSE UNCHANGED <<clip, asking>>
    /\ buffer' = IF buffer.active THEN Empty ELSE buffer
    /\ UNCHANGED <<hold, lastLost, enabled, starting, recording, thread, presses, switches>>

\* handle_audio_question is through.
Answered ==
    /\ asking
    /\ asking' = FALSE
    /\ UNCHANGED <<hold, wire, lastLost, enabled, starting, buffer, recording, mic, thread, clip,
                   presses, switches>>

\* set_enabled, from the subscriber or, also while it asks, from the launcher.
Switch ==
    /\ ~starting /\ switches < MaxSwitches
    /\ switches' = switches + 1
    /\ enabled' = ~enabled
    /\ IF enabled THEN thread = Polling /\ mic' = FALSE /\ buffer' = Empty
       ELSE UNCHANGED <<mic, buffer>>
    /\ UNCHANGED <<hold, wire, lastLost, asking, starting, recording, thread, clip, presses>>

Next == \/ Transition
        \/ Hear \/ AppendChunk \/ SetSize
        \/ Start \/ StartMicrophone \/ Stop \/ Answered \/ Switch

Spec == Init /\ [][Next]_vars

-----------------------------------------------------------------------------

\* The type invariant.
TypeOK ==
    /\ {hold, lastLost, enabled, asking, starting, mic} \subseteq BOOLEAN
    /\ wire \in Seq({"start", "stop"})
    /\ buffer \in [active : BOOLEAN, chunks : Seq(1..MaxPresses), raw : 0..MaxAudio]
    /\ thread \in {Polling} \cup
          [at : {"append", "size"}, chunk : 1..MaxPresses, size : 1..MaxAudio]
    /\ clip \in [of : 0..MaxPresses, chunks : Seq(1..MaxPresses)]
    /\ recording \in 0..MaxPresses
    /\ presses \in 0..MaxPresses /\ switches \in 0..MaxSwitches

\* What is recognized was recorded under the last start command and under no other, although
\* the thread of an earlier recording may append to the buffer at any point of the next one.
ClipOfOneHold == \A i \in DOMAIN clip.chunks : clip.chunks[i] = clip.of

\* The microphone is not on behind the driver's back: never while muted, and not when the
\* button is up and what told of it was not lost, however many commands before were lost,
\* recordings were too long or starts failed.
MicFollowsHold ==
    /\ mic => enabled
    /\ mic /\ ~lastLost /\ wire = <<>> => hold
=============================================================================
