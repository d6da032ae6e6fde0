--------------------------- MODULE MCRaceEngineer ---------------------------
(***************************************************************************)
(* The race engineer's mouth and its ears: Callouts and PushToTalk.  They  *)
(* meet only in the question that a clip becomes, which Callouts has as    *)
(* AskAloud, so a behaviour of this module follows one of them, "part",    *)
(* and the state spaces add up.                                            *)
(***************************************************************************)
EXTENDS Callouts

CONSTANTS MaxPresses, MaxAudio   \* of PushToTalk

ASSUME MaxAudioAssumption == MaxAudio \in Nat \ {0}
ASSUME MaxPressesAssumption == MaxPresses \in Nat

VARIABLES part,
          hold, wire, lastLost, listening, asking, starting, buffer, recording, mic, thread,
          clip, presses, mutes

PTT == INSTANCE PushToTalk WITH enabled <- listening, switches <- mutes

pttVars == <<hold, wire, lastLost, listening, asking, starting, buffer, recording, mic, thread,
             clip, presses, mutes>>

\* The part that is not followed starts enabled.
MCInit ==
    /\ part \in {"callouts", "ptt"}
    /\ Init /\ PTT!Init
    /\ part # "callouts" => enabled
    /\ part # "ptt" => listening

MCNext ==
    /\ part' = part
    /\ \/ part = "callouts" /\ Next /\ UNCHANGED pttVars
       \/ part = "ptt" /\ PTT!Next /\ UNCHANGED vars

\* The fairness of Callouts asks for nothing where the other part is followed: its worker has
\* nothing to do then.
MCSpec == MCInit /\ [][MCNext]_<<part, vars, pttVars>> /\ Fairness

\* The type invariants of both.
TypesOK == TypeOK /\ PTT!TypeOK

\* The properties of PushToTalk, stated and explained there: what a clip holds, and when the
\* microphone is on.
HoldIsRespected == PTT!ClipOfOneHold /\ PTT!MicFollowsHold
=============================================================================
