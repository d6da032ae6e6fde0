------------------------ MODULE MCTelemetryReceiver ------------------------
(***************************************************************************)
(* The backend's receive loop, and how it and the other tasks of the       *)
(* backend end.  TelemetryReceiver and BackendShutdown share no state, so  *)
(* a behaviour of this module follows one of them, "part", and the state   *)
(* spaces add up.                                                          *)
(***************************************************************************)
EXTENDS TelemetryReceiver

CONSTANTS MaxDelivered,   \* bounds the number of packets handed over
          Consumer        \* of BackendShutdown

ASSUME BoundAssumption == MaxDelivered \in Nat
\* The other tasks of the backend are no consumers.
ASSUME ConsumerAssumption ==
    Consumer \cap {"receiver", "publisher", "control", "others", "stopper", "save"} = {}

VARIABLES part,
          main, state, stopper, pending, event, sentinel, asked, interrupted

Backend == INSTANCE BackendShutdown

backendVars == <<main, state, stopper, pending, event, sentinel, asked, interrupted>>

MCInit == part \in {"packets", "tasks"} /\ Init /\ Backend!Init

MCNext ==
    /\ part' = part
    /\ \/ part = "packets" /\ Next /\ UNCHANGED backendVars
       \/ part = "tasks" /\ Backend!Next /\ UNCHANGED vars

\* The fairness of BackendShutdown asks for nothing where the other part is followed: nobody
\* asks the backend to end.
MCSpec == MCInit /\ [][MCNext]_<<part, vars, backendVars>> /\ Backend!Fairness

FewDelivered == Len(delivered) < MaxDelivered

\* The type invariants of both.
TypesOK == TypeOK /\ Backend!TypeOK

\* The properties of BackendShutdown, stated and explained there.
BackendEnds == Backend!BackendEnds
SaveAwaited == Backend!SaveAwaited
=============================================================================
