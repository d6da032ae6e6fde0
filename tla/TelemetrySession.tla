-------------------------- MODULE TelemetrySession --------------------------
(***************************************************************************)
(* The life of a session in the backend: F1TelemetryHandler                *)
(* (telemetry_layer/telemetry_handler.py) and the parts of SessionState    *)
(* (state_mgmt_layer/session_state.py) that say which session the driver   *)
(* data belong to, when they are thrown away and when they are saved.      *)
(*                                                                         *)
(* The handlers run one packet at a time in the receive loop; the          *)
(* just-in-case save is a task of its own that writes while packets go on  *)
(* arriving.  The two objects keep separate flags about the same session.  *)
(* A manual save is asked of the IPC server, whose task reads and marks    *)
(* SessionState between two handlers.                                      *)
(*                                                                         *)
(* The game plays sessions 1, 2, ...  Any of its packets may be lost or    *)
(* repeated; packets of a finished session do not come back, which         *)
(* TelemetryReceiver is about.                                             *)
(***************************************************************************)
EXTENDS Naturals, Sequences

CONSTANTS MaxSession,     \* bound on the sessions the game plays
          Autosaved,      \* the sessions whose type has autosave on (_shouldSaveData)
          JustInCase      \* the setting Capture.just_in_case_autosave

ASSUME SessionAssumption ==
    /\ MaxSession \in Nat \ {0}
    /\ Autosaved \subseteq 1..MaxSession
    /\ JustInCase \in BOOLEAN

Session == 1..MaxSession       \* session UIDs; 0 is None

\* Where a piece of the driver data came from.  PARTICIPANTS carries the names, CAR_STATUS
\* stands for all the packets that describe the cars and are stored unconditionally.
Kind == {"LAP_DATA", "PARTICIPANTS", "CAR_STATUS", "FINAL_CLASSIFICATION"}
Datum == Kind \X Session

VARIABLES
    now,            \* the session the game plays
    stage,          \* what the backend has heard of it: "opening" nothing but its start,
                    \* "open" other packets, "running" its SESSION packet
    started,        \* its start was heard: SESSION_STARTED, the first start light, ...
    infoUid,        \* m_session_info: the session of m_packet_session, with m_session_uid,
                    \* m_session_type and m_total_laps, or 0
    data,           \* m_driver_data: what the drivers' records were filled from
    lastLap,        \* the leader's current lap has reached m_total_laps
    chequered,      \* m_session_info.m_chequered_flag
    finalPkt,       \* m_session_info.m_packet_final_classification: its session, or 0
    raceCompleted,  \* m_race_completed is True
    byHand,         \* a manual save was made of these data (history)
    lastUid,        \* m_last_session_uid
    dataCleared,    \* m_data_cleared_this_session
    finalDone,      \* m_final_classification_processed
    saveTask,       \* m_save_task: {} or the one file being written
    alive,          \* no handler has raised
    files,          \* the files autosaved, oldest first
    epoch           \* how often the driver data were cleared

game == <<now, stage, started>>
state == <<infoUid, data, lastLap, chequered, finalPkt, raceCompleted, byHand,
           epoch>>
handler == <<lastUid, dataCleared, finalDone, saveTask>>
vars == <<game, state, handler, alive, files>>

Init ==
    /\ now = 1 /\ stage = "opening" /\ started = FALSE
    /\ infoUid = 0 /\ data = {} /\ lastLap = FALSE /\ chequered = FALSE
    /\ finalPkt = 0 /\ raceCompleted = FALSE /\ byHand = FALSE
    /\ lastUid = 0 /\ dataCleared = FALSE /\ finalDone = FALSE
    /\ saveTask = {} /\ alive = TRUE /\ files = <<>> /\ epoch = 0

-----------------------------------------------------------------------------
(* The game.  SESSION_STARTED comes first, and again near the end in the   *)
(* F1 25 bug that the just-in-case save is made for.  SESSION comes twice  *)
(* a second, so one of them gets through before the session's last lap,    *)
(* before its end, and before the next session begins.                     *)

Hear == stage' = IF stage = "opening" THEN "open" ELSE stage

\* Nothing of the session got through, or at least a SESSION packet did.
NextSession ==
    /\ alive
    /\ now < MaxSession
    /\ stage # "open"
    /\ now' = now + 1 /\ stage' = "opening" /\ started' = FALSE
    /\ UNCHANGED <<state, handler, alive, files>>

-----------------------------------------------------------------------------
(* Clearing: F1TelemetryHandler.clearAllDataStructures, which calls        *)
(* SessionState.processSessionStarted, clear and setRaceOngoing.           *)

\* Mutant: the handler's flag is not reset.
ClearKeepsFinalDone ==
    /\ infoUid' = 0 /\ data' = {} /\ lastLap' = FALSE /\ chequered' = FALSE
    /\ finalPkt' = 0 /\ raceCompleted' = FALSE /\ byHand' = FALSE
    /\ epoch' = epoch + 1
    /\ dataCleared' = TRUE
    /\ finalDone' = finalDone

ClearAllDataStructures ==
    /\ infoUid' = 0 /\ data' = {} /\ lastLap' = FALSE /\ chequered' = FALSE
    /\ finalPkt' = 0 /\ raceCompleted' = FALSE /\ byHand' = FALSE
    /\ epoch' = epoch + 1
    /\ dataCleared' = TRUE
    /\ finalDone' = FALSE

-----------------------------------------------------------------------------
(* Saving.                                                                 *)

\* Mutant: labelled with the session of the last start event instead.
FileOfStart(reason, contents) ==
    [reason |-> reason, session |-> lastUid, epoch |-> epoch, data |-> contents]

File(reason, contents) ==
    [reason |-> reason, session |-> infoUid, epoch |-> epoch, data |-> contents]

From(kind) == \E s \in Session : <<kind, s>> \in data

\* A driver is valid once it has a position, from LAP_DATA, and a name.
ValidDriver == From("LAP_DATA") /\ From("PARTICIPANTS")

\* _handleSuspiciousSessionStart and isSuspiciousSessionStart.
SuspiciousStart ==
    /\ JustInCase
    /\ infoUid \in Autosaved
    /\ ~finalDone
    /\ saveTask = {}
    /\ chequered \/ (ValidDriver /\ lastLap)

\* What ManualSaveRsp captures, at once, for the task to write; nothing when it raises
\* ValueError for want of data.
Captured == IF SuspiciousStart /\ ValidDriver THEN {File("Just_in_case", data)} ELSE saveTask

\* _saveJustInCaseDataTask: the write ends, well or with an error that is only logged.
WriteJustInCase ==
    /\ alive
    /\ \E f \in saveTask : files' \in {Append(files, f), files}
    /\ saveTask' = {}
    /\ UNCHANGED <<game, state, lastUid, dataCleared, finalDone, alive>>

-----------------------------------------------------------------------------
(* The packet handlers.                                                    *)

SessionStarted ==
    /\ alive
    /\ stage # "open"
    /\ saveTask' = Captured
    /\ lastUid' = now
    /\ ClearAllDataStructures
    /\ started' = TRUE
    /\ UNCHANGED <<now, stage, alive, files>>

\* Mutant: the UID of the start event is not compared.
LightsClearOnce == ~dataCleared

\* Data are thrown away on the first light unless they were since this session was first
\* heard of in a start event.
LightsClear == lastUid # now \/ ~dataCleared

StartLights ==
    /\ alive
    /\ IF LightsClear THEN ClearAllDataStructures
       ELSE UNCHANGED <<state, dataCleared, finalDone>>
    /\ lastUid' = now
    /\ Hear /\ started' = TRUE
    /\ UNCHANGED <<now, saveTask, alive, files>>

\* Mutant: compared with the UID of the last start event.
SessionChangedSinceStart == lastUid # 0 /\ lastUid # now

SessionChanged == infoUid # 0 /\ infoUid # now

\* handleSessionData: a new UID clears everything, the new packet's contents included.
SessionData ==
    /\ alive
    /\ stage' = "running"
    /\ IF SessionChanged THEN ClearAllDataStructures
       ELSE /\ infoUid' = now
            /\ UNCHANGED <<data, lastLap, chequered, finalPkt, raceCompleted, byHand,
                           epoch, dataCleared, finalDone>>
    /\ UNCHANGED <<now, started, lastUid, saveTask, alive, files>>

\* The same handler, for a packet whose m_sessionDuration is 0.
EmptySession ==
    /\ alive
    /\ ClearAllDataStructures
    /\ Hear /\ started' = TRUE
    /\ UNCHANGED <<now, lastUid, saveTask, alive, files>>

\* Ignored until m_total_laps is known.
LapData(last) ==
    /\ alive
    /\ last => stage = "running"
    /\ Hear
    /\ IF infoUid = 0 THEN UNCHANGED <<data, lastLap, raceCompleted>>
       ELSE /\ data' = data \cup {<<"LAP_DATA", now>>}
            /\ lastLap' = last
            /\ raceCompleted' = FALSE
    /\ UNCHANGED <<now, started, infoUid, chequered, finalPkt, byHand, epoch, handler,
                   alive, files>>

Participants ==
    /\ alive
    /\ Hear
    /\ data' = data \cup {<<"PARTICIPANTS", now>>}
    /\ UNCHANGED <<now, started, infoUid, lastLap, chequered, finalPkt, raceCompleted, byHand,
                   epoch, handler, alive, files>>

CarStatus ==
    /\ alive
    /\ Hear
    /\ data' = data \cup {<<"CAR_STATUS", now>>}
    /\ raceCompleted' = FALSE
    /\ UNCHANGED <<now, started, infoUid, lastLap, chequered, finalPkt, byHand, epoch,
                   handler, alive, files>>

ChequeredFlag ==
    /\ alive
    /\ stage = "running"
    /\ chequered' = TRUE
    /\ UNCHANGED <<game, infoUid, data, lastLap, finalPkt, raceCompleted, byHand, epoch,
                   handler, alive, files>>

\* Mutant: every copy of the classification is processed.
ClassifyAgain == infoUid # 0

\* handleFinalClassification.  The autosave is awaited in the handler; it may fail.  The
\* driver records are looked up with create=False and used unchecked: without them the
\* handler raises, and the receive loop with it.
Classify == ~finalDone /\ infoUid # 0

FinalClassification ==
    /\ alive
    /\ stage = "running"
    /\ Classify
    /\ finalPkt' = now
    /\ IF data = {}
       THEN alive' = FALSE /\ UNCHANGED <<data, raceCompleted, finalDone, files>>
       ELSE /\ data' = data \cup {<<"FINAL_CLASSIFICATION", now>>}
            /\ raceCompleted' = TRUE /\ finalDone' = TRUE /\ alive' = alive
            /\ files' \in {files} \cup
                  (IF infoUid \in Autosaved THEN {Append(files, File("Final", data'))} ELSE {})
    /\ UNCHANGED <<game, infoUid, lastLap, chequered, byHand, epoch, lastUid, dataCleared,
                   saveTask>>

-----------------------------------------------------------------------------

\* is_data_available: the session and a driver are known.
DataAvailable == infoUid # 0 /\ ValidDriver

\* handleManualSave.  The JSON is built at once, around a dummy if there is no classification
\* yet, and marks the race as completed in either case; it is written outside the receive
\* loop.  Without data the request fails.
ManualSave ==
    /\ alive
    /\ DataAvailable
    /\ raceCompleted' = TRUE /\ byHand' = TRUE
    /\ UNCHANGED <<game, infoUid, data, lastLap, chequered, finalPkt, epoch, handler, alive,
                   files>>

Next ==
    \/ NextSession
    \/ SessionStarted \/ StartLights \/ SessionData \/ EmptySession
    \/ \E last \in BOOLEAN : LapData(last)
    \/ Participants \/ CarStatus
    \/ ChequeredFlag \/ FinalClassification
    \/ WriteJustInCase
    \/ ManualSave

Spec == Init /\ [][Next]_vars

-----------------------------------------------------------------------------

SavedFile == [reason : {"Just_in_case", "Final"}, session : Session, epoch : Nat,
              data : SUBSET Datum]

\* The type invariant.
TypeOK ==
    /\ now \in Session /\ stage \in {"opening", "open", "running"} /\ started \in BOOLEAN
    /\ infoUid \in Session \cup {0} /\ data \subseteq Datum
    /\ lastLap \in BOOLEAN /\ chequered \in BOOLEAN
    /\ finalPkt \in Session \cup {0} /\ raceCompleted \in BOOLEAN /\ byHand \in BOOLEAN
    /\ lastUid \in Session \cup {0} /\ dataCleared \in BOOLEAN /\ finalDone \in BOOLEAN
    /\ saveTask \subseteq SavedFile
    /\ alive \in BOOLEAN /\ files \in Seq(SavedFile) /\ epoch \in Nat

\* SessionState and the handler each keep a flag about the final classification, set and
\* reset in different functions: they agree whenever the receive loop waits for a packet.
\* The race counts as completed, which takes the forecasts off the driver's page, only if
\* the classification of these data is there or a manual save was made of them: neither
\* outlives the data, and nothing else is taken for the end of a race.
FlagsAgree ==
    alive => /\ finalDone <=> finalPkt # 0
             /\ raceCompleted => infoUid # 0 /\ data # {} /\ (finalPkt # 0 \/ byHand)

\* Once the start of a session was heard, by SESSION_STARTED or, that one being lost, by the
\* first start light, no driver record holds anything of an earlier session.
StartedMeansCurrent ==
    started => /\ infoUid \in {0, now}
               /\ \A d \in data : d[2] = now

Saved == {files[i] : i \in 1..Len(files)} \cup saveTask

\* The lap times in an autosaved file, and its classification, are of the session it is
\* labelled with, although LAP_DATA and FINAL_CLASSIFICATION are stored without a look at
\* their UID and any of the start events may be lost.
LapsArePure ==
    \A f \in Saved : \A d \in f.data :
        d[1] \in {"LAP_DATA", "FINAL_CLASSIFICATION"} => d[2] = f.session

\* The same data are never autosaved twice, although the classification is sent repeatedly
\* and the just-in-case save does the same job: between two clearings at most one file.
SavedOnce ==
    /\ \A i, j \in 1..Len(files) : files[i].epoch = files[j].epoch => i = j
    /\ \A f \in saveTask, i \in 1..Len(files) : files[i].epoch # f.epoch

\* telemetry_handler.py:534-537 means to skip a classification that finds no data: the
\* receive loop survives whatever the game sends.
ReceiverSurvives == alive
=============================================================================
