---------------------- MODULE TelemetrySession_proofs ----------------------
(***************************************************************************)
(* What TelemetrySession promises, for any number of sessions and any      *)
(* choice of the sessions that are autosaved.  Each property has an        *)
(* inductive invariant of its own; all of them rest on the types.  Then    *)
(* what Overlays promises, for any overlays that are registered and any    *)
(* number of commands and updates.                                         *)
(***************************************************************************)
EXTENDS MCTelemetrySession, SequenceTheorems, TLAPS

USE SessionAssumption DEF Session, Kind, Datum

LEMMA FileType ==
    ASSUME TypeOK, infoUid # 0,
           NEW reason \in {"Just_in_case", "Final"}, NEW contents \in SUBSET Datum
    PROVE  File(reason, contents) \in SavedFile
BY DEF TypeOK, File, SavedFile

LEMMA CapturedType ==
    ASSUME TypeOK
    PROVE  Captured \subseteq SavedFile
<1>1. CASE SuspiciousStart /\ ValidDriver
  <2>1. infoUid # 0
    BY <1>1 DEF SuspiciousStart
  <2>2. data \in SUBSET Datum
    BY DEF TypeOK
  <2>3. File("Just_in_case", data) \in SavedFile
    BY <2>1, <2>2, FileType
  <2> QED
    BY <1>1, <2>3 DEF Captured
<1>2. CASE ~(SuspiciousStart /\ ValidDriver)
  BY <1>2 DEF Captured, TypeOK
<1> QED
  BY <1>1, <1>2

\* The type invariant in two parts: the flags and the rest.
FlagTypes ==
    /\ started \in BOOLEAN /\ lastLap \in BOOLEAN /\ chequered \in BOOLEAN
    /\ raceCompleted \in BOOLEAN /\ byHand \in BOOLEAN /\ dataCleared \in BOOLEAN
    /\ finalDone \in BOOLEAN /\ alive \in BOOLEAN

DataTypes ==
    /\ now \in Session /\ stage \in {"opening", "open", "running"}
    /\ infoUid \in Session \cup {0} /\ data \subseteq Datum
    /\ finalPkt \in Session \cup {0} /\ lastUid \in Session \cup {0}
    /\ saveTask \subseteq SavedFile /\ files \in Seq(SavedFile)
    /\ epoch \in Nat

LEMMA TypeParts == TypeOK <=> FlagTypes /\ DataTypes
BY Zenon DEF TypeOK, FlagTypes, DataTypes

LEMMA FlagStep ==
    ASSUME FlagTypes, [Next]_vars
    PROVE  FlagTypes'
<1> USE DEF FlagTypes
<1>1. CASE NextSession
  BY <1>1, Zenon DEF NextSession, state, handler
<1>2. CASE SessionStarted
  BY <1>2, Zenon DEF SessionStarted, ClearAllDataStructures
<1>3. CASE StartLights
  BY <1>3, Zenon DEF StartLights, ClearAllDataStructures, state
<1>4. CASE SessionData
  BY <1>4, Zenon DEF SessionData, ClearAllDataStructures
<1>5. CASE EmptySession
  BY <1>5, Zenon DEF EmptySession, ClearAllDataStructures
<1>6. ASSUME NEW last \in BOOLEAN, LapData(last)
      PROVE  FlagTypes'
  BY <1>6, Zenon DEF LapData, handler
<1>7. CASE Participants
  BY <1>7, Zenon DEF Participants, handler
<1>8. CASE CarStatus
  BY <1>8, Zenon DEF CarStatus, handler
<1>9. CASE ChequeredFlag
  BY <1>9, Zenon DEF ChequeredFlag, game, handler
<1>10. CASE FinalClassification
  BY <1>10, Zenon DEF FinalClassification, game
<1>11. CASE WriteJustInCase
  BY <1>11, Zenon DEF WriteJustInCase, game, state
<1>12. CASE ManualSave
  BY <1>12, Zenon DEF ManualSave, game, handler
<1>13. CASE UNCHANGED vars
  BY <1>13, Zenon DEF vars, game, state, handler
<1> QED
  BY <1>1, <1>2, <1>3, <1>4, <1>5, <1>6, <1>7, <1>8, <1>9, <1>10, <1>11, <1>12, <1>13, Zenon
  DEF Next

LEMMA DataStep ==
    ASSUME TypeOK, [Next]_vars
    PROVE  DataTypes'
<1> USE DEF DataTypes
<1>0. DataTypes
  BY TypeParts
<1>1. CASE NextSession
  BY <1>0, <1>1 DEF NextSession, state, handler
<1>2. CASE SessionStarted
  <2>1. saveTask' \subseteq SavedFile
    BY <1>2, CapturedType DEF SessionStarted
  <2> QED
    BY <1>0, <1>2, <2>1 DEF SessionStarted, ClearAllDataStructures
<1>3. CASE StartLights
  <2>1. CASE LightsClear
    BY <1>0, <1>3, <2>1 DEF StartLights, Hear, ClearAllDataStructures
  <2>2. CASE ~LightsClear
    BY <1>0, <1>3, <2>2 DEF StartLights, Hear, state
  <2> QED
    BY <2>1, <2>2
<1>4. CASE SessionData
  <2>1. CASE SessionChanged
    BY <1>0, <1>4, <2>1 DEF SessionData, ClearAllDataStructures
  <2>2. CASE ~SessionChanged
    BY <1>0, <1>4, <2>2 DEF SessionData
  <2> QED
    BY <2>1, <2>2
<1>5. CASE EmptySession
  BY <1>0, <1>5 DEF EmptySession, Hear, ClearAllDataStructures
<1>6. ASSUME NEW last \in BOOLEAN, LapData(last)
      PROVE  DataTypes'
  BY <1>0, <1>6 DEF LapData, Hear, handler
<1>7. CASE Participants
  BY <1>0, <1>7 DEF Participants, Hear, handler
<1>8. CASE CarStatus
  BY <1>0, <1>8 DEF CarStatus, Hear, handler
<1>9. CASE ChequeredFlag
  BY <1>0, <1>9 DEF ChequeredFlag, game, handler
<1>10. CASE FinalClassification
  <2>1. CASE data = {}
    BY <1>0, <1>10, <2>1 DEF FinalClassification, game
  <2>2. CASE data # {}
    <3>1. data' \subseteq Datum
      <4>1. data' = data \cup {<<"FINAL_CLASSIFICATION", now>>}
        BY <1>10, <2>2, Zenon DEF FinalClassification
      <4> QED
        BY <1>0, <4>1
    <3>2. File("Final", data') \in SavedFile
      <4>1. infoUid # 0
        BY <1>10 DEF FinalClassification, Classify
      <4>2. data' \in SUBSET Datum
        BY <3>1
      <4> QED
        BY <4>1, <4>2, FileType
    <3>3. files' = files \/ files' = Append(files, File("Final", data'))
      BY <1>10, <2>2 DEF FinalClassification
    <3>4. files' \in Seq(SavedFile)
      BY <1>0, <3>2, <3>3
    <3> QED
      BY <1>0, <1>10, <2>2, <3>1, <3>4 DEF FinalClassification, game
  <2> QED
    BY <2>1, <2>2
<1>11. CASE WriteJustInCase
  <2>1. PICK f \in saveTask : files' \in {Append(files, f), files}
    BY <1>11 DEF WriteJustInCase
  <2>2. files' \in Seq(SavedFile)
    BY <1>0, <2>1
  <2> QED
    BY <1>0, <1>11, <2>2 DEF WriteJustInCase, game, state
<1>12. CASE ManualSave
  BY <1>0, <1>12 DEF ManualSave, game, handler
<1>13. CASE UNCHANGED vars
  BY <1>0, <1>13 DEF vars, game, state, handler
<1> QED
  BY <1>1, <1>2, <1>3, <1>4, <1>5, <1>6, <1>7, <1>8, <1>9, <1>10, <1>11, <1>12,
     <1>13 DEF Next

LEMMA TypeStep ==
    ASSUME TypeOK, [Next]_vars
    PROVE  TypeOK'
<1>1. FlagTypes'
  BY TypeParts, FlagStep
<1>2. DataTypes'
  BY DataStep
<1> QED
  BY <1>1, <1>2, Zenon DEF TypeOK, FlagTypes, DataTypes

\* TypeOK, the type invariant, for every number of sessions.
THEOREM TypeCorrect == Spec => []TypeOK
<1>1. Init => TypeOK
  <2>1. Init => FlagTypes
    BY Zenon DEF Init, FlagTypes
  <2>2. Init => DataTypes
    BY DEF Init, DataTypes
  <2> QED
    BY <2>1, <2>2, TypeParts
<1> QED
  BY <1>1, TypeStep, PTL DEF Spec


-----------------------------------------------------------------------------

\* The handler's and the state's idea of a processed classification agree.  FlagsAgree is
\* inductive as it stands: clearing resets the flags and the data, the classification and a
\* manual save find data of a known session, and every packet only takes raceCompleted back.
THEOREM FlagsCorrect == Spec => []FlagsAgree
<1> USE DEF FlagsAgree
<1>1. Init => FlagsAgree
  BY DEF Init
<1>2. ASSUME TypeOK, FlagsAgree, [Next]_vars
      PROVE  FlagsAgree'
  <2>0. now # 0
    BY <1>2 DEF TypeOK
  <2>1. CASE NextSession
    BY <1>2, <2>1, Zenon DEF NextSession, state, handler
  <2>2. CASE SessionStarted
    BY <2>2, Zenon DEF SessionStarted, ClearAllDataStructures
  <2>3. CASE StartLights
    BY <1>2, <2>3, Zenon DEF StartLights, ClearAllDataStructures, state
  <2>4. CASE SessionData
    BY <1>2, <2>0, <2>4, Zenon DEF SessionData, ClearAllDataStructures
  <2>5. CASE EmptySession
    BY <2>5, Zenon DEF EmptySession, ClearAllDataStructures
  <2>6. ASSUME NEW last \in BOOLEAN, LapData(last)
        PROVE  FlagsAgree'
    BY <1>2, <2>6, Zenon DEF LapData, handler
  <2>7. CASE Participants
    BY <1>2, <2>7, Zenon DEF Participants, handler
  <2>8. CASE CarStatus
    BY <1>2, <2>8, Zenon DEF CarStatus, handler
  <2>9. CASE ChequeredFlag
    BY <1>2, <2>9, Zenon DEF ChequeredFlag, handler
  <2>10. CASE FinalClassification
    <3>1. CASE data = {}
      BY <2>10, <3>1, Zenon DEF FinalClassification
    <3>2. CASE data # {}
      <4>1. data' # {}
        BY <2>10, <3>2, Zenon DEF FinalClassification
      <4>2. infoUid' # 0
        BY <2>10, Zenon DEF FinalClassification, Classify
      <4>3. finalDone' /\ finalPkt' = now
        BY <2>10, <3>2, Zenon DEF FinalClassification
      <4> QED
        BY <2>0, <4>1, <4>2, <4>3, Zenon
    <3> QED
      BY <3>1, <3>2
  <2>11. CASE WriteJustInCase
    BY <1>2, <2>11, Zenon DEF WriteJustInCase, state
  <2>12. CASE ManualSave
    <3>1. infoUid # 0 /\ data # {}
      BY <2>12, Zenon DEF ManualSave, DataAvailable, ValidDriver, From
    <3> QED
      BY <1>2, <2>12, <3>1, Zenon DEF ManualSave, handler
  <2>13. CASE UNCHANGED vars
    BY <1>2, <2>13, Zenon DEF vars, state, handler
  <2> QED
    BY <1>2, <2>1, <2>2, <2>3, <2>4, <2>5, <2>6, <2>7, <2>8, <2>9, <2>10, <2>11, <2>12,
       <2>13, Zenon DEF Next
<1> QED
  BY <1>1, <1>2, TypeCorrect, PTL DEF Spec

-----------------------------------------------------------------------------

\* What StartedMeansCurrent needs to be inductive: m_last_session_uid names this session only
\* after a start event of it, so that a first light which clears nothing need not.
StartInv ==
    /\ lastUid <= now
    /\ lastUid = now => started
    /\ started => /\ infoUid \in {0, now}
                  /\ \A d \in data : d[2] = now

LEMMA StartStep ==
    ASSUME TypeOK, StartInv, [Next]_vars
    PROVE  StartInv'
<1> USE DEF StartInv
<1>0. now \in Nat /\ lastUid \in Nat /\ now # 0
  BY DEF TypeOK
<1>1. CASE NextSession
  BY <1>0, <1>1 DEF NextSession, state, handler
<1>2. CASE SessionStarted
  BY <1>0, <1>2 DEF SessionStarted, ClearAllDataStructures
<1>3. CASE StartLights
  <2>1. CASE LightsClear
    BY <1>0, <1>3, <2>1 DEF StartLights, ClearAllDataStructures
  <2>2. CASE ~LightsClear
    BY <1>0, <1>3, <2>2 DEF StartLights, LightsClear, state
  <2> QED
    BY <2>1, <2>2
<1>4. CASE SessionData
  <2>1. CASE SessionChanged
    BY <1>0, <1>4, <2>1 DEF SessionData, ClearAllDataStructures
  <2>2. CASE ~SessionChanged
    BY <1>0, <1>4, <2>2 DEF SessionData, SessionChanged
  <2> QED
    BY <2>1, <2>2
<1>5. CASE EmptySession
  BY <1>0, <1>5 DEF EmptySession, ClearAllDataStructures
<1>6. ASSUME NEW last \in BOOLEAN, LapData(last)
      PROVE  StartInv'
  BY <1>0, <1>6 DEF LapData, handler
<1>7. CASE Participants
  BY <1>0, <1>7 DEF Participants, handler
<1>8. CASE CarStatus
  BY <1>0, <1>8 DEF CarStatus, handler
<1>9. CASE ChequeredFlag
  BY <1>0, <1>9 DEF ChequeredFlag, game, handler
<1>10. CASE FinalClassification
  <2>1. data' \in {data, data \cup {<<"FINAL_CLASSIFICATION", now>>}}
    BY <1>10, Zenon DEF FinalClassification
  <2>2. UNCHANGED <<now, started, infoUid, lastUid>>
    BY <1>10, Zenon DEF FinalClassification, game
  <2> QED
    BY <1>0, <2>1, <2>2
<1>11. CASE WriteJustInCase
  BY <1>0, <1>11 DEF WriteJustInCase, game, state
<1>12. CASE ManualSave
  BY <1>0, <1>12 DEF ManualSave, game, handler
<1>13. CASE UNCHANGED vars
  BY <1>0, <1>13 DEF vars, game, state, handler
<1> QED
  BY <1>1, <1>2, <1>3, <1>4, <1>5, <1>6, <1>7, <1>8, <1>9, <1>10, <1>11, <1>12,
     <1>13 DEF Next

\* From the first start event of a session on, no driver record is of an older one.
THEOREM StartCorrect == Spec => []StartedMeansCurrent
<1>1. Init => StartInv
  BY DEF Init, StartInv
<1>2. StartInv => StartedMeansCurrent
  BY DEF StartInv, StartedMeansCurrent
<1> QED
  BY <1>1, <1>2, StartStep, TypeCorrect, PTL DEF Spec

-----------------------------------------------------------------------------
(* What is saved.                                                          *)

\* What a step may add to the files written or being written.
LEMMA SavedAfterWrite ==
    ASSUME TypeOK, WriteJustInCase
    PROVE  /\ Saved' \subseteq Saved
           /\ \A i \in 1..Len(files) : i \in 1..Len(files') /\ files'[i] = files[i]
           /\ \A i \in (1..Len(files')) \ (1..Len(files)) : files'[i] \in saveTask
           /\ saveTask' = {}
<1>1. PICK f \in saveTask : files' \in {Append(files, f), files}
  BY DEF WriteJustInCase
<1>2. files \in Seq(SavedFile) /\ saveTask' = {}
  BY DEF TypeOK, WriteJustInCase
<1>3. CASE files' = files
  BY <1>2, <1>3 DEF Saved
<1>4. CASE files' = Append(files, f)
  <2>1. Len(files') = Len(files) + 1 /\ Len(files) \in Nat
    BY <1>2, <1>4
  <2>2. \A i \in 1..Len(files) : files'[i] = files[i]
    BY <1>2, <1>4
  <2>3. files'[Len(files) + 1] = f
    BY <1>2, <1>4
  <2> QED
    BY <1>1, <1>2, <2>1, <2>2, <2>3 DEF Saved
<1> QED
  BY <1>1, <1>3, <1>4

LEMMA SavedAfterAppend ==
    ASSUME TypeOK, saveTask' = saveTask,
           NEW f \in SavedFile, files' = files \/ files' = Append(files, f)
    PROVE  /\ Saved' \subseteq Saved \cup {f}
           /\ \A i \in 1..Len(files) : i \in 1..Len(files') /\ files'[i] = files[i]
           /\ \A i \in (1..Len(files')) \ (1..Len(files)) :
                 files'[i] = f /\ i = Len(files) + 1
<1>1. files \in Seq(SavedFile)
  BY DEF TypeOK
<1>2. CASE files' = files
  BY <1>1, <1>2 DEF Saved
<1>3. CASE files' = Append(files, f)
  <2>1. Len(files') = Len(files) + 1 /\ Len(files) \in Nat
    BY <1>1, <1>3
  <2>2. \A i \in 1..Len(files) : files'[i] = files[i]
    BY <1>1, <1>3
  <2>3. files'[Len(files) + 1] = f
    BY <1>1, <1>3
  <2> QED
    BY <2>1, <2>2, <2>3 DEF Saved
<1> QED
  BY <1>2, <1>3

LEMMA SavedType ==
    ASSUME TypeOK
    PROVE  /\ \A f \in Saved : f.epoch \in Nat
           /\ \A i \in 1..Len(files) : files[i] \in Saved
           /\ saveTask \subseteq Saved
<1>1. \A i \in 1..Len(files) : files[i] \in SavedFile
  BY DEF TypeOK
<1>2. saveTask \subseteq SavedFile
  BY DEF TypeOK
<1>3. \A f \in SavedFile : f.epoch \in Nat
  BY DEF SavedFile
<1> QED
  BY <1>1, <1>2, <1>3 DEF Saved

LEMMA SavedUnchanged ==
    ASSUME UNCHANGED <<files, saveTask>>
    PROVE  Saved' = Saved
BY DEF Saved

\* The lap data and the classification held in the drivers' records are of the session that
\* SessionState is labelled with, except while packets of a new session come in whose
\* SESSION packet has not: in that stage nothing is saved.
Timing == {"LAP_DATA", "FINAL_CLASSIFICATION"}

PureData == \A d \in data : d[1] \in Timing => d[2] = infoUid

PureInv ==
    /\ stage = "running" => infoUid \in {0, now}
    /\ stage # "open" \/ infoUid \in {0, now} => PureData
    /\ LapsArePure

LEMMA PureStep ==
    ASSUME TypeOK, PureInv, [Next]_vars
    PROVE  PureInv'
<1> USE DEF PureInv, PureData, Timing
<1>0. now # 0 /\ (\A d \in data : d[2] # 0)
  BY DEF TypeOK
<1>1. CASE NextSession
  <2>1. Saved' = Saved
    BY <1>1, SavedUnchanged DEF NextSession, handler
  <2> QED
    BY <1>1, <2>1 DEF NextSession, state, LapsArePure
<1>2. CASE SessionStarted
  <2>1. \A f \in Captured \ saveTask :
            f = File("Just_in_case", data)
    BY DEF Captured
  <2>2. PureData
    BY <1>2 DEF SessionStarted
  <2>3. \A f \in Captured \ saveTask : \A d \in f.data : d[1] \in Timing => d[2] = f.session
    BY <2>1, <2>2 DEF File
  <2>4. Saved' \subseteq Saved \cup (Captured \ saveTask)
    BY <1>2 DEF SessionStarted, Saved
  <2>5. LapsArePure'
    BY <2>3, <2>4 DEF LapsArePure
  <2> QED
    BY <1>2, <2>5 DEF SessionStarted, ClearAllDataStructures
<1>3. CASE StartLights
  <2>1. LapsArePure'
    BY <1>3, SavedUnchanged DEF StartLights, LapsArePure
  <2>2. CASE LightsClear
    BY <1>3, <2>1, <2>2 DEF StartLights, Hear, ClearAllDataStructures
  <2>3. CASE ~LightsClear
    BY <1>3, <2>1, <2>3 DEF StartLights, Hear, state
  <2> QED
    BY <2>2, <2>3
<1>4. CASE SessionData
  <2>1. LapsArePure'
    BY <1>4, SavedUnchanged DEF SessionData, LapsArePure
  <2>2. CASE SessionChanged
    BY <1>4, <2>1, <2>2 DEF SessionData, ClearAllDataStructures
  <2>3. CASE ~SessionChanged
    BY <1>0, <1>4, <2>1, <2>3 DEF SessionData, SessionChanged
  <2> QED
    BY <2>2, <2>3
<1>5. CASE EmptySession
  <2>1. LapsArePure'
    BY <1>5, SavedUnchanged DEF EmptySession, LapsArePure
  <2> QED
    BY <1>5, <2>1 DEF EmptySession, Hear, ClearAllDataStructures
<1>6. ASSUME NEW last \in BOOLEAN, LapData(last)
      PROVE  PureInv'
  <2>1. LapsArePure'
    BY <1>6, SavedUnchanged DEF LapData, handler, LapsArePure
  <2>2. UNCHANGED <<now, infoUid>> /\ Hear
    BY <1>6, Zenon DEF LapData
  <2>3. CASE infoUid = 0
    <3>1. data' = data
      BY <1>6, <2>3, Zenon DEF LapData
    <3> QED
      BY <2>1, <2>2, <2>3, <3>1 DEF Hear
  <2>4. CASE infoUid = now
    <3>1. data' = data \cup {<<"LAP_DATA", now>>}
      BY <1>0, <1>6, <2>4, Zenon DEF LapData
    <3> QED
      BY <2>1, <2>2, <2>4, <3>1 DEF Hear
  <2>5. CASE infoUid \notin {0, now}
    BY <2>1, <2>2, <2>5 DEF Hear, TypeOK
  <2> QED
    BY <2>3, <2>4, <2>5
<1>7. CASE Participants
  <2>1. LapsArePure'
    BY <1>7, SavedUnchanged DEF Participants, handler, LapsArePure
  <2> QED
    BY <1>7, <2>1 DEF Participants, Hear, handler
<1>8. CASE CarStatus
  <2>1. LapsArePure'
    BY <1>8, SavedUnchanged DEF CarStatus, handler, LapsArePure
  <2> QED
    BY <1>8, <2>1 DEF CarStatus, Hear, handler
<1>9. CASE ChequeredFlag
  <2>1. LapsArePure'
    BY <1>9, SavedUnchanged DEF ChequeredFlag, handler, LapsArePure
  <2> QED
    BY <1>9, <2>1 DEF ChequeredFlag, game, handler
<1>10. CASE FinalClassification
  <2>1. data' \in {data, data \cup {<<"FINAL_CLASSIFICATION", now>>}}
    BY <1>10, Zenon DEF FinalClassification
  <2>2. UNCHANGED <<now, stage, infoUid, epoch, saveTask>> /\ infoUid # 0 /\ stage = "running"
    BY <1>10, Zenon DEF FinalClassification, Classify, game
  <2>3. infoUid = now /\ PureData'
    BY <2>1, <2>2
  <2>4. files' = files \/ files' = Append(files, File("Final", data'))
    BY <1>10, Zenon DEF FinalClassification
  <2>5. File("Final", data') \in SavedFile
    <3>1. data' \in SUBSET Datum
      BY <2>1 DEF TypeOK
    <3> QED
      BY <2>2, <3>1, FileType
  <2>6. Saved' \subseteq Saved \cup {File("Final", data')}
    BY <2>2, <2>4, <2>5, SavedAfterAppend
  <2>7. \A d \in File("Final", data').data :
            d[1] \in Timing => d[2] = File("Final", data').session
    BY <2>2, <2>3 DEF File
  <2>8. LapsArePure'
    BY <2>6, <2>7 DEF LapsArePure
  <2> QED
    BY <2>2, <2>3, <2>8
<1>11. CASE WriteJustInCase
  <2>1. LapsArePure'
    BY <1>11, SavedAfterWrite DEF LapsArePure
  <2> QED
    BY <1>11, <2>1 DEF WriteJustInCase, game, state
<1>12. CASE ManualSave
  <2>1. LapsArePure'
    BY <1>12, SavedUnchanged DEF ManualSave, handler, LapsArePure
  <2> QED
    BY <1>12, <2>1 DEF ManualSave, game, handler
<1>13. CASE UNCHANGED vars
  <2>1. LapsArePure'
    BY <1>13, SavedUnchanged DEF vars, handler, LapsArePure
  <2> QED
    BY <1>13, <2>1 DEF vars, game, state, handler
<1> QED
  BY <1>1, <1>2, <1>3, <1>4, <1>5, <1>6, <1>7, <1>8, <1>9, <1>10, <1>11, <1>12,
     <1>13 DEF Next

\* No autosaved file mixes lap times or a classification of two sessions.
THEOREM LapsCorrect == Spec => []LapsArePure
<1>1. Init => PureInv
  BY DEF Init, PureInv, PureData, LapsArePure, Saved
<1>2. PureInv => LapsArePure
  BY DEF PureInv
<1> QED
  BY <1>1, <1>2, PureStep, TypeCorrect, PTL DEF Spec

\* The classification is the only save that leaves the epoch as it is, and it sets
\* finalDone; the just-in-case save is followed by a clearing in the same step.
OnceInv ==
    /\ SavedOnce
    /\ \A f \in Saved : f.epoch <= epoch /\ (f.epoch = epoch => finalDone)

LEMMA OnceUnsaved ==
    ASSUME TypeOK, OnceInv, UNCHANGED <<files, saveTask>>,
           \/ epoch' = epoch + 1
           \/ epoch' = epoch /\ (finalDone => finalDone')
    PROVE  OnceInv'
<1>1. SavedOnce'
  BY DEF OnceInv, SavedOnce
<1>2. \A f \in Saved : f.epoch \in Nat
  BY SavedType
<1>3. Saved' = Saved /\ epoch \in Nat
  BY SavedUnchanged DEF TypeOK
<1> QED
  BY <1>1, <1>2, <1>3 DEF OnceInv

LEMMA OnceStep ==
    ASSUME TypeOK, OnceInv, [Next]_vars
    PROVE  OnceInv'
<1>0. /\ \A f \in Saved : f.epoch \in Nat
      /\ epoch \in Nat
      /\ \A i \in 1..Len(files) : files[i] \in Saved
      /\ saveTask \subseteq Saved
  BY SavedType DEF TypeOK
<1>1. CASE NextSession
  BY <1>1, OnceUnsaved DEF NextSession, state, handler
<1>2. CASE SessionStarted
  <2>1. files' = files /\ epoch' = epoch + 1 /\ saveTask' = Captured
    BY <1>2 DEF SessionStarted, ClearAllDataStructures
  <2>2. CASE Captured = saveTask
    BY <1>2, <2>1, <2>2, OnceUnsaved
  <2>3. CASE Captured # saveTask
    <3>1. /\ saveTask = {} /\ ~finalDone
          /\ saveTask' = {File("Just_in_case", data)}
      BY <2>1, <2>3 DEF Captured, SuspiciousStart
    <3>2. File("Just_in_case", data).epoch = epoch
      BY DEF File
    <3>3. \A f \in Saved : f.epoch < epoch
      BY <1>0, <3>1 DEF OnceInv
    <3>4. SavedOnce'
      BY <1>0, <2>1, <3>1, <3>2, <3>3 DEF OnceInv, SavedOnce
    <3>5. Saved' \subseteq Saved \cup {File("Just_in_case", data)}
      BY <2>1, <3>1 DEF Saved
    <3>6. \A f \in Saved' : f.epoch < epoch'
      BY <1>0, <2>1, <3>2, <3>3, <3>5
    <3> QED
      BY <1>0, <2>1, <3>2, <3>3, <3>4, <3>5 DEF OnceInv
  <2> QED
    BY <2>2, <2>3
<1>3. CASE StartLights
  BY <1>3, OnceUnsaved DEF StartLights, ClearAllDataStructures, state
<1>4. CASE SessionData
  BY <1>4, OnceUnsaved DEF SessionData, ClearAllDataStructures
<1>5. CASE EmptySession
  BY <1>5, OnceUnsaved DEF EmptySession, ClearAllDataStructures
<1>6. ASSUME NEW last \in BOOLEAN, LapData(last)
      PROVE  OnceInv'
  BY <1>6, OnceUnsaved DEF LapData, handler
<1>7. CASE Participants
  BY <1>7, OnceUnsaved DEF Participants, handler
<1>8. CASE CarStatus
  BY <1>8, OnceUnsaved DEF CarStatus, handler
<1>9. CASE ChequeredFlag
  BY <1>9, OnceUnsaved DEF ChequeredFlag, handler
<1>10. CASE FinalClassification
  <2>1. ~finalDone /\ UNCHANGED <<epoch, saveTask, infoUid>> /\ infoUid # 0
    BY <1>10, Zenon DEF FinalClassification, Classify
  <2>2. CASE data = {}
    BY <1>10, <2>1, <2>2, OnceUnsaved DEF FinalClassification
  <2>3. CASE data # {}
    <3> DEFINE file == File("Final", data')
    <3>1. finalDone' /\ (files' = files \/ files' = Append(files, file))
      BY <1>10, <2>3, Zenon DEF FinalClassification
    <3>2. file \in SavedFile
      <4>1. data' = data \cup {<<"FINAL_CLASSIFICATION", now>>}
        BY <1>10, <2>3, Zenon DEF FinalClassification
      <4>2. data' \in SUBSET Datum
        BY <4>1 DEF TypeOK
      <4> QED
        BY <2>1, <4>2, FileType
    <3>3. file.epoch = epoch
      BY DEF File
    <3> HIDE DEF file
    <3>4. \A f \in Saved : f.epoch < epoch
      BY <1>0, <2>1 DEF OnceInv
    <3>5. /\ Saved' \subseteq Saved \cup {file}
          /\ \A i \in 1..Len(files) : i \in 1..Len(files') /\ files'[i] = files[i]
          /\ \A i \in (1..Len(files')) \ (1..Len(files)) :
                files'[i] = file /\ i = Len(files) + 1
      BY <2>1, <3>1, <3>2, SavedAfterAppend
    <3>6. ASSUME NEW i \in 1..Len(files'), NEW j \in 1..Len(files'),
                 files'[i].epoch = files'[j].epoch
          PROVE  i = j
      <4>1. CASE i \in 1..Len(files) /\ j \in 1..Len(files)
        BY <3>5, <3>6, <4>1 DEF OnceInv, SavedOnce
      <4>2. CASE i \in 1..Len(files) /\ j \notin 1..Len(files)
        BY <1>0, <3>3, <3>4, <3>5, <3>6, <4>2
      <4>3. CASE i \notin 1..Len(files) /\ j \in 1..Len(files)
        BY <1>0, <3>3, <3>4, <3>5, <3>6, <4>3
      <4>4. CASE i \notin 1..Len(files) /\ j \notin 1..Len(files)
        BY <3>5, <4>4
      <4> QED
        BY <4>1, <4>2, <4>3, <4>4
    <3>7. ASSUME NEW f \in saveTask', NEW i \in 1..Len(files')
          PROVE  files'[i].epoch # f.epoch
      <4>1. f \in saveTask /\ f.epoch < epoch
        BY <1>0, <2>1, <3>4
      <4>2. CASE i \in 1..Len(files)
        BY <3>5, <4>1, <4>2 DEF OnceInv, SavedOnce
      <4>3. CASE i \notin 1..Len(files)
        BY <1>0, <3>3, <3>5, <4>1, <4>3
      <4> QED
        BY <4>2, <4>3
    <3>8. SavedOnce'
      BY <3>6, <3>7 DEF SavedOnce
    <3>9. \A f \in Saved' : f.epoch <= epoch' /\ (f.epoch = epoch' => finalDone')
      BY <1>0, <2>1, <3>1, <3>3, <3>4, <3>5
    <3> QED
      BY <3>8, <3>9, Zenon DEF OnceInv
  <2> QED
    BY <2>2, <2>3
<1>11. CASE WriteJustInCase
  <2>1. /\ Saved' \subseteq Saved
        /\ \A i \in 1..Len(files) : i \in 1..Len(files') /\ files'[i] = files[i]
        /\ \A i \in (1..Len(files')) \ (1..Len(files)) : files'[i] \in saveTask
        /\ saveTask' = {}
    BY <1>11, SavedAfterWrite
  <2>2. UNCHANGED <<epoch, finalDone>>
    BY <1>11, Zenon DEF WriteJustInCase, state
  <2>3. Len(files') <= Len(files) + 1 /\ Len(files) \in Nat /\ Len(files') \in Nat
    <3>1. PICK f \in saveTask : files' \in {Append(files, f), files}
      BY <1>11 DEF WriteJustInCase
    <3> QED
      BY <3>1 DEF TypeOK
  <2>4. ASSUME NEW i \in 1..Len(files'), NEW j \in 1..Len(files'),
               files'[i].epoch = files'[j].epoch
        PROVE  i = j
    <3>1. CASE i \in 1..Len(files) /\ j \in 1..Len(files)
      BY <2>1, <2>4, <3>1 DEF OnceInv, SavedOnce
    <3>2. CASE i \in 1..Len(files) /\ j \notin 1..Len(files)
      BY <2>1, <2>4, <3>2 DEF OnceInv, SavedOnce
    <3>3. CASE i \notin 1..Len(files) /\ j \in 1..Len(files)
      BY <2>1, <2>4, <3>3 DEF OnceInv, SavedOnce
    <3>4. CASE i \notin 1..Len(files) /\ j \notin 1..Len(files)
      BY <2>3, <3>4
    <3> QED
      BY <3>1, <3>2, <3>3, <3>4
  <2>5. SavedOnce'
    BY <2>1, <2>4 DEF SavedOnce
  <2> QED
    BY <2>1, <2>2, <2>5 DEF OnceInv
<1>12. CASE ManualSave
  BY <1>12, OnceUnsaved DEF ManualSave, handler
<1>13. CASE UNCHANGED vars
  BY <1>13, OnceUnsaved DEF vars, state, handler
<1> QED
  BY <1>1, <1>2, <1>3, <1>4, <1>5, <1>6, <1>7, <1>8, <1>9, <1>10, <1>11, <1>12,
     <1>13 DEF Next

\* Between two clearings of the data at most one file is autosaved.
THEOREM OnceCorrect == Spec => []SavedOnce
<1>1. Init => OnceInv
  BY DEF Init, OnceInv, SavedOnce, Saved
<1>2. OnceInv => SavedOnce
  BY DEF OnceInv
<1> QED
  BY <1>1, <1>2, OnceStep, TypeCorrect, PTL DEF Spec

-----------------------------------------------------------------------------

HIDE SessionAssumption DEF Session, Kind, Datum

-----------------------------------------------------------------------------
(* Overlays.  What each thread can be about to do, and what is under way.  *)

Status == [at |-> "status"]
ActiveCmd == [name : {"active"}, for : {Everyone}, value : BOOLEAN]
UserCmd == [name : {"lock", "toggle", "show"}, for : Overlay \cup {Everyone}, value : BOOLEAN]
RequestCmd == [name : {"request"}, for : Overlay, value : HUD!Kind]

Emits(cmds, there, thens) ==
    [at : {"post"}, cmd : cmds, left : Seq(there) \ {<<>>}, then : thens]

SubPc(p, there) ==
    \/ p \in {HUD!Idle, Status}
    \/ p \in [at : {"set"}, active : {TRUE}, then : {HUD!Idle, Status}]
    \/ p \in [at : {"update"}, then : {HUD!Idle, Status}]
    \/ p \in Emits(ActiveCmd, there, {HUD!Idle, Status})

DogPc(p, there) ==
    \/ p = HUD!Idle
    \/ p \in [at : {"judge"}, elapsed : BOOLEAN]
    \/ p \in [at : {"set"}, active : {FALSE}, then : {HUD!Idle}]
    \/ p \in [at : {"update"}, then : {HUD!Idle}]
    \/ p \in Emits(ActiveCmd, there, {HUD!Idle})

IpcPc(p, there) ==
    \/ p \in {HUD!Idle, [at |-> "ask"], [at |-> "wait"]}
    \/ p \in Emits(UserCmd, there, {HUD!Idle, [at |-> "ask"]})
    \/ p \in Emits(RequestCmd, there, {[at |-> "wait"]})

DealerPc(p, there) == p = HUD!Idle \/ p \in Emits(UserCmd, there, {HUD!Idle})

Window == [visible : BOOLEAN, fading : BOOLEAN, locked : BOOLEAN, active : BOOLEAN,
           userHidden : BOOLEAN]

There == HUD!ToSet(scope.overlays)

HudFlags ==
    /\ gap \in BOOLEAN /\ dogActive \in BOOLEAN /\ localOk \in BOOLEAN
    /\ behind \in BOOLEAN /\ crossed \in BOOLEAN
    /\ cfg \in [autoHide : BOOLEAN, watched : BOOLEAN]
    /\ inMenu \in {"unheard", "driving", "menu"}

PcTypes ==
    /\ DOMAIN pc = HUD!Thread
    /\ SubPc(pc["sub"], There) /\ DogPc(pc["dog"], There)
    /\ IpcPc(pc["ipc"], There) /\ DealerPc(pc["dealer"], There)

QueueTypes ==
    /\ scope \in [overlays : Seq(Overlay) \ {<<>>}, commands : Nat, updates : Nat]
    /\ events \in Seq([to : There, cmd : ActiveCmd \cup UserCmd \cup RequestCmd])
    /\ window \in [There -> Window]
    /\ asks \in [left : Seq(Overlay), kind : HUD!Kind]
    /\ slot \in [data : [of : Overlay \cup {Everyone}, kind : HUD!Kind], woken : BOOLEAN]

\* The event is a request for the overlay that takes it.
Own(e) == e.cmd.name = "request" /\ e.cmd.for = e.to

Asking(p) == p.at = "post" /\ p.cmd.name = "request"
Once(s) == \A i, j \in DOMAIN s : s[i] = s[j] => i = j

\* The IPC server has overlays left to ask.
AskedOf == LET p == pc["ipc"] IN
    /\ p.at \in {"ask", "wait"} \/ (p.at = "post" /\ p.then.at \in {"ask", "wait"}) =>
          asks.left # <<>>
    /\ Asking(p) => /\ ~slot.woken /\ Once(p.left)
                    /\ p.cmd.for = Head(asks.left) /\ p.cmd.value = asks.kind

\* What the queue q holds of answers that are due.
NoneDue(q) == \A i \in DOMAIN q : ~Own(q[i])
OneDue(q) == \A i, j \in DOMAIN q : Own(q[i]) /\ Own(q[j]) => i = j
DueFrom(q, o, kind) == \A i \in DOMAIN q : Own(q[i]) => q[i].to = o /\ q[i].cmd.value = kind
Untold(q, left) == \A i \in DOMAIN q : Own(q[i]) => \A k \in DOMAIN left : left[k] # q[i].to

\* The server at p waits for an answer from overlay o, and only that overlay has yet to
\* answer, once.
Due(q, p, o, kind, s) ==
    IF p.at = "wait" \/ Asking(p)
    THEN /\ DueFrom(q, o, kind) /\ OneDue(q)
         /\ p.at = "wait" /\ s.woken => NoneDue(q) /\ s.data.of = o /\ s.data.kind = kind
         /\ Asking(p) => Untold(q, p.left)
    ELSE NoneDue(q)

AnswersDue == Due(events, pc["ipc"], Head(asks.left), asks.kind, slot)

AskInv == AskedOf /\ (~behind => AnswersDue) /\ HUD!AnswerIsOwn

-----------------------------------------------------------------------------

IsActiveFor(e, o) == e.to = o /\ e.cmd.name = "active"

\* The last that overlay o will hear of telemetry, from the queue q, is v, or it has heard it.
Coming(q, o, was, v) ==
    \/ \E i \in DOMAIN q : /\ IsActiveFor(q[i], o) /\ q[i].cmd.value = v
                           /\ \A j \in DOMAIN q : IsActiveFor(q[j], o) => j <= i
    \/ was = v /\ \A i \in DOMAIN q : ~IsActiveFor(q[i], o)

Target == (cfg.watched => dogActive) /\ ~(cfg.autoHide /\ inMenu = "menu")

\* With queue q every overlay will have heard v last.
AllTold(q, w, there, v) == \A o \in there : Coming(q, o, w[o].active, v)

\* The thread that emits v has yet to post to what is left.
Tells(p, q, w, there, v) ==
    /\ p.cmd.value = v
    /\ \A o \in there : (\E k \in DOMAIN p.left : p.left[k] = o) \/ Coming(q, o, w[o].active, v)

\* Before the first update nobody has said anything of telemetry.
Unheard ==
    /\ ~dogActive /\ ~localOk /\ pc["sub"] = HUD!Idle /\ HUD!Calm
    /\ \A i \in DOMAIN events : events[i].cmd.name # "active"
    /\ \A o \in There : window[o].active

\* What the settings rule out.
Settings == LET s == pc["sub"] IN
    /\ ~cfg.watched => ~dogActive /\ pc["dog"] = HUD!Idle /\ s.at # "set"
    /\ s = Status \/ (s.at \in {"set", "update", "post"} /\ s.then = Status) => cfg.autoHide

\* One thread at a time changes what the watchdog says: the subscriber only while the watchdog's
\* thread is calm, that one only while the subscriber is idle.  Hence _local_wdt_ok is the
\* watchdog's own but for the moment before it is set, and who emits last tells the target.
Uncrossed == LET s == pc["sub"] d == pc["dog"] IN
    /\ s = HUD!Idle \/ HUD!Calm
    /\ s.at # "set" /\ d.at # "set" => localOk = dogActive
    /\ s.at = "set" => dogActive
    /\ ~HUD!Calm => ~dogActive
    /\ s.at \in {"set", "update"} /\ s.then = HUD!Idle => ~(cfg.autoHide /\ inMenu = "menu")
    /\ s.at = "post" /\ s.then = HUD!Idle => Tells(s, events, window, There, Target)
    /\ d.at = "post" => Tells(d, events, window, There, Target)
    /\ s = HUD!Idle /\ HUD!Calm => AllTold(events, window, There, Target)

FollowInv ==
    /\ inMenu = "unheard" => Unheard
    /\ Settings
    /\ ~crossed /\ inMenu # "unheard" => Uncrossed

Commands == ActiveCmd \cup UserCmd \cup RequestCmd

LEMMA ThereIs ==
    ASSUME QueueTypes
    PROVE  /\ There \subseteq Overlay /\ Everyone \notin There
           /\ scope.overlays \in Seq(There) \ {<<>>}
<1>1. scope.overlays \in Seq(Overlay) \ {<<>>}
  BY DEF QueueTypes
<1>2. There = {scope.overlays[i] : i \in 1..Len(scope.overlays)}
  BY <1>1 DEF There, HUD!ToSet
<1>3. \A i \in 1..Len(scope.overlays) : scope.overlays[i] \in There
  BY <1>2
<1>4. scope.overlays \in Seq(There)
  BY <1>1, <1>3
<1>. QED BY <1>1, <1>2, <1>4, OverlaysAssumption

HudTypes == HudFlags /\ PcTypes /\ QueueTypes

LEMMA HudStart == HUD!Init => HudTypes
<1>. SUFFICES ASSUME HUD!Init PROVE HudTypes
  OBVIOUS
<1>. USE DEF HUD!Init
<1>1. HudFlags
  BY DEF HudFlags
<1>2. PcTypes
  BY DEF PcTypes, SubPc, DogPc, IpcPc, DealerPc, HUD!Thread
<1>3. QueueTypes
  <2>1. scope \in [overlays : Seq(Overlay) \ {<<>>}, commands : Nat, updates : Nat]
    BY OverlaysAssumption
  <2>2. window \in [There -> Window]
    BY DEF There, Window
  <2>3. /\ asks \in [left : Seq(Overlay), kind : HUD!Kind]
        /\ events \in Seq([to : There, cmd : Commands])
    BY DEF HUD!Kind
  <2>4. slot \in [data : [of : Overlay \cup {Everyone}, kind : HUD!Kind], woken : BOOLEAN]
    BY DEF HUD!NoAnswer, HUD!Kind
  <2>. QED BY <2>1, <2>2, <2>3, <2>4 DEF QueueTypes, Commands
<1>. QED BY <1>1, <1>2, <1>3 DEF HudTypes

-----------------------------------------------------------------------------
(* One thread goes on.                                                     *)

LEMMA FlagsKept ==
    ASSUME HudFlags, UNCHANGED <<cfg, HUD!dog, behind>>
    PROVE  HudFlags'
BY DEF HudFlags, HUD!dog

LEMMA QueueKept ==
    ASSUME QueueTypes, UNCHANGED <<scope, events, window, asks, slot>>
    PROVE  QueueTypes' /\ There' = There
BY DEF QueueTypes, There

LEMMA SpendKeeps ==
    ASSUME QueueTypes, NEW what \in {"commands", "updates"}, HUD!Spend(what)
    PROVE  /\ scope' \in [overlays : Seq(Overlay) \ {<<>>}, commands : Nat, updates : Nat]
           /\ scope'.overlays = scope.overlays /\ There' = There
<1>1. /\ scope \in [overlays : Seq(Overlay) \ {<<>>}, commands : Nat, updates : Nat]
      /\ scope[what] > 0 /\ scope' = [scope EXCEPT ![what] = @ - 1]
  BY DEF QueueTypes, HUD!Spend
<1>2. /\ scope' \in [overlays : Seq(Overlay) \ {<<>>}, commands : Nat, updates : Nat]
      /\ scope'.overlays = scope.overlays
  <2>1. CASE what = "commands"
    BY <1>1, <2>1
  <2>2. CASE what = "updates"
    BY <1>1, <2>2
  <2>. QED BY <2>1, <2>2
<1>3. There' = There
  BY <1>2 DEF There
<1>. QED BY <1>2, <1>3

LEMMA SpentQueue ==
    ASSUME QueueTypes, NEW what \in {"commands", "updates"}, HUD!Spend(what),
           UNCHANGED <<events, window, slot>>, asks' \in [left : Seq(Overlay), kind : HUD!Kind]
    PROVE  QueueTypes' /\ There' = There
BY SpendKeeps DEF QueueTypes

LEMMA PcKept ==
    ASSUME PcTypes, pc' = pc, There' = There
    PROVE  PcTypes'
BY DEF PcTypes

LEMMA SubGoes ==
    ASSUME PcTypes, There' = There, NEW p, HUD!Goto("sub", p)
    PROVE  /\ pc'["sub"] = p /\ pc'["dog"] = pc["dog"] /\ pc'["ipc"] = pc["ipc"]
           /\ pc'["dealer"] = pc["dealer"]
           /\ SubPc(p, There) => PcTypes'
BY DEF PcTypes, HUD!Goto, HUD!Thread

LEMMA DogGoes ==
    ASSUME PcTypes, There' = There, NEW p, HUD!Goto("dog", p)
    PROVE  /\ pc'["dog"] = p /\ pc'["sub"] = pc["sub"] /\ pc'["ipc"] = pc["ipc"]
           /\ pc'["dealer"] = pc["dealer"]
           /\ DogPc(p, There) => PcTypes'
BY DEF PcTypes, HUD!Goto, HUD!Thread

LEMMA IpcGoes ==
    ASSUME PcTypes, There' = There, NEW p, HUD!Goto("ipc", p)
    PROVE  /\ pc'["ipc"] = p /\ pc'["sub"] = pc["sub"] /\ pc'["dog"] = pc["dog"]
           /\ pc'["dealer"] = pc["dealer"]
           /\ IpcPc(p, There) => PcTypes'
BY DEF PcTypes, HUD!Goto, HUD!Thread

LEMMA DealerGoes ==
    ASSUME PcTypes, There' = There, NEW p, HUD!Goto("dealer", p)
    PROVE  /\ pc'["dealer"] = p /\ pc'["sub"] = pc["sub"] /\ pc'["dog"] = pc["dog"]
           /\ pc'["ipc"] = pc["ipc"]
           /\ DealerPc(p, There) => PcTypes'
BY DEF PcTypes, HUD!Goto, HUD!Thread

LEMMA EmittingIs ==
    ASSUME QueueTypes, NEW name, NEW for, NEW value, NEW then,
           NEW cmds, [name |-> name, for |-> for, value |-> value] \in cmds,
           NEW thens, then \in thens
    PROVE  HUD!Emitting(name, for, value, then) \in Emits(cmds, There, thens)
BY ThereIs DEF HUD!Emitting, Emits

LEMMA DataStopTyped == ASSUME HudTypes, HUD!DataStop PROVE HudTypes'
<1>1. HudFlags'
  BY DEF HUD!DataStop, HUD!asking, HudTypes, HudFlags
<1>2. QueueTypes' /\ There' = There
  BY QueueKept DEF HUD!DataStop, HUD!asking, HudTypes
<1>. QED BY <1>1, <1>2, PcKept DEF HUD!DataStop, HudTypes

LEMMA LookTyped == ASSUME HudTypes, HUD!Look PROVE HudTypes'
<1>1. HudFlags'
  BY FlagsKept DEF HUD!Look, HudTypes, HUD!asking
<1>2. QueueTypes' /\ There' = There
  BY QueueKept DEF HUD!Look, HUD!asking, HudTypes
<1>3. PcTypes'
  <2>1. [at |-> "judge", elapsed |-> gap] \in [at : {"judge"}, elapsed : BOOLEAN]
    BY DEF HudTypes, HudFlags
  <2>2. DogPc([at |-> "judge", elapsed |-> gap], There)
    BY <2>1, Zenon DEF DogPc
  <2>. QED BY <1>2, <2>2, DogGoes DEF HUD!Look, HudTypes
<1>. QED BY <1>1, <1>2, <1>3 DEF HudTypes

LEMMA JudgeTyped == ASSUME HudTypes, HUD!Judge PROVE HudTypes'
<1>1. HudFlags'
  <2>1. dogActive' \in BOOLEAN /\ crossed' \in BOOLEAN
    BY Zenon DEF HUD!Judge, HudTypes, HudFlags
  <2>2. UNCHANGED <<cfg, gap, localOk, inMenu, behind>>
    BY DEF HUD!Judge, HUD!asking
  <2>. QED BY <2>1, <2>2, Zenon DEF HudTypes, HudFlags
<1>2. QueueTypes' /\ There' = There
  BY QueueKept DEF HUD!Judge, HUD!asking, HudTypes
<1>3. PcTypes'
  <2>1. CASE dogActive /\ pc["dog"].elapsed
    <3>1. DogPc([at |-> "set", active |-> FALSE, then |-> HUD!Idle], There)
      BY DEF DogPc
    <3>. QED BY <1>2, <2>1, <3>1, DogGoes DEF HUD!Judge, HudTypes
  <2>2. CASE ~(dogActive /\ pc["dog"].elapsed)
    BY <1>2, <2>2, DogGoes DEF HUD!Judge, HudTypes, DogPc
  <2>. QED BY <2>1, <2>2
<1>. QED BY <1>1, <1>2, <1>3 DEF HudTypes

\* The update's first step, with its local definitions named.
RaceTableKicks == cfg.watched /\ ~dogActive
AfterKick == [at |-> IF cfg.autoHide THEN "status" ELSE "idle"]
FirstStep == IF RaceTableKicks THEN [at |-> "set", active |-> TRUE, then |-> AfterKick]
                               ELSE AfterKick

LEMMA RaceTableSteps ==
    ASSUME HUD!RaceTableUpdate
    PROVE  /\ pc["sub"] = HUD!Idle /\ HUD!Spend("updates") /\ inMenu' \in {"driving", "menu"}
           /\ gap' = FALSE /\ dogActive' = (dogActive \/ cfg.watched)
           /\ HUD!Goto("sub", FirstStep)
           /\ crossed' = (~HUD!Calm \/ (crossed /\ ~RaceTableKicks))
           /\ UNCHANGED <<cfg, localOk, events, window, asks, slot, behind, answer>>
BY DEF HUD!RaceTableUpdate, HUD!asking, RaceTableKicks, AfterKick, FirstStep

LEMMA AfterKickIs == AfterKick = IF cfg.autoHide THEN Status ELSE HUD!Idle
BY DEF AfterKick, Status, HUD!Idle

LEMMA RaceTableTyped == ASSUME HudTypes, HUD!RaceTableUpdate PROVE HudTypes'
<1>1. HudFlags'
  <2>1. dogActive' \in BOOLEAN /\ crossed' \in BOOLEAN /\ gap' \in BOOLEAN
    BY RaceTableSteps, Zenon DEF HudTypes, HudFlags
  <2>2. inMenu' \in {"unheard", "driving", "menu"}
    BY RaceTableSteps
  <2>3. UNCHANGED <<cfg, localOk, behind>>
    BY RaceTableSteps
  <2>. QED BY <2>1, <2>2, <2>3, Zenon DEF HudTypes, HudFlags
<1>2. QueueTypes' /\ There' = There
  BY RaceTableSteps, SpentQueue DEF HudTypes, QueueTypes
<1>3. PcTypes'
  <2>1. SubPc(FirstStep, There)
    BY AfterKickIs DEF SubPc, FirstStep
  <2>. QED BY <1>2, <2>1, RaceTableSteps, SubGoes DEF HudTypes
<1>. QED BY <1>1, <1>2, <1>3 DEF HudTypes

LEMMA EmitsAt ==
    ASSUME NEW cmds, NEW there, NEW thens, NEW p \in Emits(cmds, there, thens)
    PROVE  /\ p.at = "post" /\ p.cmd \in cmds /\ p.left \in Seq(there) /\ p.left # <<>>
           /\ p.then \in thens
BY DEF Emits

\* The label of a thread says what else it holds.
LEMMA SubAt ==
    ASSUME NEW there, NEW p, SubPc(p, there)
    PROVE  /\ p.at \in {"idle", "status", "set", "update", "post"}
           /\ p.at = "idle" => p = HUD!Idle
           /\ p.at = "status" => p = Status
           /\ p.at = "set" => p \in [at : {"set"}, active : {TRUE}, then : {HUD!Idle, Status}]
           /\ p.at = "update" => p \in [at : {"update"}, then : {HUD!Idle, Status}]
           /\ p.at = "post" => p \in Emits(ActiveCmd, there, {HUD!Idle, Status})
<1>1. CASE p \in Emits(ActiveCmd, there, {HUD!Idle, Status})
  <2>1. p.at = "post"
    BY <1>1 DEF Emits
  <2>. QED BY <1>1, <2>1
<1>2. CASE p \in {HUD!Idle, Status}
  <2>1. HUD!Idle.at = "idle" /\ Status.at = "status"
    BY DEF HUD!Idle, Status
  <2>. QED BY <1>2, <2>1
<1>3. CASE p \in [at : {"set"}, active : {TRUE}, then : {HUD!Idle, Status}]
  <2>1. p.at = "set"
    BY <1>3
  <2>. QED BY <1>3, <2>1
<1>4. CASE p \in [at : {"update"}, then : {HUD!Idle, Status}]
  <2>1. p.at = "update"
    BY <1>4
  <2>. QED BY <1>4, <2>1
<1>. QED BY <1>1, <1>2, <1>3, <1>4, Zenon DEF SubPc

LEMMA DogAt ==
    ASSUME NEW there, NEW p, DogPc(p, there)
    PROVE  /\ p.at \in {"idle", "judge", "set", "update", "post"}
           /\ p.at = "idle" => p = HUD!Idle
           /\ p.at = "judge" => p.elapsed \in BOOLEAN
           /\ p.at = "set" => p \in [at : {"set"}, active : {FALSE}, then : {HUD!Idle}]
           /\ p.at = "update" => p \in [at : {"update"}, then : {HUD!Idle}]
           /\ p.at = "post" => p \in Emits(ActiveCmd, there, {HUD!Idle})
<1>1. CASE p \in Emits(ActiveCmd, there, {HUD!Idle})
  <2>1. p.at = "post"
    BY <1>1 DEF Emits
  <2>. QED BY <1>1, <2>1
<1>2. CASE p = HUD!Idle
  BY <1>2 DEF HUD!Idle
<1>3. CASE p \in [at : {"judge"}, elapsed : BOOLEAN]
  <2>1. p.at = "judge" /\ p.elapsed \in BOOLEAN
    BY <1>3
  <2>. QED BY <2>1
<1>4. CASE p \in [at : {"set"}, active : {FALSE}, then : {HUD!Idle}]
  <2>1. p.at = "set"
    BY <1>4
  <2>. QED BY <1>4, <2>1
<1>5. CASE p \in [at : {"update"}, then : {HUD!Idle}]
  <2>1. p.at = "update"
    BY <1>5
  <2>. QED BY <1>5, <2>1
<1>. QED BY <1>1, <1>2, <1>3, <1>4, <1>5, Zenon DEF DogPc

LEMMA IpcAt ==
    ASSUME NEW there, NEW p, IpcPc(p, there)
    PROVE  /\ p.at \in {"idle", "ask", "wait", "post"}
           /\ p.at = "idle" => p = HUD!Idle
           /\ p.at = "ask" => p = [at |-> "ask"]
           /\ p.at = "wait" => p = [at |-> "wait"]
           /\ p.at = "post" => \/ p \in Emits(UserCmd, there, {HUD!Idle, [at |-> "ask"]})
                               \/ p \in Emits(RequestCmd, there, {[at |-> "wait"]})
<1>1. CASE p \in Emits(UserCmd, there, {HUD!Idle, [at |-> "ask"]})
  <2>1. p.at = "post"
    BY <1>1 DEF Emits
  <2>. QED BY <1>1, <2>1
<1>2. CASE p \in Emits(RequestCmd, there, {[at |-> "wait"]})
  <2>1. p.at = "post"
    BY <1>2 DEF Emits
  <2>. QED BY <1>2, <2>1
<1>3. CASE p \in {HUD!Idle, [at |-> "ask"], [at |-> "wait"]}
  BY <1>3 DEF HUD!Idle
<1>. QED BY <1>1, <1>2, <1>3 DEF IpcPc

LEMMA DealerAt ==
    ASSUME NEW there, NEW p, DealerPc(p, there)
    PROVE  /\ p.at \in {"idle", "post"}
           /\ p.at = "idle" => p = HUD!Idle
           /\ p.at = "post" => p \in Emits(UserCmd, there, {HUD!Idle})
<1>1. CASE p \in Emits(UserCmd, there, {HUD!Idle})
  <2>1. p.at = "post"
    BY <1>1 DEF Emits
  <2>. QED BY <1>1, <2>1
<1>2. CASE p = HUD!Idle
  BY <1>2 DEF HUD!Idle
<1>. QED BY <1>1, <1>2 DEF DealerPc

LEMMA SettingThread ==
    ASSUME PcTypes, NEW t \in HUD!Thread, pc[t].at = "set"
    PROVE  \/ t = "sub" /\ pc[t] \in [at : {"set"}, active : {TRUE}, then : {HUD!Idle, Status}]
           \/ t = "dog" /\ pc[t] \in [at : {"set"}, active : {FALSE}, then : {HUD!Idle}]
BY SubAt, DogAt, IpcAt, DealerAt DEF PcTypes, HUD!Thread

LEMMA UpdatingThread ==
    ASSUME PcTypes, NEW t \in HUD!Thread, pc[t].at = "update"
    PROVE  \/ t = "sub" /\ pc[t] \in [at : {"update"}, then : {HUD!Idle, Status}]
           \/ t = "dog" /\ pc[t] \in [at : {"update"}, then : {HUD!Idle}]
BY SubAt, DogAt, IpcAt, DealerAt DEF PcTypes, HUD!Thread

LEMMA SetLocalOkTyped == ASSUME HudTypes, NEW t \in HUD!Thread, HUD!SetLocalOk(t) PROVE HudTypes'
<1>0. PcTypes /\ pc[t].at = "set"
  BY DEF HUD!SetLocalOk, HudTypes
<1>1. HudFlags'
  <2>1. localOk' \in BOOLEAN
    BY <1>0, SettingThread DEF HUD!SetLocalOk
  <2>. QED BY <2>1 DEF HUD!SetLocalOk, HudTypes, HudFlags, HUD!asking
<1>2. QueueTypes' /\ There' = There
  BY QueueKept DEF HUD!SetLocalOk, HUD!asking, HudTypes
<1>3. PcTypes'
  <2>1. HUD!Goto(t, [at |-> "update", then |-> pc[t].then])
    BY DEF HUD!SetLocalOk
  <2>2. CASE t = "sub" /\ pc[t].then \in {HUD!Idle, Status}
    <3>1. SubPc([at |-> "update", then |-> pc[t].then], There)
      BY <2>2 DEF SubPc
    <3>. QED BY <1>0, <1>2, <2>1, <2>2, <3>1, SubGoes
  <2>3. CASE t = "dog" /\ pc[t].then = HUD!Idle
    <3>1. DogPc([at |-> "update", then |-> pc[t].then], There)
      BY <2>3 DEF DogPc
    <3>. QED BY <1>0, <1>2, <2>1, <2>3, <3>1, DogGoes
  <2>. QED BY <1>0, <2>2, <2>3, SettingThread
<1>. QED BY <1>1, <1>2, <1>3 DEF HudTypes

\* The command that an update emits.
LEMMA UpdateEmits ==
    ASSUME HudTypes, NEW thens, NEW then \in thens
    PROVE  HUD!Emitting("active", Everyone, cfg.watched => localOk, then)
              \in Emits(ActiveCmd, There, thens)
<1>1. (cfg.watched => localOk) \in BOOLEAN
  BY Zenon
<1>2. [name |-> "active", for |-> Everyone, value |-> cfg.watched => localOk] \in ActiveCmd
  BY <1>1 DEF ActiveCmd
<1>. QED BY <1>2, EmittingIs DEF HudTypes

LEMMA UpdateActiveTyped ==
    ASSUME HudTypes, NEW t \in HUD!Thread, HUD!UpdateTelemetryActive(t)
    PROVE  HudTypes'
<1>0. PcTypes /\ pc[t].at = "update"
  BY DEF HUD!UpdateTelemetryActive, HudTypes
<1>1. HudFlags'
  BY FlagsKept DEF HUD!UpdateTelemetryActive, HUD!asking, HudTypes
<1>2. QueueTypes' /\ There' = There
  BY QueueKept DEF HUD!UpdateTelemetryActive, HUD!asking, HudTypes
<1>3. PcTypes'
  <2>. DEFINE p == HUD!Emitting("active", Everyone, cfg.watched => localOk, pc[t].then)
  <2>1. HUD!Goto(t, p)
    BY DEF HUD!UpdateTelemetryActive
  <2>2. CASE t = "sub" /\ pc[t].then \in {HUD!Idle, Status}
    <3>1. p \in Emits(ActiveCmd, There, {HUD!Idle, Status})
      BY <2>2, UpdateEmits
    <3>. HIDE DEF p
    <3>2. SubPc(p, There)
      BY <3>1 DEF SubPc
    <3>. QED BY <1>0, <1>2, <2>1, <2>2, <3>2, SubGoes
  <2>3. CASE t = "dog" /\ pc[t].then \in {HUD!Idle}
    <3>1. p \in Emits(ActiveCmd, There, {HUD!Idle})
      BY <2>3, UpdateEmits
    <3>. HIDE DEF p
    <3>2. DogPc(p, There)
      BY <3>1 DEF DogPc
    <3>. QED BY <1>0, <1>2, <2>1, <2>3, <3>2, DogGoes
  <2>. HIDE DEF p
  <2>. QED BY <1>0, <2>2, <2>3, UpdatingThread
<1>. QED BY <1>1, <1>2, <1>3 DEF HudTypes

LEMMA InMenuTyped == ASSUME HudTypes, HUD!InMenuStatus PROVE HudTypes'
<1>1. HudFlags'
  BY FlagsKept DEF HUD!InMenuStatus, HUD!asking, HudTypes
<1>2. QueueTypes' /\ There' = There
  BY QueueKept DEF HUD!InMenuStatus, HUD!asking, HudTypes
<1>3. PcTypes'
  <2>1. CASE inMenu = "menu"
    <3>. DEFINE p == HUD!Emitting("active", Everyone, FALSE, HUD!Idle)
    <3>1. p \in Emits(ActiveCmd, There, {HUD!Idle, Status})
      BY EmittingIs DEF HudTypes, ActiveCmd
    <3>2. HUD!Goto("sub", p)
      BY <2>1 DEF HUD!InMenuStatus
    <3>. HIDE DEF p
    <3>3. SubPc(p, There)
      BY <3>1 DEF SubPc
    <3>. QED BY <1>2, <3>2, <3>3, SubGoes DEF HudTypes
  <2>2. CASE inMenu # "menu"
    <3>1. SubPc([at |-> "update", then |-> HUD!Idle], There)
      BY DEF SubPc
    <3>. QED BY <1>2, <2>2, <3>1, SubGoes DEF HUD!InMenuStatus, HudTypes
  <2>. QED BY <2>1, <2>2
<1>. QED BY <1>1, <1>2, <1>3 DEF HudTypes

LEMMA ToggleTyped == ASSUME HudTypes, HUD!ToggleNotification PROVE HudTypes'
<1>1. HudFlags'
  BY FlagsKept DEF HUD!ToggleNotification, HUD!asking, HudTypes
<1>2. QueueTypes' /\ There' = There
  BY SpentQueue DEF HUD!ToggleNotification, HUD!asking, HudTypes, QueueTypes
<1>3. PcTypes'
  <2>1. PICK for \in DOMAIN window \cup {Everyone} :
           HUD!Goto("dealer", HUD!Emitting("toggle", for, TRUE, HUD!Idle))
    BY DEF HUD!ToggleNotification
  <2>2. for \in Overlay \cup {Everyone}
    BY ThereIs DEF HudTypes, QueueTypes
  <2>3. [name |-> "toggle", for |-> for, value |-> TRUE] \in UserCmd
    BY <2>2 DEF UserCmd
  <2>4. HUD!Emitting("toggle", for, TRUE, HUD!Idle) \in Emits(UserCmd, There, {HUD!Idle})
    BY <2>3, EmittingIs DEF HudTypes
  <2>. QED BY <1>2, <2>1, <2>4, DealerGoes DEF DealerPc, HudTypes
<1>. QED BY <1>1, <1>2, <1>3 DEF HudTypes

LEMMA CommandTyped ==
    ASSUME HudTypes, NEW name \in {"toggle", "show"}, HUD!Command(name)
    PROVE  HudTypes'
<1>1. HudFlags'
  BY FlagsKept DEF HUD!Command, HUD!asking, HudTypes
<1>2. QueueTypes' /\ There' = There
  BY SpentQueue DEF HUD!Command, HUD!asking, HudTypes, QueueTypes
<1>3. PcTypes'
  <2>1. HUD!Goto("ipc", HUD!Emitting(name, Everyone, TRUE, HUD!Idle))
    BY DEF HUD!Command
  <2>2. [name |-> name, for |-> Everyone, value |-> TRUE] \in UserCmd
    BY DEF UserCmd
  <2>3. HUD!Emitting(name, Everyone, TRUE, HUD!Idle)
           \in Emits(UserCmd, There, {HUD!Idle, [at |-> "ask"]})
    BY <2>2, EmittingIs DEF HudTypes
  <2>4. IpcPc(HUD!Emitting(name, Everyone, TRUE, HUD!Idle), There)
    BY <2>3 DEF IpcPc
  <2>. QED BY <1>2, <2>1, <2>4, IpcGoes DEF HudTypes
<1>. QED BY <1>1, <1>2, <1>3 DEF HudTypes

LEMMA LockTyped == ASSUME HudTypes, HUD!LockWidgets PROVE HudTypes'
<1>0. PICK locked \in BOOLEAN :
         /\ HUD!Goto("ipc", HUD!Emitting("lock", Everyone, locked,
                                         IF locked THEN [at |-> "ask"] ELSE HUD!Idle))
         /\ asks' = IF locked THEN [left |-> scope.overlays, kind |-> "info"] ELSE asks
  BY DEF HUD!LockWidgets
<1>1. HudFlags'
  BY FlagsKept DEF HUD!LockWidgets, HudTypes
<1>2. QueueTypes' /\ There' = There
  <2>1. asks' \in [left : Seq(Overlay), kind : HUD!Kind]
    BY <1>0 DEF HudTypes, QueueTypes, HUD!Kind
  <2>. QED BY <2>1, SpentQueue DEF HUD!LockWidgets, HudTypes
<1>3. PcTypes'
  <2>. DEFINE p == HUD!Emitting("lock", Everyone, locked,
                                IF locked THEN [at |-> "ask"] ELSE HUD!Idle)
  <2>1. [name |-> "lock", for |-> Everyone, value |-> locked] \in UserCmd
    BY DEF UserCmd
  <2>2. (IF locked THEN [at |-> "ask"] ELSE HUD!Idle) \in {HUD!Idle, [at |-> "ask"]}
    OBVIOUS
  <2>3. p \in Emits(UserCmd, There, {HUD!Idle, [at |-> "ask"]})
    BY <2>1, <2>2, EmittingIs DEF HudTypes
  <2>. HIDE DEF p
  <2>4. IpcPc(p, There)
    BY <2>3 DEF IpcPc
  <2>. USE DEF p
  <2>. QED BY <1>0, <1>2, <2>4, IpcGoes DEF HudTypes
<1>. QED BY <1>1, <1>2, <1>3 DEF HudTypes

LEMMA GetStatsTyped == ASSUME HudTypes, HUD!GetStats PROVE HudTypes'
<1>1. HudFlags'
  BY FlagsKept DEF HUD!GetStats, HudTypes
<1>2. QueueTypes' /\ There' = There
  <2>1. asks' \in [left : Seq(Overlay), kind : HUD!Kind]
    BY DEF HUD!GetStats, HudTypes, QueueTypes, HUD!Kind
  <2>. QED BY <2>1, SpentQueue DEF HUD!GetStats, HudTypes
<1>3. PcTypes'
  BY <1>2, IpcGoes DEF HUD!GetStats, HudTypes, IpcPc
<1>. QED BY <1>1, <1>2, <1>3 DEF HudTypes

LEMMA TailRest ==
    ASSUME NEW S, NEW s \in Seq(S), s # <<>>
    PROVE  /\ Head(s) \in S /\ Tail(s) \in Seq(S)
           /\ Len(s) # 1 => Tail(s) # <<>>
           /\ Len(s) = 1 => Tail(s) = <<>>
<1>. DEFINE n == Len(s)
            m == Len(Tail(s))
<1>1. n \in Nat /\ n # 0
  BY EmptySeq
<1>2. m = n - 1 /\ Tail(s) \in Seq(S) /\ Head(s) \in S
  BY HeadTailProperties
<1>3. Tail(s) = <<>> <=> m = 0
  BY <1>2, EmptySeq
<1>. HIDE DEF n, m
<1>4. m = 0 <=> n = 1
  BY <1>1, <1>2
<1>. QED BY <1>2, <1>3, <1>4 DEF n

\* A thread posts to the next overlay of its emission.
LEMMA PostedLabel ==
    ASSUME NEW cmds, NEW there, NEW thens, NEW p \in Emits(cmds, there, thens)
    PROVE  /\ Head(p.left) \in there /\ p.cmd \in cmds /\ p.then \in thens
           /\ Len(p.left) # 1 =>
                /\ [p EXCEPT !.left = Tail(@)] \in Emits(cmds, there, thens)
                /\ [p EXCEPT !.left = Tail(@)].left = Tail(p.left)
                /\ [p EXCEPT !.left = Tail(@)].cmd = p.cmd
                /\ [p EXCEPT !.left = Tail(@)].then = p.then
<1>1. /\ p \in [at : {"post"}, cmd : cmds, left : Seq(there) \ {<<>>}, then : thens]
      /\ p.left \in Seq(there) /\ p.left # <<>>
  BY DEF Emits
<1>2. Head(p.left) \in there
  BY <1>1, TailRest
<1>3. Len(p.left) # 1 => Tail(p.left) \in Seq(there) \ {<<>>}
  BY <1>1, TailRest
<1>. QED BY <1>1, <1>2, <1>3 DEF Emits

Posted(t) == [to |-> Head(pc[t].left), cmd |-> pc[t].cmd]
AfterPost(t) == IF Len(pc[t].left) = 1 THEN pc[t].then ELSE [pc[t] EXCEPT !.left = Tail(@)]

LEMMA PostingThread ==
    ASSUME PcTypes, NEW t \in HUD!Thread, pc[t].at = "post"
    PROVE  \/ t = "sub" /\ pc[t] \in Emits(ActiveCmd, There, {HUD!Idle, Status})
           \/ t = "dog" /\ pc[t] \in Emits(ActiveCmd, There, {HUD!Idle})
           \/ t = "dealer" /\ pc[t] \in Emits(UserCmd, There, {HUD!Idle})
           \/ t = "ipc" /\ pc[t] \in Emits(UserCmd, There, {HUD!Idle, [at |-> "ask"]})
           \/ t = "ipc" /\ pc[t] \in Emits(RequestCmd, There, {[at |-> "wait"]})
BY SubAt, DogAt, IpcAt, DealerAt DEF PcTypes, HUD!Thread

LEMMA PostedIs ==
    ASSUME NEW cmds \in SUBSET Commands, NEW thens, NEW t,
           pc[t] \in Emits(cmds, There, thens)
    PROVE  /\ Posted(t) \in [to : There, cmd : Commands]
           /\ AfterPost(t) \in thens \cup Emits(cmds, There, thens)
<1>1. /\ Head(pc[t].left) \in There /\ pc[t].cmd \in cmds /\ pc[t].then \in thens
      /\ Len(pc[t].left) # 1 => [pc[t] EXCEPT !.left = Tail(@)] \in Emits(cmds, There, thens)
  BY PostedLabel
<1>2. AfterPost(t) \in thens \cup Emits(cmds, There, thens)
  BY <1>1 DEF AfterPost
<1>3. Posted(t) \in [to : There, cmd : Commands]
  BY <1>1 DEF Posted
<1>. QED BY <1>2, <1>3

LEMMA PostTyped == ASSUME HudTypes, NEW t \in HUD!Thread, HUD!Post(t) PROVE HudTypes'
<1>0. /\ PcTypes /\ pc[t].at = "post" /\ events' = Append(events, Posted(t))
      /\ HUD!Goto(t, AfterPost(t))
  BY DEF HUD!Post, HudTypes, Posted, AfterPost
<1>1. HudFlags'
  BY FlagsKept DEF HUD!Post, HUD!asking, HudTypes
<1>2. There' = There
  BY DEF HUD!Post, There
<1>3. PcTypes' /\ Posted(t) \in [to : There, cmd : Commands]
  <2>0. {ActiveCmd, UserCmd, RequestCmd} \subseteq SUBSET Commands
    BY DEF Commands
  <2>1. CASE t = "sub" /\ pc[t] \in Emits(ActiveCmd, There, {HUD!Idle, Status})
    <3>1. /\ Posted(t) \in [to : There, cmd : Commands]
          /\ AfterPost(t) \in {HUD!Idle, Status} \cup Emits(ActiveCmd, There, {HUD!Idle, Status})
      BY <2>0, <2>1, PostedIs
    <3>. QED BY <1>0, <1>2, <2>1, <3>1, SubGoes DEF SubPc
  <2>2. CASE t = "dog" /\ pc[t] \in Emits(ActiveCmd, There, {HUD!Idle})
    <3>1. /\ Posted(t) \in [to : There, cmd : Commands]
          /\ AfterPost(t) \in {HUD!Idle} \cup Emits(ActiveCmd, There, {HUD!Idle})
      BY <2>0, <2>2, PostedIs
    <3>. QED BY <1>0, <1>2, <2>2, <3>1, DogGoes DEF DogPc
  <2>3. CASE t = "dealer" /\ pc[t] \in Emits(UserCmd, There, {HUD!Idle})
    <3>1. /\ Posted(t) \in [to : There, cmd : Commands]
          /\ AfterPost(t) \in {HUD!Idle} \cup Emits(UserCmd, There, {HUD!Idle})
      BY <2>0, <2>3, PostedIs
    <3>. QED BY <1>0, <1>2, <2>3, <3>1, DealerGoes DEF DealerPc
  <2>4. CASE t = "ipc" /\ pc[t] \in Emits(UserCmd, There, {HUD!Idle, [at |-> "ask"]})
    <3>1. /\ Posted(t) \in [to : There, cmd : Commands]
          /\ AfterPost(t) \in {HUD!Idle, [at |-> "ask"]}
                              \cup Emits(UserCmd, There, {HUD!Idle, [at |-> "ask"]})
      BY <2>0, <2>4, PostedIs
    <3>. QED BY <1>0, <1>2, <2>4, <3>1, IpcGoes DEF IpcPc
  <2>5. CASE t = "ipc" /\ pc[t] \in Emits(RequestCmd, There, {[at |-> "wait"]})
    <3>1. /\ Posted(t) \in [to : There, cmd : Commands]
          /\ AfterPost(t) \in {[at |-> "wait"]} \cup Emits(RequestCmd, There, {[at |-> "wait"]})
      BY <2>0, <2>5, PostedIs
    <3>. QED BY <1>0, <1>2, <2>5, <3>1, IpcGoes DEF IpcPc
  <2>. QED BY <1>0, <2>1, <2>2, <2>3, <2>4, <2>5, PostingThread
<1>4. QueueTypes'
  <2>1. events' \in Seq([to : There, cmd : Commands])
    BY <1>0, <1>3 DEF HudTypes, QueueTypes, Commands
  <2>. QED BY <1>2, <2>1 DEF HudTypes, QueueTypes, Commands, HUD!Post, HUD!asking
<1>. QED BY <1>1, <1>3, <1>4 DEF HudTypes

LEMMA RequestTyped ==
    ASSUME HudTypes, asks.left # <<>>, HUD!Request
    PROVE  HudTypes'
<1>0. asks \in [left : Seq(Overlay), kind : HUD!Kind]
  BY DEF HudTypes, QueueTypes
<1>1. HudFlags'
  <2>1. behind' \in BOOLEAN
    BY Zenon DEF HUD!Request
  <2>. QED BY <2>1 DEF HUD!Request, HudTypes, HudFlags, HUD!dog
<1>2. QueueTypes' /\ There' = There
  <2>1. slot' \in [data : [of : Overlay \cup {Everyone}, kind : HUD!Kind], woken : BOOLEAN]
    BY DEF HUD!Request, HUD!NoAnswer, HUD!Kind
  <2>. QED BY <2>1 DEF HudTypes, QueueTypes, HUD!Request, There
<1>3. PcTypes'
  <2>. DEFINE p == HUD!Emitting("request", Head(asks.left), asks.kind, [at |-> "wait"])
  <2>1. [name |-> "request", for |-> Head(asks.left), value |-> asks.kind] \in RequestCmd
    BY <1>0 DEF RequestCmd
  <2>2. p \in Emits(RequestCmd, There, {[at |-> "wait"]})
    BY <2>1, EmittingIs DEF HudTypes
  <2>3. HUD!Goto("ipc", p)
    BY DEF HUD!Request
  <2>. HIDE DEF p
  <2>. QED BY <1>2, <2>2, <2>3, IpcGoes DEF HudTypes, IpcPc
<1>. QED BY <1>1, <1>2, <1>3 DEF HudTypes

LEMMA AsksShrink ==
    ASSUME QueueTypes, asks.left # <<>>
    PROVE  /\ [asks EXCEPT !.left = Tail(@)] \in [left : Seq(Overlay), kind : HUD!Kind]
           /\ [asks EXCEPT !.left = <<>>] \in [left : Seq(Overlay), kind : HUD!Kind]
           /\ [asks EXCEPT !.left = Tail(@)].left = Tail(asks.left)
           /\ [asks EXCEPT !.left = Tail(@)].kind = asks.kind
           /\ Len(asks.left) # 1 => Tail(asks.left) # <<>>
<1>1. asks \in [left : Seq(Overlay), kind : HUD!Kind]
  BY DEF QueueTypes
<1>2. Tail(asks.left) \in Seq(Overlay) /\ <<>> \in Seq(Overlay)
  BY <1>1
<1>3. Len(asks.left) # 1 => Tail(asks.left) # <<>>
  <2>1. asks.left \in Seq(Overlay)
    BY <1>1
  <2>. QED BY <2>1, TailRest
<1>. QED BY <1>1, <1>2, <1>3

LEMMA AnsweredTyped ==
    ASSUME HudTypes, asks.left # <<>>, HUD!Answered
    PROVE  HudTypes'
<1>1. HudFlags'
  BY FlagsKept DEF HUD!Answered, HudTypes
<1>2. asks' \in [left : Seq(Overlay), kind : HUD!Kind]
  BY AsksShrink DEF HUD!Answered, HUD!AskNext, HudTypes
<1>3. QueueTypes' /\ There' = There
  BY <1>2 DEF HudTypes, QueueTypes, HUD!Answered, There
<1>4. PcTypes'
  <2>1. HUD!Goto("ipc", HUD!Idle) \/ HUD!Goto("ipc", [at |-> "ask"])
    BY DEF HUD!Answered, HUD!AskNext
  <2>. QED BY <1>3, <2>1, IpcGoes DEF HudTypes, IpcPc
<1>. QED BY <1>1, <1>3, <1>4 DEF HudTypes

LEMMA TimeoutTyped ==
    ASSUME HudTypes, asks.left # <<>>, HUD!Timeout
    PROVE  HudTypes'
<1>1. HudFlags'
  BY DEF HUD!Timeout, HudTypes, HudFlags, HUD!dog
<1>2. asks' \in [left : Seq(Overlay), kind : HUD!Kind]
  BY AsksShrink DEF HUD!Timeout, HUD!AskNext, HudTypes
<1>3. QueueTypes' /\ There' = There
  BY <1>2 DEF HudTypes, QueueTypes, HUD!Timeout, There
<1>4. PcTypes'
  <2>1. HUD!Goto("ipc", HUD!Idle) \/ HUD!Goto("ipc", [at |-> "ask"])
    BY DEF HUD!Timeout, HUD!AskNext
  <2>. QED BY <1>3, <2>1, IpcGoes DEF HudTypes, IpcPc
<1>. QED BY <1>1, <1>3, <1>4 DEF HudTypes

-----------------------------------------------------------------------------
(* The GUI thread.                                                         *)

\* What a command makes of an overlay it is for.
Handled(w, cmd) ==
    CASE cmd.name = "lock"   -> HUD!SetLockedState(w, cmd.value)
      [] cmd.name = "toggle" -> HUD!ToggleVisibility(w)
      [] cmd.name = "active" -> HUD!SetTelemetryActive(w, cmd.value)
      [] cmd.name = "show"   -> HUD!Shown(w)

Reasonable(w) ==
    (w.visible /\ ~w.fading) \/ w.userHidden \/ (w.locked /\ ~w.active)

LEMMA ShownWindow ==
    ASSUME NEW w \in Window
    PROVE  /\ HUD!Shown(w) \in Window /\ Reasonable(HUD!Shown(w))
           /\ HUD!Shown(w).active = w.active
BY DEF HUD!Shown, Window, Reasonable

LEMMA HiddenWindow ==
    ASSUME NEW w \in Window
    PROVE  /\ HUD!Hidden(w) \in Window
           /\ w.userHidden \/ (w.locked /\ ~w.active) => Reasonable(HUD!Hidden(w))
           /\ HUD!Hidden(w).active = w.active
BY DEF HUD!Hidden, Window, Reasonable

LEMMA LockedWindow ==
    ASSUME NEW w \in Window, NEW v \in BOOLEAN
    PROVE  /\ HUD!SetLockedState(w, v) \in Window
           /\ HUD!SetLockedState(w, v).active = w.active
           /\ Reasonable(w) => Reasonable(HUD!SetLockedState(w, v))
<1>. DEFINE l == [w EXCEPT !.locked = v]
<1>1. /\ l \in Window /\ l.locked = v /\ l.visible = w.visible /\ l.fading = w.fading
      /\ l.active = w.active /\ l.userHidden = w.userHidden
  BY DEF Window
<1>2. HUD!SetLockedState(w, v) =
         IF ~v THEN HUD!Shown(l) ELSE IF ~w.active THEN HUD!Hidden(l) ELSE l
  BY DEF HUD!SetLockedState
<1>. HIDE DEF l
<1>3. CASE ~v
  BY <1>1, <1>2, <1>3, ShownWindow
<1>4. CASE v /\ ~w.active
  BY <1>1, <1>2, <1>4, HiddenWindow
<1>5. CASE v /\ w.active
  <2>1. HUD!SetLockedState(w, v) = l
    BY <1>2, <1>5
  <2>. QED BY <1>1, <1>5, <2>1 DEF Reasonable
<1>. QED BY <1>3, <1>4, <1>5

LEMMA ToggledWindow ==
    ASSUME NEW w \in Window
    PROVE  /\ HUD!ToggleVisibility(w) \in Window
           /\ HUD!ToggleVisibility(w).active = w.active
           /\ Reasonable(HUD!ToggleVisibility(w))
<1>. DEFINE hide == [w EXCEPT !.userHidden = TRUE]
            show == [w EXCEPT !.userHidden = FALSE]
<1>1. /\ hide \in Window /\ hide.userHidden /\ hide.active = w.active
      /\ show \in Window /\ show.active = w.active
  BY DEF Window
<1>2. HUD!ToggleVisibility(w) = IF w.visible THEN HUD!Hidden(hide) ELSE HUD!Shown(show)
  BY DEF HUD!ToggleVisibility
<1>. HIDE DEF hide, show
<1>. QED BY <1>1, <1>2, ShownWindow, HiddenWindow

LEMMA ActiveWindow ==
    ASSUME NEW w \in Window, NEW v \in BOOLEAN
    PROVE  /\ HUD!SetTelemetryActive(w, v) \in Window
           /\ HUD!SetTelemetryActive(w, v).active = v
           /\ Reasonable(w) => Reasonable(HUD!SetTelemetryActive(w, v))
<1>. DEFINE a == [w EXCEPT !.active = v]
<1>1. /\ a \in Window /\ a.active = v /\ a.visible = w.visible /\ a.fading = w.fading
      /\ a.locked = w.locked /\ a.userHidden = w.userHidden
  BY DEF Window
<1>2. HUD!SetTelemetryActive(w, v) =
         IF w.active = v \/ ~w.locked THEN a
         ELSE IF ~v THEN HUD!Hidden(a)
         ELSE IF ~w.userHidden THEN HUD!Shown(a) ELSE a
  BY DEF HUD!SetTelemetryActive
<1>. HIDE DEF a
<1>3. CASE w.active = v \/ ~w.locked
  <2>1. HUD!SetTelemetryActive(w, v) = a
    BY <1>2, <1>3
  <2>. QED BY <1>1, <1>3, <2>1 DEF Reasonable
<1>4. CASE ~(w.active = v \/ ~w.locked) /\ ~v
  BY <1>1, <1>2, <1>4, HiddenWindow
<1>5. CASE ~(w.active = v \/ ~w.locked) /\ v /\ ~w.userHidden
  BY <1>1, <1>2, <1>5, ShownWindow
<1>6. CASE ~(w.active = v \/ ~w.locked) /\ v /\ w.userHidden
  <2>1. HUD!SetTelemetryActive(w, v) = a
    BY <1>2, <1>6
  <2>. QED BY <1>1, <1>6, <2>1 DEF Reasonable
<1>. QED BY <1>3, <1>4, <1>5, <1>6

\* Every command hides for a reason only, and only one changes what is active.
LEMMA HandledWindow ==
    ASSUME NEW w \in Window, NEW cmd \in ActiveCmd \cup UserCmd
    PROVE  /\ Handled(w, cmd) \in Window
           /\ Reasonable(w) => Reasonable(Handled(w, cmd))
           /\ Handled(w, cmd).active = IF cmd.name = "active" THEN cmd.value ELSE w.active
<1>0. cmd.name \in {"lock", "toggle", "active", "show"} /\ cmd.value \in BOOLEAN
  BY DEF ActiveCmd, UserCmd
<1>1. CASE cmd.name = "lock"
  <2>1. Handled(w, cmd) = HUD!SetLockedState(w, cmd.value)
    BY <1>1 DEF Handled
  <2>. QED BY <1>0, <1>1, <2>1, LockedWindow
<1>2. CASE cmd.name = "toggle"
  <2>1. Handled(w, cmd) = HUD!ToggleVisibility(w)
    BY <1>2 DEF Handled
  <2>. QED BY <1>2, <2>1, ToggledWindow
<1>3. CASE cmd.name = "active"
  <2>1. Handled(w, cmd) = HUD!SetTelemetryActive(w, cmd.value)
    BY <1>3 DEF Handled
  <2>. QED BY <1>0, <1>3, <2>1, ActiveWindow
<1>4. CASE cmd.name = "show"
  <2>1. Handled(w, cmd) = HUD!Shown(w)
    BY <1>4 DEF Handled
  <2>. QED BY <1>4, <2>1, ShownWindow
<1>. QED BY <1>0, <1>1, <1>2, <1>3, <1>4

\* The event in front.
Front == events[1]

LEMMA FrontEvent ==
    ASSUME QueueTypes, events # <<>>
    PROVE  /\ Front \in [to : There, cmd : Commands] /\ Front = Head(events)
           /\ Front.to \in There /\ Front.cmd \in Commands /\ 1 \in DOMAIN events
           /\ window[Front.to] \in Window
           /\ Tail(events) \in Seq([to : There, cmd : Commands])
<1>. DEFINE T == [to : There, cmd : Commands]
<1>1. events \in Seq(T) /\ window \in [There -> Window]
  BY DEF QueueTypes, Commands
<1>2. \A e \in T : e.to \in There /\ e.cmd \in Commands
  OBVIOUS
<1>. HIDE DEF T
<1>3. Head(events) \in T /\ Tail(events) \in Seq(T)
  BY <1>1, TailRest
<1>4. Len(events) \in Nat /\ Len(events) # 0 /\ DOMAIN events = 1..Len(events)
  BY <1>1, EmptySeq
<1>5. 1 \in DOMAIN events /\ Head(events) = events[1]
  BY <1>4
<1>6. Front = Head(events) /\ Front \in T
  BY <1>3, <1>5 DEF Front
<1>7. Front.to \in There /\ Front.cmd \in Commands
  BY <1>2, <1>6
<1>. QED BY <1>1, <1>3, <1>5, <1>6, <1>7 DEF T

LEMMA HandleCmdIs ==
    ASSUME HudTypes, HUD!HandleCmd
    PROVE  /\ events # <<>> /\ events' = Tail(events) /\ Front.cmd \in ActiveCmd \cup UserCmd
           /\ Front.cmd.name # "request"
           /\ window' = IF Front.cmd.for \in {Everyone, Front.to}
                        THEN [window EXCEPT ![Front.to] = Handled(window[Front.to], Front.cmd)]
                        ELSE window
           /\ UNCHANGED <<cfg, scope, HUD!dog, pc, HUD!asking>>
<1>1. events # <<>> /\ events' = Tail(events) /\ UNCHANGED <<cfg, scope, HUD!dog, pc, HUD!asking>>
  BY DEF HUD!HandleCmd
<1>2. Front = Head(events) /\ Front.cmd \in Commands
  BY <1>1, FrontEvent DEF HudTypes
<1>3. Front.cmd.name # "request"
  BY <1>2 DEF HUD!HandleCmd
<1>4. Front.cmd \in ActiveCmd \cup UserCmd
  BY <1>2, <1>3 DEF Commands, RequestCmd
<1>5. window' = IF Front.cmd.for \in {Everyone, Front.to}
                THEN [window EXCEPT ![Front.to] = Handled(window[Front.to], Front.cmd)]
                ELSE window
  <2>1. HUD!For(Front) <=> Front.cmd.for \in {Everyone, Front.to}
    BY DEF HUD!For
  <2>2. window' = IF ~HUD!For(Front) THEN window
                  ELSE [window EXCEPT ![Front.to] = Handled(window[Front.to], Front.cmd)]
    BY <1>2 DEF HUD!HandleCmd, Handled
  <2>. QED BY <2>1, <2>2, Zenon
<1>. QED BY <1>1, <1>3, <1>4, <1>5

LEMMA HandleCmdTyped == ASSUME HudTypes, HUD!HandleCmd PROVE HudTypes'
<1>1. HudFlags'
  BY HandleCmdIs DEF HudTypes, HudFlags, HUD!dog, HUD!asking
<1>2. window' \in [There -> Window]
  <2>1. window \in [There -> Window]
    BY DEF HudTypes, QueueTypes
  <2>2. Handled(window[Front.to], Front.cmd) \in Window
    BY HandleCmdIs, FrontEvent, HandledWindow DEF HudTypes
  <2>. QED BY <2>1, <2>2, HandleCmdIs
<1>3. QueueTypes' /\ There' = There
  <2>1. scope' = scope /\ There' = There /\ asks' = asks /\ slot' = slot
    BY HandleCmdIs DEF There, HUD!asking
  <2>2. events' \in Seq([to : There, cmd : Commands])
    BY HandleCmdIs, FrontEvent DEF HudTypes
  <2>. QED BY <1>2, <2>1, <2>2 DEF HudTypes, QueueTypes, Commands
<1>4. PcTypes'
  BY <1>3, HandleCmdIs, PcKept DEF HudTypes
<1>. QED BY <1>1, <1>3, <1>4 DEF HudTypes

LEMMA HandleRequestIs ==
    ASSUME HudTypes, HUD!HandleRequest
    PROVE  /\ events # <<>> /\ events' = Tail(events) /\ Front.cmd \in RequestCmd
           /\ \/ ~Own(Front) /\ slot' = slot
              \/ /\ Own(Front) /\ ~Asking(pc["ipc"])
                 /\ slot' = [data |-> [of |-> Front.to, kind |-> Front.cmd.value], woken |-> TRUE]
           /\ UNCHANGED <<cfg, scope, HUD!dog, pc, window, asks, behind, answer>>
<1>1. /\ events # <<>> /\ events' = Tail(events)
      /\ UNCHANGED <<cfg, scope, HUD!dog, pc, window, asks, behind, answer>>
  BY DEF HUD!HandleRequest
<1>2. Front = Head(events) /\ Front.cmd \in Commands
  BY <1>1, FrontEvent DEF HudTypes
<1>3. Front.cmd.name = "request"
  BY <1>2 DEF HUD!HandleRequest
<1>4. Front.cmd \in RequestCmd
  BY <1>2, <1>3 DEF Commands, ActiveCmd, UserCmd
<1>5. HUD!For(Front) <=> Own(Front)
  BY <1>3, <1>4, OverlaysAssumption DEF HUD!For, Own, RequestCmd
<1>6. HUD!MutexHeld <=> Asking(pc["ipc"])
  BY DEF HUD!MutexHeld, Asking
<1>7. IF HUD!For(Front)
      THEN /\ ~HUD!MutexHeld
           /\ slot' = [data |-> [of |-> Front.to, kind |-> Front.cmd.value], woken |-> TRUE]
      ELSE slot' = slot
  BY <1>2 DEF HUD!HandleRequest
<1>. QED BY <1>1, <1>4, <1>5, <1>6, <1>7

LEMMA HandleRequestTyped == ASSUME HudTypes, HUD!HandleRequest PROVE HudTypes'
<1>1. HudFlags'
  BY HandleRequestIs DEF HudTypes, HudFlags, HUD!dog
<1>2. slot' \in [data : [of : Overlay \cup {Everyone}, kind : HUD!Kind], woken : BOOLEAN]
  <2>1. Front.to \in Overlay /\ Front.cmd.value \in HUD!Kind
    BY HandleRequestIs, FrontEvent, ThereIs DEF HudTypes, RequestCmd
  <2>2. CASE slot' = slot
    BY <2>2 DEF HudTypes, QueueTypes
  <2>3. CASE slot' = [data |-> [of |-> Front.to, kind |-> Front.cmd.value], woken |-> TRUE]
    BY <2>1, <2>3
  <2>. QED BY <2>2, <2>3, HandleRequestIs
<1>3. QueueTypes' /\ There' = There
  <2>1. scope' = scope /\ There' = There /\ asks' = asks /\ window' = window
    BY HandleRequestIs DEF There
  <2>2. events' \in Seq([to : There, cmd : Commands])
    BY HandleRequestIs, FrontEvent DEF HudTypes
  <2>. QED BY <1>2, <2>1, <2>2 DEF HudTypes, QueueTypes, Commands
<1>4. PcTypes'
  BY <1>3, HandleRequestIs, PcKept DEF HudTypes
<1>. QED BY <1>1, <1>3, <1>4 DEF HudTypes

LEMMA FadedOutTyped ==
    ASSUME HudTypes, NEW o \in DOMAIN window, HUD!FadedOut(o)
    PROVE  HudTypes'
<1>1. HudFlags'
  BY FlagsKept DEF HUD!FadedOut, HUD!asking, HudTypes
<1>2. QueueTypes' /\ There' = There
  <2>1. window' \in [There -> Window]
    BY DEF HUD!FadedOut, HudTypes, QueueTypes, Window
  <2>2. There' = There
    BY DEF HUD!FadedOut, There
  <2>. QED BY <2>1, <2>2 DEF HUD!FadedOut, HUD!asking, HudTypes, QueueTypes
<1>3. PcTypes'
  BY <1>2, PcKept DEF HUD!FadedOut, HudTypes
<1>. QED BY <1>1, <1>2, <1>3 DEF HudTypes

-----------------------------------------------------------------------------
(* A request is answered by the overlay that was asked.                    *)

LEMMA AppendAt ==
    ASSUME NEW S, NEW q \in Seq(S), NEW e \in S
    PROVE  /\ DOMAIN Append(q, e) = DOMAIN q \cup {Len(q) + 1} /\ Len(q) + 1 \in Nat
           /\ \A i \in DOMAIN q : Append(q, e)[i] = q[i] /\ i \in Nat /\ i < Len(q) + 1
           /\ Append(q, e)[Len(q) + 1] = e
OBVIOUS

LEMMA TailAt ==
    ASSUME NEW S, NEW q \in Seq(S), q # <<>>
    PROVE  /\ 1 \in DOMAIN q /\ Head(q) = q[1]
           /\ \A i \in DOMAIN Tail(q) : /\ i \in Nat /\ i # 0 /\ i + 1 \in DOMAIN q
                                        /\ Tail(q)[i] = q[i + 1]
           /\ \A i \in DOMAIN q : i \in Nat /\ i # 0
           /\ \A i \in DOMAIN q : i # 1 =>
                 i - 1 \in DOMAIN Tail(q) /\ Tail(q)[i - 1] = q[i]
<1>1. Len(q) \in Nat /\ Len(q) # 0 /\ DOMAIN q = 1..Len(q)
  BY EmptySeq
<1>2. /\ Len(Tail(q)) = Len(q) - 1 /\ DOMAIN Tail(q) = 1..(Len(q) - 1)
      /\ \A i \in 1..(Len(q) - 1) : Tail(q)[i] = q[i + 1]
  <2>1. Tail(q) \in Seq(S) /\ Len(Tail(q)) = Len(q) - 1
    BY HeadTailProperties
  <2>2. \A i \in 1..Len(Tail(q)) : Tail(q)[i] = q[i + 1]
    BY HeadTailProperties
  <2>3. DOMAIN Tail(q) = 1..Len(Tail(q))
    BY <2>1
  <2>. QED BY <2>1, <2>2, <2>3
<1>3. Head(q) = q[1]
  BY <1>1
<1>. QED BY <1>1, <1>2, <1>3

\* The queue r has no more answers due than q.
NoMoreDue(q, r) ==
    /\ NoneDue(q) => NoneDue(r)
    /\ OneDue(q) => OneDue(r)
    /\ \A o, kind : DueFrom(q, o, kind) => DueFrom(r, o, kind)
    /\ \A left : Untold(q, left) => Untold(r, left)

LEMMA DueAppend ==
    ASSUME NEW S, NEW q \in Seq(S), NEW e \in S, ~Own(e), NEW r, r = Append(q, e)
    PROVE  NoMoreDue(q, r)
<1>1. \A i \in DOMAIN r : Own(r[i]) => i \in DOMAIN q /\ r[i] = q[i]
  BY AppendAt
<1>2. (NoneDue(q) => NoneDue(r)) /\ (OneDue(q) => OneDue(r))
  BY <1>1, Zenon DEF NoneDue, OneDue
<1>3. \A o, kind : DueFrom(q, o, kind) => DueFrom(r, o, kind)
  BY <1>1, Zenon DEF DueFrom
<1>4. \A left : Untold(q, left) => Untold(r, left)
  BY <1>1, Zenon DEF Untold
<1>. QED BY <1>2, <1>3, <1>4, Zenon DEF NoMoreDue

LEMMA DueTail ==
    ASSUME NEW S, NEW q \in Seq(S), q # <<>>, NEW r, r = Tail(q)
    PROVE  NoMoreDue(q, r) /\ (OneDue(q) /\ Own(q[1]) => NoneDue(r))
<1>1. \A i \in DOMAIN r : i \in Nat /\ i # 0 /\ i + 1 \in DOMAIN q /\ r[i] = q[i + 1]
  BY TailAt
<1>2. 1 \in DOMAIN q
  BY TailAt
<1>3. \A i \in DOMAIN r : \E j \in DOMAIN q : r[i] = q[j]
  BY <1>1
<1>4. OneDue(q) => OneDue(r)
  BY <1>1 DEF OneDue
<1>5. NoneDue(q) => NoneDue(r)
  BY <1>3, Zenon DEF NoneDue
<1>6. ASSUME NEW o, NEW kind, DueFrom(q, o, kind) PROVE DueFrom(r, o, kind)
  <2>. SUFFICES ASSUME NEW i \in DOMAIN r, Own(r[i])
                PROVE  r[i].to = o /\ r[i].cmd.value = kind
    BY DEF DueFrom
  <2>1. PICK j \in DOMAIN q : r[i] = q[j]
    BY <1>3
  <2>. QED BY <1>6, <2>1 DEF DueFrom
<1>7. \A left : Untold(q, left) => Untold(r, left)
  BY <1>3, Zenon DEF Untold
<1>8. OneDue(q) /\ Own(q[1]) => NoneDue(r)
  BY <1>1, <1>2 DEF NoneDue, OneDue
<1>. QED BY <1>4, <1>5, <1>6, <1>7, <1>8, Zenon DEF NoMoreDue

LEMMA DueStays ==
    ASSUME NEW q, NEW r, NoMoreDue(q, r), NEW p, NEW o, NEW kind, NEW s, Due(q, p, o, kind, s)
    PROVE  Due(r, p, o, kind, s)
BY Zenon DEF Due, NoMoreDue

\* Another thread than the IPC server goes on.
LEMMA AskKept ==
    ASSUME AskInv, pc'["ipc"] = pc["ipc"], UNCHANGED <<asks, slot, events, behind, answer>>
    PROVE  AskInv'
BY DEF AskInv, AskedOf, AnswersDue, HUD!AnswerIsOwn

\* An event that no answer is owed to is posted or handled.
LEMMA AskUnowed ==
    ASSUME AskInv, HudTypes, pc'["ipc"] = pc["ipc"], UNCHANGED <<asks, slot, behind, answer>>,
           \/ \E e \in [to : There, cmd : Commands] : events' = Append(events, e) /\ ~Own(e)
           \/ events # <<>> /\ events' = Tail(events)
    PROVE  AskInv'
<1>. DEFINE T == [to : There, cmd : Commands]
<1>1. events \in Seq(T)
  BY DEF HudTypes, QueueTypes, Commands
<1>. HIDE DEF T
<1>2. NoMoreDue(events, events')
  <2>1. CASE \E e \in T : events' = Append(events, e) /\ ~Own(e)
    BY <1>1, <2>1, DueAppend
  <2>2. CASE events # <<>> /\ events' = Tail(events)
    BY <1>1, <2>2, DueTail
  <2>. QED BY <2>1, <2>2 DEF T
<1>3. AskedOf' /\ HUD!AnswerIsOwn'
  BY DEF AskInv, AskedOf, HUD!AnswerIsOwn
<1>4. ASSUME ~behind PROVE AnswersDue'
  BY <1>2, <1>4, DueStays DEF AskInv, AnswersDue
<1>. QED BY <1>3, <1>4 DEF AskInv

\* The server begins a command that is no request.
LEMMA AskFromIdle ==
    ASSUME AskInv, HudTypes, pc["ipc"] = HUD!Idle, UNCHANGED <<events, slot, behind, answer>>,
           \/ pc'["ipc"] = [at |-> "ask"]
           \/ pc'["ipc"].at = "post" /\ pc'["ipc"].cmd.name # "request"
              /\ pc'["ipc"].then \in {HUD!Idle, [at |-> "ask"]},
           asks'.left # <<>> \/ (pc'["ipc"].at = "post" /\ pc'["ipc"].then = HUD!Idle)
    PROVE  AskInv'
<1>1. ~Asking(pc["ipc"]) /\ pc["ipc"].at # "wait"
  BY DEF HUD!Idle, Asking
<1>2. ~Asking(pc'["ipc"]) /\ pc'["ipc"].at # "wait"
  BY DEF Asking
<1>3. AskedOf'
  BY <1>2 DEF AskedOf, HUD!Idle
<1>4. ASSUME ~behind PROVE AnswersDue'
  <2>1. NoneDue(events)
    BY <1>1, <1>4 DEF AskInv, AnswersDue, Due
  <2>. QED BY <1>2, <2>1 DEF AnswersDue, Due
<1>. QED BY <1>3, <1>4 DEF AskInv, HUD!AnswerIsOwn

LEMMA CommandAsk ==
    ASSUME AskInv, HudTypes, NEW name \in {"toggle", "show"}, HUD!Command(name)
    PROVE  AskInv'
<1>1. pc'["ipc"] = HUD!Emitting(name, Everyone, TRUE, HUD!Idle) /\ There' = There
  BY IpcGoes, SpentQueue DEF HudTypes, HUD!Command, HUD!asking, QueueTypes
<1>2. /\ pc'["ipc"].at = "post" /\ pc'["ipc"].cmd.name # "request"
      /\ pc'["ipc"].then = HUD!Idle
  BY <1>1 DEF HUD!Emitting
<1>. QED BY <1>2, AskFromIdle DEF HUD!Command, HUD!asking

LEMMA LockAsk == ASSUME AskInv, HudTypes, HUD!LockWidgets PROVE AskInv'
<1>1. PICK locked \in BOOLEAN :
         /\ HUD!Goto("ipc", HUD!Emitting("lock", Everyone, locked,
                                         IF locked THEN [at |-> "ask"] ELSE HUD!Idle))
         /\ asks' = IF locked THEN [left |-> scope.overlays, kind |-> "info"] ELSE asks
  BY DEF HUD!LockWidgets
<1>2. There' = There
  BY SpendKeeps DEF HUD!LockWidgets, HudTypes
<1>3. pc'["ipc"] = HUD!Emitting("lock", Everyone, locked,
                                IF locked THEN [at |-> "ask"] ELSE HUD!Idle)
  BY <1>1, <1>2, IpcGoes DEF HudTypes
<1>4. /\ pc'["ipc"].at = "post" /\ pc'["ipc"].cmd.name # "request"
      /\ pc'["ipc"].then = IF locked THEN [at |-> "ask"] ELSE HUD!Idle
  BY <1>3 DEF HUD!Emitting
<1>5. locked => asks'.left = scope.overlays /\ scope.overlays # <<>>
  BY <1>1, ThereIs DEF HudTypes
<1>. QED BY <1>4, <1>5, AskFromIdle DEF HUD!LockWidgets

LEMMA StatsAsk == ASSUME AskInv, HudTypes, HUD!GetStats PROVE AskInv'
<1>1. There' = There
  BY SpendKeeps DEF HUD!GetStats, HudTypes
<1>2. pc'["ipc"] = [at |-> "ask"]
  BY <1>1, IpcGoes DEF HUD!GetStats, HudTypes
<1>3. asks'.left = scope.overlays /\ scope.overlays # <<>>
  BY ThereIs DEF HudTypes, HUD!GetStats
<1>. QED BY <1>2, <1>3, AskFromIdle DEF HUD!GetStats

LEMMA RequestAsk ==
    ASSUME AskInv, HudTypes, Once(scope.overlays), HUD!Request
    PROVE  AskInv'
<1>1. pc["ipc"].at = "ask" /\ asks.left # <<>>
  BY DEF HUD!Request, AskInv, AskedOf
<1>2. pc'["ipc"] = HUD!Emitting("request", Head(asks.left), asks.kind, [at |-> "wait"])
  BY IpcGoes DEF HUD!Request, HudTypes, There
<1>3. /\ pc'["ipc"].at = "post" /\ pc'["ipc"].left = scope.overlays
      /\ pc'["ipc"].then.at = "wait"
      /\ pc'["ipc"].cmd.name = "request" /\ pc'["ipc"].cmd.for = Head(asks.left)
      /\ pc'["ipc"].cmd.value = asks.kind
  BY <1>2 DEF HUD!Emitting
<1>4. ~slot'.woken /\ asks' = asks /\ events' = events /\ answer' = answer
  BY DEF HUD!Request
<1>5. AskedOf'
  <2>. DEFINE p == pc'["ipc"]
  <2>1. /\ p.at = "post" /\ p.left = scope.overlays /\ p.then.at = "wait"
        /\ p.cmd.for = Head(asks.left) /\ p.cmd.value = asks.kind
    BY <1>3
  <2>. HIDE DEF p
  <2>2. Once(p.left)
    BY <2>1
  <2>. QED BY <1>1, <1>4, <2>1, <2>2 DEF AskedOf, p
<1>6. ASSUME ~behind' PROVE AnswersDue'
  <2>1. NoneDue(events)
    <3>1. CASE ~behind
      BY <1>1, <3>1 DEF AskInv, AnswersDue, Due, Asking
    <3>2. CASE behind
      BY <1>6, <3>2 DEF HUD!Request, NoneDue, Own
    <3>. QED BY <3>1, <3>2
  <2>2. /\ NoneDue(events') /\ OneDue(events') /\ Untold(events', pc'["ipc"].left)
        /\ DueFrom(events', Head(asks'.left), asks'.kind)
    BY <1>4, <2>1 DEF NoneDue, OneDue, Untold, DueFrom
  <2>. QED BY <1>3, <1>4, <2>2 DEF AnswersDue, Due
<1>. QED BY <1>4, <1>5, <1>6 DEF AskInv, HUD!AnswerIsOwn

\* The server has an answer or gives up, and goes on.
LEMMA AskOn ==
    ASSUME AskInv, HudTypes, pc["ipc"].at = "wait", UNCHANGED <<events, slot>>,
           HUD!AskNext \/ (HUD!Goto("ipc", HUD!Idle) /\ asks' = [asks EXCEPT !.left = <<>>]),
           There' = There
    PROVE  AskedOf' /\ pc'["ipc"].at # "wait" /\ ~Asking(pc'["ipc"])
<1>1. asks.left # <<>>
  BY DEF AskInv, AskedOf
<1>2. CASE pc'["ipc"] = HUD!Idle
  BY <1>2 DEF AskedOf, Asking, HUD!Idle
<1>3. CASE pc'["ipc"] = [at |-> "ask"] /\ asks'.left # <<>>
  BY <1>3 DEF AskedOf, Asking
<1>4. pc'["ipc"] = HUD!Idle \/ (pc'["ipc"] = [at |-> "ask"] /\ asks'.left # <<>>)
  BY <1>1, AsksShrink, IpcGoes DEF HUD!AskNext, HudTypes
<1>. QED BY <1>2, <1>3, <1>4

LEMMA AnsweredAsk == ASSUME AskInv, HudTypes, HUD!Answered PROVE AskInv'
<1>1. /\ pc["ipc"].at = "wait" /\ slot.woken /\ UNCHANGED <<events, slot, behind>>
      /\ answer' = [to |-> [of |-> Head(asks.left), kind |-> asks.kind], got |-> slot.data,
                    behind |-> behind]
  BY DEF HUD!Answered
<1>2. There' = There
  BY DEF HUD!Answered, There
<1>3. AskedOf' /\ pc'["ipc"].at # "wait" /\ ~Asking(pc'["ipc"])
  BY <1>1, <1>2, AskOn DEF HUD!Answered
<1>4. ASSUME ~behind
      PROVE  /\ NoneDue(events) /\ slot.data.of = Head(asks.left)
             /\ slot.data.kind = asks.kind
  BY <1>1, <1>4 DEF AskInv, AnswersDue, Due
<1>5. ~behind' => AnswersDue'
  BY <1>1, <1>3, <1>4 DEF AnswersDue, Due
<1>6. HUD!AnswerIsOwn'
  <2>1. CASE behind
    BY <1>1, <2>1 DEF HUD!AnswerIsOwn
  <2>2. CASE ~behind
    <3>1. slot.data \in [of : Overlay \cup {Everyone}, kind : HUD!Kind]
      BY DEF HudTypes, QueueTypes
    <3>2. slot.data = [of |-> Head(asks.left), kind |-> asks.kind]
      BY <1>4, <2>2, <3>1
    <3>. QED BY <1>1, <3>2 DEF HUD!AnswerIsOwn
  <2>. QED BY <2>1, <2>2
<1>. QED BY <1>3, <1>5, <1>6 DEF AskInv

LEMMA TimeoutAsk == ASSUME AskInv, HudTypes, HUD!Timeout PROVE AskInv'
<1>1. /\ pc["ipc"].at = "wait" /\ behind' /\ answer' = answer /\ UNCHANGED <<events, slot>>
  BY DEF HUD!Timeout
<1>2. There' = There
  BY DEF HUD!Timeout, There
<1>3. AskedOf'
  BY <1>1, <1>2, AskOn DEF HUD!Timeout
<1>. QED BY <1>1, <1>3 DEF AskInv, HUD!AnswerIsOwn

\* The next event of a request is posted.
LEMMA PostRequestAsk ==
    ASSUME AskInv, HudTypes, pc["ipc"] \in Emits(RequestCmd, There, {[at |-> "wait"]}),
           events' = Append(events, Posted("ipc")), HUD!Goto("ipc", AfterPost("ipc")),
           UNCHANGED <<scope, asks, slot, behind, answer>>
    PROVE  AskInv'
<1>. DEFINE p == pc["ipc"]
            T == [to : There, cmd : Commands]
<1>1. /\ p.at = "post" /\ p.cmd \in RequestCmd /\ p.left \in Seq(There) /\ p.left # <<>>
      /\ p.then = [at |-> "wait"]
  BY EmitsAt
<1>2. Asking(p) /\ p.cmd.name = "request"
  BY <1>1 DEF Asking, RequestCmd
<1>3. /\ asks.left # <<>> /\ ~slot.woken /\ Once(p.left)
      /\ p.cmd.for = Head(asks.left) /\ p.cmd.value = asks.kind
  BY <1>1, <1>2 DEF AskInv, AskedOf
<1>4. /\ Head(p.left) = p.left[1] /\ 1 \in DOMAIN p.left /\ Head(p.left) \in There
      /\ \A k \in DOMAIN Tail(p.left) :
            k \in Nat /\ k # 0 /\ k + 1 \in DOMAIN p.left /\ Tail(p.left)[k] = p.left[k + 1]
  BY <1>1, TailAt, TailRest
<1>5. Posted("ipc") = [to |-> p.left[1], cmd |-> p.cmd] /\ Posted("ipc") \in T
  BY <1>1, <1>4 DEF Posted, Commands
<1>6. pc'["ipc"] = AfterPost("ipc")
  BY IpcGoes DEF HudTypes, There
<1>7. \/ Len(p.left) = 1 /\ pc'["ipc"] = [at |-> "wait"]
      \/ /\ Asking(pc'["ipc"]) /\ pc'["ipc"].at = "post" /\ pc'["ipc"].then = [at |-> "wait"]
         /\ pc'["ipc"].cmd = p.cmd /\ pc'["ipc"].left = Tail(p.left)
  <2>1. CASE Len(p.left) = 1
    BY <1>1, <1>6, <2>1 DEF AfterPost
  <2>2. CASE Len(p.left) # 1
    <3>1. pc'["ipc"] = [p EXCEPT !.left = Tail(@)]
      BY <1>6, <2>2 DEF AfterPost
    <3>2. /\ pc'["ipc"] \in Emits(RequestCmd, There, {[at |-> "wait"]})
          /\ pc'["ipc"].left = Tail(p.left) /\ pc'["ipc"].cmd = p.cmd
      BY <2>2, <3>1, PostedLabel
    <3>3. pc'["ipc"].at = "post" /\ pc'["ipc"].then = [at |-> "wait"]
      BY <3>2, EmitsAt
    <3>. QED BY <1>2, <3>2, <3>3 DEF Asking
  <2>. QED BY <2>1, <2>2
<1>8. events \in Seq(T) /\ UNCHANGED <<asks, slot, behind, answer>>
  BY DEF HudTypes, QueueTypes, Commands
<1>. HIDE DEF T
<1>9. Once(Tail(p.left))
  BY <1>3, <1>4 DEF Once
<1>10. AskedOf'
  <2>1. CASE pc'["ipc"] = [at |-> "wait"]
    BY <1>3, <1>8, <2>1 DEF AskedOf, Asking
  <2>2. CASE /\ Asking(pc'["ipc"]) /\ pc'["ipc"].cmd = p.cmd /\ pc'["ipc"].left = Tail(p.left)
    BY <1>3, <1>8, <1>9, <2>2 DEF AskedOf
  <2>. QED BY <1>7, <2>1, <2>2
<1>11. ASSUME ~behind PROVE AnswersDue'
  <2>. DEFINE r == events'
              o == Head(asks.left)
  <2>1. DueFrom(events, o, asks.kind) /\ OneDue(events) /\ Untold(events, p.left)
    BY <1>2, <1>11 DEF AskInv, AnswersDue, Due
  <2>2. /\ \A i \in DOMAIN r : \/ i \in DOMAIN events /\ r[i] = events[i]
                               \/ i = Len(events) + 1 /\ r[i] = Posted("ipc")
    BY <1>5, <1>8, AppendAt
  <2>3. Own(Posted("ipc")) => p.left[1] = o
    BY <1>3, <1>5 DEF Own
  <2>4. Posted("ipc").to = p.left[1] /\ Posted("ipc").cmd.value = asks.kind
    BY <1>3, <1>5
  <2>5. DueFrom(r, o, asks.kind)
    BY <2>1, <2>2, <2>3, <2>4 DEF DueFrom
  <2>6. \A i \in DOMAIN events : Own(events[i]) => events[i].to # p.left[1]
    BY <1>4, <2>1 DEF Untold
  <2>7. \A i \in DOMAIN events : Own(events[i]) => ~Own(Posted("ipc"))
    BY <2>1, <2>3, <2>6 DEF DueFrom
  <2>8. OneDue(r)
    BY <2>1, <2>2, <2>7 DEF OneDue
  <2>9. Untold(r, Tail(p.left))
    <3>. SUFFICES ASSUME NEW i \in DOMAIN r, Own(r[i]), NEW k \in DOMAIN Tail(p.left)
                  PROVE  Tail(p.left)[k] # r[i].to
      BY DEF Untold
    <3>1. CASE i \in DOMAIN events /\ r[i] = events[i]
      BY <1>4, <2>1, <3>1 DEF Untold
    <3>2. CASE r[i] = Posted("ipc")
      BY <1>3, <1>4, <2>4, <3>2 DEF Once
    <3>. QED BY <2>2, <3>1, <3>2
  <2>. HIDE DEF r
  <2>10. CASE pc'["ipc"] = [at |-> "wait"]
    BY <1>3, <1>8, <2>5, <2>8, <2>10 DEF AnswersDue, Due, Asking, r
  <2>11. CASE /\ Asking(pc'["ipc"]) /\ pc'["ipc"].at = "post"
              /\ pc'["ipc"].left = Tail(p.left)
    BY <1>8, <2>5, <2>8, <2>9, <2>11 DEF AnswersDue, Due, r
  <2>. QED BY <1>7, <2>10, <2>11
<1>. QED BY <1>8, <1>10, <1>11 DEF AskInv, HUD!AnswerIsOwn

\* The next event of a command of the server is posted.
LEMMA PostCommandAsk ==
    ASSUME AskInv, HudTypes, pc["ipc"] \in Emits(UserCmd, There, {HUD!Idle, [at |-> "ask"]}),
           events' = Append(events, Posted("ipc")), HUD!Goto("ipc", AfterPost("ipc")),
           UNCHANGED <<scope, asks, slot, behind, answer>>
    PROVE  AskInv'
<1>. DEFINE p == pc["ipc"]
            T == [to : There, cmd : Commands]
<1>1. /\ p.at = "post" /\ p.cmd \in UserCmd /\ p.left \in Seq(There) /\ p.left # <<>>
      /\ p.then \in {HUD!Idle, [at |-> "ask"]}
  BY EmitsAt
<1>2. p.cmd.name # "request" /\ ~Asking(p)
  BY <1>1 DEF Asking, UserCmd
<1>3. Head(p.left) \in There
  BY <1>1, TailRest
<1>4. Posted("ipc") \in T /\ ~Own(Posted("ipc"))
  BY <1>1, <1>2, <1>3 DEF Posted, Commands, Own
<1>5. pc'["ipc"] = AfterPost("ipc")
  BY IpcGoes DEF HudTypes, There
<1>6. \/ pc'["ipc"] = p.then
      \/ /\ pc'["ipc"].at = "post" /\ pc'["ipc"].then = p.then /\ pc'["ipc"].cmd = p.cmd
  <2>1. CASE Len(p.left) = 1
    BY <1>5, <2>1 DEF AfterPost
  <2>2. CASE Len(p.left) # 1
    <3>1. pc'["ipc"] = [p EXCEPT !.left = Tail(@)]
      BY <1>5, <2>2 DEF AfterPost
    <3>2. /\ pc'["ipc"] \in Emits(UserCmd, There, {HUD!Idle, [at |-> "ask"]})
          /\ pc'["ipc"].then = p.then /\ pc'["ipc"].cmd = p.cmd
      BY <2>2, <3>1, PostedLabel
    <3>. QED BY <3>2, EmitsAt
  <2>. QED BY <2>1, <2>2
<1>7. /\ ~Asking(pc'["ipc"]) /\ pc'["ipc"].at # "wait"
      /\ pc'["ipc"].at = "ask" \/ (pc'["ipc"].at = "post" /\ pc'["ipc"].then.at = "ask") =>
            p.then.at = "ask"
  BY <1>1, <1>2, <1>6 DEF Asking, HUD!Idle
<1>8. events \in Seq(T) /\ UNCHANGED <<asks, slot, behind, answer>>
  BY DEF HudTypes, QueueTypes, Commands
<1>. HIDE DEF T
<1>9. p.then.at # "wait" /\ (p.then.at = "ask" => asks.left # <<>>)
  BY <1>1 DEF AskInv, AskedOf, HUD!Idle
<1>10. AskedOf'
  <2>1. pc'["ipc"].at = "post" => pc'["ipc"].then.at # "wait"
    BY <1>1, <1>6, <1>9 DEF HUD!Idle
  <2>. QED BY <1>7, <1>8, <1>9, <2>1 DEF AskedOf
<1>11. ASSUME ~behind PROVE AnswersDue'
  <2>1. NoneDue(events)
    BY <1>1, <1>2, <1>11 DEF AskInv, AnswersDue, Due
  <2>2. NoneDue(events')
    BY <1>4, <1>8, <2>1, DueAppend DEF NoMoreDue
  <2>. QED BY <1>7, <2>2 DEF AnswersDue, Due
<1>. QED BY <1>8, <1>10, <1>11 DEF AskInv, HUD!AnswerIsOwn

LEMMA PostAsk == ASSUME AskInv, HudTypes, NEW t \in HUD!Thread, HUD!Post(t) PROVE AskInv'
<1>1. /\ PcTypes /\ pc[t].at = "post" /\ events' = Append(events, Posted(t))
      /\ HUD!Goto(t, AfterPost(t)) /\ UNCHANGED <<scope, asks, slot, behind, answer>>
  BY DEF HUD!Post, HudTypes, Posted, AfterPost, HUD!asking
<1>2. There' = There
  BY <1>1 DEF There
<1>3. CASE t = "ipc"
  BY <1>1, <1>3, PostingThread, PostRequestAsk, PostCommandAsk
<1>4. CASE t # "ipc"
  <2>1. pc'["ipc"] = pc["ipc"]
    BY <1>1, <1>4 DEF PcTypes, HUD!Goto, HUD!Thread
  <2>2. pc[t].cmd \in ActiveCmd \cup UserCmd /\ Head(pc[t].left) \in There
    BY <1>1, <1>4, PostingThread, PostedLabel
  <2>3. Posted(t) \in [to : There, cmd : Commands] /\ ~Own(Posted(t))
    <3>1. Posted(t).cmd.name # "request"
      BY <2>2 DEF Posted, ActiveCmd, UserCmd
    <3>. QED BY <2>2, <3>1 DEF Posted, Commands, Own
  <2>. QED BY <1>1, <2>1, <2>3, AskUnowed
<1>. QED BY <1>3, <1>4

LEMMA HandleCmdAsk == ASSUME AskInv, HudTypes, HUD!HandleCmd PROVE AskInv'
BY HandleCmdIs, AskUnowed DEF HUD!asking

LEMMA HandleRequestAsk == ASSUME AskInv, HudTypes, HUD!HandleRequest PROVE AskInv'
<1>1. CASE ~Own(Front) /\ slot' = slot
  BY <1>1, HandleRequestIs, AskUnowed
<1>2. CASE /\ Own(Front) /\ ~Asking(pc["ipc"])
           /\ slot' = [data |-> [of |-> Front.to, kind |-> Front.cmd.value], woken |-> TRUE]
  <2>1. AskedOf'
    BY <1>2, HandleRequestIs DEF AskInv, AskedOf
  <2>2. ASSUME ~behind PROVE AnswersDue'
    <3>1. 1 \in DOMAIN events /\ events # <<>> /\ events \in Seq([to : There, cmd : Commands])
      BY HandleRequestIs, FrontEvent DEF HudTypes, QueueTypes, Commands
    <3>2. pc["ipc"].at = "wait"
      BY <1>2, <2>2, <3>1 DEF AskInv, AnswersDue, Due, NoneDue, Front
    <3>3. DueFrom(events, Head(asks.left), asks.kind) /\ OneDue(events)
      BY <2>2, <3>2 DEF AskInv, AnswersDue, Due
    <3>4. Front.to = Head(asks.left) /\ Front.cmd.value = asks.kind
      BY <1>2, <3>1, <3>3 DEF DueFrom, Front
    <3>5. NoMoreDue(events, events') /\ NoneDue(events')
      <4>1. Own(events[1]) /\ events' = Tail(events)
        BY <1>2, HandleRequestIs DEF Front
      <4>. QED BY <3>1, <3>3, <4>1, DueTail
    <3>6. DueFrom(events', Head(asks.left), asks.kind) /\ OneDue(events')
      BY <3>3, <3>5 DEF NoMoreDue
    <3>7. /\ pc' = pc /\ asks' = asks /\ slot'.data.of = Head(asks.left)
          /\ slot'.data.kind = asks.kind
      BY <1>2, <3>4, HandleRequestIs
    <3>. QED BY <1>2, <3>2, <3>5, <3>6, <3>7 DEF AnswersDue, Due
  <2>. QED BY <2>1, <2>2, HandleRequestIs DEF AskInv, HUD!AnswerIsOwn
<1>. QED BY <1>1, <1>2, HandleRequestIs

LEMMA AskStart == ASSUME HUD!Init PROVE AskInv
<1>1. pc["ipc"].at = "idle" /\ events = <<>> /\ HUD!AnswerIsOwn
  BY DEF HUD!Init, HUD!Thread, HUD!Idle, HUD!AnswerIsOwn
<1>. QED BY <1>1 DEF AskInv, AskedOf, AnswersDue, Due, Asking, NoneDue

LEMMA AskStep ==
    ASSUME AskInv, HudTypes, Once(scope.overlays), [HUD!Next]_hudVars
    PROVE  AskInv'
<1>1. CASE \/ HUD!DataStop \/ HUD!Look \/ HUD!Judge \/ HUD!RaceTableUpdate \/ HUD!InMenuStatus
           \/ HUD!ToggleNotification \/ UNCHANGED hudVars
           \/ \E t \in HUD!Thread : HUD!SetLocalOk(t) \/ HUD!UpdateTelemetryActive(t)
           \/ \E o \in DOMAIN window : HUD!FadedOut(o)
  <2>1. UNCHANGED <<asks, slot, events, behind, answer>>
    BY <1>1 DEF HUD!DataStop, HUD!Look, HUD!Judge, HUD!RaceTableUpdate, HUD!InMenuStatus,
       HUD!ToggleNotification, hudVars, HUD!SetLocalOk, HUD!UpdateTelemetryActive, HUD!FadedOut,
       HUD!asking
  <2>2. pc'["ipc"] = pc["ipc"]
    <3>1. CASE \/ HUD!DataStop \/ UNCHANGED hudVars \/ \E o \in DOMAIN window : HUD!FadedOut(o)
      BY <3>1 DEF HUD!DataStop, hudVars, HUD!FadedOut
    <3>2. CASE \/ HUD!Look \/ HUD!Judge \/ HUD!RaceTableUpdate \/ HUD!InMenuStatus
               \/ HUD!ToggleNotification
      BY <3>2 DEF HUD!Look, HUD!Judge, HUD!RaceTableUpdate, HUD!InMenuStatus,
         HUD!ToggleNotification, HUD!Goto, HudTypes, PcTypes, HUD!Thread
    <3>3. ASSUME NEW t \in HUD!Thread, HUD!SetLocalOk(t) \/ HUD!UpdateTelemetryActive(t)
          PROVE  pc'["ipc"] = pc["ipc"]
      <4>1. t # "ipc"
        BY <3>3, SettingThread, UpdatingThread
           DEF HudTypes, HUD!SetLocalOk, HUD!UpdateTelemetryActive
      <4>2. \E p : HUD!Goto(t, p)
        BY <3>3 DEF HUD!SetLocalOk, HUD!UpdateTelemetryActive
      <4>. QED BY <4>1, <4>2 DEF HUD!Goto, HudTypes, PcTypes
    <3>. QED BY <1>1, <3>1, <3>2, <3>3
  <2>. QED BY <2>1, <2>2, AskKept
<1>2. CASE HUD!Command("toggle") \/ HUD!Command("show")
  BY <1>2, CommandAsk
<1>. QED BY <1>1, <1>2, LockAsk, StatsAsk, RequestAsk, AnsweredAsk, TimeoutAsk, HandleCmdAsk,
            HandleRequestAsk, PostAsk DEF HUD!Next

-----------------------------------------------------------------------------
(* The overlays follow the watchdog.                                       *)

LEMMA ComingAppend ==
    ASSUME NEW S, NEW q \in Seq(S), NEW e \in S, NEW r, r = Append(q, e),
           NEW o, NEW was, NEW v,
           \/ ~IsActiveFor(e, o) /\ Coming(q, o, was, v)
           \/ IsActiveFor(e, o) /\ e.cmd.value = v
    PROVE  Coming(r, o, was, v)
<1>1. /\ DOMAIN r = DOMAIN q \cup {Len(q) + 1} /\ Len(q) + 1 \in Nat
      /\ \A i \in DOMAIN q : r[i] = q[i] /\ i \in Nat /\ i < Len(q) + 1
      /\ r[Len(q) + 1] = e
  BY AppendAt
<1>. DEFINE n == Len(q) + 1
<1>2. n \in DOMAIN r /\ r[n] = e /\ n \in Nat /\ \A j \in DOMAIN r : j \in Nat /\ j <= n
  BY <1>1
<1>3. CASE IsActiveFor(e, o) /\ e.cmd.value = v
  BY <1>2, <1>3, Zenon DEF Coming
<1>4. CASE ~IsActiveFor(e, o) /\ Coming(q, o, was, v)
  <2>1. \A j \in DOMAIN r : IsActiveFor(r[j], o) => j \in DOMAIN q /\ r[j] = q[j]
    BY <1>1, <1>4
  <2>2. \A j \in DOMAIN q : j \in DOMAIN r /\ r[j] = q[j]
    BY <1>1
  <2>. QED BY <1>4, <2>1, <2>2, Zenon DEF Coming
<1>. QED BY <1>3, <1>4

LEMMA ComingPosted ==
    ASSUME NEW S, NEW q \in Seq(S), NEW e \in S, NEW o, NEW was, IsActiveFor(e, o)
    PROVE  Coming(Append(q, e), o, was, e.cmd.value)
BY ComingAppend, ZenonT(60)

LEMMA ComingTail ==
    ASSUME NEW S, NEW q \in Seq(S), q # <<>>, NEW r, r = Tail(q),
           NEW o, NEW was, NEW is, NEW v, Coming(q, o, was, v),
           is = IF IsActiveFor(q[1], o) THEN q[1].cmd.value ELSE was
    PROVE  Coming(r, o, is, v)
<1>1. /\ 1 \in DOMAIN q
      /\ \A i \in DOMAIN r : /\ i \in Nat /\ i # 0 /\ i + 1 \in DOMAIN q
                             /\ r[i] = q[i + 1]
      /\ \A i \in DOMAIN q : i \in Nat /\ i # 0
      /\ \A i \in DOMAIN q : i # 1 =>
            i - 1 \in DOMAIN r /\ r[i - 1] = q[i]
  BY TailAt
<1>2. CASE \E i \in DOMAIN q : /\ IsActiveFor(q[i], o) /\ q[i].cmd.value = v
                               /\ \A j \in DOMAIN q : IsActiveFor(q[j], o) => j <= i
  <2>1. PICK i \in DOMAIN q : /\ IsActiveFor(q[i], o) /\ q[i].cmd.value = v
                              /\ \A j \in DOMAIN q : IsActiveFor(q[j], o) => j <= i
    BY <1>2
  <2>2. CASE i = 1
    <3>1. is = v
      BY <2>1, <2>2
    <3>2. \A j \in DOMAIN r : ~IsActiveFor(r[j], o)
      BY <1>1, <2>1, <2>2
    <3>. QED BY <3>1, <3>2 DEF Coming
  <2>3. CASE i # 1
    <3>1. i - 1 \in DOMAIN r /\ r[i - 1] = q[i]
      BY <1>1, <2>3
    <3>2. \A j \in DOMAIN r : IsActiveFor(r[j], o) => j <= i - 1
      BY <1>1, <2>1
    <3>. QED BY <2>1, <3>1, <3>2, Zenon DEF Coming
  <2>. QED BY <2>2, <2>3
<1>3. CASE was = v /\ \A i \in DOMAIN q : ~IsActiveFor(q[i], o)
  <2>1. is = v
    BY <1>1, <1>3
  <2>2. \A i \in DOMAIN r : ~IsActiveFor(r[i], o)
    BY <1>1, <1>3
  <2>. QED BY <2>1, <2>2 DEF Coming
<1>. QED BY <1>2, <1>3 DEF Coming

ActiveUnmoved == \A o \in There : window'[o].active = window[o].active

\* What is posted or handled says nothing of telemetry.
LEMMA ComingStays ==
    ASSUME There' = There, ActiveUnmoved, HudTypes,
           \/ events' = events
           \/ \E e \in [to : There, cmd : Commands] :
                 e.cmd.name # "active" /\ events' = Append(events, e)
           \/ events # <<>> /\ events' = Tail(events) /\ Front.cmd.name # "active",
           NEW o \in There, NEW v, Coming(events, o, window[o].active, v)
    PROVE  Coming(events', o, window'[o].active, v)
<1>. DEFINE T == [to : There, cmd : Commands]
<1>1. events \in Seq(T) /\ window'[o].active = window[o].active
  BY DEF HudTypes, QueueTypes, Commands, ActiveUnmoved
<1>. HIDE DEF T
<1>2. Coming(events', o, window[o].active, v)
  <2>1. CASE events' = events
    BY <2>1
  <2>2. CASE \E e \in T : e.cmd.name # "active" /\ events' = Append(events, e)
    BY <1>1, <2>2, ComingAppend DEF IsActiveFor
  <2>3. CASE events # <<>> /\ events' = Tail(events) /\ Front.cmd.name # "active"
    BY <1>1, <2>3, ComingTail DEF IsActiveFor, Front
  <2>. QED BY <2>1, <2>2, <2>3 DEF T
<1>. QED BY <1>1, <1>2

LEMMA NoNewActive ==
    ASSUME HudTypes,
           \/ events' = events
           \/ \E e \in [to : There, cmd : Commands] :
                 e.cmd.name # "active" /\ events' = Append(events, e)
           \/ events # <<>> /\ events' = Tail(events),
           \A i \in DOMAIN events : events[i].cmd.name # "active"
    PROVE  \A i \in DOMAIN events' : events'[i].cmd.name # "active"
<1>. DEFINE T == [to : There, cmd : Commands]
            r == events'
<1>1. events \in Seq(T)
  BY DEF HudTypes, QueueTypes, Commands
<1>. HIDE DEF T
<1>2. CASE r = events
  BY <1>2
<1>3. CASE \E e \in T : e.cmd.name # "active" /\ r = Append(events, e)
  BY <1>1, <1>3, AppendAt
<1>4. CASE events # <<>> /\ r = Tail(events)
  BY <1>1, <1>4, TailAt
<1>. QED BY <1>2, <1>3, <1>4 DEF T

\* A step of neither the subscriber nor the watchdog that says nothing of telemetry.
LEMMA FollowKept ==
    ASSUME FollowInv, HudTypes, There' = There, ActiveUnmoved,
           pc'["sub"] = pc["sub"], pc'["dog"] = pc["dog"],
           UNCHANGED <<cfg, dogActive, localOk, crossed, inMenu>>,
           \/ events' = events
           \/ \E e \in [to : There, cmd : Commands] :
                 e.cmd.name # "active" /\ events' = Append(events, e)
           \/ events # <<>> /\ events' = Tail(events) /\ Front.cmd.name # "active"
    PROVE  FollowInv'
<1>1. ASSUME inMenu = "unheard" PROVE Unheard'
  <2>1. Unheard
    BY <1>1 DEF FollowInv
  <2>2. \A i \in DOMAIN events' : events'[i].cmd.name # "active"
    BY <2>1, NoNewActive DEF Unheard
  <2>. QED BY <2>1, <2>2 DEF Unheard, ActiveUnmoved, HUD!Calm
<1>2. Settings'
  BY DEF FollowInv, Settings
<1>3. Target' = Target
  BY DEF Target
<1>4. \A o \in There : \A v : Coming(events, o, window[o].active, v) =>
                                 Coming(events', o, window'[o].active, v)
  BY ComingStays
<1>5. \A v : AllTold(events, window, There, v) => AllTold(events', window', There, v)
  BY <1>4 DEF AllTold
<1>6. \A p, v : Tells(p, events, window, There, v) => Tells(p, events', window', There, v)
  BY <1>4 DEF Tells
<1>7. ASSUME ~crossed, inMenu # "unheard" PROVE Uncrossed'
  BY <1>3, <1>5, <1>6, <1>7 DEF FollowInv, Uncrossed, HUD!Calm
<1>. QED BY <1>1, <1>2, <1>7 DEF FollowInv

\* The labels of the subscriber and of the watchdog, and whose turn it is.
LEMMA FollowAt ==
    ASSUME HudTypes
    PROVE  /\ SubPc(pc["sub"], There) /\ DogPc(pc["dog"], There)
           /\ pc["sub"].at = "idle" <=> pc["sub"] = HUD!Idle
           /\ pc["sub"].at = "status" <=> pc["sub"] = Status
           /\ pc["dog"].at = "idle" <=> pc["dog"] = HUD!Idle
           /\ Status # HUD!Idle
           /\ dogActive \in BOOLEAN /\ localOk \in BOOLEAN
<1>1. HUD!Idle.at = "idle" /\ Status.at = "status"
  BY DEF HUD!Idle, Status
<1>2. SubPc(pc["sub"], There) /\ DogPc(pc["dog"], There)
  BY DEF HudTypes, PcTypes
<1>. QED BY <1>1, <1>2, SubAt, DogAt DEF HudTypes, HudFlags

LEMMA LookFollow == ASSUME FollowInv, HudTypes, HUD!Look PROVE FollowInv'
<1>1. There' = There /\ pc["dog"] = HUD!Idle /\ cfg.watched
  BY DEF HUD!Look, There
<1>2. pc'["sub"] = pc["sub"] /\ pc'["dog"].at = "judge"
  BY <1>1, DogGoes DEF HUD!Look, HudTypes
<1>3. /\ UNCHANGED <<cfg, dogActive, localOk, crossed, inMenu, events, window>>
      /\ HUD!Calm /\ HUD!Calm' /\ pc["dog"].at = "idle"
  BY <1>1, <1>2 DEF HUD!Look, HUD!dog, HUD!Calm, HUD!Idle
<1>4. inMenu = "unheard" => Unheard'
  BY <1>1, <1>2, <1>3 DEF FollowInv, Unheard
<1>5. Settings'
  BY <1>1, <1>2, <1>3 DEF FollowInv, Settings
<1>6. ~crossed /\ inMenu # "unheard" => Uncrossed'
  BY <1>1, <1>2, <1>3 DEF FollowInv, Uncrossed, Target
<1>. QED BY <1>3, <1>4, <1>5, <1>6 DEF FollowInv

LEMMA JudgeFollow == ASSUME FollowInv, HudTypes, HUD!Judge PROVE FollowInv'
<1>0. /\ There' = There /\ pc["dog"].at = "judge"
      /\ UNCHANGED <<cfg, localOk, inMenu, events, window>>
  BY DEF HUD!Judge, There
<1>1. pc["dog"] # HUD!Idle /\ cfg.watched /\ HUD!Calm
  BY <1>0 DEF HUD!Idle, FollowInv, Settings, HUD!Calm
<1>2. CASE dogActive /\ pc["dog"].elapsed
  <2>1. /\ dogActive' = FALSE /\ crossed' = (pc["sub"] # HUD!Idle)
        /\ HUD!Goto("dog", [at |-> "set", active |-> FALSE, then |-> HUD!Idle])
    BY <1>2 DEF HUD!Judge
  <2>2. pc'["sub"] = pc["sub"] /\ pc'["dog"].at = "set"
    BY <1>0, <2>1, DogGoes DEF HudTypes
  <2>3. inMenu # "unheard"
    BY <1>2 DEF FollowInv, Unheard
  <2>4. ~HUD!Calm'
    BY <2>2 DEF HUD!Calm
  <2>5. Settings'
    BY <1>0, <1>1, <2>1, <2>2 DEF FollowInv, Settings
  <2>6. ASSUME ~crossed' PROVE Uncrossed'
    <3>0. pc["sub"] = HUD!Idle
      BY <2>1, <2>6, Zenon
    <3>1. pc'["sub"] = HUD!Idle /\ pc'["sub"].at = "idle"
      BY <2>2, <3>0 DEF HUD!Idle
    <3>. QED BY <2>1, <2>2, <2>4, <3>1 DEF Uncrossed
  <2>. QED BY <1>0, <2>3, <2>5, <2>6 DEF FollowInv
<1>3. CASE ~(dogActive /\ pc["dog"].elapsed)
  <2>1. HUD!Goto("dog", HUD!Idle) /\ UNCHANGED <<dogActive, crossed>>
    BY <1>3 DEF HUD!Judge
  <2>2. pc'["sub"] = pc["sub"] /\ pc'["dog"] = HUD!Idle /\ pc'["dog"].at = "idle"
    BY <1>0, <2>1, DogGoes DEF HudTypes, HUD!Idle
  <2>3. HUD!Calm'
    BY <2>2 DEF HUD!Calm
  <2>4. inMenu = "unheard" => Unheard'
    BY <1>0, <2>1, <2>2, <2>3 DEF FollowInv, Unheard
  <2>5. Settings'
    BY <1>0, <1>1, <2>1, <2>2 DEF FollowInv, Settings
  <2>6. ~crossed /\ inMenu # "unheard" => Uncrossed'
    BY <1>0, <1>1, <2>1, <2>2, <2>3 DEF FollowInv, Uncrossed, Target
  <2>. QED BY <1>0, <2>1, <2>4, <2>5, <2>6 DEF FollowInv
<1>. QED BY <1>2, <1>3

\* All overlays take telemetry for active before the first update.
LEMMA UnheardTold ==
    ASSUME Unheard, HudTypes
    PROVE  AllTold(events, window, There, TRUE)
<1>1. \A o \in There : window[o].active = TRUE
  <2>1. \A o \in There : window[o] \in Window
    BY DEF HudTypes, QueueTypes
  <2>. QED BY <2>1 DEF Unheard, Window
<1>2. \A o \in There, i \in DOMAIN events : ~IsActiveFor(events[i], o)
  BY DEF Unheard, IsActiveFor
<1>. QED BY <1>1, <1>2 DEF AllTold, Coming

LEMMA RaceTableFollow == ASSUME FollowInv, HudTypes, HUD!RaceTableUpdate PROVE FollowInv'
<1>1. /\ pc["sub"] = HUD!Idle /\ HUD!Spend("updates") /\ inMenu' \in {"driving", "menu"}
      /\ dogActive' = (dogActive \/ cfg.watched)
      /\ HUD!Goto("sub", FirstStep)
      /\ crossed' = (~HUD!Calm \/ (crossed /\ ~RaceTableKicks))
      /\ UNCHANGED <<cfg, localOk, events, window>>
  BY RaceTableSteps
<1>2. There' = There
  BY <1>1, SpendKeeps DEF HudTypes
<1>3. pc'["sub"] = FirstStep /\ pc'["dog"] = pc["dog"]
  BY <1>1, <1>2, SubGoes DEF HudTypes
<1>4. pc["sub"].at = "idle" /\ (HUD!Calm' <=> HUD!Calm)
  BY <1>1, <1>3 DEF HUD!Idle, HUD!Calm
<1>5. AfterKick = IF cfg.autoHide THEN Status ELSE HUD!Idle
  BY AfterKickIs
<1>6. Status # HUD!Idle /\ Status.at = "status" /\ HUD!Idle.at = "idle"
  BY DEF Status, HUD!Idle
<1>7. CASE RaceTableKicks
  <2>1. /\ pc'["sub"].at = "set" /\ pc'["sub"].then = AfterKick /\ cfg.watched /\ dogActive'
    <3>1. cfg.watched /\ dogActive'
      BY <1>1, <1>7, Zenon DEF RaceTableKicks
    <3>2. pc'["sub"] = [at |-> "set", active |-> TRUE, then |-> AfterKick]
      BY <1>3, <1>7 DEF FirstStep
    <3>. QED BY <3>1, <3>2
  <2>2. Settings'
    BY <1>1, <1>5, <1>6, <2>1 DEF Settings
  <2>3. ASSUME ~crossed' PROVE Uncrossed'
    <3>1. HUD!Calm /\ HUD!Calm'
      BY <1>1, <1>4, <2>3
    <3>2. pc'["sub"] # HUD!Idle /\ pc'["dog"].at # "post"
      BY <1>6, <2>1, <3>1 DEF HUD!Calm
    <3>. QED BY <1>1, <1>5, <1>6, <2>1, <3>1, <3>2 DEF Uncrossed
  <2>. QED BY <1>1, <2>2, <2>3 DEF FollowInv
<1>8. CASE ~RaceTableKicks
  <2>1. pc'["sub"] = AfterKick /\ dogActive' = dogActive /\ (cfg.watched => dogActive)
    BY <1>1, <1>3, <1>8, FollowAt DEF FirstStep, RaceTableKicks
  <2>2. Settings'
    BY <1>1, <1>3, <1>5, <1>6, <2>1 DEF FollowInv, Settings
  <2>3. ASSUME ~crossed' PROVE Uncrossed'
    <3>1. HUD!Calm /\ HUD!Calm' /\ ~crossed
      BY <1>1, <1>4, <1>8, <2>3
    <3>2. localOk = dogActive
      <4>1. CASE inMenu = "unheard"
        BY <4>1, FollowAt DEF FollowInv, Unheard
      <4>2. CASE inMenu # "unheard"
        BY <1>4, <3>1, <4>2 DEF FollowInv, Uncrossed, HUD!Calm
      <4>. QED BY <4>1, <4>2
    <3>3. ASSUME ~cfg.autoHide PROVE AllTold(events', window', There', Target')
      <4>1. Target' = (cfg.watched => dogActive)
        BY <1>1, <2>1, <3>3 DEF Target
      <4>2. CASE inMenu = "unheard"
        <5>1. Target' = TRUE
          BY <2>1, <4>1
        <5>2. AllTold(events, window, There, TRUE)
          BY <4>2, UnheardTold DEF FollowInv
        <5>. QED BY <1>1, <1>2, <5>1, <5>2
      <4>3. CASE inMenu # "unheard"
        <5>1. AllTold(events, window, There, Target)
          BY <1>1, <3>1, <4>3 DEF FollowInv, Uncrossed
        <5>2. Target' = Target
          BY <3>3, <4>1 DEF Target
        <5>. QED BY <1>1, <1>2, <5>1, <5>2
      <4>. QED BY <4>2, <4>3
    <3>4. /\ pc'["sub"].at \in {"idle", "status"} /\ pc'["dog"].at # "post"
          /\ pc'["sub"] = HUD!Idle => ~cfg.autoHide
      BY <1>3, <1>5, <1>6, <2>1, <3>1 DEF HUD!Calm
    <3>. QED BY <1>1, <2>1, <3>1, <3>2, <3>3, <3>4 DEF Uncrossed
  <2>. QED BY <1>1, <2>2, <2>3 DEF FollowInv
<1>. QED BY <1>7, <1>8

LEMMA SetLocalOkFollow ==
    ASSUME FollowInv, HudTypes, NEW t \in HUD!Thread, HUD!SetLocalOk(t)
    PROVE  FollowInv'
<1>0. /\ There' = There /\ pc[t].at = "set" /\ localOk' = pc[t].active
      /\ HUD!Goto(t, [at |-> "update", then |-> pc[t].then])
      /\ UNCHANGED <<cfg, dogActive, crossed, inMenu, events, window>> /\ PcTypes
  BY DEF HUD!SetLocalOk, There, HudTypes
<1>1. CASE t = "sub" /\ pc[t] \in [at : {"set"}, active : {TRUE}, then : {HUD!Idle, Status}]
  <2>1. /\ pc'["sub"].at = "update" /\ pc'["sub"].then = pc["sub"].then
        /\ pc'["dog"] = pc["dog"] /\ pc["sub"].at = "set" /\ localOk' = TRUE
    <3>1. pc'["sub"] = [at |-> "update", then |-> pc["sub"].then] /\ pc'["dog"] = pc["dog"]
      BY <1>0, <1>1, SubGoes
    <3>2. pc["sub"].at = "set" /\ localOk' = TRUE
      BY <1>0, <1>1
    <3>. QED BY <3>1, <3>2
  <2>2. inMenu # "unheard" /\ pc["sub"] # HUD!Idle /\ pc'["sub"] # HUD!Idle
    BY <2>1 DEF FollowInv, Unheard, HUD!Idle
  <2>3. HUD!Calm' <=> HUD!Calm
    BY <2>1 DEF HUD!Calm
  <2>4. Settings'
    <3>1. pc'["sub"] # Status
      BY <2>1 DEF Status
    <3>. QED BY <1>0, <2>1, <3>1 DEF FollowInv, Settings
  <2>5. ASSUME ~crossed PROVE Uncrossed'
    <3>1. HUD!Calm /\ dogActive
      BY <2>1, <2>2, <2>5 DEF FollowInv, Uncrossed
    <3>2. pc["dog"].at # "post"
      BY <3>1 DEF HUD!Calm
    <3>3. localOk' = dogActive'
      BY <1>0, <2>1, <3>1, FollowAt
    <3>4. pc["sub"].then = HUD!Idle => ~(cfg.autoHide /\ inMenu = "menu")
      BY <2>1, <2>2, <2>5 DEF FollowInv, Uncrossed
    <3>. QED BY <1>0, <2>1, <2>2, <2>3, <3>1, <3>2, <3>3, <3>4 DEF Uncrossed
  <2>. QED BY <1>0, <2>2, <2>4, <2>5 DEF FollowInv
<1>2. CASE t = "dog" /\ pc[t] \in [at : {"set"}, active : {FALSE}, then : {HUD!Idle}]
  <2>1. /\ pc'["dog"].at = "update" /\ pc'["dog"].then = HUD!Idle
        /\ pc'["sub"] = pc["sub"] /\ pc["dog"].at = "set" /\ localOk' = FALSE
    <3>1. /\ pc'["dog"] = [at |-> "update", then |-> pc["dog"].then]
          /\ pc'["sub"] = pc["sub"]
      BY <1>0, <1>2, DogGoes
    <3>2. pc["dog"].at = "set" /\ localOk' = FALSE /\ pc["dog"].then = HUD!Idle
      BY <1>0, <1>2
    <3>. QED BY <3>1, <3>2
  <2>2. ~HUD!Calm /\ ~HUD!Calm'
    BY <2>1 DEF HUD!Calm
  <2>3. inMenu # "unheard" /\ pc["dog"] # HUD!Idle
    BY <2>1, <2>2 DEF FollowInv, Unheard, HUD!Idle
  <2>4. Settings'
    BY <1>0, <2>1, <2>3 DEF FollowInv, Settings
  <2>5. ASSUME ~crossed PROVE Uncrossed'
    <3>1. pc["sub"] = HUD!Idle /\ ~dogActive /\ pc["sub"].at = "idle"
      BY <2>2, <2>3, <2>5 DEF FollowInv, Uncrossed, HUD!Idle
    <3>2. localOk' = dogActive'
      BY <1>0, <2>1, <3>1, FollowAt
    <3>. QED BY <1>0, <2>1, <2>2, <3>1, <3>2 DEF Uncrossed
  <2>. QED BY <1>0, <2>3, <2>4, <2>5 DEF FollowInv
<1>. QED BY <1>0, <1>1, <1>2, SettingThread

LEMMA EverythingLeft ==
    ASSUME QueueTypes
    PROVE  \A o \in There : \E k \in DOMAIN scope.overlays : scope.overlays[k] = o
BY DEF There, HUD!ToSet, QueueTypes

\* An emission to everyone that has just begun.
LEMMA TellsAll ==
    ASSUME HudTypes, NEW v, NEW then, NEW p, p = HUD!Emitting("active", Everyone, v, then),
           NEW q, NEW w
    PROVE  /\ p.at = "post" /\ p.then = then /\ p.cmd.name = "active" /\ p # HUD!Idle
           /\ p # Status /\ Tells(p, q, w, There, v)
<1>1. /\ p.at = "post" /\ p.then = then /\ p.cmd.name = "active" /\ p.cmd.value = v
      /\ p.left = scope.overlays
  BY DEF HUD!Emitting
<1>2. p # HUD!Idle /\ p # Status
  BY <1>1 DEF HUD!Idle, Status
<1>. QED BY <1>1, <1>2, EverythingLeft DEF Tells, HudTypes

LEMMA UpdateActiveFollow ==
    ASSUME FollowInv, HudTypes, NEW t \in HUD!Thread, HUD!UpdateTelemetryActive(t)
    PROVE  FollowInv'
<1>. DEFINE v == cfg.watched => localOk
            p == HUD!Emitting("active", Everyone, v, pc[t].then)
<1>0. /\ There' = There /\ pc[t].at = "update" /\ HUD!Goto(t, p)
      /\ UNCHANGED <<cfg, dogActive, localOk, crossed, inMenu, events, window>> /\ PcTypes
  BY DEF HUD!UpdateTelemetryActive, There, HUD!dog, HudTypes
<1>1. /\ p.at = "post" /\ p.then = pc[t].then /\ p # HUD!Idle /\ p # Status
      /\ Tells(p, events', window', There', v)
  BY <1>0, TellsAll
<1>. HIDE DEF p
<1>2. CASE t = "sub" /\ pc[t] \in [at : {"update"}, then : {HUD!Idle, Status}]
  <2>1. pc'["sub"] = p /\ pc'["dog"] = pc["dog"] /\ pc["sub"].at = "update"
    BY <1>0, <1>2, SubGoes
  <2>2. inMenu # "unheard" /\ pc["sub"] # HUD!Idle
    BY <2>1 DEF FollowInv, Unheard, HUD!Idle
  <2>3. Settings'
    BY <1>0, <1>1, <1>2, <2>1 DEF FollowInv, Settings
  <2>4. ASSUME ~crossed PROVE Uncrossed'
    <3>1. HUD!Calm /\ HUD!Calm' /\ pc["dog"].at \notin {"set", "post"}
      BY <2>1, <2>2, <2>4 DEF FollowInv, Uncrossed, HUD!Calm
    <3>2. localOk = dogActive
      BY <2>1, <2>2, <2>4, <3>1 DEF FollowInv, Uncrossed
    <3>3. pc["sub"].then = HUD!Idle => v = Target'
      <4>1. pc["sub"].then = HUD!Idle => ~(cfg.autoHide /\ inMenu = "menu")
        BY <2>1, <2>2, <2>4 DEF FollowInv, Uncrossed
      <4>. QED BY <1>0, <3>2, <4>1 DEF Target
    <3>. HIDE DEF v
    <3>. QED BY <1>0, <1>1, <1>2, <2>1, <3>1, <3>2, <3>3 DEF Uncrossed
  <2>. QED BY <1>0, <2>2, <2>3, <2>4 DEF FollowInv
<1>3. CASE t = "dog" /\ pc[t] \in [at : {"update"}, then : {HUD!Idle}]
  <2>1. pc'["dog"] = p /\ pc'["sub"] = pc["sub"] /\ pc["dog"].at = "update"
    BY <1>0, <1>3, DogGoes
  <2>2. ~HUD!Calm /\ ~HUD!Calm' /\ pc["dog"] # HUD!Idle
    BY <1>1, <2>1 DEF HUD!Calm, HUD!Idle
  <2>3. inMenu # "unheard"
    BY <2>2 DEF FollowInv, Unheard
  <2>4. Settings' /\ cfg.watched
    BY <1>0, <1>1, <2>1, <2>2 DEF FollowInv, Settings
  <2>5. ASSUME ~crossed PROVE Uncrossed'
    <3>1. pc["sub"] = HUD!Idle /\ ~dogActive /\ pc["sub"].at = "idle"
      BY <2>2, <2>3, <2>5 DEF FollowInv, Uncrossed, HUD!Idle
    <3>2. localOk = dogActive
      BY <2>1, <2>3, <2>5, <3>1 DEF FollowInv, Uncrossed
    <3>3. v = Target'
      BY <1>0, <2>4, <3>1, <3>2 DEF Target
    <3>. HIDE DEF v
    <3>. QED BY <1>0, <1>1, <2>1, <2>2, <3>1, <3>2, <3>3 DEF Uncrossed
  <2>. QED BY <1>0, <2>3, <2>4, <2>5 DEF FollowInv
<1>. QED BY <1>0, <1>2, <1>3, UpdatingThread

LEMMA InMenuFollow == ASSUME FollowInv, HudTypes, HUD!InMenuStatus PROVE FollowInv'
<1>0. /\ There' = There /\ pc["sub"].at = "status"
      /\ UNCHANGED <<cfg, dogActive, localOk, crossed, inMenu, events, window>>
  BY DEF HUD!InMenuStatus, There, HUD!dog
<1>1. pc["sub"] = Status /\ pc["sub"] # HUD!Idle
  BY <1>0, FollowAt
<1>2. inMenu # "unheard" /\ cfg.autoHide
  BY <1>1 DEF FollowInv, Unheard, Settings
<1>3. CASE inMenu = "menu"
  <2>. DEFINE p == HUD!Emitting("active", Everyone, FALSE, HUD!Idle)
  <2>1. /\ p.at = "post" /\ p.then = HUD!Idle /\ p # HUD!Idle /\ p # Status
        /\ Tells(p, events', window', There', FALSE)
    <3>1. /\ p.at = "post" /\ p.then = HUD!Idle /\ p.cmd.value = FALSE
          /\ p.left = scope.overlays
      BY DEF HUD!Emitting
    <3>. HIDE DEF p
    <3>2. p # HUD!Idle /\ p # Status
      BY <3>1 DEF HUD!Idle, Status
    <3>3. \A o \in There : \E k \in DOMAIN p.left : p.left[k] = o
      BY <3>1, EverythingLeft DEF HudTypes
    <3>4. Tells(p, events', window', There, FALSE)
      BY <3>1, <3>3, Zenon DEF Tells
    <3>. QED BY <1>0, <3>1, <3>2, <3>4, Zenon
  <2>2. HUD!Goto("sub", p)
    BY <1>3 DEF HUD!InMenuStatus
  <2>. HIDE DEF p
  <2>3. pc'["sub"] = p /\ pc'["dog"] = pc["dog"]
    BY <1>0, <2>2, SubGoes DEF HudTypes
  <2>4. Settings'
    BY <1>0, <1>1, <1>2, <2>1, <2>3 DEF FollowInv, Settings
  <2>5. ASSUME ~crossed PROVE Uncrossed'
    <3>1. HUD!Calm /\ HUD!Calm' /\ pc["dog"].at \notin {"set", "post"}
      BY <1>1, <1>2, <2>3, <2>5 DEF FollowInv, Uncrossed, HUD!Calm
    <3>2. localOk = dogActive
      BY <1>0, <1>2, <2>5, <3>1 DEF FollowInv, Uncrossed
    <3>3. Target' = FALSE
      BY <1>0, <1>2, <1>3 DEF Target
    <3>. QED BY <1>0, <2>1, <2>3, <3>1, <3>2, <3>3 DEF Uncrossed
  <2>. QED BY <1>0, <1>2, <2>4, <2>5 DEF FollowInv
<1>4. CASE inMenu # "menu"
  <2>1. HUD!Goto("sub", [at |-> "update", then |-> HUD!Idle])
    BY <1>4 DEF HUD!InMenuStatus
  <2>2. /\ pc'["sub"] = [at |-> "update", then |-> HUD!Idle] /\ pc'["dog"] = pc["dog"]
        /\ pc'["sub"].at = "update"
    BY <1>0, <2>1, SubGoes DEF HudTypes
  <2>3. pc'["sub"] # HUD!Idle /\ pc'["sub"] # Status /\ pc'["sub"].then = HUD!Idle
        /\ HUD!Idle # Status
    BY <2>2, FollowAt DEF HUD!Idle, Status
  <2>4. Settings'
    BY <1>0, <1>2, <2>2, <2>3 DEF FollowInv, Settings
  <2>5. ASSUME ~crossed PROVE Uncrossed'
    <3>1. HUD!Calm /\ HUD!Calm' /\ pc["dog"].at \notin {"set", "post"}
      BY <1>1, <1>2, <2>2, <2>5 DEF FollowInv, Uncrossed, HUD!Calm
    <3>2. localOk = dogActive
      BY <1>0, <1>2, <2>5, <3>1 DEF FollowInv, Uncrossed
    <3>. QED BY <1>0, <1>4, <2>2, <2>3, <3>1, <3>2 DEF Uncrossed
  <2>. QED BY <1>0, <1>2, <2>4, <2>5 DEF FollowInv
<1>. QED BY <1>3, <1>4

\* What a thread has yet to tell after the next post of its emission.
LEMMA TellsOn ==
    ASSUME HudTypes, NEW thens, NEW p \in Emits(ActiveCmd, There, thens), NEW v,
           Tells(p, events, window, There, v),
           NEW q, q = Append(events, [to |-> Head(p.left), cmd |-> p.cmd])
    PROVE  /\ Len(p.left) = 1 => AllTold(q, window, There, v)
           /\ Len(p.left) # 1 => Tells([p EXCEPT !.left = Tail(@)], q, window, There, v)
<1>. DEFINE T == [to : There, cmd : Commands]
            e == [to |-> Head(p.left), cmd |-> p.cmd]
            L == Tail(p.left)
<1>1. /\ p.cmd \in ActiveCmd /\ p.left \in Seq(There) /\ p.left # <<>>
      /\ Head(p.left) \in There
  BY EmitsAt, PostedLabel
<1>2. events \in Seq(T) /\ e \in T /\ e.to = Head(p.left) /\ e.cmd = p.cmd
  BY <1>1 DEF HudTypes, QueueTypes, Commands
<1>3. p.cmd.name = "active" /\ p.cmd.value = v
  BY <1>1 DEF ActiveCmd, Tells
<1>4. /\ Head(p.left) = p.left[1]
      /\ \A k \in DOMAIN p.left : k = 1 \/ (k - 1 \in DOMAIN L /\ L[k - 1] = p.left[k])
  BY <1>1, TailAt
<1>. HIDE DEF T, e, L
<1>5. q = Append(events, e)
  BY DEF e
<1>6. ASSUME NEW o \in There
      PROVE  (\E k \in DOMAIN L : L[k] = o) \/ Coming(q, o, window[o].active, v)
  <2>1. CASE o = Head(p.left)
    <3>1. IsActiveFor(e, o) /\ e.cmd.value = v
      BY <1>2, <1>3, <2>1 DEF IsActiveFor
    <3>2. Coming(q, o, window[o].active, v)
      BY <1>2, <1>5, <3>1, ComingPosted
    <3>. QED BY <3>2
  <2>2. CASE o # Head(p.left) /\ \E k \in DOMAIN p.left : p.left[k] = o
    BY <1>4, <2>2
  <2>3. CASE o # Head(p.left) /\ Coming(events, o, window[o].active, v)
    <3>1. ~IsActiveFor(e, o)
      BY <1>2, <2>3 DEF IsActiveFor
    <3>. QED BY <1>2, <1>5, <2>3, <3>1, ComingAppend
  <2>. QED BY <2>1, <2>2, <2>3 DEF Tells
<1>7. ASSUME Len(p.left) = 1 PROVE AllTold(q, window, There, v)
  <2>1. L = <<>> /\ DOMAIN L = {}
    BY <1>1, <1>7, TailRest DEF L
  <2>. QED BY <1>6, <2>1 DEF AllTold
<1>8. ASSUME Len(p.left) # 1
      PROVE  Tells([p EXCEPT !.left = Tail(@)], q, window, There, v)
  <2>1. /\ [p EXCEPT !.left = Tail(@)].left = L
        /\ [p EXCEPT !.left = Tail(@)].cmd = p.cmd
    BY <1>8, PostedLabel DEF L
  <2>. QED BY <1>3, <1>6, <2>1 DEF Tells
<1>. QED BY <1>7, <1>8

LEMMA PostSubFollow ==
    ASSUME FollowInv, HudTypes, HUD!Post("sub")
    PROVE  FollowInv'
<1>. DEFINE p == pc["sub"]
            n == [p EXCEPT !.left = Tail(@)]
<1>0. /\ There' = There /\ p.at = "post"
      /\ events' = Append(events, [to |-> Head(p.left), cmd |-> p.cmd])
      /\ HUD!Goto("sub", IF Len(p.left) = 1 THEN p.then ELSE n)
      /\ UNCHANGED <<cfg, dogActive, localOk, crossed, inMenu, window>>
  BY DEF HUD!Post, There, HUD!dog
<1>1. p \in Emits(ActiveCmd, There, {HUD!Idle, Status}) /\ p.then \in {HUD!Idle, Status}
      /\ p # HUD!Idle
  BY <1>0, FollowAt, SubAt, EmitsAt DEF HUD!Idle
<1>2. /\ pc'["sub"] = IF Len(p.left) = 1 THEN p.then ELSE n
      /\ pc'["dog"] = pc["dog"]
  BY <1>0, SubGoes DEF HudTypes
<1>3. inMenu # "unheard"
  BY <1>1 DEF FollowInv, Unheard
<1>4. Len(p.left) # 1 => n.at = "post" /\ n.then = p.then /\ n # HUD!Idle /\ n # Status
  <2>1. Len(p.left) # 1 => n \in Emits(ActiveCmd, There, {HUD!Idle, Status}) /\ n.then = p.then
    BY <1>1, PostedLabel
  <2>. HIDE DEF n
  <2>2. Len(p.left) # 1 => n.at = "post"
    BY <2>1, EmitsAt
  <2>. QED BY <2>1, <2>2 DEF HUD!Idle, Status
<1>5. HUD!Idle.at = "idle" /\ Status.at = "status" /\ HUD!Idle # Status
  BY DEF HUD!Idle, Status
<1>6. p.then = HUD!Idle /\ ~crossed =>
         /\ Len(p.left) = 1 => AllTold(events', window, There, Target)
         /\ Len(p.left) # 1 => Tells(n, events', window, There, Target)
  BY <1>0, <1>1, <1>3, TellsOn DEF FollowInv, Uncrossed
<1>. HIDE DEF n
<1>7. Settings'
  <2>1. CASE Len(p.left) = 1
    BY <1>0, <1>1, <1>2, <1>5, <2>1 DEF FollowInv, Settings
  <2>2. CASE Len(p.left) # 1
    BY <1>0, <1>1, <1>2, <1>4, <1>5, <2>2 DEF FollowInv, Settings
  <2>. QED BY <2>1, <2>2
<1>8. ASSUME ~crossed PROVE Uncrossed'
  <2>1. HUD!Calm /\ HUD!Calm' /\ pc["dog"].at \notin {"set", "post"}
    BY <1>1, <1>2, <1>3, <1>8 DEF FollowInv, Uncrossed, HUD!Calm
  <2>2. localOk = dogActive
    BY <1>0, <1>3, <1>8, <2>1 DEF FollowInv, Uncrossed
  <2>3. Target' = Target
    BY <1>0 DEF Target
  <2>4. CASE Len(p.left) = 1
    <3>1. pc'["sub"] = p.then /\ pc'["sub"].at \in {"idle", "status"}
      BY <1>1, <1>2, <1>5, <2>4
    <3>2. pc'["sub"] = HUD!Idle => AllTold(events', window, There, Target)
      BY <1>6, <1>8, <2>4, <3>1
    <3>. QED BY <1>0, <1>2, <2>1, <2>2, <2>3, <3>1, <3>2 DEF Uncrossed
  <2>5. CASE Len(p.left) # 1
    <3>1. pc'["sub"] = n /\ n.at = "post" /\ n # HUD!Idle
      BY <1>2, <1>4, <2>5
    <3>2. n.then = HUD!Idle => Tells(n, events', window, There, Target)
      BY <1>4, <1>6, <1>8, <2>5
    <3>. QED BY <1>0, <1>2, <2>1, <2>2, <2>3, <3>1, <3>2 DEF Uncrossed
  <2>. QED BY <2>4, <2>5
<1>. QED BY <1>0, <1>3, <1>7, <1>8 DEF FollowInv

LEMMA PostDogFollow ==
    ASSUME FollowInv, HudTypes, HUD!Post("dog")
    PROVE  FollowInv'
<1>. DEFINE p == pc["dog"]
            n == [p EXCEPT !.left = Tail(@)]
<1>0. /\ There' = There /\ p.at = "post"
      /\ events' = Append(events, [to |-> Head(p.left), cmd |-> p.cmd])
      /\ HUD!Goto("dog", IF Len(p.left) = 1 THEN p.then ELSE n)
      /\ UNCHANGED <<cfg, dogActive, localOk, crossed, inMenu, window>>
  BY DEF HUD!Post, There, HUD!dog
<1>1. p \in Emits(ActiveCmd, There, {HUD!Idle}) /\ p.then = HUD!Idle
      /\ p # HUD!Idle /\ ~HUD!Calm
  <2>1. p \in Emits(ActiveCmd, There, {HUD!Idle})
    BY <1>0, FollowAt, DogAt
  <2>2. p.then = HUD!Idle
    BY <2>1, EmitsAt
  <2>. QED BY <1>0, <2>1, <2>2 DEF HUD!Idle, HUD!Calm
<1>2. /\ pc'["dog"] = IF Len(p.left) = 1 THEN p.then ELSE n
      /\ pc'["sub"] = pc["sub"]
  BY <1>0, DogGoes DEF HudTypes
<1>3. inMenu # "unheard"
  BY <1>1 DEF FollowInv, Unheard
<1>4. Len(p.left) # 1 => n.at = "post" /\ n # HUD!Idle
  <2>1. Len(p.left) # 1 => n \in Emits(ActiveCmd, There, {HUD!Idle})
    BY <1>1, PostedLabel
  <2>. HIDE DEF n
  <2>2. Len(p.left) # 1 => n.at = "post"
    BY <2>1, EmitsAt
  <2>. QED BY <2>1, <2>2 DEF HUD!Idle
<1>5. HUD!Idle.at = "idle"
  BY DEF HUD!Idle
<1>6. ~crossed =>
         /\ Len(p.left) = 1 => AllTold(events', window, There, Target)
         /\ Len(p.left) # 1 => Tells(n, events', window, There, Target)
  BY <1>0, <1>1, <1>3, TellsOn DEF FollowInv, Uncrossed
<1>. HIDE DEF n
<1>7. Settings'
  BY <1>0, <1>1, <1>2 DEF FollowInv, Settings
<1>8. ASSUME ~crossed PROVE Uncrossed'
  <2>1. pc["sub"] = HUD!Idle /\ pc["sub"].at = "idle" /\ ~dogActive
    BY <1>1, <1>3, <1>5, <1>8 DEF FollowInv, Uncrossed
  <2>2. localOk = dogActive
    BY <1>0, <1>3, <1>8, <2>1 DEF FollowInv, Uncrossed
  <2>3. Target' = Target
    BY <1>0 DEF Target
  <2>4. CASE Len(p.left) = 1
    <3>1. pc'["dog"].at = "idle"
      BY <1>1, <1>2, <1>5, <2>4
    <3>. QED BY <1>0, <1>2, <1>6, <1>8, <2>1, <2>2, <2>3, <2>4, <3>1 DEF Uncrossed
  <2>5. CASE Len(p.left) # 1
    <3>1. pc'["dog"] = n /\ n.at = "post" /\ ~HUD!Calm'
      BY <1>2, <1>4, <2>5 DEF HUD!Calm
    <3>. QED BY <1>0, <1>2, <1>6, <1>8, <2>1, <2>2, <2>3, <2>5, <3>1 DEF Uncrossed
  <2>. QED BY <2>4, <2>5
<1>. QED BY <1>0, <1>3, <1>7, <1>8 DEF FollowInv

LEMMA PostFollow ==
    ASSUME FollowInv, HudTypes, NEW t \in HUD!Thread, HUD!Post(t)
    PROVE  FollowInv'
<1>1. /\ PcTypes /\ pc[t].at = "post" /\ events' = Append(events, Posted(t))
      /\ HUD!Goto(t, AfterPost(t))
      /\ UNCHANGED <<scope, window, cfg, dogActive, localOk, crossed, inMenu>>
  BY DEF HUD!Post, HudTypes, Posted, AfterPost, HUD!dog
<1>2. There' = There
  BY <1>1 DEF There
<1>3. CASE t \in {"ipc", "dealer"}
  <2>1. pc'["sub"] = pc["sub"] /\ pc'["dog"] = pc["dog"]
    BY <1>1, <1>3 DEF PcTypes, HUD!Goto, HUD!Thread
  <2>2. pc[t].cmd \in UserCmd \cup RequestCmd /\ Head(pc[t].left) \in There
    <3>1. \/ pc[t] \in Emits(UserCmd, There, {HUD!Idle})
          \/ pc[t] \in Emits(UserCmd, There, {HUD!Idle, [at |-> "ask"]})
          \/ pc[t] \in Emits(RequestCmd, There, {[at |-> "wait"]})
      BY <1>1, <1>3, PostingThread
    <3>. QED BY <3>1, PostedLabel
  <2>3. Posted(t) \in [to : There, cmd : Commands] /\ Posted(t).cmd.name # "active"
    <3>1. Posted(t).cmd.name # "active"
      BY <2>2 DEF Posted, RequestCmd, UserCmd
    <3>. QED BY <2>2, <3>1 DEF Posted, Commands
  <2>4. ActiveUnmoved
    BY <1>1 DEF ActiveUnmoved
  <2>. QED BY <1>1, <1>2, <2>1, <2>3, <2>4, FollowKept
<1>. QED BY <1>1, <1>3, PostSubFollow, PostDogFollow DEF HUD!Thread

LEMMA HandleCmdFollow == ASSUME FollowInv, HudTypes, HUD!HandleCmd PROVE FollowInv'
<1>0. /\ There' = There /\ events # <<>> /\ events' = Tail(events) /\ pc' = pc
      /\ UNCHANGED <<cfg, dogActive, localOk, crossed, inMenu>>
      /\ Front.cmd \in ActiveCmd \cup UserCmd
      /\ window' = IF Front.cmd.for \in {Everyone, Front.to}
                   THEN [window EXCEPT ![Front.to] = Handled(window[Front.to], Front.cmd)]
                   ELSE window
  BY HandleCmdIs DEF There, HUD!dog
<1>1. window \in [There -> Window] /\ events \in Seq([to : There, cmd : Commands])
  BY DEF HudTypes, QueueTypes, Commands
<1>2. /\ Front.to \in There
      /\ Handled(window[Front.to], Front.cmd).active =
            IF Front.cmd.name = "active" THEN Front.cmd.value ELSE window[Front.to].active
  BY <1>0, FrontEvent, HandledWindow DEF HudTypes
<1>3. CASE Front.cmd.name # "active"
  <2>1. ActiveUnmoved
    BY <1>0, <1>1, <1>2, <1>3 DEF ActiveUnmoved
  <2>. QED BY <1>0, <1>3, <2>1, FollowKept
<1>4. CASE Front.cmd.name = "active"
  <2>1. Front.cmd.for = Everyone /\ Front.cmd.value \in BOOLEAN
    BY <1>0, <1>4 DEF ActiveCmd, UserCmd
  <2>2. \A o \in There : window'[o].active =
           IF IsActiveFor(events[1], o) THEN events[1].cmd.value ELSE window[o].active
    <3>1. window'[Front.to].active = Front.cmd.value
      BY <1>0, <1>1, <1>2, <1>4, <2>1
    <3>2. \A o \in There : o # Front.to => window'[o] = window[o]
      BY <1>0, <1>1
    <3>. QED BY <1>4, <3>1, <3>2 DEF IsActiveFor, Front
  <2>3. \A o \in There : \A v : Coming(events, o, window[o].active, v) =>
                                   Coming(events', o, window'[o].active, v)
    <3>. SUFFICES ASSUME NEW o \in There, NEW v, Coming(events, o, window[o].active, v)
                  PROVE  Coming(events', o, window'[o].active, v)
      OBVIOUS
    <3>1. window'[o].active =
             IF IsActiveFor(events[1], o) THEN events[1].cmd.value ELSE window[o].active
      BY <2>2
    <3>. QED BY <1>0, <1>1, <3>1, ComingTail, Zenon
  <2>4. \A v : AllTold(events, window, There, v) => AllTold(events', window', There, v)
    BY <2>3 DEF AllTold
  <2>5. \A p, v : Tells(p, events, window, There, v) => Tells(p, events', window', There, v)
    BY <2>3 DEF Tells
  <2>6. inMenu # "unheard"
    BY <1>0, <1>4, FrontEvent DEF FollowInv, Unheard, Front, HudTypes
  <2>7. Settings' /\ Target' = Target
    BY <1>0 DEF FollowInv, Settings, Target
  <2>8. ~crossed => Uncrossed'
    BY <1>0, <2>4, <2>5, <2>6, <2>7 DEF FollowInv, Uncrossed, HUD!Calm
  <2>. QED BY <1>0, <2>6, <2>7, <2>8 DEF FollowInv
<1>. QED BY <1>3, <1>4

LEMMA HandleRequestFollow == ASSUME FollowInv, HudTypes, HUD!HandleRequest PROVE FollowInv'
<1>1. /\ There' = There /\ ActiveUnmoved /\ pc' = pc /\ events # <<>> /\ events' = Tail(events)
      /\ UNCHANGED <<cfg, dogActive, localOk, crossed, inMenu>>
  BY HandleRequestIs DEF There, ActiveUnmoved, HUD!dog
<1>2. Front.cmd.name # "active"
  BY HandleRequestIs DEF RequestCmd
<1>. QED BY <1>1, <1>2, FollowKept

\* The dealer or the IPC server goes on, or a fade-out ends.
LEMMA OthersFollow ==
    ASSUME FollowInv, HudTypes, There' = There, ActiveUnmoved, UNCHANGED <<cfg, HUD!dog, events>>,
           pc' = pc \/ \E t \in {"ipc", "dealer"} : \E p : HUD!Goto(t, p)
    PROVE  FollowInv'
<1>1. pc'["sub"] = pc["sub"] /\ pc'["dog"] = pc["dog"]
  <2>1. DOMAIN pc = HUD!Thread
    BY DEF HudTypes, PcTypes
  <2>. QED BY <2>1 DEF HUD!Goto, HUD!Thread
<1>2. UNCHANGED <<cfg, dogActive, localOk, crossed, inMenu>>
  BY DEF HUD!dog
<1>. QED BY <1>1, <1>2, FollowKept

LEMMA FollowStart == ASSUME HUD!Init PROVE FollowInv
<1>1. /\ inMenu = "unheard" /\ ~dogActive /\ ~localOk /\ pc["sub"] = HUD!Idle
      /\ pc["dog"] = HUD!Idle /\ events = <<>> /\ \A o \in There : window[o].active
  BY DEF HUD!Init, HUD!Thread, There
<1>2. HUD!Calm /\ pc["sub"].at = "idle" /\ pc["sub"] # Status
  BY <1>1 DEF HUD!Calm, HUD!Idle, Status
<1>. QED BY <1>1, <1>2 DEF FollowInv, Unheard, Settings

LEMMA FollowStep ==
    ASSUME FollowInv, HudTypes, There' = There, [HUD!Next]_hudVars
    PROVE  FollowInv'
<1>1. CASE window' = window \/ \E o \in DOMAIN window : HUD!FadedOut(o)
  <2>. ActiveUnmoved
    <3>1. window \in [There -> Window]
      BY DEF HudTypes, QueueTypes
    <3>2. ASSUME NEW f \in DOMAIN window, HUD!FadedOut(f), NEW o \in There
          PROVE  window'[o].active = window[o].active
      <4>1. /\ window' = [window EXCEPT ![f].visible = FALSE, ![f].fading = FALSE]
            /\ window[o] \in Window /\ f \in There
        BY <3>1, <3>2 DEF HUD!FadedOut
      <4>. QED BY <3>1, <4>1 DEF Window
    <3>. QED BY <1>1, <3>2 DEF ActiveUnmoved
  <2>1. CASE \/ HUD!ToggleNotification \/ HUD!Command("toggle") \/ HUD!Command("show")
             \/ HUD!LockWidgets \/ HUD!GetStats
    BY <2>1, OthersFollow DEF HUD!ToggleNotification, HUD!Command, HUD!LockWidgets, HUD!GetStats
  <2>2. CASE HUD!Request \/ HUD!Answered \/ HUD!Timeout
    BY <2>2, OthersFollow DEF HUD!Request, HUD!Answered, HUD!Timeout, HUD!AskNext
  <2>3. CASE \/ UNCHANGED hudVars \/ HUD!DataStop \/ \E o \in DOMAIN window : HUD!FadedOut(o)
    <3>1. pc' = pc /\ UNCHANGED <<cfg, dogActive, localOk, crossed, inMenu, events>>
      BY <2>3 DEF hudVars, HUD!DataStop, HUD!FadedOut, HUD!dog
    <3>. QED BY <3>1, FollowKept
  <2>. QED BY <2>1, <2>2, <2>3, LookFollow, JudgeFollow, RaceTableFollow, InMenuFollow,
              HandleCmdFollow, HandleRequestFollow, PostFollow, SetLocalOkFollow,
              UpdateActiveFollow DEF HUD!Next
<1>2. CASE window' # window /\ ~\E o \in DOMAIN window : HUD!FadedOut(o)
  <2>1. HUD!HandleCmd
    BY <1>2 DEF HUD!Next, hudVars, HUD!DataStop, HUD!Look, HUD!Judge, HUD!RaceTableUpdate,
       HUD!InMenuStatus, HUD!ToggleNotification, HUD!Command, HUD!LockWidgets, HUD!GetStats,
       HUD!Request, HUD!Answered, HUD!Timeout, HUD!HandleRequest, HUD!Post, HUD!SetLocalOk,
       HUD!UpdateTelemetryActive
  <2>. QED BY <2>1, HandleCmdFollow
<1>. QED BY <1>1, <1>2

-----------------------------------------------------------------------------
(* Together.                                                               *)

Registered == Once(scope.overlays)

HudInv == HudTypes /\ Registered /\ HUD!HiddenForAReason /\ AskInv /\ FollowInv

LEMMA AsksLeft ==
    ASSUME AskInv, HUD!Request \/ HUD!Answered \/ HUD!Timeout
    PROVE  asks.left # <<>>
BY DEF AskInv, AskedOf, HUD!Request, HUD!Answered, HUD!Timeout

LEMMA HudStutter == ASSUME HudTypes, UNCHANGED hudVars PROVE HudTypes'
BY DEF HudTypes, HudFlags, PcTypes, QueueTypes, There, hudVars

LEMMA TypesStep ==
    ASSUME HudTypes, AskInv, [HUD!Next]_hudVars
    PROVE  HudTypes'
<1>1. CASE HUD!Command("toggle") \/ HUD!Command("show")
  BY <1>1, CommandTyped
<1>2. CASE HUD!Request \/ HUD!Answered \/ HUD!Timeout
  BY <1>2, AsksLeft, RequestTyped, AnsweredTyped, TimeoutTyped
<1>3. ASSUME NEW t \in HUD!Thread,
             HUD!Post(t) \/ HUD!SetLocalOk(t) \/ HUD!UpdateTelemetryActive(t)
      PROVE  HudTypes'
  BY <1>3, PostTyped, SetLocalOkTyped, UpdateActiveTyped
<1>. QED BY <1>1, <1>2, <1>3, HudStutter, DataStopTyped, LookTyped, JudgeTyped, RaceTableTyped,
            InMenuTyped, ToggleTyped, LockTyped, GetStatsTyped, HandleCmdTyped,
            HandleRequestTyped, FadedOutTyped DEF HUD!Next

\* The overlays that are registered stay the same.
LEMMA ScopeStep ==
    ASSUME HudTypes, [HUD!Next]_hudVars
    PROVE  scope'.overlays = scope.overlays /\ There' = There
<1>1. QueueTypes
  BY DEF HudTypes
<1>2. CASE \/ HUD!RaceTableUpdate \/ HUD!ToggleNotification \/ HUD!LockWidgets \/ HUD!GetStats
           \/ HUD!Command("toggle") \/ HUD!Command("show")
  BY <1>1, <1>2, SpendKeeps DEF HUD!RaceTableUpdate, HUD!ToggleNotification, HUD!LockWidgets,
     HUD!GetStats, HUD!Command
<1>3. CASE \/ HUD!DataStop \/ HUD!Look \/ HUD!Judge \/ HUD!InMenuStatus
           \/ HUD!Request \/ HUD!Answered \/ HUD!Timeout \/ HUD!HandleCmd \/ HUD!HandleRequest
           \/ UNCHANGED hudVars
  BY <1>3 DEF HUD!DataStop, HUD!Look, HUD!Judge, HUD!InMenuStatus, HUD!Request, HUD!Answered,
     HUD!Timeout, HUD!HandleCmd, HUD!HandleRequest, hudVars, There
<1>4. ASSUME NEW t \in HUD!Thread,
             HUD!Post(t) \/ HUD!SetLocalOk(t) \/ HUD!UpdateTelemetryActive(t)
      PROVE  scope'.overlays = scope.overlays /\ There' = There
  BY <1>4 DEF HUD!Post, HUD!SetLocalOk, HUD!UpdateTelemetryActive, There
<1>5. ASSUME NEW o \in DOMAIN window, HUD!FadedOut(o)
      PROVE  scope'.overlays = scope.overlays /\ There' = There
  BY <1>5 DEF HUD!FadedOut, There
<1>. QED BY <1>2, <1>3, <1>4, <1>5 DEF HUD!Next

LEMMA ReasonIs == HUD!HiddenForAReason <=> \A o \in DOMAIN window : Reasonable(window[o])
BY DEF HUD!HiddenForAReason, Reasonable

LEMMA ReasonStep ==
    ASSUME HudTypes, HUD!HiddenForAReason, [HUD!Next]_hudVars
    PROVE  HUD!HiddenForAReason'
<1>0. window \in [There -> Window] /\ \A o \in There : Reasonable(window[o])
  BY ReasonIs DEF HudTypes, QueueTypes
<1>1. CASE window' = window
  BY <1>1 DEF HUD!HiddenForAReason
<1>2. CASE HUD!HandleCmd
  <2>1. \/ window' = window
        \/ window' = [window EXCEPT ![Front.to] = Handled(window[Front.to], Front.cmd)]
    BY <1>2, HandleCmdIs
  <2>2. /\ Front.to \in There
        /\ Reasonable(Handled(window[Front.to], Front.cmd))
    BY <1>0, <1>2, HandleCmdIs, FrontEvent, HandledWindow DEF HudTypes
  <2>3. DOMAIN window' = There /\ \A o \in There : Reasonable(window'[o])
    BY <1>0, <2>1, <2>2
  <2>. QED BY <2>3 DEF HUD!HiddenForAReason, Reasonable
<1>3. ASSUME NEW f \in DOMAIN window, HUD!FadedOut(f) PROVE HUD!HiddenForAReason'
  <2>1. /\ window' = [window EXCEPT ![f].visible = FALSE, ![f].fading = FALSE]
        /\ window[f].fading /\ f \in There /\ window[f] \in Window
    BY <1>0, <1>3 DEF HUD!FadedOut
  <2>2. DOMAIN window' = There
    BY <1>0, <2>1
  <2>3. Reasonable(window'[f])
    <3>1. window[f].userHidden \/ (window[f].locked /\ ~window[f].active)
      BY <1>0, <2>1 DEF Reasonable
    <3>2. /\ window'[f].userHidden = window[f].userHidden
          /\ window'[f].locked = window[f].locked /\ window'[f].active = window[f].active
      BY <1>0, <2>1 DEF Window
    <3>. QED BY <3>1, <3>2 DEF Reasonable
  <2>4. \A o \in There : o # f => window'[o] = window[o]
    BY <1>0, <2>1
  <2>. QED BY <1>0, <2>2, <2>3, <2>4 DEF HUD!HiddenForAReason, Reasonable
<1>4. window' = window \/ HUD!HandleCmd \/ \E f \in DOMAIN window : HUD!FadedOut(f)
  BY DEF HUD!Next, hudVars, HUD!DataStop, HUD!Look, HUD!Judge, HUD!RaceTableUpdate,
     HUD!InMenuStatus, HUD!ToggleNotification, HUD!Command, HUD!LockWidgets, HUD!GetStats,
     HUD!Request, HUD!Answered, HUD!Timeout, HUD!HandleRequest, HUD!Post, HUD!SetLocalOk,
     HUD!UpdateTelemetryActive
<1>. QED BY <1>1, <1>2, <1>3, <1>4

LEMMA HudInit == HUD!Init => HudInv
<1>. SUFFICES ASSUME HUD!Init PROVE HudInv
  OBVIOUS
<1>1. Registered
  BY OverlaysAssumption DEF HUD!Init, Registered, Once
<1>2. HUD!HiddenForAReason
  BY DEF HUD!Init, HUD!HiddenForAReason
<1>. QED BY <1>1, <1>2, HudStart, AskStart, FollowStart DEF HudInv

LEMMA HudStep == HudInv /\ [HUD!Next]_hudVars => HudInv'
<1>. SUFFICES ASSUME HudInv, [HUD!Next]_hudVars PROVE HudInv'
  OBVIOUS
<1>1. HudTypes' /\ scope'.overlays = scope.overlays /\ There' = There
  BY TypesStep, ScopeStep DEF HudInv
<1>2. Registered'
  BY <1>1 DEF HudInv, Registered
<1>. QED BY <1>1, <1>2, ReasonStep, AskStep, FollowStep DEF HudInv, Registered

LEMMA TypesMean == HudTypes => HUD!TypeOK
<1>. SUFFICES ASSUME HudTypes PROVE HUD!TypeOK
  OBVIOUS
<1>1. \A t \in HUD!Thread : pc[t].at \in {"idle", "judge", "set", "update", "status", "post",
                                          "ask", "wait"}
  BY SubAt, DogAt, IpcAt, DealerAt DEF HudTypes, PcTypes, HUD!Thread
<1>2. \A i \in DOMAIN events : events[i].to \in Overlay
  <2>. DEFINE T == [to : There, cmd : Commands]
  <2>1. events \in Seq(T) /\ \A e \in T : e.to \in Overlay
    BY ThereIs DEF HudTypes, QueueTypes, Commands
  <2>. HIDE DEF T
  <2>. QED BY <2>1
<1>3. window \in [HUD!ToSet(scope.overlays) ->
          [visible : BOOLEAN, fading : BOOLEAN, locked : BOOLEAN, active : BOOLEAN,
           userHidden : BOOLEAN]]
  BY DEF HudTypes, QueueTypes, There, Window
<1>4. {gap, dogActive, localOk, behind, crossed} \subseteq BOOLEAN
  BY DEF HudTypes, HudFlags
<1>. QED BY <1>1, <1>2, <1>3, <1>4 DEF HUD!TypeOK, HudTypes, HudFlags, QueueTypes

\* With nothing under way the last that was told of telemetry has been heard.
LEMMA FollowMeans == HudTypes /\ FollowInv => HUD!FollowsWatchdog
<1>. SUFFICES ASSUME HudTypes, FollowInv, events = <<>>, pc["sub"] = HUD!Idle, HUD!Calm,
                     inMenu # "unheard", ~crossed, NEW o \in DOMAIN window
              PROVE  window[o].active = Target
  BY Zenon DEF HUD!FollowsWatchdog, Target
<1>1. AllTold(events, window, There, Target) /\ o \in There
  BY DEF FollowInv, Uncrossed, HudTypes, QueueTypes
<1>. HIDE DEF Target
<1>. QED BY <1>1 DEF AllTold, Coming

\* The overlays of the HUD (apps/hud) are sound: hidden for a reason only, each answer taken
\* for its own, and with the watchdog once all is quiet, with the exceptions that the properties
\* name; for any overlays, commands and updates.
THEOREM OverlaysAreSound == HUD!Spec => []OverlaysSound
<1>1. HUD!Init => HudInv
  BY HudInit
<1>2. HudInv /\ [HUD!Next]_HUD!vars => HudInv'
  BY HudStep DEF HUD!vars, hudVars
<1>3. HudInv => OverlaysSound
  BY TypesMean, FollowMeans DEF HudInv, AskInv, OverlaysSound
<1>. QED BY <1>1, <1>2, <1>3, PTL DEF HUD!Spec

\* What is proved of the two parts holds of every behaviour of MCTelemetrySession.
THEOREM BothParts == MCSpec => Spec /\ HUD!Spec
<1>1. MCInit => Init /\ HUD!Init
  BY DEF MCInit
<1>2. [MCNext]_<<part, vars, hudVars>> => [Next]_vars /\ [HUD!Next]_HUD!vars
  BY DEF MCNext, vars, hudVars, HUD!vars
<1>. QED BY <1>1, <1>2, PTL DEF MCSpec, Spec, HUD!Spec
=============================================================================
