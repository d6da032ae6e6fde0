--------------------------- MODULE MCSessionState ---------------------------
(***************************************************************************)
(* The three records SessionState keeps that a flashback must rewind: laps *)
(* and tyres of a driver, the samples for the delta, and the holder of the *)
(* fastest lap.  They share packets but no state, so a behaviour of this   *)
(* module follows one of them, "part", and the state spaces add up.        *)
(***************************************************************************)
EXTENDS DriverLaps, TLC

CONSTANTS MaxLap, LapLength, MaxPace, MaxRewinds,   \* of LapDelta
          Driver, Time, MaxChanges                  \* of FastestLap

\* Cars have indices; lap times, distances and laps are numbers, of which None is not one.
ASSUME RecordAssumption ==
    /\ Driver \subseteq Nat /\ IsFiniteSet(Driver) /\ Time \subseteq Nat /\ None \notin Nat
    /\ MaxChanges \in Nat
ASSUME DeltaAssumption ==
    {MaxLap, LapLength, MaxPace} \subseteq Nat \ {0} /\ MaxRewinds \in Nat

VARIABLES part,
          driven, rewinds, event, late, occurred, laps, bestLap, latest,
          true, racing, changes, current, settled, best, history, valid, active, fastest

Delta == INSTANCE LapDelta WITH MaxFlashbacks <- MaxRewinds, flashbacks <- rewinds,
                                best <- bestLap
Record == INSTANCE FastestLap

deltaVars == <<driven, rewinds, event, late, occurred, laps, bestLap, latest>>
recordVars == <<true, racing, changes, current, settled, best, history, valid, active, fastest>>

MCSettings == {s \in Setting : s.offlineRace \/ ~s.steady}
Symmetry == Permutations(TyreSet)

\* The parts that are not followed stay in one of their initial states.
MCInit ==
    /\ part \in {"laps", "delta", "record"}
    /\ Init /\ Delta!Init /\ Record!Init
    /\ part # "laps" => setting = CHOOSE s \in MCSettings : TRUE
    /\ part # "delta" => Delta!Car.time = 1

MCNext ==
    /\ part' = part
    /\ \/ part = "laps" /\ Next /\ UNCHANGED <<deltaVars, recordVars>>
       \/ part = "delta" /\ Delta!Next /\ UNCHANGED <<vars, recordVars>>
       \/ part = "record" /\ Record!Next /\ UNCHANGED <<vars, deltaVars>>

MCSpec == MCInit /\ [][MCNext]_<<part, vars, deltaVars, recordVars>>

\* The type invariants of the three.
TypesOK == TypeOK /\ Delta!TypeOK /\ Record!TypeOK

\* The properties of LapDelta and FastestLap, stated and explained there.
DeltaIsSound == Delta!HolyPrinciple /\ Delta!DeltaOfDrivenLap
RecordIsRight == Record!RecordIsRight
=============================================================================
