----------------------------- MODULE FastestLap -----------------------------
(***************************************************************************)
(* Who holds the fastest lap: SessionState.m_fastest_index                 *)
(* (apps/backend/state_mgmt_layer/session_state.py).  Three kinds of       *)
(* packets change it, each with a different and older or newer view of the *)
(* drivers' best laps, and only one of them when a flashback takes a best  *)
(* lap away.  Lap times are small numbers; 0, which the code takes for no  *)
(* time, is not one of them.                                               *)
(***************************************************************************)
EXTENDS Integers, FiniteSets

CONSTANTS Driver,      \* the indices of the cars: numbers, since the lower one wins a tie
          Time,        \* lap times: positive numbers
          MaxChanges,  \* bound on the number of laps and flashbacks
          None         \* not a number

VARIABLES
    true,      \* true[d]: the best lap of driver d in the game
    racing,    \* the drivers whose result status is neither INVALID nor INACTIVE
    changes,   \* how often the game changed them
    current,   \* the drivers whose session history arrived since their best lap changed
    settled,   \* lap data arrived since anything changed
    best,      \* best[d]: m_lap_info.m_best_lap_ms
    history,   \* history[d]: the best lap in m_packet_copies.m_packet_session_history
    valid,     \* the drivers whose is_valid holds: those racing in the last lap data
    active,    \* m_num_active_cars
    fastest    \* m_fastest_index

game == <<true, racing, changes>>
vars == <<game, current, settled, best, history, valid, active, fastest>>

\* A best lap in a session history packet, with its validity bit; or that there is none.
NoLap == [time |-> None, isValid |-> FALSE]
History == [time : Time, isValid : BOOLEAN] \cup {NoLap}

Init ==
    /\ true = [d \in Driver |-> None] /\ racing = Driver /\ changes = 0
    /\ current = Driver /\ settled = FALSE
    /\ best = [d \in Driver |-> None]
    /\ history = [d \in Driver |-> None]
    /\ valid = {} /\ active = None
    /\ fastest = None

-----------------------------------------------------------------------------
(* The game.                                                               *)

\* A best lap is improved on, or undone by a flashback.
BestLapChanges(d) ==
    /\ changes < MaxChanges
    /\ changes' = changes + 1
    /\ \E time \in (Time \cup {None}) \ {true[d]} : true' = [true EXCEPT ![d] = time]
    /\ current' = current \ {d}
    /\ settled' = FALSE
    /\ UNCHANGED <<racing, best, history, valid, active, fastest>>

Leave(d) ==
    /\ d \in racing
    /\ racing' = racing \ {d}
    /\ settled' = FALSE
    /\ UNCHANGED <<true, changes, current, best, history, valid, active, fastest>>

-----------------------------------------------------------------------------

\* _recomputeFastestLap: the first of the valid drivers with the least time.
Recomputed(times, drivers) ==
    LET timed == {d \in drivers : times[d] # None} IN
    IF timed = {} THEN None
    ELSE CHOOSE d \in timed : \A e \in timed :
            times[d] < times[e] \/ (times[d] = times[e] /\ d <= e)

\* _shouldRecomputeFastestLap: the driver's time is first sought in the history.
ShouldRecompute(d, times, histories) ==
    LET known == IF histories[d] # None /\ histories[d].isValid
                 THEN histories[d].time ELSE times[d]
    IN /\ active \notin {None, 0}
       /\ \/ fastest = None
          \/ times[d] # None /\ times[fastest] > known

\* Mutant: the early return of an unchanged holder skips the end of the handler.
SessionHistoryKeepsHolder(d) ==
    \E isValid \in BOOLEAN :
        LET packet == IF true[d] = None THEN NoLap ELSE [time |-> true[d], isValid |-> isValid]
        IN
        /\ history' = [history EXCEPT ![d] = packet]
        /\ best' = [best EXCEPT ![d] = true[d]]
        /\ fastest' = IF ShouldRecompute(d, best', history') THEN Recomputed(best', valid)
                      ELSE fastest
        /\ current' = current \cup {d}
        /\ settled' = FALSE
        /\ UNCHANGED <<game, valid, active>>

\* processSessionHistoryUpdate: the best lap is stored before the test if there is one, and
\* deleted, with the record, after it if there is none.
SessionHistory(d) ==
    \E isValid \in BOOLEAN :
        LET packet == IF true[d] = None THEN NoLap ELSE [time |-> true[d], isValid |-> isValid]
            times == IF true[d] = None THEN best ELSE [best EXCEPT ![d] = true[d]]
            histories == [history EXCEPT ![d] = packet]
            holder == IF ShouldRecompute(d, times, histories) THEN Recomputed(times, valid)
                      ELSE fastest
        IN
        /\ history' = histories
        /\ best' = [best EXCEPT ![d] = true[d]]
        /\ fastest' = IF true[d] = None /\ holder = d THEN None ELSE holder
        /\ current' = current \cup {d}
        /\ settled' = FALSE
        /\ UNCHANGED <<game, valid, active>>

\* processFastestLapUpdate: the event is trusted, whatever is known of the driver.  It may
\* come late, with a time that is no longer the driver's best.
FastestLapEvent(d) ==
    /\ \E time \in Time : best' = [best EXCEPT ![d] = time]
    /\ fastest' = d
    /\ current' = current \ {d}
    /\ settled' = FALSE
    /\ UNCHANGED <<game, history, valid, active>>

\* processLapDataUpdate, whose test still counts the cars of the packet before.
LapData ==
    /\ valid' = racing
    /\ active' = Cardinality(racing)
    /\ fastest' = IF \E d \in racing : ShouldRecompute(d, best, history)
                  THEN Recomputed(best, racing) ELSE fastest
    /\ settled' = (active \notin {None, 0})
    /\ UNCHANGED <<game, current, best, history>>

Next ==
    \/ \E d \in Driver : BestLapChanges(d) \/ Leave(d) \/ SessionHistory(d) \/ FastestLapEvent(d)
    \/ LapData

Spec == Init /\ [][Next]_vars

-----------------------------------------------------------------------------

\* The type invariant.
TypeOK ==
    /\ true \in [Driver -> Time \cup {None}] /\ racing \subseteq Driver
    /\ changes \in 0..MaxChanges
    /\ current \subseteq Driver /\ settled \in BOOLEAN
    /\ best \in [Driver -> Time \cup {None}]
    /\ history \in [Driver -> History \cup {None}]
    /\ valid \subseteq Driver /\ active \in Nat \cup {None}
    /\ fastest \in Driver \cup {None}

\* Once the history of every driver has arrived since its best lap changed, and lap data
\* after that, the record is held by a driver no racing driver is faster than, and somebody
\* holds it if a racing driver has a lap: no order of events, histories and flashbacks makes
\* the dashboard stick to a beaten record.  At all times the holder has a best lap:
\* session_state.py:1588 compares it untested with every other driver's, and None there would
\* be a TypeError that ends the receive task.  Flashbacks delete best laps, also the holder's.
RecordIsRight ==
    /\ fastest # None => best[fastest] # None
    /\ settled /\ current = Driver =>
           \A d \in racing : true[d] # None =>
               fastest # None /\ true[fastest] # None /\ true[fastest] <= true[d]
=============================================================================
