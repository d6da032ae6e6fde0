------------------------------ MODULE LapDelta ------------------------------
(***************************************************************************)
(* LapDeltaManager (lib/delta/manager.py) of one driver, and the two       *)
(* handlers of SessionState that feed it: a flashback event only sets a    *)
(* flag, and the next lap data packet first rewinds the samples and then   *)
(* records its own.  The event may come late or never.                     *)
(***************************************************************************)
EXTENDS Integers, Sequences, FiniteSets

CONSTANTS MaxLap,         \* laps driven, a positive number
          LapLength,      \* distances of a lap: 1..LapLength
          MaxPace,        \* time for one unit of distance: 1..MaxPace
          MaxFlashbacks,  \* bound on the number of flashbacks
          None            \* not a number

MaxTime == MaxPace * LapLength
Sample == [lap : 1..MaxLap, dist : 1..LapLength, time : 0..MaxTime]

VARIABLES
    driven,      \* the points of the race so far, the last one being the car's
    flashbacks,  \* how many there were
    event,       \* an FLBK event on its way
    late,        \* the car once drove on from a flashback that was not yet dealt with
    occurred,    \* SessionState.m_flashback_occurred
    laps,        \* _laps, and _lap_distances which goes with it
    best,        \* _best_lap_num
    latest       \* _last_recorded_point

game == <<driven, flashbacks>>
vars == <<game, event, late, occurred, laps, best, latest>>

Car == driven[Len(driven)]

Init ==
    /\ \E pace \in 1..MaxPace : driven = <<[lap |-> 1, dist |-> 1, time |-> pace]>>
    /\ flashbacks = 0
    /\ event = FALSE /\ late = FALSE /\ occurred = FALSE
    /\ laps = <<>>
    /\ best = None /\ latest = None

-----------------------------------------------------------------------------
(* The game.                                                               *)

Drive ==
    /\ \E pace \in 1..MaxPace :
          driven' = Append(driven,
              IF Car.dist < LapLength
              THEN [Car EXCEPT !.dist = @ + 1, !.time = @ + pace]
              ELSE [lap |-> Car.lap + 1, dist |-> 1, time |-> pace])
    /\ Car.dist < LapLength \/ Car.lap < MaxLap
    /\ late' = (late \/ event \/ occurred)
    /\ UNCHANGED <<flashbacks, event, occurred, laps, best, latest>>

Flashback ==
    /\ flashbacks < MaxFlashbacks
    /\ ~event
    /\ flashbacks' = flashbacks + 1
    /\ \E n \in 1..(Len(driven) - 1) : driven' = SubSeq(driven, 1, n)
    /\ event' = TRUE
    /\ UNCHANGED <<late, occurred, laps, best, latest>>

LoseEvent ==
    /\ event
    /\ event' = FALSE /\ late' = TRUE
    /\ UNCHANGED <<game, occurred, laps, best, latest>>

-----------------------------------------------------------------------------
(* LapDeltaManager.                                                        *)

PointsOf(all, lap) == IF lap \in DOMAIN all THEN all[lap] ELSE <<>>

\* bisect_left over the distances: how many points come before the distance.
Before(points, dist) == Cardinality({i \in DOMAIN points : points[i].dist < dist})

\* Mutant: bisect_right, which spares a point at the very distance.
CutAfter(points, dist) ==
    SubSeq(points, 1, Cardinality({i \in DOMAIN points : points[i].dist <= dist}))

Cut(points, dist) == SubSeq(points, 1, Before(points, dist))

Put(all, lap, points) ==
    [k \in DOMAIN all \cup {lap} |-> IF k = lap THEN points ELSE all[k]]

\* record_data_point: beyond the last point Cut() keeps them all, which is the normal case.
RecordDataPoint(all, p) == Put(all, p.lap, Append(Cut(PointsOf(all, p.lap), p.dist), p))

\* Mutant: keeps the laps after the one the flashback landed on.
HandleFlashbackOneLap(all, p) ==
    Put(all, p.lap, Append(Cut(PointsOf(all, p.lap), p.dist), [p EXCEPT !.time = 0]))

\* handle_flashback: later laps go, the rest of this one goes, and a point with time 0 is
\* put in.
HandleFlashback(all, p) ==
    LET kept == [k \in {k \in DOMAIN all : k <= p.lap} |-> all[k]] IN
    Put(kept, p.lap, Append(Cut(PointsOf(kept, p.lap), p.dist), [p EXCEPT !.time = 0]))

\* _interpolated_time_for_distance
TimeAt(points, dist) ==
    LET n == Before(points, dist)
        lo == points[n]
        hi == points[n + 1]
    IN IF points = <<>> THEN None
       ELSE IF dist < points[1].dist \/ dist > points[Len(points)].dist THEN None
       ELSE IF hi.dist = dist THEN hi.time
       ELSE lo.time + ((dist - lo.dist) * (hi.time - lo.time)) \div (hi.dist - lo.dist)

\* get_delta
BestTimeHere ==
    IF best = None \/ latest = None THEN None
    ELSE TimeAt(PointsOf(laps, best), latest.dist)

-----------------------------------------------------------------------------
(* SessionState.                                                           *)

\* processFlashbackEvent
FlashbackEvent ==
    /\ event
    /\ event' = FALSE
    /\ occurred' = TRUE
    /\ UNCHANGED <<game, late, laps, best, latest>>

\* The delta part of processLapDataUpdate.
LapData ==
    /\ laps' = RecordDataPoint(IF occurred THEN HandleFlashback(laps, Car) ELSE laps, Car)
    /\ latest' = Car
    /\ occurred' = FALSE
    /\ UNCHANGED <<game, event, late, best>>

\* The end of processSessionHistoryUpdate: the best of the laps completed, or none (0).
SessionHistory ==
    /\ \E lap \in 1..(Car.lap - 1) : best' = lap
    /\ UNCHANGED <<game, event, late, occurred, laps, latest>>

Next == Drive \/ Flashback \/ LoseEvent \/ FlashbackEvent \/ LapData \/ SessionHistory

Spec == Init /\ [][Next]_vars

-----------------------------------------------------------------------------

Points == Seq(Sample)

\* The type invariant.
TypeOK ==
    /\ driven \in Seq(Sample) /\ driven # <<>> /\ flashbacks \in 0..MaxFlashbacks
    /\ event \in BOOLEAN /\ late \in BOOLEAN /\ occurred \in BOOLEAN
    /\ DOMAIN laps \subseteq 1..MaxLap
    /\ \A lap \in DOMAIN laps : laps[lap] \in Points
    /\ best \in {None} \cup 1..MaxLap
    /\ latest \in {None} \cup Sample

\* manager.py:38, the "HOLY PRINCIPLE": the distances of a lap are strictly increasing,
\* whatever laps, flashbacks and lost events came before; and the point with time 0 that
\* stands for the place of a flashback never survives the packet that put it in, so that no
\* delta is ever taken against it.
HolyPrinciple ==
    \A lap \in DOMAIN laps :
        /\ \A i, j \in DOMAIN laps[lap] : i < j => laps[lap][i].dist < laps[lap][j].dist
        /\ \A i \in DOMAIN laps[lap] : laps[lap][i].time > 0

\* When each flashback was dealt with (its event and then a lap data packet) before the car
\* drove on, every point kept is one that was driven and not undone, and so the time of the
\* best lap at the car's distance lies within that lap: a delta is never larger than a lap.  A
\* packet later and it is not so: the points between the place of the flashback and the car
\* stay, and the times of a lap may go down.
DeltaOfDrivenLap ==
    ~late /\ ~event /\ ~occurred =>
        /\ \A lap \in DOMAIN laps : \A i \in DOMAIN laps[lap] :
               \E n \in DOMAIN driven : driven[n] = laps[lap][i]
        /\ BestTimeHere # None =>
               LET points == laps[best] IN
               points[1].time <= BestTimeHere /\ BestTimeHere <= points[Len(points)].time
=============================================================================
