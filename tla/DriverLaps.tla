----------------------------- MODULE DriverLaps -----------------------------
(***************************************************************************)
(* DataPerDriver (apps/backend/state_mgmt_layer/data_per_driver): what the *)
(* backend keeps about the laps and the tyres of one driver.  Everything   *)
(* is derived from packets that say how the car is now: the end of a lap   *)
(* is a lap number that changed, a flashback a lap number that went back,  *)
(* a pit stop a fitted tyre set that is not the one of the last stint.     *)
(*                                                                         *)
(* The car's progress is a sequence of moments, two to a lap: before and   *)
(* after it passes its garage.  Packets of a moment are lost or arrive in  *)
(* any order; those of earlier moments are the frame gate's business       *)
(* (TelemetryReceiver).  The session packet that names the track and the   *)
(* kind of session, and the participants packet, came before the car       *)
(* moved.                                                                  *)
(***************************************************************************)
EXTENDS Integers, Sequences, FiniteSets

CONSTANTS TyreSet,        \* the sets of tyres the driver may fit
          Settings,       \* the kinds of sessions: see Setting
          MaxMoments,     \* bound on the length of a steady session
          MaxUnsteady,    \* bound on the length of any other
          MaxStops,       \* bound on the number of pit stops made
          MaxFlashbacks,  \* bound on the number of flashbacks
          None

\* weird: F1Utils.isFinishLineAfterPitGarage(track); offlineRace: a race that is not online,
\* where a lap number that goes back counts as a flashback; steady: the car never leaves a
\* moment before the packets of it have arrived.
Setting == [weird : BOOLEAN, offlineRace : BOOLEAN, steady : BOOLEAN]

ASSUME DriverLapsAssumption ==
    /\ Settings \subseteq Setting
    /\ {MaxMoments, MaxUnsteady, MaxStops, MaxFlashbacks} \subseteq Nat
    /\ MaxUnsteady <= MaxMoments /\ MaxMoments > 0
    /\ None \notin TyreSet /\ None \notin Nat

VARIABLES
    setting,     \* what stays as it is for the session
    road,        \* road[n]: the tyre set on the car at its n-th moment
    stops, flashbacks,
    landed,      \* the laps flashbacks landed on
    told,        \* in a steady session: what the car has told of this moment, the damage
                 \* as far as it came after the tyres
    book         \* the DataPerDriver object

vars == <<setting, road, stops, flashbacks, landed, told, book>>

LapAt(n) == (n + 1) \div 2
Lap == LapAt(Len(road))
\* The wear of a set: hardly any between a garage before the line and the line.
Worn(set, n) == Cardinality({k \in 1..n : road[k] = set /\ k % 2 = 1})

\* What a damage packet says: whose tyres, how worn.  "undone" is not in the packet: it says
\* that a flashback has undone the moment it was sent at.
Damage == [at : 1..MaxMoments, set : TyreSet, wear : 0..MaxMoments, undone : BOOLEAN]
NewDamage ==
    [at |-> Len(road), set |-> road[Len(road)], wear |-> Worn(road[Len(road)], Len(road)),
     undone |-> FALSE]

ASSUME NoDamageAssumption == None \notin Damage

\* A TyreWearPerLap.
WearAt(lap, damage) == [lap |-> lap, of |-> damage]

\* "rest" stands for the data of the other packets that a zeroth-lap snapshot waits for.
NewBook ==
    [cur     |-> None,    \* m_lap_info.m_current_lap
     dmg     |-> None,    \* m_packet_copies.m_packet_car_damage
     fitted  |-> None,    \* m_packet_copies.m_packet_tyre_sets.m_fittedIdx
     rest    |-> FALSE,   \* position, car status, top speed and safety car status are there
     snaps   |-> <<>>,    \* m_per_lap_snapshots: the damage copy of each lap
     stints  |-> <<>>,    \* m_tyre_set_history_manager.m_history
     curve   |-> <<>>,    \* m_tyre_wear_extrapolator.m_initial_data
     worst   |-> None,    \* m_tyre_info.tyre_wear.get_max_average(), its window never full
     pending |-> {},      \* the _pending_events of the track's PendingEventsManager
     final   |-> FALSE,   \* the final classification was processed
     raised  |-> FALSE]   \* a handler raised, which ends the receive task

Init ==
    /\ setting \in Settings
    /\ \E set \in TyreSet : road = <<set>>
    /\ stops = 0 /\ flashbacks = 0 /\ landed = {}
    /\ told = {}
    /\ book = NewBook

-----------------------------------------------------------------------------
(* The game.                                                               *)

\* The car moves on.  In a steady session it first told us its lap, then its tyre set, then,
\* with the set known, its damage; on the grid it waits until the first stint is open.
MayMove ==
    /\ Len(road) < IF setting.steady THEN MaxMoments ELSE MaxUnsteady
    /\ ~book.final
    /\ setting.steady =>
         /\ told = {"lap", "tyres", "damage"}
         /\ Len(road) = 1 => book.stints # <<>>

Drive ==
    /\ MayMove
    /\ road' = Append(road, road[Len(road)])
    /\ told' = {}
    /\ UNCHANGED <<setting, stops, flashbacks, landed, book>>

PitStop ==
    /\ MayMove
    /\ stops < MaxStops
    /\ Len(road) % 2 = 1
    /\ \E set \in TyreSet \ {road[Len(road)]} : road' = Append(road, set)
    /\ stops' = stops + 1
    /\ told' = {}
    /\ UNCHANGED <<setting, flashbacks, landed, book>>

\* Marks what was recorded of a moment after the n-th.
Undo(damage, n) ==
    IF damage = None THEN None ELSE [damage EXCEPT !.undone = @ \/ damage.at > n]
UndoWears(wears, n) ==
    [i \in DOMAIN wears |-> [wears[i] EXCEPT !.of = Undo(@, n)]]
UndoStints(stints, n) ==
    [i \in DOMAIN stints |-> [stints[i] EXCEPT !.wears = UndoWears(@, n)]]
UndoBook(n) ==
    [book EXCEPT
        !.dmg = Undo(@, n),
        !.worst = Undo(@, n),
        !.snaps = [lap \in DOMAIN @ |-> Undo(@[lap], n)],
        !.stints = UndoStints(@, n),
        !.curve = UndoWears(@, n)]

\* The driver goes back to an earlier moment.
Flashback ==
    /\ flashbacks < MaxFlashbacks
    /\ ~book.final
    /\ \E n \in 1..(Len(road) - 1) :
          /\ road' = SubSeq(road, 1, n)
          /\ landed' = landed \cup {LapAt(n)}
          /\ book' = UndoBook(n)
    /\ flashbacks' = flashbacks + 1
    /\ told' = {}
    /\ UNCHANGED <<setting, stops>>

-----------------------------------------------------------------------------
(* Lap changes.                                                            *)

Last(s) == s[Len(s)]
Front(s) == SubSeq(s, 1, Len(s) - 1)
SetLast(s, e) == [s EXCEPT ![Len(s)] = e]

\* TyreSetHistoryManager.addTyreWear, overwriteTyreWear
AddTyreWear(stints, wear) == SetLast(stints, [Last(stints) EXCEPT !.wears = Append(@, wear)])
OverwriteTyreWear(stints, wear) ==
    SetLast(stints, [Last(stints) EXCEPT !.wears = SetLast(@, wear)])

\* TyreSetHistoryManager.remove: looks at the last stint only, and at its last wear only.
RemoveLaps(stints, laps) ==
    IF stints = <<>> THEN stints
    ELSE LET last == Last(stints)
             wears == IF last.wears # <<>> /\ Last(last.wears).lap \in laps
                      THEN Front(last.wears) ELSE last.wears
         IN IF last.start \in laps THEN Front(stints)
            ELSE SetLast(stints, [last EXCEPT !.wears = wears])

\* The entries of s at the positions kept, in their order.
At(s, kept) ==
    LET Nth(j) == CHOOSE i \in kept : Cardinality({k \in kept : k <= i}) = j
    IN [j \in 1..Cardinality(kept) |-> s[Nth(j)]]

\* TyreWearExtrapolator.remove
RemoveWears(curve, laps) == At(curve, {i \in DOMAIN curve : curve[i].lap \notin laps})

\* Mutant: keeps the snapshots of the laps after the one gone back to.
HandleFlashbackKeepsLater(b, lap) ==
    LET outdated == {k \in DOMAIN b.snaps : k = lap} IN
    [b EXCEPT !.snaps  = [k \in DOMAIN b.snaps \ outdated |-> b.snaps[k]],
              !.stints = RemoveLaps(@, outdated),
              !.curve  = RemoveWears(@, outdated),
              !.worst  = None]

HandleFlashback(b, lap) ==
    LET outdated == {k \in DOMAIN b.snaps : k >= lap} IN
    [b EXCEPT !.snaps  = [k \in DOMAIN b.snaps \ outdated |-> b.snaps[k]],
              !.stints = RemoveLaps(@, outdated),
              !.curve  = RemoveWears(@, outdated),
              !.worst  = None]

\* The snapshot of a lap.  The wear for the stint and for the curve is read off the damage
\* packet, which may never have come: then the handler raises, the snapshot already stored.
Capture(b, lap) ==
    LET wear == WearAt(lap, b.dmg)
        stored == [k \in DOMAIN b.snaps \cup {lap} |-> IF k = lap THEN b.dmg ELSE b.snaps[k]]
    IN IF b.dmg = None /\ b.fitted # None
       THEN [b EXCEPT !.snaps = stored, !.raised = TRUE]
       ELSE [b EXCEPT
               !.snaps = stored,
               !.rest = FALSE,
               !.stints = IF lap = 0 \/ @ = <<>> THEN @ ELSE AddTyreWear(@, wear),
               !.curve = IF b.fitted = None THEN @ ELSE Append(@, wear)]

\* Mutant: takes the snapshot of a lap again whenever asked to.
OnLapChangeRepeats(b, lap, isFlashback) ==
    Capture(IF isFlashback /\ setting.offlineRace THEN HandleFlashback(b, lap) ELSE b, lap)

\* Mutant: a lap number that goes back is any lap change.
OnLapChangeForward(b, lap, isFlashback) ==
    IF lap \in DOMAIN b.snaps THEN b ELSE Capture(b, lap)

OnLapChange(b, lap, isFlashback) ==
    LET now == IF isFlashback /\ setting.offlineRace THEN HandleFlashback(b, lap) ELSE b
    IN IF lap \in DOMAIN now.snaps THEN now ELSE Capture(now, lap)

-----------------------------------------------------------------------------
(* Tyre changes.                                                           *)

\* onTyreSetChange: a stint of its own, and the curve starts again.
OnTyreSetChange(b) ==
    LET wear == WearAt(b.cur - 1, b.dmg) IN
    [b EXCEPT !.stints = Append(@, [start |-> b.cur, set |-> b.fitted, wears |-> <<wear>>]),
              !.curve = <<wear>>]

\* Mutant: leaves the end of the last stint as the lap change recorded it.
DelayedChangeWeirdKeepsEnd(b) ==
    IF b.worst = None THEN [b EXCEPT !.raised = TRUE] ELSE OnTyreSetChange(b)

\* _delayedTyreSetsChangeWeird: the lap's end was recorded with the wear of the new set, so
\* the worst wear seen lately overwrites it.  It raises when nothing was seen since a
\* flashback, and when the flashback left the stint without a wear.
DelayedChangeWeird(b) ==
    IF b.worst = None \/ b.stints = <<>> THEN [b EXCEPT !.raised = TRUE]
    ELSE IF Last(b.stints).wears = <<>> THEN [b EXCEPT !.raised = TRUE]
    ELSE OnTyreSetChange(
            [b EXCEPT !.stints = OverwriteTyreWear(@, WearAt(b.cur - 1, b.worst))])

\* Mutant: the two kinds of tracks are taken for each other.
DelayedChangeSwapped(b) == IF setting.weird THEN OnTyreSetChange(b) ELSE DelayedChangeWeird(b)

DelayedChange(b) == IF setting.weird THEN DelayedChangeWeird(b) ELSE OnTyreSetChange(b)

\* PendingEventsManager.onEvent
OnEvent(b, event) ==
    LET left == [b EXCEPT !.pending = @ \ {event}] IN
    IF event \notin b.pending THEN b
    ELSE IF left.pending = {} THEN DelayedChange(left) ELSE left

\* What a tyre change waits for.
Awaited == IF setting.weird THEN {"lap", "damage"} ELSE {"damage"}

\* Mutant: does not wait for the first lap data.
UpdateTyreSetDataEarly(b) ==
    IF b.stints = <<>>
    THEN [b EXCEPT !.stints = <<[start |-> b.cur, set |-> b.fitted, wears |-> <<>>]>>]
    ELSE b

\* updateTyreSetData: the first stint starts from the zeroth snapshot; one without damage
\* data is dropped, to be taken again.
UpdateTyreSetData(b) ==
    IF b.cur = None THEN b
    ELSE IF b.stints = <<>> THEN
        IF 0 \notin DOMAIN b.snaps THEN b
        ELSE IF b.snaps[0] = None
             THEN [b EXCEPT !.snaps = [k \in DOMAIN @ \ {0} |-> @[k]]]
             ELSE [b EXCEPT !.stints = <<[start |-> b.cur, set |-> b.fitted,
                                          wears |-> <<WearAt(0, b.snaps[0])>>]>>]
    ELSE IF b.fitted # Last(b.stints).set /\ b.pending = {}
         THEN [b EXCEPT !.pending = Awaited]
         ELSE b

\* _computeTyreStintEndLaps: a read of the history, for the web page or for the file, also
\* drops the stints that end before they start.
EndLap(stints, i, finalLap) ==
    IF i < Len(stints) THEN stints[i + 1].start - 1 ELSE finalLap

Tidied(stints, finalLap) ==
    At(stints, {i \in DOMAIN stints : stints[i].start <= EndLap(stints, i, finalLap)})

-----------------------------------------------------------------------------
(* The handlers.                                                           *)

Running == ~book.raised /\ ~book.final

Now(kind) ==
    CASE kind = "lap" -> told \cup {"lap"}
      [] kind = "tyres" -> (told \ {"damage"}) \cup {"tyres"}
      [] kind = "damage" -> IF "tyres" \in told THEN told \cup {"damage"} ELSE told
Arrived(kind) ==
    /\ told' = IF setting.steady THEN Now(kind) ELSE told
    /\ UNCHANGED <<setting, road, stops, flashbacks, landed>>

\* processLapDataUpdate for this driver.
LapData ==
    LET zeroth == book.cur = 1 /\ book.rest /\ book.dmg # None /\ book.fitted # None
                  /\ 0 \notin DOMAIN book.snaps
        first == IF zeroth THEN OnLapChange(book, 0, FALSE) ELSE book
        changed == OnLapChange(first, IF book.cur < Lap THEN book.cur ELSE Lap, book.cur > Lap)
        next == IF book.cur \in {None, Lap} THEN first
                ELSE IF changed.raised THEN changed
                ELSE OnEvent([changed EXCEPT !.cur = Lap], "lap")
    IN
    /\ Running
    /\ book' = IF next.raised THEN next ELSE [next EXCEPT !.cur = Lap]
    /\ Arrived("lap")

\* processCarDamageUpdate
CarDamage ==
    LET worst == IF book.worst # None /\ book.worst.wear >= NewDamage.wear
                 THEN book.worst ELSE NewDamage
    IN
    /\ Running
    /\ book' = OnEvent([book EXCEPT !.dmg = NewDamage, !.worst = worst], "damage")
    /\ Arrived("damage")

\* processTyreSetsUpdate
TyreSets ==
    /\ Running
    /\ book' = UpdateTyreSetData([book EXCEPT !.fitted = road[Len(road)]])
    /\ Arrived("tyres")

\* CAR_STATUS, CAR_TELEMETRY and, for a driver who is valid by now, SESSION.
OtherPackets ==
    /\ Running
    /\ book.cur # None
    /\ book' = [book EXCEPT !.rest = TRUE]
    /\ UNCHANGED <<setting, road, stops, flashbacks, landed, told>>

\* finalClassificationEventUpdater: the lap the car was on counts or not.
FinalClassification ==
    /\ Running
    /\ \E numLaps \in {Lap - 1, Lap} :
          book' = [OnLapChange(book, numLaps, FALSE) EXCEPT !.final = TRUE]
    /\ UNCHANGED <<setting, road, stops, flashbacks, landed, told>>

\* getFullJSON and the other readers of _getTyreSetHistoryJSON, between two packets.  The
\* last lap is the last one begun according to the latest session history packet, which in an
\* unsteady session may be of any earlier moment and, after a flashback, of an undone one.
ReadHistory ==
    /\ book.fitted # None
    /\ \E numLaps \in 1..LapAt(MaxMoments) :
          /\ IF setting.steady THEN numLaps = Lap ELSE numLaps <= Lap \/ flashbacks > 0
          /\ book' = [book EXCEPT !.stints = Tidied(@, numLaps)]
    /\ UNCHANGED <<setting, road, stops, flashbacks, landed, told>>

Handler ==
    \/ LapData \/ CarDamage \/ TyreSets \/ OtherPackets
    \/ FinalClassification \/ ReadHistory

Next == Drive \/ PitStop \/ Flashback \/ Handler

Spec == Init /\ [][Next]_vars

-----------------------------------------------------------------------------

Entries(s) == {s[i] : i \in DOMAIN s}

WearEntry == [lap : Int, of : Damage]
IsStint(s) ==
    /\ s.start \in 1..MaxMoments /\ s.set \in TyreSet
    /\ Entries(s.wears) \subseteq WearEntry

\* The type invariant.
TypeOK ==
    /\ setting \in Setting
    /\ Len(road) \in 1..MaxMoments /\ Entries(road) \subseteq TyreSet
    /\ book.cur \in {None} \cup 1..MaxMoments
    /\ book.dmg \in {None} \cup Damage /\ book.worst \in {None} \cup Damage
    /\ DOMAIN book.snaps \subseteq 0..MaxMoments
    /\ \A k \in DOMAIN book.snaps : book.snaps[k] \in {None} \cup Damage
    /\ \A i \in DOMAIN book.stints : IsStint(book.stints[i])
    /\ Entries(book.curve) \subseteq WearEntry
    /\ book.pending \subseteq {"lap", "damage"} /\ told \subseteq {"lap", "tyres", "damage"}

\* No snapshot is of a lap beyond the one the car was last heard on, also after flashbacks
\* over several laps and with any packets lost.  session_state.py:527 has one rule for every
\* lap number that differs; a snapshot of an abandoned future would never be replaced, since
\* a lap that has one is skipped when the car drives it again.
LapsBehindCar ==
    setting.offlineRace /\ ~book.final =>
        \A lap \in DOMAIN book.snaps : book.cur # None /\ lap <= book.cur

\* What was recorded of a lap is final until the driver goes back to that lap or to an
\* earlier one: a repeated packet, a second classification or a flashback to a later lap
\* neither replace nor lose it.  (Marking a record as undone is not a change of it.)
Content(damage) == IF damage = None THEN None ELSE <<damage.at, damage.set, damage.wear>>
HistoryIsFinal ==
    [][\A lap \in DOMAIN book.snaps :
          \/ lap \in DOMAIN book'.snaps /\ Content(book'.snaps[lap]) = Content(book.snaps[lap])
          \/ Lap < book.cur /\ Lap <= lap
          \/ lap = 0 /\ book.snaps[0] = None]_vars

\* A flashback leaves no record of a driven-and-undone lap behind, except of the lap it
\* lands on (that one is deleted and at once taken again from the packet copies, which are
\* the undone ones, and is then skipped when the car completes the lap for good) and of the
\* zeroth lap, which is taken late and once.
StaleOnlyWhereLanded ==
    setting.offlineRace /\ setting.steady /\ "lap" \in told /\ ~book.final =>
        \A lap \in DOMAIN book.snaps :
            book.snaps[lap] # None /\ book.snaps[lap].undone => lap \in landed \cup {0}

\* Once a first tyre change is through, every wear in a stint, and the whole curve that predicts
\* the wear, is of the stint's own tyres, whichever side of the finish line the garage is on
\* and in whatever order lap, damage and tyre set packets come.  data_per_driver.py:754-764
\* is about this: a curve that starts from the old tyres has a negative slope.  A second
\* change, while the window of "worst" still holds the first tyres, ends its stint with theirs.
WearOfOwnTyres ==
    setting.steady /\ flashbacks = 0 /\ stops <= 1 /\ book.pending = {} /\ ~book.final =>
        /\ \A i \in DOMAIN book.stints : \A w \in Entries(book.stints[i].wears) :
              w.of.set = book.stints[i].set
        /\ book.stints # <<>> =>
              \A w \in Entries(book.curve) : w.of.set = Last(book.stints).set

\* The only ways a handler raises and so ends the receive task: a lap change with a tyre set
\* heard of before any damage packet; and, on a track whose garage comes before the line, a
\* tyre change that waits while a flashback clears the history it needs, or while a reader
\* with an old session history empties it.
OnlyKnownFailures ==
    book.raised => \/ book.dmg = None
                   \/ setting.weird /\ (flashbacks > 0 \/ ~setting.steady)
=============================================================================
