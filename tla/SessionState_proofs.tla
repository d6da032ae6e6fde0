------------------------ MODULE SessionState_proofs ------------------------
(***************************************************************************)
(* What SessionState keeps is right after any flashbacks: the laps of a    *)
(* driver (DriverLaps), the samples for the delta (LapDelta), the holder   *)
(* of the fastest lap (FastestLap).  They are proved about where their     *)
(* specifications meet, in MCSessionState, for all values of the           *)
(* constants, and so for any race, of any length, with any number of cars. *)
(* Each part has an invariant of its own.                                  *)
(***************************************************************************)
EXTENDS MCSessionState, FiniteSetTheorems, WellFoundedInduction, TLAPS

\* A set of numbers that is not empty has a least one.
LEMMA LeastNumber ==
    ASSUME NEW S, S \subseteq Nat, S # {}
    PROVE  \E m \in S : \A k \in S : m <= k
<1>1. PICK m \in S : \A k \in S : <<k, m>> \notin OpToRel(<, Nat)
  BY WFMin, NatLessThanWellFounded, Zenon
<1>2. \A k \in S : ~(k < m)
  BY <1>1, Zenon DEF OpToRel
<1>. QED BY <1>2

-----------------------------------------------------------------------------
(* DriverLaps.  Which laps have a snapshot, and when one may change, with  *)
(* any packets lost or repeated.  The invariant is LapsBehindCar with the  *)
(* types it needs; the rest of a driver's book (stints, wear curve, what a *)
(* tyre change waits for) has no part in it.                               *)

Field == {"cur", "dmg", "fitted", "rest", "snaps", "stints", "curve", "worst", "pending",
          "final", "raised"}

IsBook(b) ==
    /\ DOMAIN b = Field
    /\ b.cur \in {None} \cup Nat
    /\ b.dmg \in {None} \cup Damage
    /\ DOMAIN b.snaps \subseteq Nat
    /\ \A k \in DOMAIN b.snaps : b.snaps[k] \in {None} \cup Damage

\* A step of the book that leaves the snapshots alone.
Keeps(b, c) ==
    /\ IsBook(c)
    /\ c.cur = b.cur /\ c.snaps = b.snaps /\ c.final = b.final

Behind(b) == \A k \in DOMAIN b.snaps : b.cur # None /\ k <= b.cur

LapsTypes ==
    /\ setting \in Setting
    /\ road \in Seq(TyreSet) /\ Len(road) \in 1..MaxMoments
    /\ IsBook(book)

LapsInv == LapsTypes /\ (setting.offlineRace /\ ~book.final => Behind(book))

-----------------------------------------------------------------------------

LEMMA Bounds == {MaxMoments, MaxUnsteady} \subseteq Nat
                /\ MaxUnsteady <= MaxMoments /\ MaxMoments > 0
                /\ None \notin Nat /\ None \notin Damage
BY DriverLapsAssumption, NoDamageAssumption

LEMMA LapNumber == ASSUME LapsTypes PROVE Lap \in Nat /\ Lap >= 1
BY Bounds DEF LapsTypes, Lap, LapAt

\* A damage packet says what Damage allows.
LEMMA NewDamageType == ASSUME LapsTypes PROVE NewDamage \in Damage
<1>. DEFINE n == Len(road)
            worn == {k \in 1..n : road[k] = road[n] /\ k % 2 = 1}
<1>1. IsFiniteSet(1..n) /\ Cardinality(1..n) = n
  BY FS_Interval DEF LapsTypes
<1>2. Cardinality(worn) \in 0..n
  <2>1. worn \subseteq 1..n
    OBVIOUS
  <2>2. IsFiniteSet(worn) /\ Cardinality(worn) <= Cardinality(1..n)
    BY <1>1, <2>1, FS_Subset
  <2>. QED BY <1>1, <2>2, FS_CardinalityType
<1>3. Worn(road[n], n) \in 0..MaxMoments
  BY <1>2, Bounds DEF Worn, LapsTypes
<1>4. road[n] \in TyreSet /\ n \in 1..MaxMoments
  BY DEF LapsTypes
<1>. QED BY <1>3, <1>4 DEF NewDamage, Damage

-----------------------------------------------------------------------------

LEMMA CaptureAddsOne ==
    ASSUME NEW b, IsBook(b), NEW lap \in Nat
    PROVE  /\ IsBook(Capture(b, lap))
           /\ Capture(b, lap).cur = b.cur /\ Capture(b, lap).final = b.final
           /\ DOMAIN Capture(b, lap).snaps = DOMAIN b.snaps \cup {lap}
           /\ \A k \in DOMAIN b.snaps \ {lap} : Capture(b, lap).snaps[k] = b.snaps[k]
<1>. DEFINE stored == [k \in DOMAIN b.snaps \cup {lap} |->
                          IF k = lap THEN b.dmg ELSE b.snaps[k]]
<1>1. /\ DOMAIN stored = DOMAIN b.snaps \cup {lap}
      /\ \A k \in DOMAIN b.snaps \ {lap} : stored[k] = b.snaps[k]
      /\ \A k \in DOMAIN stored : stored[k] \in {None} \cup Damage
  BY DEF IsBook
<1>2. /\ Capture(b, lap).snaps = stored
      /\ Capture(b, lap).cur = b.cur /\ Capture(b, lap).final = b.final
      /\ Capture(b, lap).dmg = b.dmg
      /\ DOMAIN Capture(b, lap) = Field
  BY DEF Capture, IsBook, Field
<1>. QED BY <1>1, <1>2 DEF IsBook

\* A lap change adds at most the snapshot of that lap, and deletes, when it is a flashback of
\* an offline race, those from that lap on.
LEMMA LapChange ==
    ASSUME NEW b, IsBook(b), NEW lap \in Nat, NEW isFlashback \in BOOLEAN
    PROVE  LET c == OnLapChange(b, lap, isFlashback) IN
           /\ IsBook(c) /\ c.cur = b.cur /\ c.final = b.final
           /\ \A k \in DOMAIN c.snaps :
                 \/ k = lap
                 \/ k \in DOMAIN b.snaps /\ (isFlashback /\ setting.offlineRace => k < lap)
           /\ \A k \in DOMAIN b.snaps :
                 \/ k \in DOMAIN c.snaps /\ c.snaps[k] = b.snaps[k]
                 \/ isFlashback /\ k >= lap
<1>. DEFINE now == IF isFlashback /\ setting.offlineRace THEN HandleFlashback(b, lap) ELSE b
<1>1. /\ IsBook(now) /\ now.cur = b.cur /\ now.final = b.final
      /\ \A k \in DOMAIN now.snaps :
            k \in DOMAIN b.snaps /\ (isFlashback /\ setting.offlineRace => k < lap)
      /\ \A k \in DOMAIN b.snaps :
            \/ k \in DOMAIN now.snaps /\ now.snaps[k] = b.snaps[k]
            \/ isFlashback /\ k >= lap
  <2>1. CASE isFlashback /\ setting.offlineRace
    <3>. DEFINE kept == DOMAIN b.snaps \ {k \in DOMAIN b.snaps : k >= lap}
    <3>1. /\ now.snaps = [k \in kept |-> b.snaps[k]]
          /\ now.cur = b.cur /\ now.final = b.final /\ now.dmg = b.dmg
          /\ DOMAIN now = Field
      BY <2>1 DEF HandleFlashback, IsBook, Field
    <3>2. \A k \in kept : k < lap
      BY DEF IsBook
    <3>. QED BY <2>1, <3>1, <3>2 DEF IsBook
  <2>2. CASE ~(isFlashback /\ setting.offlineRace)
    BY <2>2
  <2>. QED BY <2>1, <2>2
<1>2. OnLapChange(b, lap, isFlashback) =
          IF lap \in DOMAIN now.snaps THEN now ELSE Capture(now, lap)
  BY DEF OnLapChange
<1>. HIDE DEF now
<1>3. CASE lap \in DOMAIN now.snaps
  BY <1>1, <1>2, <1>3
<1>4. CASE lap \notin DOMAIN now.snaps
  BY <1>1, <1>2, <1>4, CaptureAddsOne
<1>. QED BY <1>3, <1>4

\* A tyre change that was waited for, or its failure.
LEMMA EventKeeps ==
    ASSUME NEW b, IsBook(b), NEW what
    PROVE  Keeps(b, OnEvent(b, what))
<1>1. ASSUME NEW c, IsBook(c) PROVE Keeps(c, OnTyreSetChange(c))
  BY <1>1 DEF OnTyreSetChange, Keeps, IsBook, Field
<1>2. ASSUME NEW c, IsBook(c), NEW stints PROVE Keeps(c, [c EXCEPT !.stints = stints])
  BY <1>2 DEF Keeps, IsBook, Field
<1>3. ASSUME NEW c, IsBook(c) PROVE Keeps(c, DelayedChangeWeird(c))
  <2>. DEFINE overwritten == OverwriteTyreWear(c.stints, WearAt(c.cur - 1, c.worst))
  <2>1. Keeps(c, [c EXCEPT !.raised = TRUE])
    BY <1>3 DEF Keeps, IsBook, Field
  <2>2. Keeps(c, OnTyreSetChange([c EXCEPT !.stints = overwritten]))
    <3>. HIDE DEF overwritten
    <3>1. Keeps(c, [c EXCEPT !.stints = overwritten])
      BY <1>2, <1>3
    <3>. QED BY <1>1, <3>1 DEF Keeps
  <2>. QED BY <2>1, <2>2 DEF DelayedChangeWeird
<1>4. ASSUME NEW c, IsBook(c) PROVE Keeps(c, DelayedChange(c))
  BY <1>1, <1>3, <1>4 DEF DelayedChange
<1>. DEFINE left == [b EXCEPT !.pending = @ \ {what}]
<1>5. Keeps(b, left) /\ Keeps(b, b)
  BY DEF Keeps, IsBook, Field
<1>6. OnEvent(b, what) = IF what \notin b.pending THEN b
                          ELSE IF left.pending = {} THEN DelayedChange(left) ELSE left
  BY DEF OnEvent
<1>. HIDE DEF left
<1>7. Keeps(b, DelayedChange(left))
  BY <1>4, <1>5 DEF Keeps
<1>. QED BY <1>5, <1>6, <1>7

\* The snapshots after a flashback of the game: the same records, some marked.
LEMMA Undone ==
    ASSUME IsBook(book), NEW n \in Nat
    PROVE  /\ IsBook(UndoBook(n))
           /\ UndoBook(n).cur = book.cur /\ UndoBook(n).final = book.final
           /\ DOMAIN UndoBook(n).snaps = DOMAIN book.snaps
           /\ \A k \in DOMAIN book.snaps :
                 Content(UndoBook(n).snaps[k]) = Content(book.snaps[k])
<1>1. ASSUME NEW d \in {None} \cup Damage
      PROVE  Undo(d, n) \in {None} \cup Damage /\ Content(Undo(d, n)) = Content(d)
  <2>1. CASE d = None
    BY <2>1 DEF Undo
  <2>2. CASE d # None
    <3>1. d \in Damage /\ (d.undone \/ d.at > n) \in BOOLEAN
      BY <2>2 DEF Damage
    <3>. QED
      BY <2>2, <3>1, Bounds DEF Undo, Content, Damage
  <2>. QED BY <2>1, <2>2
<1>2. /\ UndoBook(n).snaps = [k \in DOMAIN book.snaps |-> Undo(book.snaps[k], n)]
      /\ UndoBook(n).cur = book.cur /\ UndoBook(n).final = book.final
      /\ UndoBook(n).dmg = Undo(book.dmg, n)
      /\ DOMAIN UndoBook(n) = Field
  BY DEF UndoBook, IsBook, Field
<1>. QED BY <1>1, <1>2 DEF IsBook

-----------------------------------------------------------------------------

\* What the two properties say of a step of the book that "game" leaves alone.
Final(lap, b, c) ==
    \A k \in DOMAIN b.snaps :
        \/ k \in DOMAIN c.snaps /\ Content(c.snaps[k]) = Content(b.snaps[k])
        \/ b.cur # None /\ lap < b.cur /\ lap <= k
        \/ k = 0 /\ b.snaps[0] = None

Safe(lap, b, c) ==
    /\ IsBook(c)
    /\ (setting.offlineRace /\ ~b.final => Behind(b))
           => (setting.offlineRace /\ ~c.final => Behind(c))
    /\ Final(lap, b, c)

\* The first stint may drop the zeroth snapshot, if that has no damage record.
LEMMA TyreSetsSafe ==
    ASSUME LapsTypes, TyreSets
    PROVE  Safe(Lap, book, book')
<1>. DEFINE b == [book EXCEPT !.fitted = road[Len(road)]]
            c == UpdateTyreSetData(b)
<1>1. Keeps(book, b) /\ book' = c
  BY DEF LapsTypes, TyreSets, Keeps, IsBook, Field
<1>. HIDE DEF b
<1>2. \/ Keeps(b, c)
      \/ /\ IsBook(c) /\ c.cur = b.cur /\ c.final = b.final
         /\ b.snaps[0] = None
         /\ c.snaps = [k \in DOMAIN b.snaps \ {0} |-> b.snaps[k]]
  BY <1>1 DEF UpdateTyreSetData, Keeps, IsBook, Field
<1>3. CASE Keeps(b, c)
  BY <1>1, <1>3 DEF Keeps, Safe, Final, Behind
<1>4. CASE /\ IsBook(c) /\ c.cur = b.cur /\ c.final = b.final
           /\ b.snaps[0] = None
           /\ c.snaps = [k \in DOMAIN b.snaps \ {0} |-> b.snaps[k]]
  BY <1>1, <1>4 DEF Keeps, Safe, Final, Behind
<1>. QED BY <1>2, <1>3, <1>4

\* A lap data packet: perhaps the zeroth snapshot, then perhaps the change of the lap, then
\* perhaps the tyre change that waited for it.
LEMMA LapDataSafe ==
    ASSUME LapsInv, LapData
    PROVE  Safe(Lap, book, book')
<1>. DEFINE zeroth == book.cur = 1 /\ book.rest /\ book.dmg # None /\ book.fitted # None
                      /\ 0 \notin DOMAIN book.snaps
            first == IF zeroth THEN OnLapChange(book, 0, FALSE) ELSE book
            lap == IF book.cur < Lap THEN book.cur ELSE Lap
            back == book.cur > Lap
            changed == OnLapChange(first, lap, back)
            moved == OnEvent([changed EXCEPT !.cur = Lap], "lap")
            next == IF book.cur \in {None, Lap} THEN first
                    ELSE IF changed.raised THEN changed
                    ELSE moved
<1>1. book' = IF next.raised THEN next ELSE [next EXCEPT !.cur = Lap]
  BY DEF LapData
<1>2. Lap \in Nat /\ IsBook(book) /\ None \notin Nat
  BY LapNumber, Bounds DEF LapsInv, LapsTypes
<1>3. /\ IsBook(first) /\ first.cur = book.cur /\ first.final = book.final
      /\ \A k \in DOMAIN first.snaps : k \in DOMAIN book.snaps \/ (k = 0 /\ book.cur = 1)
      /\ \A k \in DOMAIN book.snaps :
            k \in DOMAIN first.snaps /\ first.snaps[k] = book.snaps[k]
  <2>1. CASE zeroth
    <3>1. first = OnLapChange(book, 0, FALSE) /\ book.cur = 1
      BY <2>1
    <3>. HIDE DEF first
    <3>. QED BY <1>2, <3>1, LapChange, ZenonT(60)
  <2>2. CASE ~zeroth
    BY <1>2, <2>2
  <2>. QED BY <2>1, <2>2
<1>. HIDE DEF first
<1>4. CASE book.cur \in {None, Lap}
  <2>1. next = first
    BY <1>4
  <2>2. IsBook([first EXCEPT !.cur = Lap]) /\ [first EXCEPT !.cur = Lap].cur = Lap
        /\ [first EXCEPT !.cur = Lap].snaps = first.snaps
        /\ [first EXCEPT !.cur = Lap].final = first.final
    BY <1>2, <1>3 DEF IsBook, Field
  <2>. HIDE DEF next
  <2>3. /\ IsBook(book') /\ book'.snaps = first.snaps /\ book'.final = first.final
        /\ book'.cur \in {first.cur, Lap}
    BY <1>1, <1>3, <2>1, <2>2
  <2>4. setting.offlineRace /\ ~book'.final => Behind(book')
    BY <1>2, <1>3, <1>4, <2>3 DEF LapsInv, Behind
  <2>. QED BY <1>3, <2>3, <2>4 DEF Safe, Final
<1>5. CASE book.cur \notin {None, Lap}
  <2>. DEFINE d == [changed EXCEPT !.cur = Lap]
  <2>1. book.cur \in Nat /\ lap \in Nat /\ back \in BOOLEAN
    BY <1>2, <1>5 DEF IsBook
  <2>. HIDE DEF lap, back
  <2>2. /\ IsBook(changed) /\ changed.cur = book.cur /\ changed.final = book.final
        /\ \A k \in DOMAIN changed.snaps :
              \/ k = lap
              \/ k \in DOMAIN first.snaps /\ (back /\ setting.offlineRace => k < lap)
        /\ \A k \in DOMAIN first.snaps :
              \/ k \in DOMAIN changed.snaps /\ changed.snaps[k] = first.snaps[k]
              \/ back /\ k >= lap
    BY <1>3, <2>1, LapChange
  <2>. HIDE DEF changed
  <2>3. IsBook(d) /\ d.cur = Lap /\ d.snaps = changed.snaps /\ d.final = changed.final
    BY <1>2, <2>2 DEF IsBook, Field
  <2>4. Keeps(d, moved)
    BY <2>3, EventKeeps
  <2>5. IsBook(next) /\ next.snaps = changed.snaps /\ next.final = changed.final
        /\ next.cur \in {book.cur, Lap} /\ (next.cur # Lap => next.raised)
    BY <1>5, <2>2, <2>3, <2>4 DEF Keeps
  <2>. HIDE DEF next
  <2>6. /\ IsBook([next EXCEPT !.cur = Lap]) /\ [next EXCEPT !.cur = Lap].cur = Lap
        /\ [next EXCEPT !.cur = Lap].snaps = next.snaps
        /\ [next EXCEPT !.cur = Lap].final = next.final
    BY <1>2, <2>5 DEF IsBook, Field
  <2>7. /\ IsBook(book') /\ book'.snaps = changed.snaps /\ book'.final = book.final
        /\ book'.cur \in {book.cur, Lap}
    BY <1>1, <2>2, <2>5, <2>6
  <2>8. ASSUME setting.offlineRace, ~book'.final
        PROVE  Behind(book')
    <3>1. Behind(book)
      BY <2>7, <2>8 DEF LapsInv
    <3>2. \A k \in DOMAIN first.snaps : k <= book.cur /\ k \in Nat
      BY <1>3, <2>1, <3>1 DEF Behind, IsBook
    <3>3. \A k \in DOMAIN changed.snaps : k <= book.cur /\ k <= Lap
      BY <1>2, <2>1, <2>2, <2>8, <3>2 DEF lap, back
    <3>. QED BY <1>2, <2>1, <2>7, <3>3 DEF Behind
  <2>9. Final(Lap, book, book')
    BY <1>2, <1>3, <2>1, <2>2, <2>7 DEF Final, IsBook, lap, back
  <2>. QED BY <2>7, <2>8, <2>9 DEF Safe
<1>. QED BY <1>4, <1>5

-----------------------------------------------------------------------------

LEMMA HandlerSafe ==
    ASSUME LapsInv, Handler
    PROVE  Safe(Lap, book, book') /\ UNCHANGED <<setting, road>>
<1>1. CASE LapData
  BY <1>1, LapDataSafe DEF LapData, Arrived
<1>2. CASE CarDamage
  <2>. DEFINE worst == IF book.worst # None /\ book.worst.wear >= NewDamage.wear
                       THEN book.worst ELSE NewDamage
              b == [book EXCEPT !.dmg = NewDamage, !.worst = worst]
  <2>1. Keeps(book, b)
    <3>. HIDE DEF worst
    <3>. QED BY NewDamageType DEF LapsInv, LapsTypes, Keeps, IsBook, Field
  <2>2. book' = OnEvent(b, "damage")
    BY <1>2 DEF CarDamage
  <2>. HIDE DEF b
  <2>3. Keeps(book, book')
    BY <2>1, <2>2, EventKeeps DEF Keeps
  <2>. QED BY <1>2, <2>3 DEF Keeps, Safe, Final, Behind, CarDamage, Arrived
<1>3. CASE TyreSets
  BY <1>3, TyreSetsSafe DEF LapsInv, TyreSets, Arrived
<1>4. CASE OtherPackets
  <2>1. Keeps(book, book')
    BY <1>4 DEF OtherPackets, LapsInv, LapsTypes, Keeps, IsBook, Field
  <2>. QED BY <1>4, <2>1 DEF Keeps, Safe, Final, Behind, OtherPackets
<1>5. CASE FinalClassification
  <2>1. PICK lap \in {Lap - 1, Lap} :
            book' = [OnLapChange(book, lap, FALSE) EXCEPT !.final = TRUE]
    BY <1>5 DEF FinalClassification
  <2>. DEFINE c == OnLapChange(book, lap, FALSE)
  <2>2. lap \in Nat /\ IsBook(book)
    BY LapNumber DEF LapsInv, LapsTypes
  <2>3. /\ IsBook(c)
        /\ \A k \in DOMAIN book.snaps : k \in DOMAIN c.snaps /\ c.snaps[k] = book.snaps[k]
    BY <2>2, LapChange
  <2>4. book' = [c EXCEPT !.final = TRUE]
    BY <2>1
  <2>. HIDE DEF c
  <2>5. IsBook(book') /\ book'.snaps = c.snaps /\ book'.final
    BY <2>3, <2>4 DEF IsBook, Field
  <2>. QED BY <1>5, <2>3, <2>5 DEF Safe, Final, FinalClassification
<1>6. CASE ReadHistory
  <2>1. PICK n : book' = [book EXCEPT !.stints = Tidied(@, n)]
    BY <1>6 DEF ReadHistory
  <2>2. Keeps(book, book')
    BY <2>1 DEF LapsInv, LapsTypes, Keeps, IsBook, Field
  <2>. QED BY <1>6, <2>2 DEF Keeps, Safe, Final, Behind, ReadHistory
<1>. QED BY <1>1, <1>2, <1>3, <1>4, <1>5, <1>6 DEF Handler

\* The game moves the car, and a flashback marks what it undoes.
LEMMA GameSafe ==
    ASSUME LapsInv, Drive \/ PitStop \/ Flashback
    PROVE  /\ setting' = setting
           /\ road' \in Seq(TyreSet) /\ Len(road') \in 1..MaxMoments
           /\ Safe(Lap, book, book')
<1>. USE DEF LapsInv, LapsTypes
<1>1. CASE Drive \/ PitStop
  <2>1. PICK set \in TyreSet : road' = Append(road, set)
    BY <1>1 DEF Drive, PitStop
  <2>2. Len(road) + 1 <= MaxMoments
    BY <1>1, Bounds DEF Drive, PitStop, MayMove
  <2>3. book' = book /\ setting' = setting
    BY <1>1 DEF Drive, PitStop
  <2>4. Len(road') = Len(road) + 1 /\ road' \in Seq(TyreSet)
    BY <2>1
  <2>5. Len(road') \in 1..MaxMoments
    BY <2>2, <2>4, Bounds
  <2>. QED BY <2>3, <2>4, <2>5 DEF Safe, Final
<1>2. CASE Flashback
  <2>1. PICK n \in 1..(Len(road) - 1) : road' = SubSeq(road, 1, n) /\ book' = UndoBook(n)
    BY <1>2 DEF Flashback
  <2>2. n \in Nat /\ 1 <= n /\ n <= Len(road)
    OBVIOUS
  <2>3. road' \in Seq(TyreSet) /\ Len(road') = n
    BY <2>1, <2>2
  <2>4. /\ IsBook(book') /\ book'.cur = book.cur /\ book'.final = book.final
        /\ DOMAIN book'.snaps = DOMAIN book.snaps
        /\ \A k \in DOMAIN book.snaps : Content(book'.snaps[k]) = Content(book.snaps[k])
    BY <2>1, <2>2, Undone
  <2>5. Safe(Lap, book, book')
    BY <2>4 DEF Safe, Final, Behind
  <2>6. setting' = setting /\ Len(road') \in 1..MaxMoments
    BY <1>2, <2>2, <2>3, Bounds DEF Flashback
  <2>. QED BY <2>3, <2>5, <2>6
<1>. QED BY <1>1, <1>2

LEMMA LapsInit == Init => LapsInv
<1>. SUFFICES ASSUME Init PROVE LapsInv
  OBVIOUS
<1>1. IsBook(book) /\ book.snaps = <<>>
  BY DEF Init, NewBook, IsBook, Field
<1>2. setting \in Setting
  BY DriverLapsAssumption DEF Init
<1>3. road \in Seq(TyreSet) /\ Len(road) = 1
  BY DEF Init
<1>. QED BY <1>1, <1>2, <1>3, Bounds DEF LapsInv, LapsTypes, Behind

LEMMA LapsStep == LapsInv /\ [Next]_vars => LapsInv' /\ (Final(Lap, book, book') \/ UNCHANGED vars)
<1>. SUFFICES ASSUME LapsInv, [Next]_vars
              PROVE  LapsInv' /\ (Final(Lap, book, book') \/ UNCHANGED vars)
  OBVIOUS
<1>1. CASE Handler
  BY <1>1, HandlerSafe DEF LapsInv, LapsTypes, Safe
<1>2. CASE Drive \/ PitStop \/ Flashback
  BY <1>2, GameSafe DEF LapsInv, LapsTypes, Safe
<1>3. CASE UNCHANGED vars
  BY <1>3 DEF vars, LapsInv, LapsTypes, Behind, IsBook
<1>. QED BY <1>1, <1>2, <1>3 DEF Next

LEMMA LapsAlways == Spec => []LapsInv
BY LapsInit, LapsStep, PTL DEF Spec

\* No snapshot is of a lap that the car has not been heard on: HandleFlashback deletes enough
\* and OnLapChange takes no snapshot ahead of the car, whatever is lost or comes twice.
THEOREM SnapshotsBehindCar == Spec => []LapsBehindCar
<1>1. LapsInv => LapsBehindCar
  BY DEF LapsInv, LapsBehindCar, Behind
<1>. QED BY <1>1, LapsAlways, PTL

\* The record of a lap changes only when the driver goes back to that lap or before it.
THEOREM SnapshotsFinal == Spec => HistoryIsFinal
<1>1. Final(Lap, book, book') \/ UNCHANGED vars =>
          [\A lap \in DOMAIN book.snaps :
             \/ lap \in DOMAIN book'.snaps
                /\ Content(book'.snaps[lap]) = Content(book.snaps[lap])
             \/ Lap < book.cur /\ Lap <= lap
             \/ lap = 0 /\ book.snaps[0] = None]_vars
  BY DEF Final
<1>. QED BY <1>1, LapsAlways, LapsStep, PTL DEF Spec, HistoryIsFinal

-----------------------------------------------------------------------------
(* The rest of the book: stints, the wear curve, what a tyre change waits  *)
(* for, and which failures end the receive task.  A handler raises over a  *)
(* damage packet that never came, or over a tyre change whose history is   *)
(* gone; the invariant says besides the types what that history is as long *)
(* as nothing but a reader can have taken it.                              *)

Stint == [start : 1..MaxMoments, set : TyreSet, wears : Seq(WearEntry)]

\* The types, and that nothing is derived from damage data that never came.
Typed(b) ==
    /\ b.cur \in {None} \cup 1..MaxMoments /\ DOMAIN b.snaps \subseteq 0..MaxMoments
    /\ b.fitted \in {None} \cup TyreSet
    /\ b.worst \in {None} \cup Damage
    /\ b.stints \in Seq(Stint) /\ b.curve \in Seq(WearEntry)
    /\ b.pending \subseteq {"lap", "damage"}
    /\ b.raised \in BOOLEAN
    /\ b.dmg = None => /\ b.stints = <<>> /\ b.pending = {}
                       /\ \A k \in DOMAIN b.snaps : b.snaps[k] = None
    /\ b.pending # {} => b.cur # None /\ b.fitted # None

\* Before any flashback, with the car on lap n: the wear of the last packets is known as soon as
\* there was one, no stint lies ahead, each has a wear, and a tyre change that waits has a stint
\* to end, unless a reader with an old session history dropped it.
Orderly(b, n) ==
    /\ b.cur # None => b.cur <= n
    /\ b.dmg # None => b.worst # None
    /\ \A i \in DOMAIN b.stints : b.stints[i].start <= n /\ b.stints[i].wears # <<>>
    /\ b.pending # {} /\ setting.steady => b.stints # <<>>

\* OnlyKnownFailures, of the book b, and what keeps it so.
Blamed(b, n) ==
    /\ b.raised => \/ b.dmg = None
                   \/ setting.weird /\ (flashbacks > 0 \/ ~setting.steady)
    /\ flashbacks = 0 => Orderly(b, n)

Good(b, n) == IsBook(b) /\ Typed(b) /\ Blamed(b, n)

BookInv ==
    /\ LapsInv
    /\ flashbacks \in Nat /\ told \subseteq {"lap", "tyres", "damage"}
    /\ Good(book, Lap)

LEMMA LapBound == ASSUME LapsTypes PROVE Lap \in 1..MaxMoments
BY Bounds DEF LapsTypes, Lap, LapAt

\* At(s, kept) is made of the entries of s at kept, of none only if none are kept, and ends with
\* the last of them.
LEMMA EntriesAt ==
    ASSUME NEW S, NEW s \in Seq(S), NEW kept, kept \subseteq DOMAIN s
    PROVE  /\ At(s, kept) \in Seq(S)
           /\ \A j \in DOMAIN At(s, kept) : \E i \in kept : At(s, kept)[j] = s[i]
           /\ kept # {} => At(s, kept) # <<>>
           /\ \A i \in kept : (\A k \in kept : k <= i) => Last(At(s, kept)) = s[i]
<1>. DEFINE upTo(i) == {k \in kept : k <= i}
            rank == [i \in kept |-> Cardinality(upTo(i))]
            nth(j) == CHOOSE i \in kept : Cardinality({k \in kept : k <= i}) = j
            size == Cardinality(kept)
<1>1. IsFiniteSet(kept) /\ kept \subseteq Nat /\ size \in Nat
  <2>1. DOMAIN s = 1..Len(s) /\ Len(s) \in Nat
    OBVIOUS
  <2>2. IsFiniteSet(1..Len(s)) /\ kept \subseteq 1..Len(s)
    BY <2>1, FS_Interval
  <2>3. IsFiniteSet(kept)
    BY <2>2, FS_Subset
  <2>. QED BY <2>2, <2>3, FS_CardinalityType
<1>2. At(s, kept) = [j \in 1..size |-> s[nth(j)]]
  BY DEF At
<1>3. \A i \in kept : IsFiniteSet(upTo(i)) /\ rank[i] \in 1..size
  <2>. TAKE i \in kept
  <2>1. IsFiniteSet(upTo(i)) /\ Cardinality(upTo(i)) <= size
    BY <1>1, FS_Subset
  <2>2. Cardinality(upTo(i)) \in Nat /\ Cardinality(upTo(i)) # 0
    <3>1. i \in upTo(i)
      BY <1>1
    <3>. QED BY <2>1, <3>1, FS_CardinalityType, FS_EmptySet
  <2>. QED BY <1>1, <2>1, <2>2
<1>4. rank \in Injection(kept, 1..size)
  <2>1. ASSUME NEW i \in kept, NEW k \in kept, i < k PROVE rank[i] # rank[k]
    <3>1. i \in Nat /\ k \in Nat /\ \A x \in kept : x \in Nat
      BY <1>1
    <3>2. k \in upTo(k) /\ k \notin upTo(i)
      BY <2>1, <3>1
    <3>3. \A x \in upTo(i) : x \in upTo(k)
      BY <2>1, <3>1
    <3>. HIDE DEF upTo
    <3>4. Cardinality(upTo(i)) # Cardinality(upTo(k))
      BY <1>3, <3>2, <3>3, FS_Subset
    <3>. QED BY <3>4
  <2>2. \A i, k \in kept : i # k => rank[i] # rank[k]
    <3>. HIDE DEF rank, size
    <3>1. \A i, k \in kept : i # k => i < k \/ k < i
      BY <1>1
    <3>. QED BY <2>1, <3>1
  <2>3. rank \in [kept -> 1..size]
    BY <1>3
  <2>. HIDE DEF rank
  <2>. QED BY <2>2, <2>3, Zenon DEF Injection, IsInjective
<1>5. rank \in Surjection(kept, 1..size)
  <2>1. IsFiniteSet(1..size) /\ Cardinality(1..size) = size
    BY <1>1, FS_Interval
  <2>. HIDE DEF rank
  <2>. QED BY <1>4, <2>1, FS_Injection
<1>6. \A j \in 1..size : nth(j) \in kept
  <2>. TAKE j \in 1..size
  <2>1. PICK i \in kept : rank[i] = j
    <3>. HIDE DEF rank, size
    <3>. QED BY <1>5 DEF Surjection
  <2>. QED BY <2>1
<1>7. kept # {} => size # 0
  BY <1>1, FS_EmptySet
<1>8. ASSUME NEW i \in kept, \A k \in kept : k <= i PROVE nth(size) = i
  <2>1. upTo(i) = kept
    BY <1>8
  <2>2. rank[i] = size
    BY <2>1
  <2>3. nth(size) \in kept /\ rank[nth(size)] = size
    BY <1>1, <2>2
  <2>. HIDE DEF rank, nth, size
  <2>. QED BY <1>4, <2>2, <2>3 DEF Injection, IsInjective
<1>. HIDE DEF nth, size
<1>9. \A j \in 1..size : nth(j) \in kept /\ s[nth(j)] \in S
  BY <1>6
<1>10. At(s, kept) \in Seq(S) /\ Len(At(s, kept)) = size /\ DOMAIN At(s, kept) = 1..size
  BY <1>1, <1>2, <1>9
<1>11. \A j \in DOMAIN At(s, kept) : At(s, kept)[j] = s[nth(j)] /\ nth(j) \in kept
  BY <1>2, <1>9, <1>10
<1>12. kept # {} => At(s, kept) # <<>>
  BY <1>1, <1>7, <1>10
<1>13. ASSUME NEW i \in kept, \A k \in kept : k <= i PROVE Last(At(s, kept)) = s[i]
  <2>1. size \in 1..size
    BY <1>1, <1>7, <1>13
  <2>. QED BY <1>2, <1>10, <1>8, <1>13, <2>1 DEF Last
<1>. QED BY <1>10, <1>11, <1>12, <1>13

\* The last entry of s becomes e.
LEMMA LastSet ==
    ASSUME NEW S, NEW s \in Seq(S), s # <<>>, NEW e \in S
    PROVE  /\ Len(s) \in DOMAIN s /\ Last(s) \in S
           /\ SetLast(s, e) \in Seq(S) /\ DOMAIN SetLast(s, e) = DOMAIN s
           /\ SetLast(s, e) # <<>>
           /\ \A i \in DOMAIN s : SetLast(s, e)[i] = IF i = Len(s) THEN e ELSE s[i]
<1>. DEFINE t == SetLast(s, e)
            n == Len(s)
<1>1. n \in DOMAIN s /\ Last(s) \in S /\ n \in Nat \ {0} /\ DOMAIN s = 1..n
  BY DEF Last
<1>2. s \in [1..n -> S] /\ n \in 1..n
  BY <1>1
<1>3. t = [s EXCEPT ![n] = e]
  BY DEF SetLast
<1>. HIDE DEF t, n
<1>4. t \in [1..n -> S] /\ t[n] = e /\ \A i \in 1..n : i # n => t[i] = s[i]
  BY <1>2, <1>3, Zenon
<1>5. t \in Seq(S) /\ Len(t) = n
  BY <1>1, <1>4
<1>6. t # <<>> /\ DOMAIN t = 1..n
  BY <1>1, <1>4, <1>5
<1>7. \A i \in DOMAIN s : t[i] = IF i = n THEN e ELSE s[i]
  BY <1>1, <1>4, Zenon
<1>. QED BY <1>1, <1>5, <1>6, <1>7 DEF t, n

\* A wear more, or another one, at the end of the last stint.
WearsLast(s, t) ==
    /\ t \in Seq(Stint) /\ t # <<>> /\ DOMAIN t = DOMAIN s
    /\ \A i \in DOMAIN s : /\ t[i].start = s[i].start /\ t[i].set = s[i].set
                           /\ t[i].wears = s[i].wears \/ (i = Len(s) /\ t[i].wears # <<>>)

LEMMA WearAdded ==
    ASSUME NEW s \in Seq(Stint), s # <<>>, NEW w \in WearEntry
    PROVE  WearsLast(s, AddTyreWear(s, w))
<1>. DEFINE e == [Last(s) EXCEPT !.wears = Append(@, w)]
<1>1. Last(s) \in Stint /\ Last(s) = s[Len(s)]
  BY LastSet DEF Last
<1>2. Append(Last(s).wears, w) \in Seq(WearEntry) /\ Append(Last(s).wears, w) # <<>>
  <2>1. Last(s).wears \in Seq(WearEntry)
    BY <1>1 DEF Stint
  <2>2. Append(Last(s).wears, w) \in Seq(WearEntry) /\ Len(Append(Last(s).wears, w)) # 0
    BY <2>1
  <2>. QED BY <2>2
<1>3. e \in Stint /\ e.start = Last(s).start /\ e.set = Last(s).set /\ e.wears # <<>>
  BY <1>1, <1>2 DEF Stint
<1>4. AddTyreWear(s, w) = SetLast(s, e)
  BY DEF AddTyreWear
<1>. HIDE DEF e
<1>5. /\ SetLast(s, e) \in Seq(Stint) /\ SetLast(s, e) # <<>> /\ DOMAIN SetLast(s, e) = DOMAIN s
      /\ \A i \in DOMAIN s : SetLast(s, e)[i] = IF i = Len(s) THEN e ELSE s[i]
  BY <1>3, LastSet
<1>. QED BY <1>1, <1>3, <1>4, <1>5 DEF WearsLast

LEMMA WearOverwritten ==
    ASSUME NEW s \in Seq(Stint), s # <<>>, Last(s).wears # <<>>, NEW w \in WearEntry
    PROVE  WearsLast(s, OverwriteTyreWear(s, w))
<1>. DEFINE e == [Last(s) EXCEPT !.wears = SetLast(@, w)]
<1>1. Last(s) \in Stint /\ Last(s) = s[Len(s)]
  BY LastSet DEF Last
<1>2. SetLast(Last(s).wears, w) \in Seq(WearEntry) /\ SetLast(Last(s).wears, w) # <<>>
  <2>. DEFINE wears == Last(s).wears
  <2>1. wears \in Seq(WearEntry) /\ wears # <<>>
    BY <1>1 DEF Stint
  <2>. HIDE DEF wears
  <2>2. SetLast(wears, w) \in Seq(WearEntry) /\ SetLast(wears, w) # <<>>
    BY <2>1, LastSet
  <2>. QED BY <2>2 DEF wears
<1>3. e \in Stint /\ e.start = Last(s).start /\ e.set = Last(s).set /\ e.wears # <<>>
  BY <1>1, <1>2 DEF Stint
<1>4. OverwriteTyreWear(s, w) = SetLast(s, e)
  BY DEF OverwriteTyreWear
<1>. HIDE DEF e
<1>5. /\ SetLast(s, e) \in Seq(Stint) /\ SetLast(s, e) # <<>> /\ DOMAIN SetLast(s, e) = DOMAIN s
      /\ \A i \in DOMAIN s : SetLast(s, e)[i] = IF i = Len(s) THEN e ELSE s[i]
  BY <1>3, LastSet
<1>. QED BY <1>1, <1>3, <1>4, <1>5 DEF WearsLast

-----------------------------------------------------------------------------

\* The fields of a book after a snapshot.
Captured(b, lap, c) ==
    LET fails == b.dmg = None /\ b.fitted # None
        wear == WearAt(lap, b.dmg)
    IN  /\ c.cur = b.cur /\ c.dmg = b.dmg /\ c.fitted = b.fitted /\ c.worst = b.worst
        /\ c.pending = b.pending /\ c.final = b.final
        /\ c.raised = IF fails THEN TRUE ELSE b.raised
        /\ c.snaps = [k \in DOMAIN b.snaps \cup {lap} |-> IF k = lap THEN b.dmg ELSE b.snaps[k]]
        /\ c.stints = IF fails \/ lap = 0 \/ b.stints = <<>> THEN b.stints
                      ELSE AddTyreWear(b.stints, wear)
        /\ c.curve = IF fails \/ b.fitted = None THEN b.curve ELSE Append(b.curve, wear)

LEMMA CaptureFields ==
    ASSUME NEW b, IsBook(b), NEW lap
    PROVE  Captured(b, lap, Capture(b, lap))
<1>. DEFINE wear == WearAt(lap, b.dmg)
            stored == [k \in DOMAIN b.snaps \cup {lap} |-> IF k = lap THEN b.dmg ELSE b.snaps[k]]
            stints == IF lap = 0 \/ b.stints = <<>> THEN b.stints ELSE AddTyreWear(b.stints, wear)
            curve == IF b.fitted = None THEN b.curve ELSE Append(b.curve, wear)
            failed == [b EXCEPT !.snaps = stored, !.raised = TRUE]
            done == [b EXCEPT !.snaps = stored, !.rest = FALSE, !.stints = stints, !.curve = curve]
<1>1. Capture(b, lap) = IF b.dmg = None /\ b.fitted # None THEN failed ELSE done
  BY DEF Capture
<1>2. /\ failed.cur = b.cur /\ failed.dmg = b.dmg /\ failed.fitted = b.fitted
      /\ failed.worst = b.worst /\ failed.stints = b.stints /\ failed.pending = b.pending
      /\ failed.final = b.final /\ failed.snaps = stored /\ failed.curve = b.curve
      /\ failed.raised = TRUE
  <2>. HIDE DEF stored
  <2>. QED BY DEF IsBook, Field
<1>3. /\ done.cur = b.cur /\ done.dmg = b.dmg /\ done.fitted = b.fitted
      /\ done.worst = b.worst /\ done.stints = stints /\ done.pending = b.pending
      /\ done.final = b.final /\ done.snaps = stored /\ done.curve = curve
      /\ done.raised = b.raised
  <2>. HIDE DEF stored, stints, curve
  <2>. QED BY DEF IsBook, Field
<1>. HIDE DEF failed, done
<1>4. CASE b.dmg = None /\ b.fitted # None
  BY <1>1, <1>2, <1>4 DEF Captured
<1>5. CASE ~(b.dmg = None /\ b.fitted # None)
  BY <1>1, <1>3, <1>5 DEF Captured
<1>. QED BY <1>4, <1>5

\* The fields of a book after a flashback was noticed.
LEMMA FlashbackFields ==
    ASSUME NEW b, IsBook(b), NEW lap
    PROVE  LET c == HandleFlashback(b, lap)
               outdated == {k \in DOMAIN b.snaps : k >= lap}
           IN  /\ c.cur = b.cur /\ c.dmg = b.dmg /\ c.fitted = b.fitted /\ c.worst = None
               /\ c.pending = b.pending /\ c.final = b.final /\ c.raised = b.raised
               /\ c.snaps = [k \in DOMAIN b.snaps \ outdated |-> b.snaps[k]]
               /\ c.stints = RemoveLaps(b.stints, outdated)
               /\ c.curve = RemoveWears(b.curve, outdated)
               /\ IsBook(c)
<1>. DEFINE c == HandleFlashback(b, lap)
            outdated == {k \in DOMAIN b.snaps : k >= lap}
            kept == [k \in DOMAIN b.snaps \ outdated |-> b.snaps[k]]
            stints == RemoveLaps(b.stints, outdated)
            curve == RemoveWears(b.curve, outdated)
<1>1. c = [b EXCEPT !.snaps = kept, !.stints = stints, !.curve = curve, !.worst = None]
  BY DEF HandleFlashback
<1>2. DOMAIN kept = DOMAIN b.snaps \ outdated /\ \A k \in DOMAIN kept : kept[k] = b.snaps[k]
  OBVIOUS
<1>. HIDE DEF c, kept, stints, curve
<1>3. /\ c.cur = b.cur /\ c.dmg = b.dmg /\ c.fitted = b.fitted /\ c.worst = None
      /\ c.pending = b.pending /\ c.final = b.final /\ c.raised = b.raised
      /\ c.snaps = kept /\ c.stints = stints /\ c.curve = curve /\ DOMAIN c = Field
  BY <1>1 DEF IsBook, Field
<1>4. IsBook(c)
  BY <1>2, <1>3 DEF IsBook
<1>. QED BY <1>3, <1>4 DEF c, kept, stints, curve

\* The fields of a book after a tyre change.
LEMMA TyreChangeFields ==
    ASSUME NEW b, DOMAIN b = Field
    PROVE  LET c == OnTyreSetChange(b)
               wear == WearAt(b.cur - 1, b.dmg)
           IN  /\ c.cur = b.cur /\ c.dmg = b.dmg /\ c.fitted = b.fitted /\ c.worst = b.worst
               /\ c.pending = b.pending /\ c.final = b.final /\ c.raised = b.raised
               /\ c.snaps = b.snaps /\ DOMAIN c = Field
               /\ c.stints = Append(b.stints, [start |-> b.cur, set |-> b.fitted,
                                               wears |-> <<wear>>])
               /\ c.curve = <<wear>>
<1>. DEFINE wear == WearAt(b.cur - 1, b.dmg)
            stints == Append(b.stints, [start |-> b.cur, set |-> b.fitted, wears |-> <<wear>>])
            curve == <<wear>>
<1>1. OnTyreSetChange(b) = [b EXCEPT !.stints = stints, !.curve = curve]
  BY DEF OnTyreSetChange, Field
<1>. HIDE DEF stints, curve
<1>2. LET c == OnTyreSetChange(b) IN
      /\ c.cur = b.cur /\ c.dmg = b.dmg /\ c.fitted = b.fitted /\ c.worst = b.worst
      /\ c.pending = b.pending /\ c.final = b.final /\ c.raised = b.raised
      /\ c.snaps = b.snaps /\ DOMAIN c = Field /\ c.stints = stints /\ c.curve = curve
  BY <1>1 DEF Field
<1>. QED BY <1>2 DEF stints, curve

LEMMA CaptureGood ==
    ASSUME NEW b, NEW n, Good(b, n), NEW lap \in 0..MaxMoments
    PROVE  Good(Capture(b, lap), n)
<1>. DEFINE c == Capture(b, lap)
            fails == b.dmg = None /\ b.fitted # None
            wear == WearAt(lap, b.dmg)
<1>1. IsBook(b) /\ Typed(b) /\ Blamed(b, n) /\ lap \in Nat
  BY DEF Good
<1>2. /\ c.cur = b.cur /\ c.dmg = b.dmg /\ c.fitted = b.fitted /\ c.worst = b.worst
      /\ c.pending = b.pending
      /\ c.raised = IF fails THEN TRUE ELSE b.raised
      /\ c.snaps = [k \in DOMAIN b.snaps \cup {lap} |-> IF k = lap THEN b.dmg ELSE b.snaps[k]]
      /\ c.stints = IF fails \/ lap = 0 \/ b.stints = <<>> THEN b.stints
                    ELSE AddTyreWear(b.stints, wear)
      /\ c.curve = IF fails \/ b.fitted = None THEN b.curve ELSE Append(b.curve, wear)
  <2>1. Captured(b, lap, c)
    BY <1>1, CaptureFields
  <2>. HIDE DEF c
  <2>. QED BY <2>1 DEF Captured
<1>3. IsBook(c)
  BY <1>1, CaptureAddsOne
<1>4. b.dmg # None => wear \in WearEntry
  BY <1>1 DEF IsBook, WearAt, WearEntry
<1>5. /\ c.curve \in Seq(WearEntry) /\ c.raised \in BOOLEAN
      /\ DOMAIN c.snaps \subseteq 0..MaxMoments
      /\ b.dmg = None => \A k \in DOMAIN c.snaps : c.snaps[k] = None
  <2>. HIDE DEF c, wear
  <2>1. b.curve \in Seq(WearEntry) /\ b.raised \in BOOLEAN /\ DOMAIN b.snaps \subseteq 0..MaxMoments
        /\ (b.dmg = None => \A k \in DOMAIN b.snaps : b.snaps[k] = None)
    BY <1>1 DEF Typed
  <2>2. c.curve \in Seq(WearEntry)
    <3>1. CASE b.dmg = None \/ b.fitted = None
      BY <1>2, <2>1, <3>1, Zenon
    <3>2. CASE ~(b.dmg = None \/ b.fitted = None)
      <4>1. c.curve = Append(b.curve, wear)
        BY <1>2, <3>2, Zenon
      <4>. QED BY <1>4, <2>1, <3>2, <4>1
    <3>. QED BY <3>1, <3>2
  <2>3. c.raised \in BOOLEAN
    BY <1>2, <2>1, Zenon
  <2>4. /\ DOMAIN c.snaps = DOMAIN b.snaps \cup {lap}
        /\ \A k \in DOMAIN c.snaps : c.snaps[k] = IF k = lap THEN b.dmg ELSE b.snaps[k]
    BY <1>2, Zenon
  <2>5. b.dmg = None => \A k \in DOMAIN c.snaps : c.snaps[k] = None
    BY <2>1, <2>4
  <2>. QED BY <2>1, <2>2, <2>3, <2>4, <2>5
<1>6. c.stints = b.stints \/ (b.stints # <<>> /\ WearsLast(b.stints, c.stints))
  <2>. HIDE DEF c, wear
  <2>1. ASSUME c.stints # b.stints
        PROVE  b.stints # <<>> /\ b.stints \in Seq(Stint) /\ b.dmg # None
               /\ c.stints = AddTyreWear(b.stints, wear)
    BY <1>1, <1>2, <2>1 DEF Typed
  <2>. QED BY <1>4, <2>1, WearAdded
<1>. HIDE DEF c, wear
<1>7. Typed(c)
  BY <1>1, <1>2, <1>5, <1>6 DEF Typed, WearsLast
<1>8. flashbacks = 0 => Orderly(c, n)
  BY <1>1, <1>2, <1>6 DEF Blamed, Orderly, WearsLast
<1>9. c.raised => b.raised \/ b.dmg = None
  BY <1>2
<1>10. Blamed(c, n)
  BY <1>1, <1>2, <1>8, <1>9 DEF Blamed
<1>. QED BY <1>3, <1>7, <1>10 DEF Good, c

\* Front and what else TyreSetHistoryManager.remove leaves.
LEMMA FrontOf ==
    ASSUME NEW S, NEW s \in Seq(S), s # <<>>
    PROVE  Front(s) \in Seq(S)
BY DEF Front

LEMMA LapsRemoved ==
    ASSUME NEW s \in Seq(Stint), NEW outdated
    PROVE  RemoveLaps(s, outdated) \in Seq(Stint) /\ (s = <<>> => RemoveLaps(s, outdated) = <<>>)
<1>1. CASE s = <<>>
  BY <1>1 DEF RemoveLaps
<1>2. CASE s # <<>>
  <2>. DEFINE last == Last(s)
              ws == last.wears
              wears == IF ws # <<>> /\ Last(ws).lap \in outdated THEN Front(ws) ELSE ws
              e == [last EXCEPT !.wears = wears]
  <2>1. last \in Stint /\ ws \in Seq(WearEntry)
    <3>1. last \in Stint
      BY <1>2, LastSet
    <3>. QED BY <3>1 DEF Stint
  <2>2. RemoveLaps(s, outdated) = IF last.start \in outdated THEN Front(s) ELSE SetLast(s, e)
    BY <1>2 DEF RemoveLaps
  <2>. HIDE DEF last, ws
  <2>3. wears \in Seq(WearEntry)
    BY <2>1, FrontOf
  <2>. HIDE DEF wears
  <2>4. e \in Stint
    BY <2>1, <2>3 DEF Stint
  <2>. HIDE DEF e
  <2>5. SetLast(s, e) \in Seq(Stint) /\ Front(s) \in Seq(Stint)
    BY <1>2, <2>4, LastSet, FrontOf
  <2>. QED BY <1>2, <2>2, <2>5
<1>. QED BY <1>1, <1>2

\* Only a lap number that went back is one, and it does so only by a flashback.
LEMMA LapChangeGood ==
    ASSUME NEW b, NEW n, Good(b, n), NEW lap \in 0..MaxMoments,
           NEW isFlashback \in BOOLEAN, isFlashback => flashbacks # 0
    PROVE  Good(OnLapChange(b, lap, isFlashback), n)
<1>. DEFINE c == HandleFlashback(b, lap)
            outdated == {k \in DOMAIN b.snaps : k >= lap}
            now == IF isFlashback /\ setting.offlineRace THEN c ELSE b
<1>1. IsBook(b) /\ Typed(b) /\ Blamed(b, n)
  BY DEF Good
<1>2. isFlashback => Good(c, n)
  <2>1. /\ c.cur = b.cur /\ c.dmg = b.dmg /\ c.fitted = b.fitted /\ c.worst = None
        /\ c.pending = b.pending /\ c.raised = b.raised
        /\ c.snaps = [k \in DOMAIN b.snaps \ outdated |-> b.snaps[k]]
        /\ c.stints = RemoveLaps(b.stints, outdated)
        /\ c.curve = RemoveWears(b.curve, outdated)
        /\ IsBook(c)
    BY <1>1, FlashbackFields
  <2>2. c.stints \in Seq(Stint) /\ (b.stints = <<>> => c.stints = <<>>)
    BY <1>1, <2>1, LapsRemoved DEF Typed
  <2>3. c.curve \in Seq(WearEntry)
    <3>. DEFINE kept == {i \in DOMAIN b.curve : b.curve[i].lap \notin outdated}
    <3>1. b.curve \in Seq(WearEntry) /\ kept \subseteq DOMAIN b.curve
      BY <1>1 DEF Typed
    <3>2. c.curve = At(b.curve, kept)
      BY <2>1 DEF RemoveWears
    <3>. HIDE DEF kept, c
    <3>. QED BY <3>1, <3>2, EntriesAt
  <2>4. /\ DOMAIN c.snaps \subseteq DOMAIN b.snaps
        /\ \A k \in DOMAIN c.snaps : c.snaps[k] = b.snaps[k]
    <3>. HIDE DEF c
    <3>. QED BY <2>1
  <2>. HIDE DEF c
  <2>5. Typed(c)
    BY <1>1, <2>1, <2>2, <2>3, <2>4 DEF Typed
  <2>. QED BY <1>1, <2>1, <2>5 DEF Good, Blamed
<1>3. Good(now, n)
  BY <1>2
<1>4. OnLapChange(b, lap, isFlashback) =
          IF lap \in DOMAIN now.snaps THEN now ELSE Capture(now, lap)
  BY DEF OnLapChange
<1>. HIDE DEF now
<1>. QED BY <1>3, <1>4, CaptureGood

LEMMA TyreChangeGood ==
    ASSUME NEW b, NEW n, Good(b, n), b.cur # None, b.fitted # None, b.dmg # None
    PROVE  Good(OnTyreSetChange(b), n)
<1>. DEFINE c == OnTyreSetChange(b)
            wear == WearAt(b.cur - 1, b.dmg)
            stint == [start |-> b.cur, set |-> b.fitted, wears |-> <<wear>>]
<1>1. IsBook(b) /\ Typed(b) /\ Blamed(b, n)
  BY DEF Good
<1>2. /\ c.cur = b.cur /\ c.dmg = b.dmg /\ c.fitted = b.fitted /\ c.worst = b.worst
      /\ c.pending = b.pending /\ c.final = b.final /\ c.raised = b.raised
      /\ c.snaps = b.snaps /\ DOMAIN c = Field
      /\ c.stints = Append(b.stints, stint) /\ c.curve = <<wear>>
  BY <1>1, TyreChangeFields DEF IsBook
<1>3. wear \in WearEntry /\ b.cur \in 1..MaxMoments
  BY <1>1 DEF IsBook, Typed, WearAt, WearEntry
<1>. HIDE DEF c, wear
<1>4. <<wear>> \in Seq(WearEntry) /\ <<wear>> # <<>>
  BY <1>3
<1>5. stint \in Stint /\ stint.start = b.cur /\ stint.wears # <<>>
  BY <1>1, <1>3, <1>4 DEF Typed, Stint
<1>. HIDE DEF stint
<1>6. /\ c.stints \in Seq(Stint) /\ c.stints # <<>>
      /\ \A i \in DOMAIN c.stints : \/ i \in DOMAIN b.stints /\ c.stints[i] = b.stints[i]
                                    \/ c.stints[i] = stint
  <2>1. b.stints \in Seq(Stint)
    BY <1>1 DEF Typed
  <2>. QED BY <1>2, <1>5, <2>1
<1>7. IsBook(c)
  BY <1>1, <1>2 DEF IsBook
<1>8. Typed(c)
  BY <1>1, <1>2, <1>4, <1>6 DEF Typed
<1>9. flashbacks = 0 => Orderly(c, n)
  BY <1>1, <1>2, <1>5, <1>6 DEF Blamed, Orderly
<1>10. Blamed(c, n)
  BY <1>1, <1>2, <1>9 DEF Blamed
<1>. QED BY <1>7, <1>8, <1>10 DEF Good, c

\* A tyre change that was waited for fails only where the garage comes before the line.
LEMMA WeirdGood ==
    ASSUME NEW b, NEW n, Good(b, n), flashbacks \in Nat, setting.weird,
           b.cur # None, b.fitted # None, b.dmg # None,
           flashbacks = 0 /\ setting.steady => b.stints # <<>>
    PROVE  Good(DelayedChangeWeird(b), n)
<1>1. IsBook(b) /\ Typed(b) /\ Blamed(b, n)
  BY DEF Good
<1>2. CASE b.worst = None \/ b.stints = <<>> \/ Last(b.stints).wears = <<>>
  <2>. DEFINE c == [b EXCEPT !.raised = TRUE]
  <2>1. DelayedChangeWeird(b) = c
    BY <1>2 DEF DelayedChangeWeird
  <2>2. /\ c.cur = b.cur /\ c.dmg = b.dmg /\ c.fitted = b.fitted /\ c.worst = b.worst
        /\ c.pending = b.pending /\ c.raised = TRUE /\ c.snaps = b.snaps
        /\ c.stints = b.stints /\ c.curve = b.curve /\ DOMAIN c = Field
    BY <1>1 DEF IsBook, Field
  <2>. HIDE DEF c
  <2>3. IsBook(c) /\ Typed(c)
    BY <1>1, <2>2 DEF IsBook, Typed
  <2>4. ~(flashbacks = 0 /\ setting.steady)
    <3>. SUFFICES ASSUME flashbacks = 0, setting.steady PROVE FALSE
      OBVIOUS
    <3>1. Orderly(b, n) /\ b.stints # <<>> /\ b.stints \in Seq(Stint)
      BY <1>1 DEF Blamed, Typed
    <3>2. Len(b.stints) \in DOMAIN b.stints
      BY <3>1
    <3>3. Last(b.stints).wears # <<>>
      BY <3>1, <3>2 DEF Orderly, Last
    <3>. QED BY <1>2, <3>1, <3>3 DEF Orderly
  <2>5. flashbacks = 0 => Orderly(c, n)
    BY <1>1, <2>2 DEF Blamed, Orderly
  <2>6. flashbacks = 0 \/ flashbacks > 0
    OBVIOUS
  <2>7. Blamed(c, n)
    BY <2>4, <2>5, <2>6 DEF Blamed
  <2>. QED BY <2>1, <2>3, <2>7 DEF Good
<1>3. CASE ~(b.worst = None \/ b.stints = <<>> \/ Last(b.stints).wears = <<>>)
  <2>. DEFINE over == OverwriteTyreWear(b.stints, WearAt(b.cur - 1, b.worst))
              c == [b EXCEPT !.stints = over]
  <2>1. DelayedChangeWeird(b) = OnTyreSetChange(c)
    BY <1>1, <1>3 DEF DelayedChangeWeird, IsBook, Field
  <2>2. WearAt(b.cur - 1, b.worst) \in WearEntry
    BY <1>1, <1>3 DEF IsBook, Typed, WearAt, WearEntry
  <2>3. WearsLast(b.stints, over)
    BY <1>1, <1>3, <2>2, WearOverwritten DEF Typed
  <2>. HIDE DEF over
  <2>4. /\ c.cur = b.cur /\ c.dmg = b.dmg /\ c.fitted = b.fitted /\ c.worst = b.worst
        /\ c.pending = b.pending /\ c.raised = b.raised /\ c.snaps = b.snaps
        /\ c.stints = over /\ c.curve = b.curve /\ DOMAIN c = Field
    BY <1>1 DEF IsBook, Field
  <2>. HIDE DEF c
  <2>5. IsBook(c) /\ Typed(c)
    BY <1>1, <1>3, <2>3, <2>4 DEF IsBook, Typed, WearsLast
  <2>6. flashbacks = 0 => Orderly(c, n)
    BY <1>1, <2>3, <2>4 DEF Blamed, Orderly, WearsLast
  <2>7. Good(c, n)
    BY <1>1, <2>4, <2>5, <2>6 DEF Good, Blamed
  <2>. QED BY <2>1, <2>4, <2>7, TyreChangeGood
<1>. QED BY <1>2, <1>3

LEMMA EventGood ==
    ASSUME NEW b, NEW n, Good(b, n), flashbacks \in Nat, NEW what
    PROVE  Good(OnEvent(b, what), n)
<1>. DEFINE c == [b EXCEPT !.pending = @ \ {what}]
<1>1. IsBook(b) /\ Typed(b) /\ Blamed(b, n)
  BY DEF Good
<1>2. OnEvent(b, what) = IF what \notin b.pending THEN b
                          ELSE IF c.pending = {} THEN DelayedChange(c) ELSE c
  BY DEF OnEvent
<1>3. /\ c.cur = b.cur /\ c.dmg = b.dmg /\ c.fitted = b.fitted /\ c.worst = b.worst
      /\ c.pending = b.pending \ {what} /\ c.raised = b.raised /\ c.snaps = b.snaps
      /\ c.stints = b.stints /\ c.curve = b.curve /\ DOMAIN c = Field
  BY <1>1 DEF IsBook, Field
<1>. HIDE DEF c
<1>4. IsBook(c) /\ Typed(c)
  BY <1>1, <1>3 DEF IsBook, Typed
<1>5. flashbacks = 0 => Orderly(c, n)
  BY <1>1, <1>3 DEF Blamed, Orderly
<1>6. Good(c, n)
  BY <1>1, <1>3, <1>4, <1>5 DEF Good, Blamed
<1>7. what \in b.pending =>
          /\ c.cur # None /\ c.fitted # None /\ c.dmg # None
          /\ flashbacks = 0 /\ setting.steady => c.stints # <<>>
  BY <1>1, <1>3 DEF Typed, Blamed, Orderly
<1>8. what \in b.pending => Good(DelayedChange(c), n)
  <2>. SUFFICES ASSUME what \in b.pending PROVE Good(DelayedChange(c), n)
    OBVIOUS
  <2>1. CASE setting.weird
    BY <1>6, <1>7, <2>1, WeirdGood DEF DelayedChange
  <2>2. CASE ~setting.weird
    BY <1>6, <1>7, <2>2, TyreChangeGood DEF DelayedChange
  <2>. QED BY <2>1, <2>2
<1>. QED BY <1>2, <1>6, <1>8

-----------------------------------------------------------------------------

LEMMA TyreSetsGood ==
    ASSUME BookInv, TyreSets
    PROVE  Good(book', Lap)
<1>. DEFINE b == [book EXCEPT !.fitted = road[Len(road)]]
            opened == <<[start |-> b.cur, set |-> b.fitted, wears |-> <<WearAt(0, b.snaps[0])>>]>>
            c == [b EXCEPT !.stints = opened]
            dropped == [b EXCEPT !.snaps = [k \in DOMAIN @ \ {0} |-> @[k]]]
            waits == [b EXCEPT !.pending = Awaited]
<1>1. /\ IsBook(book) /\ Typed(book) /\ Blamed(book, Lap)
      /\ Lap \in Nat /\ road[Len(road)] \in TyreSet
  BY LapNumber DEF BookInv, Good, LapsInv, LapsTypes
<1>2. /\ b.cur = book.cur /\ b.dmg = book.dmg /\ b.fitted = road[Len(road)]
      /\ b.worst = book.worst /\ b.stints = book.stints /\ b.pending = book.pending
      /\ b.raised = book.raised /\ b.snaps = book.snaps /\ b.curve = book.curve
      /\ DOMAIN b = Field
  BY <1>1 DEF IsBook, Field
<1>3. book' = IF b.cur = None THEN b
              ELSE IF b.stints = <<>> THEN
                  IF 0 \notin DOMAIN b.snaps THEN b
                  ELSE IF b.snaps[0] = None THEN dropped ELSE c
              ELSE IF b.fitted # Last(b.stints).set /\ b.pending = {} THEN waits ELSE b
  BY DEF TyreSets, UpdateTyreSetData
<1>. HIDE DEF b
<1>4. IsBook(b) /\ Typed(b) /\ (flashbacks = 0 => Orderly(b, Lap))
  <2>1. IsBook(b)
    BY <1>1, <1>2 DEF IsBook
  <2>2. Typed(b)
    BY <1>1, <1>2, DriverLapsAssumption DEF Typed
  <2>3. flashbacks = 0 => Orderly(b, Lap)
    BY <1>1, <1>2 DEF Blamed, Orderly
  <2>. QED BY <2>1, <2>2, <2>3
<1>5. Good(b, Lap)
  BY <1>1, <1>2, <1>4 DEF Good, Blamed
<1>6. Good(dropped, Lap)
  <2>1. /\ dropped.cur = b.cur /\ dropped.dmg = b.dmg /\ dropped.fitted = b.fitted
        /\ dropped.worst = b.worst /\ dropped.stints = b.stints
        /\ dropped.pending = b.pending /\ dropped.raised = b.raised
        /\ dropped.curve = b.curve /\ DOMAIN dropped = Field
        /\ dropped.snaps = [k \in DOMAIN b.snaps \ {0} |-> b.snaps[k]]
    BY <1>2 DEF Field
  <2>. HIDE DEF dropped
  <2>2. /\ DOMAIN dropped.snaps \subseteq DOMAIN b.snaps
        /\ \A k \in DOMAIN dropped.snaps : dropped.snaps[k] = b.snaps[k]
    BY <2>1
  <2>3. IsBook(dropped) /\ Typed(dropped)
    BY <1>4, <2>1, <2>2 DEF IsBook, Typed
  <2>4. flashbacks = 0 => Orderly(dropped, Lap)
    BY <1>4, <2>1 DEF Orderly
  <2>. QED BY <1>5, <2>1, <2>3, <2>4 DEF Good, Blamed
<1>7. b.cur # None /\ b.stints # <<>> => Good(waits, Lap)
  <2>. SUFFICES ASSUME b.cur # None, b.stints # <<>> PROVE Good(waits, Lap)
    OBVIOUS
  <2>1. /\ waits.cur = b.cur /\ waits.dmg = b.dmg /\ waits.fitted = b.fitted
        /\ waits.worst = b.worst /\ waits.stints = b.stints /\ waits.raised = b.raised
        /\ waits.curve = b.curve /\ waits.snaps = b.snaps /\ DOMAIN waits = Field
        /\ waits.pending \subseteq {"lap", "damage"}
    BY <1>2 DEF Field, Awaited
  <2>2. b.fitted # None
    BY <1>1, <1>2, DriverLapsAssumption
  <2>. HIDE DEF waits
  <2>3. IsBook(waits) /\ Typed(waits)
    BY <1>4, <2>1, <2>2 DEF IsBook, Typed
  <2>4. flashbacks = 0 => Orderly(waits, Lap)
    BY <1>4, <2>1 DEF Orderly
  <2>. QED BY <1>5, <2>1, <2>3, <2>4 DEF Good, Blamed
<1>8. b.cur # None /\ 0 \in DOMAIN b.snaps /\ b.snaps[0] # None => Good(c, Lap)
  <2>. SUFFICES ASSUME b.cur # None, 0 \in DOMAIN b.snaps, b.snaps[0] # None
                PROVE  Good(c, Lap)
    OBVIOUS
  <2>1. /\ c.cur = b.cur /\ c.dmg = b.dmg /\ c.fitted = b.fitted
        /\ c.worst = b.worst /\ c.stints = opened /\ c.pending = b.pending
        /\ c.raised = b.raised /\ c.curve = b.curve /\ c.snaps = b.snaps /\ DOMAIN c = Field
    BY <1>2 DEF Field
  <2>. DEFINE w == WearAt(0, b.snaps[0])
              first == [start |-> b.cur, set |-> b.fitted, wears |-> <<w>>]
  <2>2. w \in WearEntry
    BY <1>4 DEF IsBook, WearAt, WearEntry
  <2>3. <<w>> \in Seq(WearEntry) /\ <<w>> # <<>>
    <3>. HIDE DEF w
    <3>. QED BY <2>2
  <2>4. first \in Stint /\ first.start = b.cur /\ first.wears # <<>>
    <3>. HIDE DEF w
    <3>. QED BY <1>1, <1>2, <1>4, <2>3 DEF Typed, Stint
  <2>5. opened = <<first>>
    OBVIOUS
  <2>. HIDE DEF first, opened, c
  <2>6. opened \in Seq(Stint) /\ opened # <<>> /\ \A i \in DOMAIN opened : opened[i] = first
    BY <2>4, <2>5
  <2>7. b.dmg # None
    BY <1>4 DEF Typed
  <2>8. IsBook(c) /\ Typed(c)
    BY <1>4, <2>1, <2>6, <2>7 DEF IsBook, Typed
  <2>9. flashbacks = 0 => Orderly(c, Lap)
    BY <1>4, <2>1, <2>4, <2>6 DEF Orderly
  <2>. QED BY <1>5, <2>1, <2>8, <2>9 DEF Good, Blamed
<1>. HIDE DEF c, dropped, waits
<1>. QED BY <1>3, <1>5, <1>6, <1>7, <1>8

LEMMA LapDataGood ==
    ASSUME BookInv, LapData
    PROVE  Good(book', Lap)
<1>. DEFINE zeroth == book.cur = 1 /\ book.rest /\ book.dmg # None /\ book.fitted # None
                      /\ 0 \notin DOMAIN book.snaps
            first == IF zeroth THEN OnLapChange(book, 0, FALSE) ELSE book
            lap == IF book.cur < Lap THEN book.cur ELSE Lap
            back == book.cur > Lap
            changed == OnLapChange(first, lap, back)
            d == [changed EXCEPT !.cur = Lap]
            moved == OnEvent(d, "lap")
            next == IF book.cur \in {None, Lap} THEN first
                    ELSE IF changed.raised THEN changed
                    ELSE moved
<1>1. book' = IF next.raised THEN next ELSE [next EXCEPT !.cur = Lap]
  BY DEF LapData
<1>2. /\ IsBook(book) /\ Good(book, Lap) /\ flashbacks \in Nat
      /\ Lap \in Nat /\ Lap \in 1..MaxMoments /\ None \notin Nat /\ MaxMoments \in Nat
  BY LapNumber, LapBound, Bounds DEF BookInv, Good, LapsInv, LapsTypes
<1>3. IsBook(first) /\ first.cur = book.cur /\ Good(first, Lap)
  <2>1. 0 \in Nat /\ 0 \in 0..MaxMoments
    BY <1>2
  <2>. QED BY <1>2, <2>1, LapChange, LapChangeGood
<1>4. ASSUME NEW e, Good(e, Lap)
      PROVE  Good([e EXCEPT !.cur = Lap], Lap)
  <2>. DEFINE f == [e EXCEPT !.cur = Lap]
  <2>1. IsBook(e) /\ Typed(e) /\ Blamed(e, Lap)
    BY <1>4 DEF Good
  <2>2. /\ f.cur = Lap /\ f.dmg = e.dmg /\ f.fitted = e.fitted /\ f.snaps = e.snaps
        /\ f.worst = e.worst /\ f.stints = e.stints /\ f.pending = e.pending
        /\ f.raised = e.raised /\ f.curve = e.curve /\ DOMAIN f = Field
    BY <2>1 DEF IsBook, Field
  <2>. HIDE DEF f
  <2>3. IsBook(f) /\ Typed(f)
    BY <1>2, <2>1, <2>2 DEF IsBook, Typed
  <2>4. flashbacks = 0 => Orderly(f, Lap)
    BY <1>2, <2>1, <2>2 DEF Blamed, Orderly
  <2>5. Good(f, Lap)
    BY <2>1, <2>2, <2>3, <2>4 DEF Good, Blamed
  <2>. QED BY <2>5 DEF f
<1>. HIDE DEF first
<1>5. book.cur \notin {None, Lap} => Good(changed, Lap)
  <2>. SUFFICES ASSUME book.cur \notin {None, Lap} PROVE Good(changed, Lap)
    OBVIOUS
  <2>1. book.cur \in 1..MaxMoments /\ lap \in 0..MaxMoments /\ back \in BOOLEAN
    BY <1>2 DEF Good, Typed
  <2>2. back => flashbacks # 0
    BY <1>2, <2>1 DEF Good, Blamed, Orderly
  <2>. HIDE DEF lap, back
  <2>. QED BY <1>3, <2>1, <2>2, LapChangeGood
<1>6. book.cur \notin {None, Lap} => Good(moved, Lap)
  <2>. SUFFICES ASSUME book.cur \notin {None, Lap} PROVE Good(moved, Lap)
    OBVIOUS
  <2>. HIDE DEF changed
  <2>1. Good(d, Lap)
    BY <1>4, <1>5
  <2>. HIDE DEF d
  <2>. QED BY <1>2, <2>1, EventGood
<1>. HIDE DEF changed, moved
<1>7. Good(next, Lap)
  BY <1>3, <1>5, <1>6
<1>. HIDE DEF next
<1>. QED BY <1>1, <1>4, <1>7

LEMMA HandlerGood ==
    ASSUME BookInv, Handler
    PROVE  Good(book', Lap) /\ UNCHANGED <<setting, road, flashbacks>>
<1>1. /\ IsBook(book) /\ Typed(book) /\ Blamed(book, Lap)
      /\ Lap \in Nat /\ flashbacks \in Nat
  BY LapNumber DEF BookInv, Good, LapsInv, LapsTypes
<1>2. CASE LapData
  BY <1>2, LapDataGood DEF LapData, Arrived
<1>3. CASE CarDamage
  <2>. DEFINE worst == IF book.worst # None /\ book.worst.wear >= NewDamage.wear
                       THEN book.worst ELSE NewDamage
              b == [book EXCEPT !.dmg = NewDamage, !.worst = worst]
  <2>1. NewDamage \in Damage /\ NewDamage # None
    BY NewDamageType, Bounds DEF BookInv, LapsInv
  <2>2. worst # None /\ worst \in Damage
    BY <1>1, <2>1 DEF Typed
  <2>. HIDE DEF worst
  <2>3. /\ b.cur = book.cur /\ b.dmg = NewDamage /\ b.fitted = book.fitted
        /\ b.worst = worst /\ b.stints = book.stints /\ b.pending = book.pending
        /\ b.raised = book.raised /\ b.snaps = book.snaps /\ b.curve = book.curve
        /\ DOMAIN b = Field
    BY <1>1 DEF IsBook, Field
  <2>4. book' = OnEvent(b, "damage") /\ ~book.raised
    BY <1>3 DEF CarDamage, Running, worst
  <2>. HIDE DEF b
  <2>5. IsBook(b) /\ Typed(b)
    BY <1>1, <2>1, <2>2, <2>3 DEF IsBook, Typed
  <2>6. flashbacks = 0 => Orderly(b, Lap)
    BY <1>1, <2>2, <2>3 DEF Blamed, Orderly
  <2>7. Good(b, Lap)
    BY <2>3, <2>4, <2>5, <2>6 DEF Good, Blamed
  <2>. QED BY <1>1, <1>3, <2>4, <2>7, EventGood DEF CarDamage, Arrived
<1>4. CASE TyreSets
  BY <1>4, TyreSetsGood DEF TyreSets, Arrived
<1>5. CASE OtherPackets
  <2>1. /\ book'.cur = book.cur /\ book'.dmg = book.dmg /\ book'.fitted = book.fitted
        /\ book'.worst = book.worst /\ book'.stints = book.stints
        /\ book'.pending = book.pending /\ book'.raised = book.raised
        /\ book'.snaps = book.snaps /\ book'.curve = book.curve /\ DOMAIN book' = Field
    BY <1>1, <1>5 DEF OtherPackets, IsBook, Field
  <2>2. IsBook(book') /\ Typed(book') /\ (flashbacks = 0 => Orderly(book', Lap))
    BY <1>1, <2>1 DEF IsBook, Typed, Blamed, Orderly
  <2>. QED BY <1>1, <1>5, <2>1, <2>2 DEF Good, Blamed, OtherPackets
<1>6. CASE FinalClassification
  <2>1. PICK lap \in {Lap - 1, Lap} :
            book' = [OnLapChange(book, lap, FALSE) EXCEPT !.final = TRUE]
    BY <1>6 DEF FinalClassification
  <2>. DEFINE c == OnLapChange(book, lap, FALSE)
  <2>2. lap \in 0..MaxMoments
    BY LapBound, Bounds DEF BookInv, LapsInv
  <2>3. Good(c, Lap)
    BY <2>2, LapChangeGood DEF BookInv
  <2>4. book' = [c EXCEPT !.final = TRUE]
    BY <2>1
  <2>. HIDE DEF c
  <2>5. /\ book'.cur = c.cur /\ book'.dmg = c.dmg /\ book'.fitted = c.fitted
        /\ book'.worst = c.worst /\ book'.stints = c.stints /\ book'.snaps = c.snaps
        /\ book'.pending = c.pending /\ book'.raised = c.raised /\ book'.curve = c.curve
        /\ DOMAIN book' = Field
    BY <2>3, <2>4 DEF Good, IsBook, Field
  <2>6. IsBook(book') /\ Typed(book') /\ (flashbacks = 0 => Orderly(book', Lap))
    BY <2>3, <2>5 DEF Good, IsBook, Typed, Blamed, Orderly
  <2>. QED BY <1>6, <2>3, <2>5, <2>6 DEF Good, Blamed, FinalClassification
<1>7. CASE ReadHistory
  <2>1. PICK n \in 1..LapAt(MaxMoments) :
            /\ setting.steady => n = Lap
            /\ book' = [book EXCEPT !.stints = Tidied(@, n)]
    BY <1>7 DEF ReadHistory
  <2>. DEFINE s == book.stints
              kept == {i \in DOMAIN s : s[i].start <= EndLap(s, i, n)}
              tidied == Tidied(s, n)
  <2>2. s \in Seq(Stint) /\ kept \subseteq DOMAIN s /\ tidied = At(s, kept)
    BY <1>1 DEF Typed, Tidied
  <2>3. flashbacks = 0 /\ setting.steady /\ s # <<>> => Len(s) \in kept
    <3>. SUFFICES ASSUME flashbacks = 0, setting.steady, s # <<>> PROVE Len(s) \in kept
      OBVIOUS
    <3>1. Len(s) \in DOMAIN s
      BY <2>2
    <3>2. s[Len(s)].start <= n
      BY <1>1, <2>1, <3>1 DEF Blamed, Orderly
    <3>. QED BY <2>2, <3>1, <3>2 DEF EndLap
  <2>. HIDE DEF kept, tidied
  <2>4. /\ tidied \in Seq(Stint)
        /\ \A j \in DOMAIN tidied : \E i \in DOMAIN s : tidied[j] = s[i]
        /\ flashbacks = 0 /\ setting.steady /\ s # <<>> => tidied # <<>>
        /\ s = <<>> => tidied = <<>>
    <3>1. /\ tidied \in Seq(Stint)
          /\ \A j \in DOMAIN tidied : \E i \in kept : tidied[j] = s[i]
          /\ kept # {} => tidied # <<>>
      BY <2>2, EntriesAt
    <3>2. s = <<>> => DOMAIN tidied = {}
      BY <2>2, <3>1
    <3>3. DOMAIN tidied = {} => tidied = <<>>
      BY <3>1
    <3>. QED BY <2>2, <2>3, <3>1, <3>2, <3>3
  <2>5. /\ book'.cur = book.cur /\ book'.dmg = book.dmg /\ book'.fitted = book.fitted
        /\ book'.worst = book.worst /\ book'.stints = tidied /\ book'.snaps = book.snaps
        /\ book'.pending = book.pending /\ book'.raised = book.raised
        /\ book'.curve = book.curve /\ DOMAIN book' = Field
    BY <1>1, <2>1 DEF IsBook, Field, tidied
  <2>. HIDE DEF s
  <2>6. IsBook(book') /\ Typed(book')
    BY <1>1, <2>4, <2>5 DEF IsBook, Typed, s
  <2>7. flashbacks = 0 => Orderly(book', Lap)
    BY <1>1, <2>4, <2>5 DEF Blamed, Orderly, s
  <2>. QED BY <1>1, <1>7, <2>5, <2>6, <2>7 DEF Good, Blamed, ReadHistory
<1>. QED BY <1>2, <1>3, <1>4, <1>5, <1>6, <1>7 DEF Handler

\* The car drives on, with the laps it is known by behind it.
LEMMA DriveGood ==
    ASSUME BookInv, Drive \/ PitStop
    PROVE  flashbacks' \in Nat /\ Good(book, Lap)'
<1>1. /\ IsBook(book) /\ Typed(book) /\ Blamed(book, Lap)
      /\ Lap \in Nat /\ flashbacks \in Nat
  BY LapNumber DEF BookInv, Good, LapsInv, LapsTypes
<1>2. \E set : road' = Append(road, set)
  BY DEF Drive, PitStop
<1>3. Lap' \in Nat /\ Lap <= Lap'
  <2>1. Len(road') = Len(road) + 1 /\ Len(road) \in Nat
    BY <1>2 DEF BookInv, LapsInv, LapsTypes
  <2>. QED BY <2>1 DEF Lap, LapAt
<1>4. UNCHANGED <<setting, flashbacks, book>>
  BY DEF Drive, PitStop
<1>5. flashbacks = 0 => Orderly(book, Lap')
  <2>. SUFFICES ASSUME flashbacks = 0 PROVE Orderly(book, Lap')
    OBVIOUS
  <2>1. Orderly(book, Lap)
    BY <1>1 DEF Blamed
  <2>2. book.cur # None => book.cur <= Lap'
    BY <1>1, <1>3, <2>1 DEF Orderly, IsBook
  <2>3. ASSUME NEW i \in DOMAIN book.stints PROVE book.stints[i].start <= Lap'
    <3>1. book.stints[i] \in Stint /\ book.stints[i].start <= Lap
      BY <1>1, <2>1 DEF Orderly, Typed
    <3>2. book.stints[i].start \in Nat
      BY <3>1, Bounds DEF Stint
    <3>. QED BY <1>1, <1>3, <3>1, <3>2
  <2>. QED BY <2>1, <2>2, <2>3 DEF Orderly
<1>6. Good(book, Lap')
  BY <1>1, <1>5 DEF Good, Blamed
<1>. QED BY <1>1, <1>4, <1>6 DEF Good, IsBook, Typed, Blamed, Orderly

\* What Undo does to the records of each kind.
LEMMA UndoneTypes ==
    ASSUME BookInv, NEW n \in Nat
    PROVE  Typed(UndoBook(n))
<1>. DEFINE c == UndoBook(n)
<1>1. IsBook(book) /\ Typed(book)
  BY DEF BookInv, Good
<1>2. ASSUME NEW d \in {None} \cup Damage
      PROVE  Undo(d, n) \in {None} \cup Damage /\ (Undo(d, n) = None <=> d = None)
  <2>1. CASE d = None
    BY <2>1 DEF Undo
  <2>2. CASE d # None
    <3>1. d \in Damage /\ (d.undone \/ d.at > n) \in BOOLEAN
      BY <2>2 DEF Damage
    <3>. QED BY <2>2, <3>1, Bounds DEF Undo, Damage
  <2>. QED BY <2>1, <2>2
<1>3. ASSUME NEW ws \in Seq(WearEntry) PROVE UndoWears(ws, n) \in Seq(WearEntry)
  <2>1. ASSUME NEW i \in DOMAIN ws PROVE [ws[i] EXCEPT !.of = Undo(@, n)] \in WearEntry
    <3>1. ws[i] \in WearEntry
      OBVIOUS
    <3>2. Undo(ws[i].of, n) \in Damage
      BY <1>2, <3>1, Bounds DEF WearEntry
    <3>. QED BY <3>1, <3>2 DEF WearEntry
  <2>2. DOMAIN ws = 1..Len(ws) /\ Len(ws) \in Nat
    OBVIOUS
  <2>. QED BY <2>1, <2>2 DEF UndoWears
<1>4. UndoStints(book.stints, n) \in Seq(Stint)
      /\ (book.stints = <<>> => UndoStints(book.stints, n) = <<>>)
  <2>. DEFINE s == book.stints
  <2>1. s \in Seq(Stint) /\ DOMAIN s = 1..Len(s) /\ Len(s) \in Nat
    BY <1>1 DEF Typed
  <2>. HIDE DEF s
  <2>2. ASSUME NEW i \in DOMAIN s PROVE [s[i] EXCEPT !.wears = UndoWears(@, n)] \in Stint
    <3>1. s[i] \in Stint
      BY <2>1
    <3>2. UndoWears(s[i].wears, n) \in Seq(WearEntry)
      BY <1>3, <3>1 DEF Stint
    <3>. QED BY <3>1, <3>2 DEF Stint
  <2>3. UndoStints(s, n) \in Seq(Stint) /\ Len(UndoStints(s, n)) = Len(s)
    BY <2>1, <2>2 DEF UndoStints
  <2>4. s = <<>> => UndoStints(s, n) = <<>>
    BY <2>1, <2>3
  <2>. QED BY <2>3, <2>4 DEF s
<1>5. /\ c.cur = book.cur /\ c.dmg = Undo(book.dmg, n) /\ c.fitted = book.fitted
      /\ c.worst = Undo(book.worst, n) /\ c.pending = book.pending /\ c.raised = book.raised
      /\ c.snaps = [lap \in DOMAIN book.snaps |-> Undo(book.snaps[lap], n)]
      /\ c.stints = UndoStints(book.stints, n) /\ c.curve = UndoWears(book.curve, n)
  BY <1>1 DEF UndoBook, IsBook, Field
<1>. HIDE DEF c
<1>6. /\ DOMAIN c.snaps = DOMAIN book.snaps
      /\ \A k \in DOMAIN c.snaps : book.snaps[k] = None => c.snaps[k] = None
  BY <1>5 DEF Undo
<1>7. c.dmg = None <=> book.dmg = None
  BY <1>1, <1>2, <1>5 DEF IsBook
<1>8. c.worst \in {None} \cup Damage /\ c.curve \in Seq(WearEntry) /\ c.stints \in Seq(Stint)
  BY <1>1, <1>2, <1>3, <1>4, <1>5 DEF Typed
<1>. QED BY <1>1, <1>4, <1>5, <1>6, <1>7, <1>8 DEF Typed, c

LEMMA BookInit == Init => BookInv
<1>. SUFFICES ASSUME Init PROVE BookInv
  OBVIOUS
<1>1. LapsInv
  BY LapsInit
<1>2. /\ book.cur = None /\ book.fitted = None /\ book.worst = None /\ book.dmg = None
      /\ book.stints = <<>> /\ book.pending = {} /\ book.raised = FALSE
      /\ book.curve = <<>> /\ book.snaps = <<>>
  BY DEF Init, NewBook
<1>3. flashbacks = 0 /\ told = {}
  BY DEF Init
<1>4. Typed(book)
  <2>1. book.stints \in Seq(Stint) /\ book.curve \in Seq(WearEntry) /\ DOMAIN book.snaps = {}
    BY <1>2
  <2>. QED BY <1>2, <2>1 DEF Typed
<1>5. Orderly(book, Lap)
  BY <1>2 DEF Orderly
<1>6. IsBook(book)
  BY <1>1 DEF LapsInv, LapsTypes
<1>. QED BY <1>1, <1>2, <1>3, <1>4, <1>5, <1>6 DEF BookInv, Good, Blamed

LEMMA BookStep == BookInv /\ [Next]_vars => BookInv'
<1>. SUFFICES ASSUME BookInv, [Next]_vars PROVE BookInv'
  OBVIOUS
<1>1. LapsInv'
  BY LapsStep DEF BookInv
<1>2. told' \subseteq {"lap", "tyres", "damage"}
  BY DEF BookInv, Next, Drive, PitStop, Flashback, Handler, LapData, CarDamage, TyreSets,
         OtherPackets, FinalClassification, ReadHistory, Arrived, Now, vars
<1>3. CASE Handler
  <2>1. Good(book', Lap) /\ UNCHANGED <<setting, road, flashbacks>>
    BY <1>3, HandlerGood
  <2>2. Lap' = Lap
    BY <2>1 DEF Lap, LapAt
  <2>3. Good(book, Lap)'
    BY <2>1, <2>2 DEF Good, IsBook, Typed, Blamed, Orderly
  <2>. QED BY <1>1, <1>2, <2>1, <2>3 DEF BookInv
<1>4. CASE Drive \/ PitStop
  BY <1>1, <1>2, <1>4, DriveGood DEF BookInv
<1>5. CASE Flashback
  <2>1. flashbacks' = flashbacks + 1 /\ setting' = setting
    BY <1>5 DEF Flashback
  <2>2. \E n \in Nat : book' = UndoBook(n)
    BY <1>5 DEF Flashback, BookInv, LapsInv, LapsTypes
  <2>3. Typed(book')
    BY <2>2, UndoneTypes
  <2>4. book'.raised = book.raised /\ (book.dmg = None => book'.dmg = None)
    BY <2>2 DEF UndoBook, Undo, BookInv, Good, IsBook, Field
  <2>5. IsBook(book')
    BY <1>1 DEF LapsInv, LapsTypes
  <2>6. flashbacks' \in Nat /\ flashbacks' # 0 /\ flashbacks' > 0
    BY <2>1 DEF BookInv
  <2>7. Blamed(book, Lap)'
    BY <2>1, <2>4, <2>6 DEF BookInv, Good, Blamed
  <2>8. Good(book, Lap)'
    BY <2>3, <2>5, <2>7 DEF Good, IsBook, Typed
  <2>. QED BY <1>1, <1>2, <2>6, <2>8 DEF BookInv
<1>6. CASE UNCHANGED vars
  BY <1>1, <1>2, <1>6 DEF vars, BookInv, Good, IsBook, Typed, Blamed, Orderly, Lap, LapAt
<1>. QED BY <1>3, <1>4, <1>5, <1>6 DEF Next

LEMMA BookAlways == Spec => []BookInv
BY BookInit, BookStep, PTL DEF Spec

\* The types of a driver's laps and tyres.
LEMMA LapsTyped == BookInv => TypeOK
<1>. SUFFICES ASSUME BookInv PROVE TypeOK
  OBVIOUS
<1>1. /\ setting \in Setting /\ road \in Seq(TyreSet) /\ Len(road) \in 1..MaxMoments
      /\ IsBook(book) /\ Typed(book) /\ told \subseteq {"lap", "tyres", "damage"}
  BY DEF BookInv, LapsInv, LapsTypes, Good
<1>2. ASSUME NEW S, NEW s \in Seq(S) PROVE Entries(s) \subseteq S
  BY DEF Entries
<1>3. Entries(road) \subseteq TyreSet /\ Entries(book.curve) \subseteq WearEntry
  BY <1>1, <1>2 DEF Typed
<1>4. ASSUME NEW i \in DOMAIN book.stints PROVE IsStint(book.stints[i])
  <2>1. book.stints[i] \in Stint
    BY <1>1 DEF Typed
  <2>2. book.stints[i].wears \in Seq(WearEntry)
    BY <2>1 DEF Stint
  <2>3. Entries(book.stints[i].wears) \subseteq WearEntry
    BY <1>2, <2>2
  <2>. QED BY <2>1, <2>3 DEF Stint, IsStint
<1>. QED BY <1>1, <1>3, <1>4 DEF TypeOK, Typed, IsBook

\* A handler of a driver's packets (data_per_driver.py) raises, and so ends the receive task, only
\* when a lap changes with tyres heard of before any damage packet, or on a track whose garage
\* comes before the line when a flashback or an old session history has emptied the history that
\* a waiting tyre change needs; whatever is lost, repeated or out of order.
THEOREM FailuresKnown == Spec => []OnlyKnownFailures
<1>1. BookInv => OnlyKnownFailures
  BY DEF BookInv, Good, Blamed, OnlyKnownFailures
<1>. QED BY <1>1, BookAlways, PTL

-----------------------------------------------------------------------------
(* What a flashback leaves behind, in an offline race whose car waits for  *)
(* its packets.  A snapshot tells of its lap or of the beginning of the    *)
(* next, so a flashback that undoes it lands on that lap or before it, and *)
(* the lap data packet that notices deletes it; the damage packet that a   *)
(* later snapshot is taken from is of a moment that still stands.          *)

Watched == setting.offlineRace /\ setting.steady /\ ~book.final

\* The lap data of each moment was heard, but for a flashback that is not yet noticed and a lap
\* that has just begun, in which case the last damage packet still stands.
HeardLap ==
    /\ "lap" \in told => book.cur = Lap
    /\ book.cur # None =>
          \/ book.cur >= Lap
          \/ /\ book.cur = Lap - 1 /\ Len(road) = 2 * Lap - 1
             /\ book.dmg # None /\ ~book.dmg.undone
    /\ book.cur # None /\ book.cur > Lap => Lap \in landed

HeardDamage ==
    /\ "damage" \in told => book.dmg # None /\ ~book.dmg.undone
    /\ Len(road) > 1 => book.dmg # None
    /\ book.dmg = None => book.cur \in {None, Lap}
    /\ book.dmg # None /\ ~book.dmg.undone => book.dmg.at <= Len(road)

\* A record of lap k, of a book whose last lap is cur.
Stands(damage, k, cur) ==
    damage # None => /\ damage.at <= 2 * k + 1
                     /\ damage.undone => k >= Lap /\ cur > Lap

Leftovers ==
    \A k \in DOMAIN book.snaps \ (landed \cup {0}) : Stands(book.snaps[k], k, book.cur)

LeftInv == LapsInv /\ (Watched => HeardLap /\ HeardDamage /\ Leftovers)

\* A tyre change that was waited for does not touch the copy of the damage packet.
LEMMA EventKeepsDamage ==
    ASSUME NEW b, IsBook(b), NEW what
    PROVE  OnEvent(b, what).dmg = b.dmg
<1>1. ASSUME NEW c, DOMAIN c = Field PROVE OnTyreSetChange(c).dmg = c.dmg
  BY <1>1, TyreChangeFields
<1>2. ASSUME NEW c, DOMAIN c = Field PROVE DelayedChangeWeird(c).dmg = c.dmg
  <2>. DEFINE over == [c EXCEPT !.stints = OverwriteTyreWear(@, WearAt(c.cur - 1, c.worst))]
              failed == [c EXCEPT !.raised = TRUE]
  <2>1. over.dmg = c.dmg /\ DOMAIN over = Field
    BY <1>2 DEF Field
  <2>2. failed.dmg = c.dmg
    BY <1>2 DEF Field
  <2>3. DelayedChangeWeird(c) \in {failed, OnTyreSetChange(over)}
    BY DEF DelayedChangeWeird
  <2>. HIDE DEF over, failed
  <2>. QED BY <1>1, <2>1, <2>2, <2>3
<1>3. ASSUME NEW c, DOMAIN c = Field PROVE DelayedChange(c).dmg = c.dmg
  BY <1>1, <1>2, <1>3 DEF DelayedChange
<1>. DEFINE left == [b EXCEPT !.pending = @ \ {what}]
<1>4. left.dmg = b.dmg /\ DOMAIN left = Field
  BY DEF IsBook, Field
<1>5. OnEvent(b, what) \in {b, left, DelayedChange(left)}
  BY DEF OnEvent
<1>. HIDE DEF left
<1>. QED BY <1>3, <1>4, <1>5

\* A lap change takes its snapshot from the copy of the damage packet, and fails without.
LEMMA LapChangeTakes ==
    ASSUME NEW b, IsBook(b), NEW lap \in Nat, NEW isFlashback \in BOOLEAN
    PROVE  LET c == OnLapChange(b, lap, isFlashback) IN
           /\ c.dmg = b.dmg
           /\ b.dmg # None /\ ~b.raised => ~c.raised
           /\ lap \in DOMAIN c.snaps =>
                 \/ c.snaps[lap] = b.dmg
                 \/ lap \in DOMAIN b.snaps /\ c.snaps[lap] = b.snaps[lap]
<1>. DEFINE now == IF isFlashback /\ setting.offlineRace THEN HandleFlashback(b, lap) ELSE b
            c == OnLapChange(b, lap, isFlashback)
<1>1. /\ IsBook(now) /\ now.dmg = b.dmg /\ (~b.raised => ~now.raised)
      /\ lap \in DOMAIN now.snaps => lap \in DOMAIN b.snaps /\ now.snaps[lap] = b.snaps[lap]
  <2>1. CASE isFlashback /\ setting.offlineRace
    <3>. DEFINE outdated == {k \in DOMAIN b.snaps : k >= lap}
    <3>1. now = HandleFlashback(b, lap)
      BY <2>1
    <3>. HIDE DEF now
    <3>2. /\ IsBook(now) /\ now.dmg = b.dmg /\ now.raised = b.raised
          /\ now.snaps = [k \in DOMAIN b.snaps \ outdated |-> b.snaps[k]]
      BY <3>1, FlashbackFields
    <3>. QED BY <3>2
  <2>2. CASE ~(isFlashback /\ setting.offlineRace)
    <3>1. now = b
      BY <2>2
    <3>. HIDE DEF now
    <3>. QED BY <3>1
  <2>. QED BY <2>1, <2>2
<1>2. c = IF lap \in DOMAIN now.snaps THEN now ELSE Capture(now, lap)
  BY DEF OnLapChange
<1>. HIDE DEF now, c
<1>3. CASE lap \in DOMAIN now.snaps
  BY <1>1, <1>2, <1>3 DEF c
<1>4. CASE lap \notin DOMAIN now.snaps
  <2>1. Captured(now, lap, c)
    BY <1>1, <1>2, <1>4, CaptureFields
  <2>2. /\ c.dmg = now.dmg
        /\ c.raised = IF now.dmg = None /\ now.fitted # None THEN TRUE ELSE now.raised
        /\ c.snaps = [k \in DOMAIN now.snaps \cup {lap} |->
                         IF k = lap THEN now.dmg ELSE now.snaps[k]]
    BY <2>1 DEF Captured
  <2>3. c.snaps[lap] = now.dmg
    BY <2>2
  <2>. QED BY <1>1, <2>2, <2>3 DEF c
<1>. QED BY <1>3, <1>4

\* Lap data that is heard leaves nothing undone but where flashbacks landed.
LEMMA LapDataLeft ==
    ASSUME LapsInv, Watched, HeardLap, HeardDamage, Leftovers, LapData
    PROVE  /\ book'.cur = Lap /\ book'.dmg = book.dmg
           /\ \A k \in DOMAIN book'.snaps \ (landed \cup {0}) : Stands(book'.snaps[k], k, Lap)
<1>. DEFINE zeroth == book.cur = 1 /\ book.rest /\ book.dmg # None /\ book.fitted # None
                      /\ 0 \notin DOMAIN book.snaps
            first == IF zeroth THEN OnLapChange(book, 0, FALSE) ELSE book
            lap == IF book.cur < Lap THEN book.cur ELSE Lap
            back == book.cur > Lap
            changed == OnLapChange(first, lap, back)
            d == [changed EXCEPT !.cur = Lap]
            moved == OnEvent(d, "lap")
            next == IF book.cur \in {None, Lap} THEN first
                    ELSE IF changed.raised THEN changed
                    ELSE moved
<1>1. book' = IF next.raised THEN next ELSE [next EXCEPT !.cur = Lap]
  BY DEF LapData
<1>2. Lap \in Nat /\ IsBook(book) /\ None \notin Nat /\ ~book.raised
  BY LapNumber, Bounds DEF LapsInv, LapsTypes, LapData, Running
<1>3. /\ IsBook(first) /\ first.cur = book.cur /\ first.dmg = book.dmg /\ ~first.raised
      /\ \A k \in DOMAIN first.snaps \ {0} :
            k \in DOMAIN book.snaps /\ first.snaps[k] = book.snaps[k]
  <2>1. CASE zeroth
    <3>. DEFINE c == OnLapChange(book, 0, FALSE)
    <3>1. first = c /\ 0 \in Nat /\ FALSE \in BOOLEAN
      BY <2>1
    <3>. HIDE DEF first
    <3>2. c.dmg = book.dmg /\ ~c.raised
      BY <1>2, <2>1, <3>1, LapChangeTakes
    <3>3. IsBook(c) /\ c.cur = book.cur
          /\ (\A k \in DOMAIN c.snaps : k = 0 \/ k \in DOMAIN book.snaps)
          /\ \A k \in DOMAIN book.snaps : k \in DOMAIN c.snaps /\ c.snaps[k] = book.snaps[k]
      BY <1>2, <3>1, LapChange, ZenonT(60)
    <3>. HIDE DEF c
    <3>. QED BY <3>1, <3>2, <3>3
  <2>2. CASE ~zeroth
    BY <1>2, <2>2
  <2>. QED BY <2>1, <2>2
<1>. HIDE DEF first
<1>4. CASE book.cur \in {None, Lap}
  <2>1. next = first
    BY <1>4
  <2>. HIDE DEF next
  <2>2. book' = [first EXCEPT !.cur = Lap]
    BY <1>1, <1>3, <2>1
  <2>3. book'.cur = Lap /\ book'.dmg = book.dmg /\ book'.snaps = first.snaps
    BY <1>3, <2>2 DEF IsBook, Field
  <2>4. \A k \in DOMAIN book.snaps : book.cur = Lap
    BY <1>4 DEF LapsInv, Watched, Behind
  <2>5. ASSUME NEW k \in DOMAIN book'.snaps \ (landed \cup {0})
        PROVE  Stands(book'.snaps[k], k, Lap)
    <3>1. book'.snaps[k] = book.snaps[k] /\ k \in DOMAIN book.snaps \ (landed \cup {0})
      BY <1>3, <2>3
    <3>. QED BY <2>4, <3>1 DEF Leftovers
  <2>. QED BY <2>3, <2>5
<1>5. CASE book.cur \notin {None, Lap}
  <2>1. book.cur \in Nat /\ lap \in Nat /\ back \in BOOLEAN /\ book.dmg # None
    BY <1>2, <1>5 DEF IsBook, HeardDamage
  <2>2. \/ back /\ lap = Lap /\ Lap \in landed
        \/ /\ ~back /\ lap = Lap - 1 /\ lap = book.cur
           /\ ~book.dmg.undone /\ book.dmg.at <= 2 * lap + 1
    BY <1>2, <1>5, <2>1 DEF HeardLap, HeardDamage
  <2>. HIDE DEF lap, back
  <2>3. /\ IsBook(changed)
        /\ \A k \in DOMAIN changed.snaps :
              \/ k = lap
              \/ k \in DOMAIN first.snaps /\ (back /\ setting.offlineRace => k < lap)
        /\ \A k \in DOMAIN first.snaps :
              \/ k \in DOMAIN changed.snaps /\ changed.snaps[k] = first.snaps[k]
              \/ back /\ k >= lap
    BY <1>3, <2>1, LapChange
  <2>4. /\ changed.dmg = book.dmg /\ ~changed.raised
        /\ lap \in DOMAIN changed.snaps =>
              \/ changed.snaps[lap] = book.dmg
              \/ lap \in DOMAIN first.snaps /\ changed.snaps[lap] = first.snaps[lap]
    BY <1>3, <2>1, LapChangeTakes
  <2>. HIDE DEF changed
  <2>5. IsBook(d) /\ d.cur = Lap /\ d.dmg = book.dmg /\ d.snaps = changed.snaps
    BY <1>2, <2>3, <2>4 DEF IsBook, Field
  <2>. HIDE DEF d
  <2>6. IsBook(moved) /\ moved.cur = Lap /\ moved.dmg = book.dmg /\ moved.snaps = changed.snaps
    BY <2>5, EventKeeps, EventKeepsDamage DEF Keeps
  <2>. HIDE DEF moved
  <2>7. next = moved
    BY <1>5, <2>4
  <2>. HIDE DEF next
  <2>8. book'.cur = Lap /\ book'.dmg = book.dmg /\ book'.snaps = changed.snaps
    BY <1>1, <2>6, <2>7 DEF IsBook, Field
  <2>9. ASSUME NEW k \in DOMAIN changed.snaps \ (landed \cup {0})
        PROVE  Stands(changed.snaps[k], k, Lap)
    <3>1. k \in Nat
      BY <2>3 DEF IsBook
    <3>2. ASSUME k \in DOMAIN first.snaps, changed.snaps[k] = first.snaps[k], back => k < Lap
          PROVE  Stands(changed.snaps[k], k, Lap)
      <4>1. changed.snaps[k] = book.snaps[k] /\ Stands(book.snaps[k], k, book.cur)
        BY <1>3, <3>2 DEF Leftovers
      <4>. QED BY <1>2, <2>1, <2>2, <3>1, <3>2, <4>1 DEF Stands
    <3>3. CASE back
      <4>1. lap = Lap /\ k # lap
        BY <2>2, <3>3
      <4>2. k \in DOMAIN first.snaps /\ k < lap
        BY <2>3, <3>3, <4>1 DEF Watched
      <4>3. changed.snaps[k] = first.snaps[k]
        BY <1>2, <2>3, <3>1, <4>1, <4>2
      <4>. QED BY <3>2, <4>1, <4>2, <4>3
    <3>4. CASE ~back
      <4>1. CASE k \in DOMAIN first.snaps
        BY <2>3, <3>2, <3>4, <4>1
      <4>2. CASE k \notin DOMAIN first.snaps
        <5>1. k = lap /\ changed.snaps[k] = book.dmg
          BY <2>3, <2>4, <4>2
        <5>. QED BY <2>2, <3>4, <5>1 DEF Stands
      <4>. QED BY <4>1, <4>2
    <3>. QED BY <3>3, <3>4
  <2>. QED BY <2>8, <2>9
<1>. QED BY <1>4, <1>5

\* A handler that is not about the lap changes no snapshot but the zeroth.
Quiet(b, c) ==
    /\ c.cur = b.cur /\ c.final = b.final
    /\ \A k \in DOMAIN c.snaps \ {0} : k \in DOMAIN b.snaps /\ c.snaps[k] = b.snaps[k]

LEMMA TyreSetsQuiet ==
    ASSUME LapsTypes, TyreSets
    PROVE  Quiet(book, book') /\ book'.dmg = book.dmg
<1>. DEFINE b == [book EXCEPT !.fitted = road[Len(road)]]
            c == UpdateTyreSetData(b)
<1>1. book' = c /\ DOMAIN b = Field /\ Quiet(book, b) /\ b.dmg = book.dmg
  BY DEF LapsTypes, TyreSets, Quiet, IsBook, Field
<1>. HIDE DEF b
<1>2. Quiet(b, c) /\ c.dmg = b.dmg
  BY <1>1 DEF UpdateTyreSetData, Quiet, Field
<1>. QED BY <1>1, <1>2 DEF Quiet

LEMMA QuietLeft ==
    ASSUME LeftInv, LapsInv', UNCHANGED <<setting, road, landed>>, Quiet(book, book'),
           \/ book'.dmg = book.dmg
           \/ book'.dmg = NewDamage,
           told' \subseteq told \cup {"tyres", "damage"},
           "damage" \in told' => "damage" \in told \/ book'.dmg = NewDamage
    PROVE  LeftInv'
<1>. SUFFICES ASSUME Watched' PROVE HeardLap' /\ HeardDamage' /\ Leftovers'
  BY DEF LeftInv
<1>1. Watched /\ HeardLap /\ HeardDamage /\ Leftovers /\ Lap' = Lap
  BY DEF Watched, Quiet, LeftInv, Lap
<1>2. NewDamage # None /\ ~NewDamage.undone /\ NewDamage.at = Len(road) /\ Len(road) \in Nat
  <2>1. NewDamage \in Damage /\ NewDamage # None
    BY NewDamageType, Bounds DEF LeftInv, LapsInv
  <2>2. NewDamage.at = Len(road) /\ ~NewDamage.undone
    BY DEF NewDamage
  <2>3. Len(road) \in Nat
    BY DEF LeftInv, LapsInv, LapsTypes
  <2>. QED BY <2>1, <2>2, <2>3
<1>3. book'.dmg \in {book.dmg, NewDamage}
  OBVIOUS
<1>4. HeardLap'
  BY <1>1, <1>2, <1>3 DEF HeardLap, Quiet
<1>5. HeardDamage'
  BY <1>1, <1>2, <1>3 DEF HeardDamage, Quiet
<1>6. Leftovers'
  BY <1>1 DEF Leftovers, Stands, Quiet
<1>. QED BY <1>4, <1>5, <1>6

LEMMA HandlerLeft ==
    ASSUME LeftInv, LapsInv', Handler
    PROVE  LeftInv'
<1>0. IsBook(book) /\ UNCHANGED <<setting, road>>
  BY HandlerSafe DEF LeftInv, LapsInv, LapsTypes
<1>1. CASE LapData
  <2>. SUFFICES ASSUME Watched' PROVE HeardLap' /\ HeardDamage' /\ Leftovers'
    BY DEF LeftInv
  <2>1. ASSUME Watched PROVE HeardLap' /\ HeardDamage' /\ Leftovers'
    <3>1. /\ book'.cur = Lap /\ book'.dmg = book.dmg /\ HeardDamage
          /\ \A k \in DOMAIN book'.snaps \ (landed \cup {0}) : Stands(book'.snaps[k], k, Lap)
      BY <1>1, <2>1, LapDataLeft DEF LeftInv
    <3>2. Lap' = Lap /\ Lap \in Nat /\ landed' = landed /\ told' \subseteq told \cup {"lap"}
      BY <1>0, <1>1, LapNumber DEF LeftInv, LapsInv, LapData, Arrived, Now, Lap
    <3>3. HeardLap'
      BY <3>1, <3>2, Bounds DEF HeardLap
    <3>4. HeardDamage'
      BY <1>0, <3>1, <3>2 DEF HeardDamage
    <3>5. Leftovers'
      BY <3>1, <3>2 DEF Leftovers, Stands
    <3>. QED BY <3>3, <3>4, <3>5
  <2>2. Watched
    <3>1. Safe(Lap, book, book')
      BY HandlerSafe DEF LeftInv
    <3>2. ~book.final
      BY <1>1 DEF LapData, Running
    <3>. QED BY <1>0, <3>2 DEF Watched
  <2>. QED BY <2>1, <2>2
<1>2. CASE CarDamage
  <2>. DEFINE worst == IF book.worst # None /\ book.worst.wear >= NewDamage.wear
                       THEN book.worst ELSE NewDamage
              b == [book EXCEPT !.dmg = NewDamage, !.worst = worst]
  <2>1. Keeps(book, b) /\ b.dmg = NewDamage
    <3>. HIDE DEF worst
    <3>. QED BY <1>0, NewDamageType DEF LeftInv, LapsInv, Keeps, IsBook, Field
  <2>2. book' = OnEvent(b, "damage")
    BY <1>2 DEF CarDamage
  <2>. HIDE DEF b
  <2>3. Keeps(book, book') /\ book'.dmg = NewDamage
    BY <2>1, <2>2, EventKeeps, EventKeepsDamage DEF Keeps
  <2>4. landed' = landed /\ told' \subseteq told \cup {"tyres", "damage"}
    BY <1>2 DEF CarDamage, Arrived, Now
  <2>. QED BY <1>0, <2>3, <2>4, QuietLeft DEF Keeps, Quiet
<1>3. CASE TyreSets
  <2>1. landed' = landed /\ told' \subseteq told \cup {"tyres", "damage"}
        /\ ("damage" \in told' => "damage" \in told)
    BY <1>3 DEF TyreSets, Arrived, Now
  <2>2. Quiet(book, book') /\ book'.dmg = book.dmg
    BY <1>3, TyreSetsQuiet DEF LeftInv, LapsInv
  <2>. QED BY <1>0, <2>1, <2>2, QuietLeft
<1>4. CASE OtherPackets
  <2>1. Quiet(book, book') /\ book'.dmg = book.dmg
    BY <1>0, <1>4 DEF OtherPackets, Quiet, IsBook, Field
  <2>. QED BY <1>0, <1>4, <2>1, QuietLeft DEF OtherPackets
<1>5. CASE FinalClassification
  <2>1. PICK lap \in {Lap - 1, Lap} :
            book' = [OnLapChange(book, lap, FALSE) EXCEPT !.final = TRUE]
    BY <1>5 DEF FinalClassification
  <2>2. lap \in Nat
    BY LapNumber DEF LeftInv, LapsInv
  <2>3. IsBook(OnLapChange(book, lap, FALSE))
    BY <1>0, <2>2, LapChange
  <2>4. book'.final
    BY <2>1, <2>3 DEF IsBook, Field
  <2>. QED BY <2>4 DEF LeftInv, Watched
<1>6. CASE ReadHistory
  <2>1. PICK n : book' = [book EXCEPT !.stints = Tidied(@, n)]
    BY <1>6 DEF ReadHistory
  <2>2. Quiet(book, book') /\ book'.dmg = book.dmg
    BY <1>0, <2>1 DEF Quiet, IsBook, Field
  <2>. QED BY <1>0, <1>6, <2>2, QuietLeft DEF ReadHistory
<1>. QED BY <1>1, <1>2, <1>3, <1>4, <1>5, <1>6 DEF Handler

\* The car moves on only when all three kinds of packets have told of the moment.
LEMMA DriveLeft ==
    ASSUME LeftInv, LapsInv', Drive \/ PitStop
    PROVE  LeftInv'
<1>. SUFFICES ASSUME Watched' PROVE HeardLap' /\ HeardDamage' /\ Leftovers'
  BY DEF LeftInv
<1>1. /\ Len(road') = Len(road) + 1 /\ Len(road) \in Nat /\ Len(road) >= 1
      /\ told' = {} /\ UNCHANGED <<setting, landed, book>>
  <2>1. PICK set : road' = Append(road, set)
    BY DEF Drive, PitStop
  <2>2. road \in Seq(TyreSet) /\ Len(road) \in 1..MaxMoments /\ MaxMoments \in Nat
    BY Bounds DEF LeftInv, LapsInv, LapsTypes
  <2>. QED BY <2>1, <2>2 DEF Drive, PitStop
<1>2. Watched /\ HeardLap /\ HeardDamage /\ Leftovers /\ IsBook(book)
  BY <1>1 DEF Watched, LeftInv, LapsInv, LapsTypes
<1>3. "lap" \in told /\ "damage" \in told
  BY <1>2 DEF Drive, PitStop, MayMove, Watched
<1>4. book.cur = Lap /\ book.dmg # None /\ ~book.dmg.undone /\ book.dmg.at <= Len(road)
  BY <1>2, <1>3 DEF HeardLap, HeardDamage
<1>5. Lap' \in Nat /\ Lap \in Nat /\ (Lap' = Lap \/ (Lap' = Lap + 1 /\ Len(road') = 2 * Lap' - 1))
  BY <1>1 DEF Lap, LapAt
<1>6. book.dmg.at \in Nat
  <2>1. book.dmg \in Damage
    BY <1>2, <1>4 DEF IsBook
  <2>2. book.dmg.at \in 1..MaxMoments
    BY <2>1 DEF Damage
  <2>3. MaxMoments \in Nat
    BY Bounds
  <2>. QED BY <2>2, <2>3
<1>7. HeardLap'
  <2>1. told' = {} /\ book' = book /\ landed' = landed
    BY <1>1
  <2>2. Lap \in Nat /\ Lap' \in Nat /\ book.cur = Lap
    BY <1>4, <1>5
  <2>3. CASE Lap' = Lap
    BY <1>4, <2>1, <2>2, <2>3 DEF HeardLap
  <2>4. CASE Lap' = Lap + 1 /\ Len(road') = 2 * Lap' - 1
    <3>1. book.cur = Lap' - 1 /\ ~(book.cur > Lap')
      BY <2>2, <2>4
    <3>. QED BY <1>4, <2>1, <2>4, <3>1 DEF HeardLap
  <2>. QED BY <1>5, <2>3, <2>4
<1>8. HeardDamage'
  BY <1>1, <1>4, <1>6 DEF HeardDamage
<1>9. Leftovers'
  <2>. SUFFICES ASSUME NEW k \in DOMAIN book.snaps \ (landed \cup {0})
                PROVE  Stands(book.snaps[k], k, book.cur)'
    BY <1>1 DEF Leftovers
  <2>1. Stands(book.snaps[k], k, book.cur) /\ ~(book.cur > Lap)
    BY <1>2, <1>4, <1>5 DEF Leftovers
  <2>. QED BY <1>1, <2>1 DEF Stands
<1>. QED BY <1>7, <1>8, <1>9

\* A flashback to the n-th moment undoes the records of the laps from that one on.
LEMMA FlashbackLeft ==
    ASSUME LeftInv, LapsInv', Flashback
    PROVE  LeftInv'
<1>. SUFFICES ASSUME Watched' PROVE HeardLap' /\ HeardDamage' /\ Leftovers'
  BY DEF LeftInv
<1>1. IsBook(book) /\ Len(road) \in Nat /\ road \in Seq(TyreSet) /\ MaxMoments \in Nat
  BY Bounds DEF LeftInv, LapsInv, LapsTypes
<1>2. PICK n \in 1..(Len(road) - 1) :
          /\ road' = SubSeq(road, 1, n) /\ landed' = landed \cup {LapAt(n)}
          /\ book' = UndoBook(n)
  BY DEF Flashback
<1>3. n \in Nat /\ n >= 1 /\ n < Len(road) /\ Len(road') = n
  BY <1>1, <1>2
<1>4. /\ book'.snaps = [k \in DOMAIN book.snaps |-> Undo(book.snaps[k], n)]
      /\ book'.cur = book.cur /\ book'.final = book.final
      /\ book'.dmg = Undo(book.dmg, n)
  BY <1>1, <1>2 DEF UndoBook, IsBook, Field
<1>5. told' = {} /\ setting' = setting
  BY DEF Flashback
<1>6. Watched /\ HeardLap /\ HeardDamage /\ Leftovers
  BY <1>4, <1>5 DEF Watched, LeftInv
<1>7. \A x \in Damage : /\ Undo(x, n) # None /\ Undo(x, n).at = x.at /\ x.at \in Nat
                        /\ Undo(x, n).undone <=> x.undone \/ x.at > n
  <2>. TAKE x \in Damage
  <2>1. x # None /\ x.at \in Nat
    BY Bounds DEF Damage
  <2>2. Undo(x, n) = [x EXCEPT !.undone = x.undone \/ x.at > n]
    BY <2>1 DEF Undo
  <2>3. Undo(x, n).at = x.at /\ (Undo(x, n).undone <=> x.undone \/ x.at > n)
    BY <2>2 DEF Damage
  <2>4. Undo(x, n) # None
    <3>1. Undo(x, n) \in Damage
      BY <2>2 DEF Damage
    <3>. QED BY <3>1, Bounds
  <2>. QED BY <2>1, <2>3, <2>4
<1>8. Undo(None, n) = None
  BY DEF Undo
<1>9. /\ Lap' = LapAt(n) /\ Lap' \in Nat /\ Lap \in Nat /\ Lap' <= Lap /\ Lap' \in landed'
      /\ Len(road) = 2 * Lap - 1 => Lap' <= Lap - 1
  BY <1>2, <1>3, <1>1 DEF Lap, LapAt
<1>10. ASSUME NEW k \in Nat, n <= 2 * k PROVE Lap' <= k
  <2>1. (n + 1) \div 2 <= k
    BY <1>3, <1>10
  <2>2. Lap' = (n + 1) \div 2
    BY <1>9 DEF LapAt
  <2>. QED BY <2>1, <2>2
<1>11. HeardLap'
  <2>1. book.cur # None => book.cur \in Nat /\ book.cur >= Lap'
    BY <1>1, <1>6, <1>9 DEF HeardLap, IsBook
  <2>. QED BY <1>4, <1>5, <1>9, <2>1 DEF HeardLap
<1>12. HeardDamage'
  <2>1. book.dmg # None
    BY <1>3, <1>6 DEF HeardDamage
  <2>2. book.dmg \in Damage
    BY <1>1, <2>1 DEF IsBook
  <2>3. book'.dmg # None /\ (~book'.dmg.undone => book'.dmg.at <= n)
    BY <1>3, <1>4, <1>7, <2>2
  <2>. QED BY <1>3, <1>5, <2>3 DEF HeardDamage
<1>13. Leftovers'
  <2>. SUFFICES ASSUME NEW k \in DOMAIN book'.snaps \ (landed' \cup {0}), book'.snaps[k] # None
                PROVE  /\ book'.snaps[k].at <= 2 * k + 1
                       /\ book'.snaps[k].undone => k >= Lap' /\ book'.cur > Lap'
    BY DEF Leftovers, Stands
  <2>1. k \in DOMAIN book.snaps \ (landed \cup {0}) /\ k \in Nat /\ k # Lap'
    BY <1>1, <1>2, <1>4, <1>9 DEF IsBook
  <2>. DEFINE x == book.snaps[k]
  <2>2. x \in Damage /\ book'.snaps[k] = Undo(x, n)
    BY <1>1, <1>4, <1>8, <2>1 DEF IsBook
  <2>3. book.cur \in Nat /\ k <= book.cur
    BY <1>1, <1>6, <2>1 DEF LeftInv, LapsInv, Watched, Behind, IsBook
  <2>4. x.at <= 2 * k + 1 /\ (x.undone => k >= Lap /\ book.cur > Lap)
    BY <1>6, <2>1, <2>2, Bounds DEF Leftovers, Stands
  <2>. HIDE DEF x
  <2>5. book'.snaps[k].at <= 2 * k + 1
    BY <1>7, <2>2, <2>4
  <2>6. ASSUME book'.snaps[k].undone PROVE k >= Lap' /\ book'.cur > Lap'
    <3>1. x.undone \/ x.at > n
      BY <1>7, <2>2, <2>6
    <3>2. CASE x.undone
      BY <1>4, <1>9, <2>1, <2>3, <2>4, <3>2
    <3>3. CASE x.at > n
      <4>1. x.at \in Nat
        BY <1>7, <2>2
      <4>2. n <= 2 * k
        BY <1>3, <2>1, <2>4, <3>3, <4>1
      <4>3. Lap' <= k /\ Lap' \in Nat
        BY <1>9, <1>10, <2>1, <4>2, Zenon
      <4>4. k >= Lap' /\ book.cur > Lap'
        BY <2>1, <2>3, <4>3
      <4>. QED BY <1>4, <4>4
    <3>. QED BY <3>1, <3>2, <3>3
  <2>. QED BY <2>5, <2>6
<1>. QED BY <1>11, <1>12, <1>13

\* A flashback leaves no record of an undone lap behind, however many there are and wherever
\* they land, except of the laps they land on: OnLapChange deletes every later one.
THEOREM NothingLeftBehind == Spec => []StaleOnlyWhereLanded
<1>1. Init => LeftInv
  <2>. SUFFICES ASSUME Init PROVE LeftInv
    OBVIOUS
  <2>1. /\ book.cur = None /\ book.dmg = None /\ DOMAIN book.snaps = {} /\ told = {}
        /\ Len(road) = 1
    BY DEF Init, NewBook
  <2>. QED BY <2>1, LapsInit DEF LeftInv, HeardLap, HeardDamage, Leftovers
<1>2. LeftInv /\ [Next]_vars => LeftInv'
  <2>. SUFFICES ASSUME LeftInv, [Next]_vars PROVE LeftInv'
    OBVIOUS
  <2>1. LapsInv'
    BY LapsStep DEF LeftInv
  <2>2. CASE Handler
    BY <2>1, <2>2, HandlerLeft
  <2>3. CASE Drive \/ PitStop
    BY <2>1, <2>3, DriveLeft
  <2>4. CASE Flashback
    BY <2>1, <2>4, FlashbackLeft
  <2>5. CASE UNCHANGED vars
    BY <2>1, <2>5 DEF vars, LeftInv, Watched, HeardLap, HeardDamage, Leftovers, Stands, Lap
  <2>. QED BY <2>2, <2>3, <2>4, <2>5 DEF Next
<1>3. LeftInv => StaleOnlyWhereLanded
  <2>. SUFFICES ASSUME LeftInv, Watched, "lap" \in told,
                       NEW lap \in DOMAIN book.snaps, book.snaps[lap] # None,
                       book.snaps[lap].undone, lap \notin landed \cup {0}
                PROVE  FALSE
    BY DEF StaleOnlyWhereLanded, Watched
  <2>1. book.cur = Lap /\ Lap \in Nat /\ book.cur > Lap
    BY LapNumber DEF LeftInv, LapsInv, HeardLap, Leftovers, Stands
  <2>. QED BY <2>1
<1>. QED BY <1>1, <1>2, <1>3, PTL DEF Spec

-----------------------------------------------------------------------------
(* Whose tyres a wear is of.  As long as WearOfOwnTyres speaks, the book   *)
(* is in one of three stages: the tyres of the grid only; those, with a    *)
(* change that waits; the change through.  Nothing is recorded of the new  *)
(* tyres before that but what the change itself puts right, because the    *)
(* packets it waits for come before the car is on its way again, and the   *)
(* worst wear it ends the first stint with is theirs, for the new ones     *)
(* have hardly any.                                                        *)

\* The premise of WearOfOwnTyres, but for a change that waits.
Calm == setting.steady /\ flashbacks = 0 /\ stops <= 1 /\ ~book.final

\* The tyres on the car.
Fitted == road[Len(road)]
OfSet(wears, set) == \A i \in DOMAIN wears : wears[i].of.set = set
Own(stints) == \A i \in DOMAIN stints : OfSet(stints[i].wears, stints[i].set)

\* The one tyre change was made after the p-th moment.
ChangedAfter(p) ==
    /\ p \in 1..(Len(road) - 1) /\ p % 2 = 1 /\ Fitted # road[1]
    /\ \A i \in 1..Len(road) : road[i] = IF i <= p THEN road[1] ELSE Fitted

ChangedOnce ==
    /\ stops = 0 => \A i \in 1..Len(road) : road[i] = road[1]
    /\ stops # 0 => stops = 1 /\ \E p \in 1..Len(road) : ChangedAfter(p)

\* Of the book b, with t told of this moment: the lap the car was last heard on, and that the
\* first stint was opened on the grid.
HeardOf(b, t) ==
    /\ b.cur = IF "lap" \in t THEN Lap
               ELSE IF Len(road) = 1 THEN None ELSE LapAt(Len(road) - 1)
    /\ b.dmg # None => b.dmg.set \in {road[1], Fitted}
    /\ Len(road) > 1 => b.stints # <<>>
    /\ b.stints # <<>> => 0 \in DOMAIN b.snaps
    /\ Len(road) = 1 => \A k \in DOMAIN b.snaps :
                            b.snaps[k] # None => b.snaps[k].set = road[1]

\* All is of the tyres of the grid, the worst wear too.
OfFirst(b) ==
    /\ Own(b.stints) /\ \A i \in DOMAIN b.stints : b.stints[i].set = road[1]
    /\ OfSet(b.curve, road[1])
    /\ b.worst # None => b.worst.set = road[1] /\ b.worst.wear >= 1

\* The tyre change was not made, or was not heard of.
Unnoticed(b, t) ==
    /\ b.pending = {} /\ OfFirst(b)
    /\ stops = 1 => ChangedAfter(Len(road) - 1) /\ "tyres" \notin t

\* It waits for packets that come before the second moment after it is
\* over.
Waiting(b, t) ==
    /\ b.pending # {} /\ OfFirst(b) /\ b.fitted = Fitted /\ stops = 1
    /\ \/ /\ ChangedAfter(Len(road) - 1)
          /\ "damage" \in b.pending => "damage" \notin t
       \/ /\ ChangedAfter(Len(road) - 2)
          /\ "damage" \notin b.pending /\ "lap" \notin t
    /\ IF setting.weird THEN "lap" \in b.pending ELSE b.pending = {"damage"}
    /\ "damage" \notin b.pending => b.dmg # None /\ b.dmg.set = Fitted

\* It is through.
Done(b) ==
    /\ b.pending = {} /\ b.fitted = Fitted /\ b.dmg # None /\ b.dmg.set = Fitted /\ stops = 1
    /\ Own(b.stints) /\ b.stints # <<>> /\ Last(b.stints).set = Fitted
    /\ OfSet(b.curve, Fitted)

Stage(b, t) == Unnoticed(b, t) \/ Waiting(b, t) \/ Done(b)

OwnInv ==
    /\ BookInv /\ stops \in Nat
    /\ Calm => ~book.raised /\ ChangedOnce /\ HeardOf(book, told) /\ Stage(book, told)

-----------------------------------------------------------------------------

\* What the wear of a set is: of the first as much as is driven, of the second hardly any yet.
LEMMA FirstWears ==
    ASSUME LapsTypes, \A i \in 1..Len(road) : road[i] = road[1]
    PROVE  NewDamage.set = road[1] /\ NewDamage.wear >= 1 /\ Fitted = road[1]
<1>. DEFINE n == Len(road)
            odd == {k \in 1..n : road[k] = road[n] /\ k % 2 = 1}
<1>1. n \in Nat /\ n >= 1
  BY Bounds DEF LapsTypes
<1>2. NewDamage.set = road[1] /\ Fitted = road[1] /\ NewDamage.wear = Cardinality(odd)
  BY <1>1 DEF NewDamage, Worn, Fitted
<1>3. 1 \in odd
  BY <1>1
<1>4. IsFiniteSet(1..n) /\ odd \subseteq 1..n
  BY <1>1, FS_Interval
<1>. HIDE DEF odd
<1>5. IsFiniteSet(odd)
  BY <1>4, FS_Subset
<1>6. Cardinality(odd) \in Nat /\ Cardinality(odd) # 0
  BY <1>3, <1>5, FS_CardinalityType, FS_EmptySet
<1>. QED BY <1>2, <1>6

LEMMA SecondWears ==
    ASSUME LapsTypes, NEW p, ChangedAfter(p), Len(road) <= p + 2
    PROVE  NewDamage.set = Fitted /\ NewDamage.wear <= 1
<1>. DEFINE n == Len(road)
            odd == {k \in 1..n : road[k] = road[n] /\ k % 2 = 1}
<1>1. n \in Nat /\ n >= 1 /\ p \in Nat /\ p + 1 <= n /\ n <= p + 2 /\ p % 2 = 1
  BY Bounds DEF LapsTypes, ChangedAfter
<1>2. NewDamage.set = Fitted /\ NewDamage.wear = Cardinality(odd)
  BY <1>1 DEF NewDamage, Worn, Fitted
<1>3. \A k \in odd : k > p
  BY <1>1 DEF ChangedAfter, Fitted
<1>4. \A k \in odd : k = p + 2
  BY <1>1, <1>3
<1>. HIDE DEF odd
<1>5. odd \subseteq {p + 2}
  BY <1>4
<1>6. IsFiniteSet({p + 2}) /\ Cardinality({p + 2}) = 1
  BY FS_Singleton
<1>7. Cardinality(odd) <= 1
  BY <1>5, <1>6, FS_Subset
<1>. QED BY <1>2, <1>7

\* Other stints are as they were, and the last one has one wear more.
LEMMA AddedAtEnd ==
    ASSUME NEW s \in Seq(Stint), s # <<>>, NEW w \in WearEntry
    PROVE  LET t == AddTyreWear(s, w) IN
           /\ t \in Seq(Stint) /\ t # <<>> /\ Len(t) = Len(s)
           /\ \A i \in DOMAIN s : t[i].set = s[i].set /\ (i # Len(s) => t[i] = s[i])
           /\ t[Len(s)].wears = Append(s[Len(s)].wears, w)
<1>. DEFINE e == [Last(s) EXCEPT !.wears = Append(@, w)]
            t == AddTyreWear(s, w)
<1>1. Last(s) \in Stint /\ Last(s) = s[Len(s)] /\ Len(s) \in DOMAIN s
  BY LastSet DEF Last
<1>2. Append(Last(s).wears, w) \in Seq(WearEntry)
  BY <1>1 DEF Stint
<1>3. e \in Stint /\ e.set = Last(s).set /\ e.wears = Append(Last(s).wears, w)
  BY <1>1, <1>2 DEF Stint
<1>4. t = SetLast(s, e)
  BY DEF AddTyreWear
<1>. HIDE DEF e, t
<1>5. /\ t \in Seq(Stint) /\ t # <<>> /\ DOMAIN t = DOMAIN s
      /\ \A i \in DOMAIN s : t[i] = IF i = Len(s) THEN e ELSE s[i]
  BY <1>3, <1>4, LastSet
<1>6. Len(t) = Len(s)
  BY <1>5
<1>. QED BY <1>1, <1>3, <1>5, <1>6 DEF t

LEMMA OverwrittenAtEnd ==
    ASSUME NEW s \in Seq(Stint), s # <<>>, Last(s).wears # <<>>, NEW w \in WearEntry
    PROVE  LET t == OverwriteTyreWear(s, w) IN
           /\ t \in Seq(Stint) /\ t # <<>> /\ Len(t) = Len(s)
           /\ \A i \in DOMAIN s : t[i].set = s[i].set /\ (i # Len(s) => t[i] = s[i])
           /\ DOMAIN t[Len(s)].wears = DOMAIN s[Len(s)].wears
           /\ \A j \in DOMAIN s[Len(s)].wears :
                  t[Len(s)].wears[j] = IF j = Len(s[Len(s)].wears) THEN w ELSE s[Len(s)].wears[j]
<1>. DEFINE e == [Last(s) EXCEPT !.wears = SetLast(@, w)]
            t == OverwriteTyreWear(s, w)
            ws == Last(s).wears
<1>1. Last(s) \in Stint /\ Last(s) = s[Len(s)] /\ Len(s) \in DOMAIN s
  BY LastSet DEF Last
<1>2. ws \in Seq(WearEntry) /\ ws # <<>>
  BY <1>1 DEF Stint
<1>3. e.set = Last(s).set /\ e.wears = SetLast(ws, w) /\ e.start = Last(s).start
      /\ DOMAIN e = {"start", "set", "wears"}
      /\ e = [start |-> e.start, set |-> e.set, wears |-> e.wears]
  BY <1>1 DEF Stint
<1>4. t = SetLast(s, e)
  BY DEF OverwriteTyreWear
<1>. HIDE DEF e, t, ws
<1>5. SetLast(ws, w) \in Seq(WearEntry) /\ DOMAIN SetLast(ws, w) = DOMAIN ws
      /\ \A j \in DOMAIN ws : SetLast(ws, w)[j] = IF j = Len(ws) THEN w ELSE ws[j]
  BY <1>2, LastSet
<1>6. e \in Stint
  BY <1>1, <1>3, <1>5 DEF Stint
<1>7. /\ t \in Seq(Stint) /\ t # <<>> /\ DOMAIN t = DOMAIN s
      /\ \A i \in DOMAIN s : t[i] = IF i = Len(s) THEN e ELSE s[i]
  BY <1>4, <1>6, LastSet
<1>8. Len(t) = Len(s)
  BY <1>7
<1>9. t[Len(s)].wears = SetLast(ws, w) /\ ws = s[Len(s)].wears
  BY <1>1, <1>3, <1>7 DEF ws
<1>. QED BY <1>1, <1>3, <1>5, <1>7, <1>8, <1>9 DEF t

\* The last of a sequence.
LEMMA EndOf ==
    ASSUME NEW S, NEW s \in Seq(S), s # <<>>
    PROVE  /\ Len(s) \in Nat /\ Len(s) \in 1..Len(s) /\ DOMAIN s = 1..Len(s)
           /\ Last(s) = s[Len(s)] /\ s[Len(s)] \in S
<1>1. Len(s) \in Nat /\ DOMAIN s = 1..Len(s) /\ Len(s) # 0
  OBVIOUS
<1>. QED BY <1>1 DEF Last

\* A wear of the tyres of a stint is added to it.
LEMMA OwnAdded ==
    ASSUME NEW s \in Seq(Stint), s # <<>>, Own(s), NEW w \in WearEntry, w.of.set = Last(s).set
    PROVE  Own(AddTyreWear(s, w))
<1>. DEFINE t == AddTyreWear(s, w)
            n == Len(s)
<1>0. DOMAIN s = 1..n /\ n \in Nat /\ n \in 1..n /\ Last(s) = s[n]
  BY EndOf
<1>1. /\ t \in Seq(Stint) /\ Len(t) = n
      /\ \A i \in DOMAIN s : t[i].set = s[i].set /\ (i # n => t[i] = s[i])
      /\ t[n].wears = Append(s[n].wears, w)
  BY AddedAtEnd
<1>. HIDE DEF t, n
<1>2. s[n] \in Stint /\ DOMAIN t = 1..n
  BY <1>0, <1>1
<1>3. s[n].wears \in Seq(WearEntry)
  BY <1>2 DEF Stint
<1>4. OfSet(s[n].wears, s[n].set)
  BY <1>0 DEF Own
<1>5. OfSet(t[n].wears, s[n].set)
  <2>. DEFINE ws == s[n].wears
  <2>1. OfSet(ws, s[n].set) /\ ws \in Seq(WearEntry) /\ t[n].wears = Append(ws, w)
        /\ w.of.set = s[n].set
    BY <1>0, <1>1, <1>3, <1>4
  <2>. HIDE DEF ws
  <2>. QED BY <2>1 DEF OfSet
<1>6. ASSUME NEW i \in 1..n PROVE OfSet(t[i].wears, t[i].set)
  BY <1>0, <1>1, <1>5 DEF Own
<1>. QED BY <1>2, <1>6 DEF Own, t

\* An end of the wrong set is mended.
LEMMA OwnMended ==
    ASSUME NEW s \in Seq(Stint), s # <<>>, Last(s).wears # <<>>, Own(s),
           NEW v \in WearEntry, v.of.set = Last(s).set, NEW w \in WearEntry,
           NEW r, r = s \/ r = AddTyreWear(s, w)
    PROVE  LET t == OverwriteTyreWear(r, v) IN
           /\ r \in Seq(Stint) /\ r # <<>> /\ Last(r).wears # <<>>
           /\ t \in Seq(Stint) /\ Own(t)
<1>. DEFINE t == OverwriteTyreWear(r, v)
            n == Len(s)
            last == s[n].wears
<1>0. DOMAIN s = 1..n /\ n \in Nat /\ n \in 1..n /\ Last(s) = s[n]
  BY EndOf
<1>1. n \in Nat /\ n \in 1..n /\ DOMAIN s = 1..n /\ s[n] \in Stint /\ Last(s) = s[n]
  <2>. HIDE DEF n
  <2>. QED BY <1>0
<1>2. last \in Seq(WearEntry) /\ last # <<>>
  BY <1>1 DEF Stint
<1>3. Append(last, w) \in Seq(WearEntry) /\ Len(Append(last, w)) = Len(last) + 1
      /\ Append(last, w) # <<>>
      /\ \A j \in 1..Len(last) : Append(last, w)[j] = last[j]
  BY <1>2
<1>. HIDE DEF t
<1>4. /\ r \in Seq(Stint) /\ r # <<>> /\ Len(r) = n
      /\ \A i \in 1..n : r[i].set = s[i].set /\ (i # n => r[i] = s[i])
      /\ r[n].wears \in {last, Append(last, w)}
  <2>1. CASE r = s
    BY <2>1
  <2>2. CASE r = AddTyreWear(s, w)
    <3>. DEFINE a == AddTyreWear(s, w)
    <3>1. /\ a \in Seq(Stint) /\ a # <<>> /\ Len(a) = Len(s)
          /\ \A i \in DOMAIN s : a[i].set = s[i].set /\ (i # Len(s) => a[i] = s[i])
          /\ a[Len(s)].wears = Append(last, w)
      BY AddedAtEnd
    <3>. HIDE DEF a, last
    <3>. QED BY <1>1, <2>2, <3>1 DEF a
  <2>. QED BY <2>1, <2>2
<1>. HIDE DEF n
<1>5. /\ Last(r) = r[n] /\ r[n].wears # <<>> /\ DOMAIN r = 1..n
      /\ r[n].wears \in Seq(WearEntry)
      /\ \A j \in 1..(Len(r[n].wears) - 1) : j \in DOMAIN last /\ r[n].wears[j] = last[j]
  <2>1. Last(r) = r[n] /\ DOMAIN r = 1..n /\ r[n].wears # <<>> /\ r[n].wears \in Seq(WearEntry)
    <3>. HIDE DEF last
    <3>. QED BY <1>2, <1>3, <1>4, EndOf
  <2>. DEFINE a == Append(last, w)
  <2>2. CASE r[n].wears = last
    BY <1>2, <2>1, <2>2
  <2>3. CASE r[n].wears = a
    <3>1. Len(last) \in Nat /\ DOMAIN last = 1..Len(last)
      BY <1>2
    <3>. HIDE DEF last
    <3>2. Len(a) = Len(last) + 1 /\ \A j \in 1..Len(last) : a[j] = last[j]
      BY <1>3
    <3>. HIDE DEF a
    <3>. QED BY <2>1, <2>3, <3>1, <3>2
  <2>. QED BY <1>4, <2>1, <2>2, <2>3
<1>6. /\ t \in Seq(Stint) /\ DOMAIN t = 1..n
      /\ \A i \in 1..n : t[i].set = r[i].set /\ (i # n => t[i] = r[i])
      /\ DOMAIN t[n].wears = DOMAIN r[n].wears
      /\ \A j \in DOMAIN r[n].wears :
             t[n].wears[j] = IF j = Len(r[n].wears) THEN v ELSE r[n].wears[j]
  BY <1>4, <1>5, OverwrittenAtEnd DEF t
<1>7. OfSet(t[n].wears, s[n].set)
  <2>1. OfSet(last, s[n].set)
    BY <1>1 DEF Own
  <2>2. DOMAIN r[n].wears = 1..Len(r[n].wears) /\ Len(r[n].wears) \in Nat
    BY <1>5
  <2>3. ASSUME NEW j \in DOMAIN t[n].wears PROVE t[n].wears[j].of.set = s[n].set
    <3>1. CASE j = Len(r[n].wears)
      BY <1>1, <1>6, <2>3, <3>1
    <3>2. CASE j # Len(r[n].wears)
      <4>. HIDE DEF last
      <4>1. j \in 1..(Len(r[n].wears) - 1)
        BY <1>6, <2>2, <2>3, <3>2
      <4>. QED BY <1>5, <1>6, <2>1, <2>3, <3>2, <4>1 DEF OfSet
    <3>. QED BY <3>1, <3>2
  <2>. QED BY <2>3 DEF OfSet
<1>8. Own(t)
  BY <1>1, <1>4, <1>6, <1>7 DEF Own
<1>. QED BY <1>4, <1>5, <1>6, <1>8 DEF t

\* A change that is through begins a stint, and the curve, with a wear of the new tyres.
LEMMA ChangeThrough ==
    ASSUME NEW b, IsBook(b), Typed(b), b.pending = {}, b.cur # None, b.fitted = Fitted, stops = 1,
           b.dmg # None, b.dmg.set = Fitted, Own(b.stints)
    PROVE  Done(OnTyreSetChange(b))
<1>. DEFINE c == OnTyreSetChange(b)
            wear == WearAt(b.cur - 1, b.dmg)
            stint == [start |-> b.cur, set |-> b.fitted, wears |-> <<wear>>]
<1>1. /\ c.dmg = b.dmg /\ c.fitted = b.fitted /\ c.pending = b.pending
      /\ c.stints = Append(b.stints, stint) /\ c.curve = <<wear>>
  BY TyreChangeFields DEF IsBook
<1>2. wear.of.set = Fitted
  BY DEF WearAt
<1>3. OfSet(<<wear>>, Fitted)
  <2>. HIDE DEF wear
  <2>. QED BY <1>2 DEF OfSet
<1>4. stint.set = Fitted /\ OfSet(stint.wears, stint.set)
  <2>. HIDE DEF wear
  <2>. QED BY <1>3
<1>5. b.stints \in Seq(Stint)
  BY DEF Typed
<1>. HIDE DEF stint, c
<1>6. Len(c.stints) = Len(b.stints) + 1 /\ DOMAIN c.stints = 1..(Len(b.stints) + 1)
      /\ c.stints[Len(b.stints) + 1] = stint /\ Len(b.stints) \in Nat
      /\ \A i \in 1..Len(b.stints) : c.stints[i] = b.stints[i]
  BY <1>1, <1>5
<1>7. c.stints # <<>> /\ Last(c.stints) = stint
  BY <1>6 DEF Last
<1>8. Own(c.stints)
  BY <1>4, <1>5, <1>6 DEF Own
<1>. QED BY <1>1, <1>3, <1>4, <1>7, <1>8 DEF Done, c

\* What a snapshot of a lap adds is of the tyres of the last damage packet.
LEMMA CapturedOwn ==
    ASSUME NEW b, NEW lap \in Nat, NEW c, IsBook(b), Typed(b), Captured(b, lap, c), b.dmg # None,
           NEW set, set = b.dmg.set, NEW wear, wear = WearAt(lap, b.dmg)
    PROVE  /\ b.stints = <<>> => c.stints = <<>>
           /\ b.stints # <<>> => c.stints # <<>> /\ Len(c.stints) = Len(b.stints)
           /\ \A i \in DOMAIN b.stints : c.stints[i].set = b.stints[i].set
           /\ Own(b.stints) /\ (b.stints # <<>> => Last(b.stints).set = set) => Own(c.stints)
           /\ OfSet(b.curve, set) => OfSet(c.curve, set)
           /\ \/ c.stints = b.stints
              \/ b.stints # <<>> /\ c.stints = AddTyreWear(b.stints, wear)
           /\ wear \in WearEntry
<1>1. /\ c.raised = b.raised
      /\ c.stints = IF lap = 0 \/ b.stints = <<>> THEN b.stints ELSE AddTyreWear(b.stints, wear)
      /\ c.curve = IF b.fitted = None THEN b.curve ELSE Append(b.curve, wear)
  BY DEF Captured
<1>2. wear \in WearEntry /\ wear.of.set = set
  BY DEF WearAt, WearEntry, IsBook
<1>3. b.stints \in Seq(Stint) /\ b.curve \in Seq(WearEntry)
  BY DEF Typed
<1>4. OfSet(b.curve, set) => OfSet(Append(b.curve, wear), set)
  BY <1>2, <1>3 DEF OfSet
<1>5. b.stints # <<>> => LET t == AddTyreWear(b.stints, wear) IN
           /\ t # <<>> /\ Len(t) = Len(b.stints)
           /\ \A i \in DOMAIN b.stints : t[i].set = b.stints[i].set
  BY <1>2, <1>3, AddedAtEnd
<1>6. b.stints # <<>> /\ Own(b.stints) /\ Last(b.stints).set = set
          => Own(AddTyreWear(b.stints, wear))
  BY <1>2, <1>3, OwnAdded
<1>7. /\ b.stints = <<>> => c.stints = <<>>
      /\ b.stints # <<>> => c.stints # <<>> /\ Len(c.stints) = Len(b.stints)
      /\ \A i \in DOMAIN b.stints : c.stints[i].set = b.stints[i].set
  <2>1. CASE c.stints = b.stints
    BY <2>1
  <2>2. CASE b.stints # <<>> /\ c.stints = AddTyreWear(b.stints, wear)
    BY <1>5, <2>2
  <2>. QED BY <1>1, <2>1, <2>2
<1>8. Own(b.stints) /\ (b.stints # <<>> => Last(b.stints).set = set) => Own(c.stints)
  BY <1>1, <1>6
<1>9. OfSet(b.curve, set) => OfSet(c.curve, set)
  BY <1>1, <1>4
<1>10. c.stints = b.stints \/ (b.stints # <<>> /\ c.stints = AddTyreWear(b.stints, wear))
  BY <1>1
<1>. QED BY <1>1, <1>2, <1>7, <1>8, <1>9, <1>10

\* What is kept by a step that does not end the premise of WearOfOwnTyres.
OwnKept == ~book'.raised /\ HeardOf(book', told') /\ Stage(book', told')

LEMMA CalmFacts ==
    ASSUME OwnInv, Calm
    PROVE  /\ LapsTypes /\ IsBook(book) /\ Typed(book) /\ Orderly(book, Lap)
           /\ ~book.raised /\ ChangedOnce /\ HeardOf(book, told) /\ Stage(book, told)
           /\ setting.steady /\ stops \in {0, 1}
           /\ Len(road) \in Nat /\ Len(road) >= 1 /\ (Len(road) > 1 <=> Len(road) # 1)
           /\ stops = 0 => Fitted = road[1] /\ Unnoticed(book, told)
           /\ stops = 1 => Len(road) > 1 /\ Fitted # road[1]
           /\ stops = 1 => book.stints # <<>> /\ book.dmg # None /\ book.worst # None
           /\ stops = 1 => book.cur # None
<1>1. /\ LapsTypes /\ IsBook(book) /\ Typed(book) /\ Orderly(book, Lap)
      /\ ~book.raised /\ ChangedOnce /\ HeardOf(book, told) /\ Stage(book, told)
  BY DEF OwnInv, BookInv, LapsInv, Good, Blamed, Calm
<1>2. setting.steady /\ stops \in {0, 1}
  BY DEF OwnInv, Calm
<1>3. Len(road) \in Nat /\ Len(road) >= 1 /\ (Len(road) > 1 <=> Len(road) # 1)
  <2>. DEFINE n == Len(road)
  <2>1. n \in Nat /\ n >= 1
    BY <1>1, Bounds DEF LapsTypes
  <2>. HIDE DEF n
  <2>2. n > 1 <=> n # 1
    BY <2>1
  <2>. QED BY <2>1, <2>2 DEF n
<1>4. stops = 0 => Fitted = road[1] /\ Unnoticed(book, told)
  BY <1>1, <1>3 DEF ChangedOnce, Fitted, Stage, Waiting, Done
<1>5. stops = 1 => Len(road) > 1 /\ Fitted # road[1]
  BY <1>1, <1>3 DEF ChangedOnce, ChangedAfter
<1>6. stops = 1 => book.stints # <<>>
  BY <1>1, <1>5 DEF HeardOf
<1>7. stops = 1 => book.dmg # None /\ book.worst # None
  BY <1>1, <1>6 DEF Typed, Orderly
<1>8. stops = 1 => book.cur # None
  <2>1. Lap \in Nat /\ (Len(road) > 1 => LapAt(Len(road) - 1) \in Nat)
    BY <1>1, <1>3, LapNumber DEF LapAt
  <2>2. /\ "lap" \in told => book.cur = Lap
        /\ "lap" \notin told /\ Len(road) # 1 => book.cur = LapAt(Len(road) - 1)
    BY <1>1 DEF HeardOf
  <2>3. None \notin Nat
    BY Bounds
  <2>4. stops = 1 => book.cur \in Nat
    <3>1. CASE "lap" \in told
      BY <2>1, <2>2, <3>1
    <3>2. CASE "lap" \notin told /\ stops = 1
      <4>1. Len(road) > 1 /\ Len(road) # 1
        BY <1>3, <1>5, <3>2, Zenon
      <4>. QED BY <2>1, <2>2, <3>2, <4>1
    <3>. QED BY <3>1, <3>2
  <2>. QED BY <2>3, <2>4
<1>. QED BY <1>1, <1>2, <1>3, <1>4, <1>5, <1>6, <1>7, <1>8

\* Until a change is through, the worst wear is that of the first tyres.
LEMMA WorstOfFirst ==
    ASSUME OwnInv, Calm, Unnoticed(book, told) \/ Waiting(book, told),
           NEW worst, worst = IF book.worst # None /\ book.worst.wear >= NewDamage.wear
                              THEN book.worst ELSE NewDamage
    PROVE  worst.set = road[1] /\ worst.wear >= 1
<1>1. LapsTypes /\ ChangedOnce /\ stops \in {0, 1} /\ OfFirst(book) /\ Typed(book)
  BY CalmFacts DEF Unnoticed, Waiting
<1>2. CASE stops = 0
  BY <1>1, <1>2, FirstWears DEF ChangedOnce, OfFirst
<1>3. CASE stops = 1
  <2>1. book.worst # None /\ book.worst.set = road[1] /\ book.worst.wear >= 1
    BY <1>1, <1>3, CalmFacts DEF OfFirst
  <2>2. NewDamage \in Damage /\ book.worst \in Damage
    BY <1>1, <2>1, NewDamageType DEF Typed
  <2>3. NewDamage.wear \in Int /\ book.worst.wear \in Int
    BY <2>2, Bounds DEF Damage
  <2>4. PICK p : ChangedAfter(p) /\ Len(road) <= p + 2
    <3>1. Len(road) \in Nat
      BY CalmFacts
    <3>. QED BY <1>3, <3>1 DEF Unnoticed, Waiting
  <2>5. NewDamage.wear <= 1
    BY <1>1, <2>4, SecondWears
  <2>. QED BY <2>1, <2>3, <2>5
<1>. QED BY <1>1, <1>2, <1>3

LEMMA DamageOwn ==
    ASSUME OwnInv, Calm, CarDamage
    PROVE  OwnKept
<1>. DEFINE worst == IF book.worst # None /\ book.worst.wear >= NewDamage.wear
                     THEN book.worst ELSE NewDamage
            b == [book EXCEPT !.dmg = NewDamage, !.worst = worst]
            left == [b EXCEPT !.pending = @ \ {"damage"}]
<1>1. /\ IsBook(book) /\ Typed(book) /\ Orderly(book, Lap) /\ LapsTypes /\ ~book.raised
      /\ HeardOf(book, told) /\ Stage(book, told) /\ stops \in {0, 1} /\ setting.steady
      /\ stops = 0 => Fitted = road[1] /\ Unnoticed(book, told)
  BY CalmFacts
<1>2. NewDamage \in Damage /\ NewDamage # None /\ NewDamage.set = Fitted
  BY <1>1, NewDamageType, Bounds DEF NewDamage, Fitted
<1>3. worst \in Damage
  BY <1>1, <1>2 DEF Typed
<1>4. Unnoticed(book, told) \/ Waiting(book, told) => worst.set = road[1] /\ worst.wear >= 1
  BY WorstOfFirst
<1>5. /\ ("lap" \in told' <=> "lap" \in told) /\ ("tyres" \in told' <=> "tyres" \in told)
      /\ book' = IF "damage" \notin b.pending THEN b
                 ELSE IF left.pending = {} THEN DelayedChange(left) ELSE left
  BY <1>1 DEF CarDamage, Arrived, Now, OnEvent
<1>. HIDE DEF worst
<1>6. /\ b.cur = book.cur /\ b.dmg = NewDamage /\ b.fitted = book.fitted
      /\ b.worst = worst /\ b.stints = book.stints /\ b.pending = book.pending
      /\ b.raised = book.raised /\ b.snaps = book.snaps /\ b.curve = book.curve
      /\ DOMAIN b = Field
  BY <1>1 DEF IsBook, Field
<1>7. /\ left.cur = book.cur /\ left.dmg = NewDamage /\ left.fitted = book.fitted
      /\ left.worst = worst /\ left.stints = book.stints
      /\ left.pending = book.pending \ {"damage"}
      /\ left.raised = book.raised /\ left.snaps = book.snaps /\ left.curve = book.curve
      /\ DOMAIN left = Field
  BY <1>1 DEF IsBook, Field
<1>. HIDE DEF b, left
<1>8. HeardOf(b, told') /\ HeardOf(left, told')
  BY <1>1, <1>2, <1>5, <1>6, <1>7 DEF HeardOf
<1>9. CASE Unnoticed(book, told)
  <2>1. "damage" \notin b.pending
    BY <1>6, <1>9 DEF Unnoticed
  <2>2. Unnoticed(b, told')
    BY <1>4, <1>5, <1>6, <1>9 DEF Unnoticed, OfFirst
  <2>. QED BY <1>1, <1>5, <1>6, <1>8, <2>1, <2>2 DEF OwnKept, Stage
<1>10. CASE Waiting(book, told) /\ "damage" \notin book.pending
  <2>1. Waiting(b, told')
    BY <1>2, <1>4, <1>5, <1>6, <1>10 DEF Waiting, OfFirst
  <2>. QED BY <1>1, <1>5, <1>6, <1>8, <1>10, <2>1 DEF OwnKept, Stage
<1>11. CASE Waiting(book, told) /\ "damage" \in book.pending /\ setting.weird
  <2>1. "lap" \in left.pending
    BY <1>7, <1>11 DEF Waiting
  <2>2. Waiting(left, told')
    BY <1>2, <1>4, <1>5, <1>7, <1>11, <2>1 DEF Waiting, OfFirst
  <2>. QED BY <1>1, <1>5, <1>6, <1>7, <1>8, <1>11, <2>1, <2>2 DEF OwnKept, Stage
<1>12. CASE Waiting(book, told) /\ "damage" \in book.pending /\ ~setting.weird
  <2>. DEFINE c == OnTyreSetChange(left)
  <2>1. left.pending = {} /\ book' = c /\ stops = 1 /\ book.fitted = Fitted /\ Own(book.stints)
        /\ book.cur # None
    BY <1>1, <1>5, <1>6, <1>7, <1>12 DEF Waiting, DelayedChange, OfFirst, Typed
  <2>2. IsBook(left) /\ Typed(left)
    BY <1>1, <1>2, <1>3, <1>7 DEF IsBook, Typed
  <2>3. Done(c)
    BY <1>2, <1>7, <2>1, <2>2, ChangeThrough
  <2>4. c.cur = left.cur /\ c.dmg = left.dmg /\ c.raised = left.raised /\ c.snaps = left.snaps
    BY <1>7, TyreChangeFields
  <2>. HIDE DEF c
  <2>5. Len(road) > 1 /\ c.stints # <<>> /\ left.stints # <<>>
    BY <1>7, <2>1, <2>3, CalmFacts DEF Done
  <2>6. HeardOf(c, told')
    BY <1>8, <2>4, <2>5 DEF HeardOf
  <2>. QED BY <1>1, <1>7, <2>1, <2>3, <2>4, <2>6 DEF OwnKept, Stage
<1>13. CASE Done(book)
  <2>1. "damage" \notin b.pending
    BY <1>6, <1>13 DEF Done
  <2>2. Done(b)
    BY <1>2, <1>6, <1>13 DEF Done
  <2>. QED BY <1>1, <1>5, <1>6, <1>8, <2>1, <2>2 DEF OwnKept, Stage
<1>. QED BY <1>1, <1>9, <1>10, <1>11, <1>12, <1>13 DEF Stage

LEMMA TyresOwn ==
    ASSUME OwnInv, Calm, TyreSets
    PROVE  OwnKept
<1>. DEFINE b == [book EXCEPT !.fitted = road[Len(road)]]
            w == WearAt(0, b.snaps[0])
            stint == [start |-> b.cur, set |-> b.fitted, wears |-> <<w>>]
            c == [b EXCEPT !.stints = <<stint>>]
            dropped == [b EXCEPT !.snaps = [k \in DOMAIN @ \ {0} |-> @[k]]]
            waits == [b EXCEPT !.pending = Awaited]
<1>1. /\ IsBook(book) /\ Typed(book) /\ LapsTypes /\ ~book.raised
      /\ HeardOf(book, told) /\ Stage(book, told) /\ stops \in {0, 1} /\ setting.steady
      /\ stops = 0 => Fitted = road[1] /\ Unnoticed(book, told)
      /\ stops = 1 => /\ Len(road) > 1 /\ Fitted # road[1]
                      /\ book.stints # <<>> /\ book.dmg # None /\ book.cur # None
      /\ Len(road) \in Nat /\ Len(road) >= 1 /\ (Len(road) > 1 <=> Len(road) # 1)
  BY CalmFacts
<1>2. /\ ("lap" \in told' <=> "lap" \in told) /\ "damage" \notin told'
      /\ book' = IF b.cur = None THEN b
                 ELSE IF b.stints = <<>> THEN
                     IF 0 \notin DOMAIN b.snaps THEN b
                     ELSE IF b.snaps[0] = None THEN dropped ELSE c
                 ELSE IF b.fitted # Last(b.stints).set /\ b.pending = {} THEN waits ELSE b
  BY <1>1 DEF TyreSets, Arrived, Now, UpdateTyreSetData
<1>3. /\ b.cur = book.cur /\ b.dmg = book.dmg /\ b.fitted = Fitted
      /\ b.worst = book.worst /\ b.stints = book.stints /\ b.pending = book.pending
      /\ b.raised = book.raised /\ b.snaps = book.snaps /\ b.curve = book.curve
      /\ DOMAIN b = Field
  BY <1>1 DEF IsBook, Field, Fitted
<1>. HIDE DEF b
<1>4. HeardOf(b, told')
  BY <1>1, <1>2, <1>3 DEF HeardOf
<1>5. CASE stops = 0
  <2>1. Unnoticed(b, told') /\ Fitted = road[1]
    BY <1>1, <1>3, <1>5 DEF Unnoticed, OfFirst
  <2>2. b.stints # <<>> => Last(b.stints).set = Fitted
    BY <1>1, <1>3, <2>1, EndOf DEF Unnoticed, OfFirst, Typed
  <2>3. b.stints = <<>> => /\ HeardOf(dropped, told') /\ Unnoticed(dropped, told')
                           /\ dropped.raised = b.raised
    <3>1. /\ dropped.cur = b.cur /\ dropped.dmg = b.dmg
          /\ dropped.worst = b.worst /\ dropped.stints = b.stints
          /\ dropped.pending = b.pending /\ dropped.raised = b.raised
          /\ dropped.curve = b.curve
          /\ dropped.snaps = [k \in DOMAIN b.snaps \ {0} |-> b.snaps[k]]
      BY <1>3 DEF Field
    <3>. HIDE DEF dropped
    <3>2. /\ DOMAIN dropped.snaps \subseteq DOMAIN b.snaps
          /\ \A k \in DOMAIN dropped.snaps : dropped.snaps[k] = b.snaps[k]
      BY <3>1
    <3>3. b.stints = <<>> => HeardOf(dropped, told')
      BY <1>4, <3>1, <3>2 DEF HeardOf
    <3>4. Unnoticed(dropped, told')
      BY <2>1, <3>1 DEF Unnoticed, OfFirst
    <3>. QED BY <3>1, <3>3, <3>4
  <2>4. ASSUME b.stints = <<>>, 0 \in DOMAIN b.snaps, b.snaps[0] # None
        PROVE  HeardOf(c, told') /\ Unnoticed(c, told') /\ c.raised = b.raised
    <3>1. /\ c.cur = b.cur /\ c.dmg = b.dmg /\ c.worst = b.worst /\ c.stints = <<stint>>
          /\ c.pending = b.pending /\ c.raised = b.raised /\ c.curve = b.curve
          /\ c.snaps = b.snaps
      <4>. HIDE DEF stint
      <4>. QED BY <1>3 DEF Field
    <3>2. b.snaps[0].set = road[1]
      <4>1. Len(road) = 1
        BY <1>1, <1>4, <2>4, Zenon DEF HeardOf
      <4>2. \A k \in DOMAIN b.snaps : b.snaps[k] # None => b.snaps[k].set = road[1]
        BY <1>4, <4>1 DEF HeardOf
      <4>. QED BY <2>4, <4>2
    <3>3. w.of.set = road[1]
      BY <3>2 DEF WearAt
    <3>. HIDE DEF w, c
    <3>4. OfSet(<<w>>, road[1])
      BY <3>3 DEF OfSet
    <3>5. stint.set = road[1] /\ OfSet(stint.wears, stint.set)
      <4>1. stint.set = b.fitted /\ stint.wears = <<w>>
        OBVIOUS
      <4>. QED BY <1>3, <2>1, <3>4, <4>1
    <3>. HIDE DEF stint
    <3>6. /\ c.stints # <<>> /\ Own(c.stints)
          /\ \A i \in DOMAIN c.stints : c.stints[i].set = road[1]
      BY <3>1, <3>5 DEF Own
    <3>7. HeardOf(c, told')
      BY <1>4, <2>4, <3>1, <3>6 DEF HeardOf
    <3>8. Unnoticed(c, told')
      BY <1>5, <2>1, <3>1, <3>6 DEF Unnoticed, OfFirst
    <3>. QED BY <3>1, <3>7, <3>8
  <2>. HIDE DEF c, dropped, waits
  <2>5. \/ book' = b
        \/ b.stints = <<>> /\ book' = dropped
        \/ b.stints = <<>> /\ 0 \in DOMAIN b.snaps /\ b.snaps[0] # None /\ book' = c
    BY <1>2, <1>3, <2>2
  <2>. QED BY <1>1, <1>3, <1>4, <2>1, <2>3, <2>4, <2>5 DEF OwnKept, Stage
<1>6. CASE stops = 1 /\ Unnoticed(book, told)
  <2>1. Last(b.stints).set = road[1] /\ b.pending = {}
    BY <1>1, <1>3, <1>6, EndOf DEF Unnoticed, OfFirst, Typed
  <2>2. book' = waits
    BY <1>1, <1>2, <1>3, <1>6, <2>1
  <2>3. /\ waits.cur = b.cur /\ waits.dmg = b.dmg /\ waits.fitted = b.fitted
        /\ waits.worst = b.worst /\ waits.stints = b.stints /\ waits.raised = b.raised
        /\ waits.curve = b.curve /\ waits.snaps = b.snaps
        /\ waits.pending = IF setting.weird THEN {"lap", "damage"} ELSE {"damage"}
    BY <1>3 DEF Field, Awaited
  <2>. HIDE DEF waits
  <2>4. HeardOf(waits, told')
    BY <1>4, <2>3 DEF HeardOf
  <2>5. Waiting(waits, told')
    BY <1>2, <1>3, <1>6, <2>3 DEF Unnoticed, Waiting, OfFirst
  <2>. QED BY <1>1, <1>3, <2>2, <2>3, <2>4, <2>5 DEF OwnKept, Stage
<1>7. CASE stops = 1 /\ Waiting(book, told)
  <2>1. book' = b
    BY <1>1, <1>2, <1>3, <1>7 DEF Waiting
  <2>2. Waiting(b, told')
    BY <1>2, <1>3, <1>7 DEF Waiting, OfFirst
  <2>. QED BY <1>1, <1>3, <1>4, <2>1, <2>2 DEF OwnKept, Stage
<1>8. CASE stops = 1 /\ Done(book)
  <2>1. book' = b
    BY <1>1, <1>2, <1>3, <1>8 DEF Done
  <2>2. Done(b)
    BY <1>3, <1>8 DEF Done
  <2>. QED BY <1>1, <1>3, <1>4, <2>1, <2>2 DEF OwnKept, Stage
<1>. QED BY <1>1, <1>5, <1>6, <1>7, <1>8 DEF Stage

\* A lap has two moments.
LEMMA LapsOfMoments ==
    ASSUME NEW n \in Nat, n > 1
    PROVE  /\ LapAt(n) \in Nat /\ LapAt(n - 1) \in Nat
           /\ n % 2 = 0 => LapAt(n - 1) = LapAt(n)
           /\ n % 2 = 1 => LapAt(n - 1) + 1 = LapAt(n)
           /\ (n - 1) % 2 = 1 <=> n % 2 = 0
           /\ (n - 2) % 2 = 1 <=> n % 2 = 1
           /\ n % 2 \in {0, 1}
BY DEF LapAt

\* A lap that is not over, or was heard to be over: at most the zeroth snapshot is taken.
LEMMA SameLapOwn ==
    ASSUME OwnInv, Calm, LapData, book.cur \in {None, Lap}
    PROVE  OwnKept
<1>. DEFINE zeroth == book.cur = 1 /\ book.rest /\ book.dmg # None /\ book.fitted # None
                      /\ 0 \notin DOMAIN book.snaps
            c == Capture(book, 0)
            first == IF zeroth THEN c ELSE book
            e == [first EXCEPT !.cur = Lap]
<1>1. /\ IsBook(book) /\ Typed(book) /\ LapsTypes /\ ~book.raised
      /\ HeardOf(book, told) /\ Stage(book, told) /\ stops \in {0, 1} /\ setting.steady
      /\ stops = 0 => Fitted = road[1] /\ Unnoticed(book, told)
      /\ stops = 1 => Len(road) > 1
      /\ Len(road) \in Nat /\ Len(road) >= 1 /\ (Len(road) > 1 <=> Len(road) # 1)
      /\ Lap \in Nat /\ None \notin Nat
  BY CalmFacts, LapNumber, Bounds
<1>2. /\ told' = told \cup {"lap"}
      /\ book' = IF first.raised THEN first ELSE e
  <2>1. zeroth => OnLapChange(book, 0, FALSE) = c
    BY DEF OnLapChange
  <2>. QED BY <1>1, <2>1 DEF LapData, Arrived, Now
<1>3. Captured(book, 0, c) /\ IsBook(c)
  <2>1. IsBook(c)
    BY <1>1, CaptureAddsOne
  <2>. QED BY <1>1, <2>1, CaptureFields
<1>4. zeroth => /\ c.dmg = book.dmg /\ c.worst = book.worst /\ c.pending = book.pending
                /\ c.raised = book.raised /\ c.fitted = book.fitted
                /\ c.snaps = [k \in DOMAIN book.snaps \cup {0} |->
                                  IF k = 0 THEN book.dmg ELSE book.snaps[k]]
                /\ c.stints = book.stints /\ c.stints = <<>>
                /\ Len(road) = 1 /\ stops = 0 /\ book.dmg.set = road[1]
  <2>. SUFFICES ASSUME zeroth
                PROVE  /\ c.dmg = book.dmg /\ c.worst = book.worst /\ c.pending = book.pending
                       /\ c.raised = book.raised /\ c.fitted = book.fitted
                       /\ c.snaps = [k \in DOMAIN book.snaps \cup {0} |->
                                         IF k = 0 THEN book.dmg ELSE book.snaps[k]]
                       /\ c.stints = book.stints /\ c.stints = <<>>
                       /\ Len(road) = 1 /\ stops = 0 /\ book.dmg.set = road[1]
    OBVIOUS
  <2>. HIDE DEF c
  <2>1. /\ c.dmg = book.dmg /\ c.worst = book.worst /\ c.pending = book.pending
        /\ c.raised = book.raised /\ c.fitted = book.fitted
        /\ c.snaps = [k \in DOMAIN book.snaps \cup {0} |->
                          IF k = 0 THEN book.dmg ELSE book.snaps[k]]
        /\ c.stints = book.stints
    BY <1>3 DEF Captured
  <2>2. book.stints = <<>> /\ Len(road) = 1 /\ stops = 0
    BY <1>1, Zenon DEF HeardOf
  <2>3. book.dmg.set = road[1]
    BY <1>1, <2>2 DEF HeardOf
  <2>. QED BY <2>1, <2>2, <2>3
<1>5. zeroth => OfSet(c.curve, road[1])
  <2>. SUFFICES ASSUME zeroth PROVE OfSet(c.curve, road[1])
    OBVIOUS
  <2>1. OfSet(book.curve, road[1]) /\ book.dmg.set = road[1]
    BY <1>1, <1>4 DEF Unnoticed, OfFirst
  <2>. HIDE DEF c
  <2>. QED BY <1>1, <1>3, <2>1, CapturedOwn
<1>. HIDE DEF c
<1>6. DOMAIN first = Field /\ ~first.raised
  BY <1>1, <1>3, <1>4 DEF IsBook
<1>7. /\ e.cur = Lap /\ e.dmg = book.dmg /\ e.fitted = book.fitted /\ e.worst = book.worst
      /\ e.stints = book.stints /\ e.pending = book.pending /\ ~e.raised
      /\ e.snaps = first.snaps /\ e.curve = first.curve
  <2>1. /\ first.dmg = book.dmg /\ first.fitted = book.fitted /\ first.worst = book.worst
        /\ first.stints = book.stints /\ first.pending = book.pending
    BY <1>4
  <2>. HIDE DEF first
  <2>. QED BY <1>6, <2>1 DEF Field
<1>8. HeardOf(e, told')
  <2>1. CASE zeroth
    <3>. HIDE DEF e
    <3>1. /\ e.snaps = [k \in DOMAIN book.snaps \cup {0} |->
                            IF k = 0 THEN book.dmg ELSE book.snaps[k]]
      BY <1>4, <1>7, <2>1
    <3>2. /\ 0 \in DOMAIN e.snaps
          /\ \A k \in DOMAIN e.snaps :
                 e.snaps[k] = book.dmg \/ (k \in DOMAIN book.snaps /\ e.snaps[k] = book.snaps[k])
      BY <3>1
    <3>. HIDE DEF zeroth
    <3>. QED BY <1>1, <1>2, <1>4, <1>7, <2>1, <3>2 DEF HeardOf
  <2>2. CASE ~zeroth
    <3>1. e.snaps = book.snaps
      BY <1>7, <2>2
    <3>. HIDE DEF e, zeroth
    <3>. QED BY <1>1, <1>2, <1>7, <3>1 DEF HeardOf
  <2>. QED BY <2>1, <2>2
<1>9. Stage(e, told')
  <2>1. CASE zeroth
    <3>1. Unnoticed(book, told) /\ OfSet(e.curve, road[1]) /\ stops = 0
      BY <1>1, <1>4, <1>5, <1>7, <2>1
    <3>. HIDE DEF e, zeroth
    <3>2. Unnoticed(e, told')
      BY <1>7, <3>1 DEF Unnoticed, OfFirst
    <3>. QED BY <3>2 DEF Stage
  <2>2. CASE ~zeroth
    <3>1. e.curve = book.curve
      BY <1>7, <2>2
    <3>. HIDE DEF e, zeroth, first
    <3>2. CASE Unnoticed(book, told)
      <4>1. Unnoticed(e, told')
        BY <1>2, <1>7, <3>1, <3>2 DEF Unnoticed, OfFirst
      <4>. QED BY <4>1 DEF Stage
    <3>3. CASE Waiting(book, told)
      <4>1. ~(ChangedAfter(Len(road) - 2) /\ "lap" \notin told)
        <5>. SUFFICES ASSUME ChangedAfter(Len(road) - 2), "lap" \notin told PROVE FALSE
          OBVIOUS
        <5>. DEFINE n == Len(road)
        <5>1. n \in Nat /\ n > 1 /\ (n - 2) % 2 = 1 /\ n # 1
          BY <1>1, <3>3 DEF ChangedAfter, Waiting
        <5>2. book.cur = LapAt(n - 1)
          BY <1>1, <5>1, Zenon DEF HeardOf
        <5>3. Lap = LapAt(n)
          BY DEF Lap
        <5>. HIDE DEF n
        <5>4. LapAt(n - 1) + 1 = LapAt(n) /\ LapAt(n - 1) \in Nat
          BY <5>1, LapsOfMoments
        <5>. QED BY <1>1, <5>2, <5>3, <5>4
      <4>2. Waiting(e, told')
        BY <1>2, <1>7, <3>1, <3>3, <4>1 DEF Waiting, OfFirst
      <4>. QED BY <4>2 DEF Stage
    <3>4. CASE Done(book)
      <4>1. Done(e)
        BY <1>7, <3>1, <3>4 DEF Done
      <4>. QED BY <4>1 DEF Stage
    <3>. QED BY <1>1, <3>2, <3>3, <3>4 DEF Stage
  <2>. QED BY <2>1, <2>2
<1>. HIDE DEF e, first
<1>. QED BY <1>2, <1>6, <1>7, <1>8, <1>9 DEF OwnKept

\* The first lap data of a lap: the snapshot of the last one, and the change that waits for it.
LEMMA NextLapOwn ==
    ASSUME OwnInv, Calm, LapData, book.cur \notin {None, Lap}
    PROVE  OwnKept
<1>. DEFINE n == Len(road)
            changed == OnLapChange(book, book.cur, FALSE)
            d == [changed EXCEPT !.cur = Lap]
            moved == OnEvent(d, "lap")
            wear == WearAt(book.cur, book.dmg)
<1>1. /\ IsBook(book) /\ Typed(book) /\ LapsTypes /\ ~book.raised /\ Orderly(book, Lap)
      /\ HeardOf(book, told) /\ Stage(book, told) /\ stops \in {0, 1} /\ setting.steady
      /\ stops = 0 => Fitted = road[1] /\ Unnoticed(book, told)
      /\ n \in Nat /\ n >= 1 /\ (n > 1 <=> n # 1)
      /\ Lap \in Nat /\ None \notin Nat
  BY CalmFacts, LapNumber, Bounds
<1>2. n # 1 /\ n > 1 /\ "lap" \notin told /\ book.cur = LapAt(n - 1)
  BY <1>1, Zenon DEF HeardOf
<1>3. book.cur \in Nat /\ book.cur < Lap /\ n % 2 = 1
  <2>1. Lap = LapAt(n)
    BY DEF Lap
  <2>. HIDE DEF n
  <2>. QED BY <1>1, <1>2, <2>1, LapsOfMoments
<1>4. ~ChangedAfter(n - 1)
  <2>1. (n - 1) % 2 # 1
    <3>. HIDE DEF n
    <3>. QED BY <1>1, <1>2, <1>3, LapsOfMoments
  <2>. QED BY <2>1 DEF ChangedAfter
<1>5. book.stints # <<>> /\ 0 \in DOMAIN book.snaps /\ book.dmg # None /\ book.worst # None
  <2>1. book.stints # <<>> /\ 0 \in DOMAIN book.snaps
    BY <1>1, <1>2, Zenon DEF HeardOf
  <2>. QED BY <1>1, <2>1 DEF Typed, Orderly
<1>6. /\ told' = told \cup {"lap"}
      /\ LET next == IF changed.raised THEN changed ELSE moved
         IN book' = IF next.raised THEN next ELSE [next EXCEPT !.cur = Lap]
  <2>1. (IF book.cur < Lap THEN book.cur ELSE Lap) = book.cur /\ (book.cur > Lap) = FALSE
    BY <1>1, <1>3
  <2>. HIDE DEF n
  <2>. QED BY <1>1, <1>5, <2>1 DEF LapData, Arrived, Now
<1>7. changed = book \/ Captured(book, book.cur, changed)
  BY <1>1, CaptureFields DEF OnLapChange
<1>8. IsBook(changed)
  BY <1>1, <1>3, LapChange
<1>. HIDE DEF changed
<1>9. /\ changed.dmg = book.dmg /\ changed.fitted = book.fitted /\ changed.worst = book.worst
      /\ changed.pending = book.pending /\ ~changed.raised
      /\ DOMAIN book.snaps \subseteq DOMAIN changed.snaps
  BY <1>1, <1>5, <1>7 DEF Captured
<1>10. /\ changed.stints # <<>>
       /\ \/ changed.stints = book.stints
          \/ changed.stints = AddTyreWear(book.stints, wear)
       /\ wear \in WearEntry
       /\ Len(changed.stints) = Len(book.stints)
       /\ \A i \in DOMAIN book.stints : changed.stints[i].set = book.stints[i].set
       /\ Own(book.stints) /\ Last(book.stints).set = book.dmg.set => Own(changed.stints)
       /\ OfSet(book.curve, book.dmg.set) => OfSet(changed.curve, book.dmg.set)
  <2>1. wear \in WearEntry
    BY <1>1, <1>5 DEF IsBook, Typed, WearAt, WearEntry
  <2>. HIDE DEF wear
  <2>2. CASE changed = book
    BY <1>5, <2>1, <2>2
  <2>3. CASE Captured(book, book.cur, changed)
    BY <1>1, <1>3, <1>5, <2>1, <2>3, CapturedOwn DEF wear
  <2>. QED BY <1>7, <2>2, <2>3
<1>. HIDE DEF wear
<1>11. Typed(changed)
  <2>1. Good(book, Lap) /\ book.cur \in 0..MaxMoments
    <3>1. Good(book, Lap)
      BY DEF OwnInv, BookInv
    <3>2. book.cur \in 1..MaxMoments /\ MaxMoments \in Nat
      BY <1>1, Bounds DEF Typed
    <3>. QED BY <3>1, <3>2
  <2>. QED BY <2>1, LapChangeGood DEF Good, changed
<1>12. /\ d.cur = Lap /\ d.dmg = book.dmg /\ d.fitted = book.fitted /\ d.worst = book.worst
       /\ d.stints = changed.stints /\ d.pending = book.pending /\ d.raised = changed.raised
       /\ d.snaps = changed.snaps /\ d.curve = changed.curve /\ DOMAIN d = Field
  BY <1>8, <1>9 DEF IsBook, Field
<1>. HIDE DEF d
<1>13. IsBook(d) /\ Typed(d)
  <2>1. Lap \in 1..MaxMoments
    BY <1>1, LapBound
  <2>. QED BY <1>1, <1>5, <1>8, <1>9, <1>11, <1>12, <2>1 DEF IsBook, Typed
<1>14. "lap" \in told'
  BY <1>6
<1>15. ASSUME NEW e, e.cur = Lap, e.dmg = book.dmg, e.snaps = d.snaps, e.stints # <<>>
       PROVE  HeardOf(e, told')
  <2>1. 0 \in DOMAIN e.snaps /\ (book.dmg # None => book.dmg.set \in {road[1], Fitted})
    BY <1>1, <1>5, <1>9, <1>12, <1>15 DEF HeardOf
  <2>2. Len(road) # 1
    BY <1>2
  <2>. HIDE DEF n
  <2>. QED BY <1>14, <1>15, <2>1, <2>2 DEF HeardOf
<1>16. moved = IF "lap" \notin d.pending THEN d
               ELSE LET left == [d EXCEPT !.pending = @ \ {"lap"}] IN
                    IF left.pending = {} THEN DelayedChange(left) ELSE left
  BY DEF OnEvent
<1>17. ASSUME NEW e, moved = e, DOMAIN e = Field, e.cur = Lap, e.dmg = book.dmg, ~e.raised,
              e.snaps = d.snaps, e.stints # <<>>, Stage(e, told')
       PROVE  OwnKept
  <2>1. book' = [e EXCEPT !.cur = Lap]
    BY <1>6, <1>9, <1>17
  <2>. DEFINE f == [e EXCEPT !.cur = Lap]
  <2>2. /\ f.cur = Lap /\ f.dmg = e.dmg /\ f.fitted = e.fitted /\ f.worst = e.worst
        /\ f.stints = e.stints /\ f.pending = e.pending /\ f.raised = e.raised
        /\ f.snaps = e.snaps /\ f.curve = e.curve
    <3>. HIDE DEF n
    <3>. QED BY <1>17 DEF Field
  <2>. HIDE DEF f
  <2>3. Stage(f, told')
    <3>1. Unnoticed(e, told') => Unnoticed(f, told')
      BY <2>2 DEF Unnoticed, OfFirst
    <3>2. Waiting(e, told') => Waiting(f, told')
      BY <2>2 DEF Waiting, OfFirst
    <3>3. Done(e) => Done(f)
      BY <2>2 DEF Done
    <3>. QED BY <1>17, <3>1, <3>2, <3>3 DEF Stage
  <2>4. HeardOf(f, told')
    BY <1>15, <1>17, <2>2
  <2>. QED BY <1>17, <2>1, <2>2, <2>3, <2>4 DEF OwnKept, f
<1>. HIDE DEF moved
<1>18. d.stints # <<>> /\ d.stints \in Seq(Stint) /\ ~d.raised
  BY <1>9, <1>10, <1>12, <1>13 DEF Typed
<1>19. CASE Unnoticed(book, told)
  <2>1. stops = 0 /\ book.dmg.set = road[1] /\ Fitted = road[1]
    BY <1>1, <1>4, <1>5, <1>19 DEF Unnoticed, HeardOf
  <2>2. Last(book.stints).set = road[1]
    BY <1>1, <1>5, <1>19, EndOf DEF Unnoticed, OfFirst, Typed
  <2>3. \A i \in DOMAIN d.stints : d.stints[i].set = road[1]
    <3>1. DOMAIN d.stints = DOMAIN book.stints
      BY <1>1, <1>10, <1>12, <1>18 DEF Typed
    <3>. QED BY <1>10, <1>12, <1>19, <3>1 DEF Unnoticed, OfFirst
  <2>4. Own(d.stints) /\ OfSet(d.curve, road[1])
    BY <1>10, <1>12, <1>19, <2>1, <2>2 DEF Unnoticed, OfFirst
  <2>5. Unnoticed(d, told')
    BY <1>12, <1>19, <2>1, <2>3, <2>4 DEF Unnoticed, OfFirst
  <2>6. moved = d
    BY <1>12, <1>16, <1>19 DEF Unnoticed
  <2>. QED BY <1>12, <1>17, <1>18, <2>5, <2>6 DEF Stage
<1>20. CASE Done(book)
  <2>1. Own(d.stints) /\ OfSet(d.curve, Fitted)
    BY <1>10, <1>12, <1>20 DEF Done
  <2>2. Last(d.stints).set = Fitted
    <3>. DEFINE s == book.stints
                t == d.stints
    <3>1. s \in Seq(Stint) /\ s # <<>> /\ t \in Seq(Stint) /\ t # <<>> /\ Len(t) = Len(s)
          /\ (\A i \in DOMAIN s : t[i].set = s[i].set) /\ Last(s).set = Fitted
      BY <1>1, <1>5, <1>10, <1>12, <1>18, <1>20 DEF Typed, Done
    <3>. HIDE DEF s, t
    <3>2. /\ Last(s) = s[Len(s)] /\ Len(s) \in DOMAIN s
          /\ Last(t) = t[Len(t)]
      BY <3>1, EndOf
    <3>3. Last(t).set = Fitted
      BY <3>1, <3>2
    <3>. QED BY <3>3 DEF t
  <2>3. Done(d)
    BY <1>12, <1>18, <1>20, <2>1, <2>2 DEF Done
  <2>4. moved = d
    BY <1>12, <1>16, <1>20 DEF Done
  <2>. QED BY <1>12, <1>17, <1>18, <2>3, <2>4 DEF Stage
<1>21. CASE Waiting(book, told)
  <2>. DEFINE left == [d EXCEPT !.pending = @ \ {"lap"}]
              over == OverwriteTyreWear(left.stints, WearAt(left.cur - 1, left.worst))
              mended == [left EXCEPT !.stints = over]
              c == OnTyreSetChange(mended)
  <2>1. /\ "damage" \notin book.pending /\ book.pending # {} /\ OfFirst(book)
        /\ book.fitted = Fitted /\ stops = 1 /\ book.dmg.set = Fitted
        /\ IF setting.weird THEN "lap" \in book.pending ELSE book.pending = {"damage"}
    BY <1>4, <1>21 DEF Waiting
  <2>2. book.pending = {"lap"} /\ setting.weird
    BY <1>1, <2>1 DEF Typed
  <2>3. /\ left.cur = Lap /\ left.dmg = book.dmg /\ left.fitted = Fitted
        /\ left.worst = book.worst /\ left.stints = d.stints /\ left.pending = {}
        /\ ~left.raised /\ left.raised = d.raised /\ left.snaps = d.snaps /\ left.curve = d.curve
        /\ DOMAIN left = Field
    BY <1>12, <1>18, <2>1, <2>2 DEF Field
  <2>4. moved = DelayedChangeWeird(left)
    BY <1>12, <1>16, <2>2, <2>3 DEF DelayedChange
  <2>. HIDE DEF left
  <2>5. WearAt(left.cur - 1, left.worst) \in WearEntry
        /\ WearAt(left.cur - 1, left.worst).of.set = road[1]
    <3>1. left.cur - 1 \in Int /\ left.worst \in Damage /\ left.worst.set = road[1]
      BY <1>1, <1>5, <2>1, <2>3 DEF Typed, OfFirst
    <3>. QED BY <3>1 DEF WearAt, WearEntry
  <2>6. Last(book.stints).set = road[1] /\ Last(book.stints).wears # <<>>
    BY <1>1, <1>5, <2>1, EndOf DEF OfFirst, Typed, Orderly
  <2>7. /\ left.stints # <<>> /\ Last(left.stints).wears # <<>>
        /\ over \in Seq(Stint) /\ Own(over)
    <3>. DEFINE v == WearAt(left.cur - 1, left.worst)
                s == book.stints
                r == left.stints
    <3>1. /\ s \in Seq(Stint) /\ s # <<>> /\ Own(s) /\ Last(s).wears # <<>>
          /\ v \in WearEntry /\ v.of.set = Last(s).set /\ wear \in WearEntry
          /\ r = s \/ r = AddTyreWear(s, wear)
      BY <1>1, <1>5, <1>10, <1>12, <2>1, <2>3, <2>5, <2>6 DEF Typed, OfFirst
    <3>. HIDE DEF v, s, r
    <3>2. /\ r # <<>> /\ Last(r).wears # <<>>
          /\ OverwriteTyreWear(r, v) \in Seq(Stint) /\ Own(OverwriteTyreWear(r, v))
      BY <3>1, OwnMended
    <3>. QED BY <3>2 DEF v, r
  <2>8. moved = c
    BY <1>5, <2>3, <2>4, <2>7 DEF DelayedChangeWeird
  <2>. HIDE DEF over
  <2>9. /\ mended.cur = Lap /\ mended.dmg = book.dmg /\ mended.fitted = Fitted
        /\ mended.worst = book.worst /\ mended.stints = over /\ mended.pending = {}
        /\ ~mended.raised /\ mended.raised = left.raised /\ mended.snaps = d.snaps
        /\ mended.curve = d.curve /\ DOMAIN mended = Field
    BY <2>3 DEF Field
  <2>. HIDE DEF mended
  <2>10. IsBook(mended) /\ Typed(mended)
    <3>1. IsBook(mended)
      BY <1>12, <1>13, <2>9 DEF IsBook
    <3>2. /\ mended.cur = d.cur /\ mended.fitted = d.fitted /\ mended.worst = d.worst
          /\ mended.stints \in Seq(Stint) /\ mended.curve = d.curve /\ mended.raised = d.raised
          /\ mended.snaps = d.snaps /\ mended.dmg # None /\ mended.pending = {}
      BY <1>5, <1>12, <2>1, <2>3, <2>7, <2>9
    <3>3. Typed(mended)
      BY <1>13, <3>2 DEF Typed
    <3>. QED BY <3>1, <3>3
  <2>11. Done(c)
    BY <1>1, <1>5, <2>1, <2>7, <2>9, <2>10, ChangeThrough
  <2>12. /\ c.cur = Lap /\ c.dmg = book.dmg /\ ~c.raised /\ c.snaps = d.snaps
         /\ DOMAIN c = Field
    BY <2>9, TyreChangeFields
  <2>. HIDE DEF c
  <2>13. c.stints # <<>> /\ Stage(c, told')
    BY <2>11 DEF Done, Stage
  <2>. QED BY <1>17, <2>8, <2>12, <2>13
<1>. QED BY <1>1, <1>19, <1>20, <1>21 DEF Stage

LEMMA ReadOwn ==
    ASSUME OwnInv, Calm, ReadHistory
    PROVE  OwnKept
<1>1. /\ IsBook(book) /\ Typed(book) /\ Orderly(book, Lap) /\ ~book.raised
      /\ HeardOf(book, told) /\ Stage(book, told) /\ setting.steady
  BY CalmFacts
<1>2. book' = [book EXCEPT !.stints = Tidied(@, Lap)] /\ told' = told
  BY <1>1 DEF ReadHistory
<1>. DEFINE s == book.stints
            kept == {i \in DOMAIN s : s[i].start <= EndLap(s, i, Lap)}
            t == Tidied(s, Lap)
<1>3. s \in Seq(Stint) /\ kept \subseteq DOMAIN s /\ t = At(s, kept)
  BY <1>1 DEF Typed, Tidied
<1>4. s # <<>> => Len(s) \in kept /\ \A k \in kept : k <= Len(s)
  <2>. SUFFICES ASSUME s # <<>> PROVE Len(s) \in kept /\ \A k \in kept : k <= Len(s)
    OBVIOUS
  <2>1. Len(s) \in DOMAIN s /\ \A k \in DOMAIN s : k <= Len(s)
    BY <1>3
  <2>2. s[Len(s)].start <= Lap
    BY <1>1, <2>1 DEF Orderly
  <2>. QED BY <1>3, <2>1, <2>2 DEF EndLap
<1>5. /\ book'.cur = book.cur /\ book'.dmg = book.dmg /\ book'.fitted = book.fitted
      /\ book'.worst = book.worst /\ book'.stints = t /\ book'.snaps = book.snaps
      /\ book'.pending = book.pending /\ book'.raised = book.raised
      /\ book'.curve = book.curve
  BY <1>1, <1>2 DEF IsBook, Field
<1>. HIDE DEF kept, t
<1>6. /\ t \in Seq(Stint)
      /\ \A j \in DOMAIN t : \E i \in DOMAIN s : t[j] = s[i]
      /\ s # <<>> => t # <<>> /\ Last(t) = Last(s)
      /\ s = <<>> => t = <<>>
  <2>1. /\ t \in Seq(Stint)
        /\ \A j \in DOMAIN t : \E i \in kept : t[j] = s[i]
        /\ kept # {} => t # <<>>
        /\ \A i \in kept : (\A k \in kept : k <= i) => Last(t) = s[i]
    BY <1>3, EntriesAt
  <2>2. s # <<>> => t # <<>> /\ Last(t) = Last(s)
    <3>1. s # <<>> => Last(t) = s[Len(s)]
      BY <1>4, <2>1
    <3>2. s # <<>> => kept # {}
      BY <1>4
    <3>. QED BY <2>1, <3>1, <3>2 DEF Last
  <2>3. s = <<>> => t = <<>>
    <3>1. s = <<>> => DOMAIN t = {}
      BY <1>3, <2>1
    <3>. QED BY <2>1, <3>1
  <2>. QED BY <1>3, <2>1, <2>2, <2>3
<1>7. Own(s) => Own(t)
  BY <1>6 DEF Own
<1>. HIDE DEF s
<1>8. HeardOf(book', told')
  BY <1>1, <1>2, <1>5, <1>6 DEF HeardOf, s
<1>9. OfFirst(book) => OfFirst(book')
  BY <1>5, <1>6, <1>7 DEF OfFirst, s
<1>10. Unnoticed(book, told) => Unnoticed(book', told')
  BY <1>2, <1>5, <1>9 DEF Unnoticed
<1>11. Waiting(book, told) => Waiting(book', told')
  BY <1>2, <1>5, <1>9 DEF Waiting
<1>12. Done(book) => Done(book')
  BY <1>5, <1>6, <1>7 DEF Done, s
<1>. QED BY <1>1, <1>5, <1>8, <1>10, <1>11, <1>12 DEF OwnKept, Stage

LEMMA OthersOwn ==
    ASSUME OwnInv, Calm, OtherPackets
    PROVE  OwnKept
<1>1. /\ IsBook(book) /\ ~book.raised /\ HeardOf(book, told) /\ Stage(book, told)
  BY CalmFacts
<1>2. /\ book'.cur = book.cur /\ book'.dmg = book.dmg /\ book'.fitted = book.fitted
      /\ book'.worst = book.worst /\ book'.stints = book.stints /\ book'.snaps = book.snaps
      /\ book'.pending = book.pending /\ book'.raised = book.raised
      /\ book'.curve = book.curve /\ told' = told
  BY <1>1 DEF OtherPackets, IsBook, Field
<1>3. HeardOf(book', told')
  BY <1>1, <1>2 DEF HeardOf
<1>4. Unnoticed(book, told) => Unnoticed(book', told')
  BY <1>2 DEF Unnoticed, OfFirst
<1>5. Waiting(book, told) => Waiting(book', told')
  BY <1>2 DEF Waiting, OfFirst
<1>6. Done(book) => Done(book')
  BY <1>2 DEF Done
<1>. QED BY <1>1, <1>2, <1>3, <1>4, <1>5, <1>6 DEF OwnKept, Stage

\* The car leaves a moment when all packets of it have arrived.
LEMMA MoveOwn ==
    ASSUME OwnInv, Calm, Calm', Drive \/ PitStop
    PROVE  (~book.raised /\ ChangedOnce /\ HeardOf(book, told) /\ Stage(book, told))'
<1>0. PICK n : n = Len(road)
  OBVIOUS
<1>1. /\ LapsTypes /\ Typed(book) /\ ~book.raised /\ ChangedOnce
      /\ HeardOf(book, told) /\ Stage(book, told) /\ stops \in {0, 1} /\ setting.steady
      /\ n \in Nat /\ n >= 1 /\ (n > 1 <=> n # 1)
      /\ stops = 0 => Fitted = road[1] /\ Unnoticed(book, told)
  BY <1>0, CalmFacts
<1>2. /\ told = {"lap", "tyres", "damage"} /\ told' = {} /\ UNCHANGED <<setting, book>>
      /\ n = 1 => book.stints # <<>>
  BY <1>0, <1>1 DEF Drive, PitStop, MayMove
<1>3. PICK set \in TyreSet :
          /\ road' = Append(road, set)
          /\ \/ set = Fitted /\ stops' = stops
             \/ set # Fitted /\ stops' = stops + 1 /\ n % 2 = 1
  <2>1. Fitted \in TyreSet
    BY <1>1 DEF LapsTypes, Fitted
  <2>. QED BY <1>0, <2>1 DEF Drive, PitStop, Fitted
<1>4. /\ Len(road') = n + 1 /\ \A i \in 1..n : road'[i] = road[i]
      /\ road'[n + 1] = set /\ road'[1] = road[1] /\ Fitted' = set
  <2>1. road \in Seq(TyreSet)
    BY <1>1 DEF LapsTypes
  <2>2. Len(road') = n + 1 /\ (\A i \in 1..n : road'[i] = road[i]) /\ road'[n + 1] = set
    BY <1>0, <1>3, <2>1
  <2>. QED BY <1>1, <2>2 DEF Fitted
<1>5. stops' = 0 => stops = 0 /\ set = Fitted
  BY <1>1, <1>3
<1>6. stops' # 0 => /\ stops' = 1
                    /\ \/ stops = 0 /\ set # Fitted /\ n % 2 = 1
                       \/ stops = 1 /\ set = Fitted
  BY <1>1, <1>3 DEF Calm
<1>7. ASSUME stops = 0, set # Fitted, n % 2 = 1 PROVE ChangedAfter(n)'
  <2>1. n \in 1..((n + 1) - 1) /\ set # road[1]
    BY <1>1, <1>7
  <2>2. ASSUME NEW i \in 1..(n + 1)
        PROVE  road'[i] = IF i <= n THEN road[1] ELSE set
    <3>1. i \in 1..n => road[i] = road[1]
      BY <1>0, <1>1, <1>7 DEF ChangedOnce
    <3>. QED BY <1>1, <1>4, <2>2, <3>1
  <2>. QED BY <1>4, <1>7, <2>1, <2>2 DEF ChangedAfter
<1>8. ASSUME NEW p, ChangedAfter(p), set = Fitted PROVE ChangedAfter(p)'
  <2>1. /\ p \in 1..(n - 1) /\ p % 2 = 1 /\ Fitted # road[1]
        /\ \A i \in 1..n : road[i] = IF i <= p THEN road[1] ELSE Fitted
    BY <1>0, <1>8 DEF ChangedAfter
  <2>2. p \in 1..((n + 1) - 1) /\ p <= n /\ p \in Nat
    BY <1>1, <2>1
  <2>3. ASSUME NEW i \in 1..(n + 1)
        PROVE  road'[i] = IF i <= p THEN road[1] ELSE set
    BY <1>1, <1>4, <1>8, <2>1, <2>2, <2>3
  <2>. QED BY <1>4, <1>8, <2>1, <2>2, <2>3 DEF ChangedAfter
<1>9. ChangedOnce'
  <2>1. CASE stops' = 0
    <3>1. \A i \in 1..n : road[i] = road[1]
      BY <1>0, <1>1, <1>5, <2>1 DEF ChangedOnce
    <3>2. set = road[1]
      BY <1>1, <1>5, <2>1
    <3>3. \A i \in 1..(n + 1) : road'[i] = road[1]
      BY <1>1, <1>4, <3>1, <3>2
    <3>. QED BY <1>4, <2>1, <3>3 DEF ChangedOnce
  <2>2. CASE stops' # 0
    <3>1. stops' = 1
      BY <1>6, <2>2
    <3>2. \E p \in 1..n : ChangedAfter(p)'
      <4>1. n \in 1..n
        BY <1>1
      <4>2. CASE stops = 0
        BY <1>6, <1>7, <2>2, <4>1, <4>2
      <4>3. CASE stops = 1 /\ set = Fitted
        BY <1>0, <1>1, <1>8, <4>3 DEF ChangedOnce
      <4>. QED BY <1>6, <2>2, <4>2, <4>3
    <3>3. PICK p \in 1..n : ChangedAfter(p)'
      BY <3>2
    <3>4. p \in 1..Len(road')
      BY <1>1, <1>4
    <3>. QED BY <2>2, <3>1, <3>3, <3>4 DEF ChangedOnce
  <2>. QED BY <2>1, <2>2
<1>10. book.stints # <<>>
  BY <1>0, <1>1, <1>2 DEF HeardOf
<1>11. HeardOf(book, told)'
  <2>1. book.cur = LapAt(n)
    BY <1>0, <1>1, <1>2 DEF HeardOf, Lap
  <2>2. book.dmg # None => book.dmg.set \in {road[1], set}
    BY <1>1, <1>3 DEF HeardOf, Calm
  <2>3. 0 \in DOMAIN book.snaps
    BY <1>1, <1>10 DEF HeardOf
  <2>4. Len(road') # 1 /\ Len(road') - 1 = n
    BY <1>1, <1>4
  <2>. QED BY <1>2, <1>4, <1>10, <2>1, <2>2, <2>3, <2>4 DEF HeardOf
<1>12. OfFirst(book) => OfFirst(book)'
  BY <1>2, <1>4 DEF OfFirst
<1>13. ASSUME Unnoticed(book, told) PROVE Unnoticed(book, told)'
  <2>1. stops # 1
    BY <1>2, <1>13 DEF Unnoticed
  <2>2. stops' = 1 => ChangedAfter(n)'
    BY <1>6, <1>7, <2>1
  <2>3. Len(road') - 1 = n
    BY <1>1, <1>4
  <2>4. stops' = 1 => ChangedAfter(Len(road) - 1)'
    BY <2>2, <2>3 DEF ChangedAfter
  <2>5. "tyres" \notin told'
    BY <1>2
  <2>. QED BY <1>2, <1>12, <1>13, <2>4, <2>5 DEF Unnoticed
<1>14. ASSUME Waiting(book, told) PROVE Waiting(book, told)'
  <2>1. stops = 1 /\ set = Fitted /\ stops' = 1
    BY <1>1, <1>3, <1>14 DEF Waiting, Calm
  <2>2. /\ "damage" \notin book.pending /\ ChangedAfter(n - 1)
        /\ book.pending # {} /\ OfFirst(book) /\ book.fitted = Fitted
        /\ IF setting.weird THEN "lap" \in book.pending ELSE book.pending = {"damage"}
        /\ book.dmg # None /\ book.dmg.set = Fitted
    BY <1>0, <1>2, <1>14 DEF Waiting
  <2>3. ChangedAfter(n - 1)'
    BY <1>8, <2>1, <2>2
  <2>4. Len(road') - 2 = n - 1
    BY <1>1, <1>4
  <2>5. ChangedAfter(Len(road) - 2)'
    BY <2>3, <2>4 DEF ChangedAfter
  <2>6. "lap" \notin told'
    BY <1>2
  <2>. QED BY <1>2, <1>4, <1>12, <2>1, <2>2, <2>5, <2>6 DEF Waiting
<1>15. ASSUME Done(book) PROVE Done(book)'
  <2>1. stops = 1 /\ set = Fitted /\ stops' = 1
    BY <1>1, <1>3, <1>15 DEF Done, Calm
  <2>. QED BY <1>2, <1>4, <1>15, <2>1 DEF Done
<1>. QED BY <1>1, <1>2, <1>9, <1>11, <1>13, <1>14, <1>15 DEF Stage

-----------------------------------------------------------------------------

LEMMA OwnInit == Init => OwnInv
<1>. SUFFICES ASSUME Init PROVE OwnInv
  OBVIOUS
<1>1. BookInv
  BY BookInit
<1>2. /\ book.cur = None /\ book.worst = None /\ book.dmg = None
      /\ book.stints = <<>> /\ book.pending = {} /\ book.raised = FALSE
      /\ book.curve = <<>> /\ book.snaps = <<>>
  BY DEF Init, NewBook
<1>3. stops = 0 /\ told = {}
  BY DEF Init
<1>4. PICK set \in TyreSet : road = <<set>>
  BY DEF Init
<1>5. Len(road) = 1 /\ \A i \in 1..Len(road) : road[i] = road[1]
  BY <1>4
<1>6. ChangedOnce
  BY <1>3, <1>5 DEF ChangedOnce
<1>7. HeardOf(book, told)
  BY <1>2, <1>3, <1>5 DEF HeardOf
<1>8. Unnoticed(book, told)
  BY <1>2, <1>3 DEF Unnoticed, OfFirst, Own, OfSet
<1>. QED BY <1>1, <1>2, <1>3, <1>6, <1>7, <1>8 DEF OwnInv, Stage

LEMMA OwnStep == OwnInv /\ [Next]_vars => OwnInv'
<1>. SUFFICES ASSUME OwnInv, [Next]_vars PROVE OwnInv'
  OBVIOUS
<1>1. BookInv'
  BY BookStep DEF OwnInv
<1>2. flashbacks \in Nat /\ stops \in Nat
  BY DEF OwnInv, BookInv
<1>3. stops' \in Nat /\ stops <= stops'
  <2>1. CASE PitStop
    BY <1>2, <2>1 DEF PitStop
  <2>2. CASE ~PitStop
    <3>1. stops' = stops
      BY <2>2 DEF Next, Drive, Flashback, Handler, LapData, CarDamage, TyreSets,
                  OtherPackets, FinalClassification, ReadHistory, Arrived, vars
    <3>. QED BY <1>2, <3>1
  <2>. QED BY <2>1, <2>2
<1>. DEFINE Goal == ~book.raised /\ ChangedOnce /\ HeardOf(book, told) /\ Stage(book, told)
<1>4. ASSUME Handler, OwnKept, Calm PROVE Goal'
  <2>1. UNCHANGED <<setting, road, stops>>
    BY <1>4 DEF Handler, LapData, CarDamage, TyreSets, OtherPackets, FinalClassification,
                ReadHistory, Arrived
  <2>2. ChangedOnce
    BY <1>4, CalmFacts
  <2>3. Fitted' = Fitted /\ Lap' = Lap /\ LapAt(Len(road))' = LapAt(Len(road))
        /\ (LapAt(Len(road) - 1))' = LapAt(Len(road) - 1)
    BY <2>1 DEF Fitted, Lap, LapAt
  <2>4. \A p : ChangedAfter(p)' = ChangedAfter(p)
    BY <2>1, <2>3 DEF ChangedAfter
  <2>5. ChangedOnce'
    BY <2>1, <2>2 DEF ChangedOnce, ChangedAfter, Fitted
  <2>6. HeardOf(book, told)'
    BY <1>4, <2>1, <2>3 DEF OwnKept, HeardOf
  <2>7. Unnoticed(book', told') => Unnoticed(book, told)'
    BY <2>1, <2>3 DEF Unnoticed, OfFirst, ChangedAfter
  <2>8. Waiting(book', told') => Waiting(book, told)'
    BY <2>1, <2>3 DEF Waiting, OfFirst, ChangedAfter
  <2>9. Done(book') => Done(book)'
    BY <2>1, <2>3 DEF Done
  <2>. QED BY <1>4, <2>5, <2>6, <2>7, <2>8, <2>9 DEF OwnKept, Stage
<1>5. ASSUME Calm' PROVE Goal'
  <2>1. ~Flashback
    BY <1>2, <1>5 DEF Flashback, Calm
  <2>2. ~FinalClassification
    <3>1. IsBook(book')
      BY <1>1 DEF BookInv, LapsInv, LapsTypes
    <3>2. FinalClassification => book'.final
      <4>. SUFFICES ASSUME FinalClassification PROVE book'.final
        OBVIOUS
      <4>1. PICK lap : book' = [OnLapChange(book, lap, FALSE) EXCEPT !.final = TRUE]
        BY DEF FinalClassification
      <4>2. "final" \in DOMAIN book'
        BY <3>1 DEF IsBook, Field
      <4>. QED BY <4>1, <4>2
    <3>. QED BY <1>5, <3>2 DEF Calm
  <2>3. ~book.final
    <3>1. CASE LapData \/ CarDamage \/ TyreSets \/ OtherPackets
      BY <3>1 DEF LapData, CarDamage, TyreSets, OtherPackets, Running
    <3>2. CASE ReadHistory
      <4>1. PICK lap : book' = [book EXCEPT !.stints = Tidied(@, lap)]
        BY <3>2 DEF ReadHistory
      <4>2. book'.final = book.final
        BY <4>1
      <4>. QED BY <1>5, <4>2 DEF Calm
    <3>3. CASE Drive \/ PitStop \/ UNCHANGED vars
      <4>1. book' = book
        BY <3>3 DEF Drive, PitStop, vars
      <4>. QED BY <1>5, <4>1 DEF Calm
    <3>. QED BY <2>1, <2>2, <3>1, <3>2, <3>3 DEF Next, Handler
  <2>4. Calm
    <3>1. setting' = setting /\ flashbacks' = flashbacks
      BY <2>1 DEF Next, Drive, PitStop, Handler, LapData, CarDamage, TyreSets,
                  OtherPackets, FinalClassification, ReadHistory, Arrived, vars
    <3>2. stops <= 1
      BY <1>2, <1>3, <1>5 DEF Calm
    <3>. QED BY <1>5, <2>3, <3>1, <3>2 DEF Calm
  <2>5. CASE Handler
    <3>1. OwnKept
      BY <2>2, <2>4, <2>5, SameLapOwn, NextLapOwn, DamageOwn, TyresOwn, OthersOwn, ReadOwn
         DEF Handler
    <3>. QED BY <1>4, <2>4, <2>5, <3>1
  <2>6. CASE Drive \/ PitStop
    BY <1>5, <2>4, <2>6, MoveOwn
  <2>7. CASE UNCHANGED vars
    BY <2>4, <2>7, CalmFacts
    DEF vars, ChangedOnce, HeardOf, Stage, Unnoticed, Waiting, Done, OfFirst, Own, OfSet,
        ChangedAfter, Fitted, Lap, LapAt
  <2>. QED BY <2>1, <2>5, <2>6, <2>7 DEF Next
<1>. QED BY <1>1, <1>3, <1>5 DEF OwnInv

\* In a session in which no flashback was made and tyres were changed once at most, and the car
\* tells all of a moment, every wear that a stint or the wear curve holds is of the tyres of that
\* stint, as soon as no tyre change waits (data_per_driver.py:720-764): for any tyre sets, any
\* length of the session and packets of a moment in any order and number.
THEOREM WearsOfOwnTyres == Spec => []WearOfOwnTyres
<1>1. OwnInv => WearOfOwnTyres
  <2>. SUFFICES ASSUME OwnInv, Calm, book.pending = {}
                PROVE  /\ \A i \in DOMAIN book.stints : \A w \in Entries(book.stints[i].wears) :
                              w.of.set = book.stints[i].set
                       /\ book.stints # <<>> =>
                              \A w \in Entries(book.curve) : w.of.set = Last(book.stints).set
    BY DEF WearOfOwnTyres, Calm
  <2>1. Unnoticed(book, told) \/ Done(book)
    BY CalmFacts DEF Stage, Waiting
  <2>2. Own(book.stints)
    BY <2>1 DEF Unnoticed, OfFirst, Done
  <2>3. book.stints # <<>> => OfSet(book.curve, Last(book.stints).set)
    <3>1. CASE Unnoticed(book, told)
      <4>1. book.stints # <<>> => Last(book.stints).set = road[1]
        BY <3>1, CalmFacts, EndOf DEF Unnoticed, OfFirst, Typed
      <4>. QED BY <3>1, <4>1 DEF Unnoticed, OfFirst
    <3>2. CASE Done(book)
      BY <3>2 DEF Done
    <3>. QED BY <2>1, <3>1, <3>2
  <2>. QED BY <2>2, <2>3 DEF Own, OfSet, Entries
<1>. QED BY <1>1, OwnInit, OwnStep, PTL DEF Spec

-----------------------------------------------------------------------------
(* LapDelta.                                                               *)

LEMMA SampleNumbers ==
    \A p \in Delta!Sample : p.lap \in Nat /\ p.dist \in Nat /\ p.time \in Nat
<1>. {MaxLap, LapLength, MaxPace, Delta!MaxTime} \subseteq Nat
  BY DeltaAssumption DEF Delta!MaxTime
<1>. QED BY DEF Delta!Sample

Increasing(points) == \A i, j \in DOMAIN points : i < j => points[i].dist < points[j].dist

\* bisect_left on increasing distances: the points before the distance come first.
LEMMA BeforeIsPrefix ==
    ASSUME NEW points \in Seq(Delta!Sample), Increasing(points), NEW dist \in Nat
    PROVE  /\ Delta!Before(points, dist) \in 0..Len(points)
           /\ \A i \in 1..Delta!Before(points, dist) : points[i].dist < dist
           /\ \A i \in (Delta!Before(points, dist) + 1)..Len(points) : dist <= points[i].dist
<1>. DEFINE n == Len(points)
            before == {i \in DOMAIN points : points[i].dist < dist}
            rest == {i \in 1..n : ~(points[i].dist < dist)}
<1>0. n \in Nat /\ DOMAIN points = 1..n /\ \A i \in 1..n : points[i].dist \in Nat
  BY SampleNumbers
<1>1. \E m \in 0..n : before = 1..m
  <2>1. CASE rest = {}
    <3>1. before = 1..n
      BY <1>0, <2>1
    <3>. QED BY <1>0, <3>1
  <2>2. CASE rest # {}
    <3>1. PICK r \in rest : \A k \in rest : r <= k
      <4>1. rest \subseteq Nat
        BY <1>0
      <4>. HIDE DEF rest
      <4>. QED BY <2>2, <4>1, LeastNumber
    <3>2. r \in 1..n /\ ~(points[r].dist < dist)
      BY <3>1
    <3>3. \A i \in 1..(r - 1) : points[i].dist < dist
      BY <1>0, <3>1, <3>2
    <3>4. \A i \in r..n : ~(points[i].dist < dist)
      <4>. SUFFICES ASSUME NEW i \in r..n PROVE ~(points[i].dist < dist)
        OBVIOUS
      <4>1. i \in 1..n /\ (i = r \/ r < i)
        BY <1>0, <3>2
      <4>. QED BY <1>0, <3>2, <4>1 DEF Increasing
    <3>5. before = 1..(r - 1)
      BY <1>0, <3>2, <3>3, <3>4
    <3>. QED BY <1>0, <3>2, <3>5
  <2>. QED BY <2>1, <2>2
<1>2. PICK m \in 0..n : before = 1..m
  BY <1>1
<1>3. Delta!Before(points, dist) = m
  <2>1. Cardinality(1..m) = m
    BY <1>0, <1>2, FS_Interval
  <2>2. Delta!Before(points, dist) = Cardinality(before)
    BY Zenon DEF Delta!Before, Delta!Cardinality, Cardinality
  <2>. HIDE DEF before
  <2>. QED BY <1>2, <2>1, <2>2
<1>4. \A i \in 1..n : i \in 1..m <=> points[i].dist < dist
  BY <1>0, <1>2
<1>. HIDE DEF before, rest
<1>5. \A i \in 1..m : points[i].dist < dist
  BY <1>0, <1>2, <1>4
<1>6. \A i \in (m + 1)..n : dist <= points[i].dist
  BY <1>0, <1>2, <1>4
<1>. QED BY <1>0, <1>2, <1>3, <1>5, <1>6

LEMMA SameSequence ==
    ASSUME NEW C, NEW s \in Seq(C), NEW t \in Seq(C), Len(s) = Len(t),
           \A i \in 1..Len(s) : s[i] = t[i]
    PROVE  s = t
OBVIOUS

\* A point put in where the rest was cut off: the distances still increase, and another point
\* at the same distance takes its place.
LEMMA CutThenAppend ==
    ASSUME NEW points \in Seq(Delta!Sample), Increasing(points), NEW p \in Delta!Sample,
           NEW q, q = Append(Delta!Cut(points, p.dist), p)
    PROVE  /\ q \in Seq(Delta!Sample) /\ q # <<>> /\ Increasing(q)
           /\ \A i \in DOMAIN q :
                 \/ q[i] = p
                 \/ q[i].dist < p.dist /\ \E k \in DOMAIN points : q[i] = points[k]
           /\ Delta!Cut(q, p.dist) = Delta!Cut(points, p.dist)
<1>. DEFINE n == Delta!Before(points, p.dist)
            cut == Delta!Cut(points, p.dist)
<1>0. p.dist \in Nat
  BY SampleNumbers
<1>1. /\ n \in 0..Len(points) /\ Len(points) \in Nat
      /\ \A i \in 1..n : points[i].dist < p.dist
  <2>1. Len(points) \in Nat
    OBVIOUS
  <2>2. /\ n \in 0..Len(points)
        /\ \A i \in 1..n : points[i].dist < p.dist
    BY <1>0, BeforeIsPrefix, Zenon
  <2>. QED BY <2>1, <2>2, Zenon
<1>2. cut = SubSeq(points, 1, n)
  BY DEF Delta!Cut
<1>. HIDE DEF n, cut
<1>3. /\ cut \in Seq(Delta!Sample) /\ Len(cut) = n /\ n \in Nat
      /\ \A i \in 1..n : cut[i] = points[i]
  BY <1>1, <1>2
<1>4. /\ q \in Seq(Delta!Sample) /\ Len(q) = n + 1 /\ q[n + 1] = p
      /\ \A i \in 1..n : q[i] = points[i]
  BY <1>3 DEF cut
<1>5. DOMAIN q = 1..(n + 1) /\ q # <<>>
  BY <1>3, <1>4
<1>6. Increasing(q)
  <2>. SUFFICES ASSUME NEW i \in 1..(n + 1), NEW j \in 1..(n + 1), i < j
                PROVE  q[i].dist < q[j].dist
    BY <1>5 DEF Increasing
  <2>1. i \in 1..n /\ i \in DOMAIN points /\ q[i] = points[i]
    BY <1>1, <1>3, <1>4
  <2>2. CASE j = n + 1
    BY <1>1, <1>4, <2>1, <2>2
  <2>3. CASE j # n + 1
    <3>1. j \in 1..n /\ j \in DOMAIN points /\ q[j] = points[j]
      BY <1>1, <1>3, <1>4, <2>3
    <3>. QED BY <2>1, <3>1 DEF Increasing
  <2>. QED BY <2>2, <2>3
<1>7. \A i \in DOMAIN q :
         \/ q[i] = p
         \/ q[i].dist < p.dist /\ \E k \in DOMAIN points : q[i] = points[k]
  <2>. SUFFICES ASSUME NEW i \in 1..(n + 1), i # n + 1
                PROVE  q[i].dist < p.dist /\ \E k \in DOMAIN points : q[i] = points[k]
    BY <1>4, <1>5
  <2>1. i \in 1..n /\ i \in DOMAIN points
    BY <1>1, <1>3
  <2>. QED BY <1>1, <1>4, <2>1
<1>8. Delta!Before(q, p.dist) = n
  <2>. DEFINE m == Delta!Before(q, p.dist)
  <2>1. /\ m \in 0..(n + 1)
        /\ \A i \in 1..m : q[i].dist < p.dist
        /\ \A i \in (m + 1)..(n + 1) : p.dist <= q[i].dist
    BY <1>0, <1>4, <1>6, BeforeIsPrefix
  <2>. HIDE DEF m
  <2>2. m # n + 1
    BY <1>0, <1>3, <1>4, <2>1
  <2>3. ~(m < n)
    <3>1. SUFFICES ASSUME m < n PROVE FALSE
      OBVIOUS
    <3>2. n \in (m + 1)..(n + 1) /\ n \in 1..n
      BY <1>3, <2>1, <3>1
    <3>3. q[n].dist < p.dist /\ p.dist <= q[n].dist
      BY <1>1, <1>4, <2>1, <3>2
    <3>4. q[n].dist \in Nat
      BY <1>4, <3>2, SampleNumbers
    <3>5. \A x, y \in Nat : ~(x < y /\ y <= x)
      OBVIOUS
    <3>. QED BY <1>0, <3>3, <3>4, <3>5, Zenon
  <2>. QED BY <1>3, <2>1, <2>2, <2>3 DEF m
<1>9. Delta!Cut(q, p.dist) = cut
  <2>1. Delta!Cut(q, p.dist) = SubSeq(q, 1, n)
    BY <1>8 DEF Delta!Cut
  <2>2. /\ SubSeq(q, 1, n) \in Seq(Delta!Sample) /\ Len(SubSeq(q, 1, n)) = n
        /\ \A i \in 1..n : SubSeq(q, 1, n)[i] = points[i]
    BY <1>3, <1>4
  <2>3. SubSeq(q, 1, n) = cut
    <3>. DEFINE t == SubSeq(q, 1, n)
    <3>1. Len(cut) = Len(t) /\ \A i \in 1..Len(t) : t[i] = cut[i]
      <4>. HIDE DEF t
      <4>. QED BY <1>3, <2>2 DEF t
    <3>. HIDE DEF t
    <3>. QED BY <1>3, <2>2, <3>1, SameSequence DEF t
  <2>. QED BY <2>1, <2>3
<1>. QED BY <1>4, <1>5, <1>6, <1>7, <1>9 DEF cut

LEMMA PointsBeforeCut ==
    ASSUME NEW points \in Seq(Delta!Sample), Increasing(points), NEW p \in Delta!Sample,
           NEW q, q = Append(Delta!Cut(points, p.dist), p)
    PROVE  \A i \in DOMAIN q :
              \/ q[i] = p
              \/ q[i].dist < p.dist /\ \E k \in DOMAIN points : q[i] = points[k]
BY CutThenAppend, SMTT(30)

\* A part of the way takes no more than a part of the time.
LEMMA Share ==
    ASSUME NEW a \in Nat, NEW b \in Nat, NEW c \in Nat, a <= b, b > 0
    PROVE  (a * c) \div b \in Nat /\ (a * c) \div b <= c
<1>1. a * c \in Nat /\ a * c <= b * c
  OBVIOUS
<1>. DEFINE x == a * c
            d == x \div b
<1>2. x \in Nat /\ x <= b * c
  BY <1>1
<1>. HIDE DEF x
<1>3. d \in Nat /\ b * d <= x
  BY <1>2
<1>4. d <= c
  <2>. HIDE DEF d
  <2>1. SUFFICES ASSUME d >= c + 1 PROVE FALSE
    BY <1>3
  <2>2. b * d >= b * (c + 1)
    BY <1>3, <2>1
  <2>3. b * (c + 1) = b * c + b
    OBVIOUS
  <2>4. b * d \in Nat /\ b * c \in Nat /\ b * (c + 1) \in Nat
    BY <1>3
  <2>. QED BY <1>2, <1>3, <2>2, <2>3, <2>4
<1>. QED BY <1>3, <1>4 DEF x

-----------------------------------------------------------------------------

\* p lies before q on the way of a race, and was passed earlier.
Earlier(p, q) ==
    p.lap < q.lap \/ (p.lap = q.lap /\ p.dist < q.dist /\ p.time < q.time)

NotBeyond(p, q) == p.lap < q.lap \/ (p.lap = q.lap /\ p.dist <= q.dist)

WasDriven(p) == \E n \in DOMAIN driven : driven[n] = p

\* The car only goes forward, and needs time for it.
RoadInv ==
    /\ \A i, j \in DOMAIN driven : i < j => Earlier(driven[i], driven[j])
    /\ \A i \in DOMAIN driven : /\ driven[i].time > 0
                                /\ driven[i].time <= MaxPace * driven[i].dist

\* What a flashback leaves until it is dealt with lies beyond the car; all the rest was driven.
DrivenInv ==
    /\ \A lap \in DOMAIN laps : \A i \in DOMAIN laps[lap] : laps[lap][i].lap = lap
    /\ ~late => \A lap \in DOMAIN laps : \A i \in DOMAIN laps[lap] :
                   \/ WasDriven(laps[lap][i])
                   \/ (event \/ occurred) /\ ~NotBeyond(laps[lap][i], Delta!Car)

DeltaInv == Delta!TypeOK /\ Delta!HolyPrinciple /\ RoadInv /\ DrivenInv

LEMMA CarFacts ==
    ASSUME DeltaInv
    PROVE  /\ Len(driven) \in Nat /\ Len(driven) \in DOMAIN driven
           /\ DOMAIN driven = 1..Len(driven)
           /\ Delta!Car = driven[Len(driven)] /\ Delta!Car \in Delta!Sample
           /\ Delta!Car.time > 0 /\ WasDriven(Delta!Car)
<1>1. driven \in Seq(Delta!Sample) /\ driven # <<>>
  BY DEF DeltaInv, Delta!TypeOK
<1>2. Len(driven) \in Nat /\ Len(driven) \in DOMAIN driven /\ DOMAIN driven = 1..Len(driven)
      /\ driven[Len(driven)] \in Delta!Sample
  BY <1>1
<1>3. Delta!Car = driven[Len(driven)]
  BY DEF Delta!Car
<1>. QED BY <1>2, <1>3 DEF DeltaInv, RoadInv, WasDriven

\* record_data_point, after handle_flashback or not: the car's point ends its lap, the other
\* laps stay or, the later ones after a flashback, go.
LEMMA RecordedLaps ==
    ASSUME DeltaInv, Delta!LapData
    PROVE  LET c == Delta!Car
               cut == Append(Delta!Cut(Delta!PointsOf(laps, c.lap), c.dist), c)
           IN /\ c.lap \in DOMAIN laps' /\ laps'[c.lap] = cut
              /\ \A lap \in DOMAIN laps' : lap # c.lap =>
                    /\ lap \in DOMAIN laps /\ laps'[lap] = laps[lap]
                    /\ occurred => lap < c.lap
<1>. DEFINE c == Delta!Car
            kept == [k \in {k \in DOMAIN laps : k <= c.lap} |-> laps[k]]
            p == [c EXCEPT !.time = 0]
            base == Delta!PointsOf(laps, c.lap)
            mark == Append(Delta!Cut(base, c.dist), p)
            all == IF occurred THEN Delta!HandleFlashback(laps, c) ELSE laps
<1>0. c \in Delta!Sample /\ c.lap \in Nat /\ c.dist \in Nat
  <2>1. c \in Delta!Sample
    BY CarFacts
  <2>. HIDE DEF c
  <2>. QED BY <2>1, SampleNumbers
<1>. HIDE DEF c
<1>1. p \in Delta!Sample /\ p.dist = c.dist /\ p.lap = c.lap
  BY <1>0, DeltaAssumption DEF Delta!Sample, Delta!MaxTime
<1>2. laps' = Delta!RecordDataPoint(all, c)
  BY DEF Delta!LapData, c
<1>3. base \in Seq(Delta!Sample) /\ Increasing(base)
  <2>1. CASE c.lap \in DOMAIN laps
    <3>1. base = laps[c.lap]
      BY <2>1 DEF Delta!PointsOf
    <3>. QED BY <2>1, <3>1 DEF DeltaInv, Delta!TypeOK, Delta!Points, Delta!HolyPrinciple,
                               Increasing
  <2>2. CASE c.lap \notin DOMAIN laps
    <3>1. base = <<>>
      BY <2>2 DEF Delta!PointsOf
    <3>. QED BY <3>1 DEF Increasing
  <2>. QED BY <2>1, <2>2
<1>4. Delta!PointsOf(kept, c.lap) = base
  BY <1>0 DEF Delta!PointsOf
<1>5. occurred =>
         /\ DOMAIN all = DOMAIN kept \cup {c.lap} /\ all[c.lap] = mark
         /\ \A k \in DOMAIN kept : k # c.lap => all[k] = laps[k]
  <2>1. Delta!HandleFlashback(laps, c) = Delta!Put(kept, c.lap, mark)
    BY <1>4 DEF Delta!HandleFlashback
  <2>. QED BY <2>1 DEF Delta!Put
<1>6. Delta!Cut(mark, c.dist) = Delta!Cut(base, c.dist)
  <2>. HIDE DEF p, base, mark
  <2>1. Delta!Cut(mark, p.dist) = Delta!Cut(base, p.dist)
    BY <1>1, <1>3, CutThenAppend DEF mark
  <2>. QED BY <1>1, <2>1
<1>7. Delta!Cut(Delta!PointsOf(all, c.lap), c.dist) = Delta!Cut(base, c.dist)
  <2>1. CASE occurred
    <3>. HIDE DEF all, mark, base
    <3>1. Delta!PointsOf(all, c.lap) = mark
      BY <1>5, <2>1 DEF Delta!PointsOf
    <3>. QED BY <1>6, <3>1
  <2>2. CASE ~occurred
    BY <2>2
  <2>. QED BY <2>1, <2>2
<1>8. /\ DOMAIN laps' = DOMAIN all \cup {c.lap}
      /\ laps'[c.lap] = Append(Delta!Cut(base, c.dist), c)
      /\ \A k \in DOMAIN all : k # c.lap => laps'[k] = all[k]
  <2>. HIDE DEF all, base
  <2>. QED BY <1>2, <1>7 DEF Delta!RecordDataPoint, Delta!Put
<1>9. \A k \in DOMAIN all : k # c.lap =>
         /\ k \in DOMAIN laps /\ all[k] = laps[k] /\ (occurred => k < c.lap)
  <2>1. CASE occurred
    <3>. HIDE DEF all, mark
    <3>1. \A k \in DOMAIN laps : k \in Nat
      BY DeltaAssumption DEF DeltaInv, Delta!TypeOK
    <3>. QED BY <1>0, <1>5, <2>1, <3>1
  <2>2. CASE ~occurred
    BY <2>2
  <2>. QED BY <2>1, <2>2
<1>. HIDE DEF all, mark, kept, p
<1>. QED BY <1>8, <1>9 DEF c, base

LEMMA LapDataDelta == ASSUME DeltaInv, Delta!LapData PROVE DeltaInv'
<1>. DEFINE c == Delta!Car
            base == Delta!PointsOf(laps, c.lap)
            q == Append(Delta!Cut(base, c.dist), c)
<1>1. /\ c.lap \in DOMAIN laps' /\ laps'[c.lap] = q
      /\ \A lap \in DOMAIN laps' : lap # c.lap =>
            lap \in DOMAIN laps /\ laps'[lap] = laps[lap] /\ (occurred => lap < c.lap)
  BY RecordedLaps
<1>2. /\ UNCHANGED <<driven, rewinds, event, late, bestLap>>
      /\ latest' = c /\ occurred' = FALSE
  BY DEF Delta!LapData, Delta!game
<1>3. c \in Delta!Sample /\ c.time > 0 /\ WasDriven(c) /\ Delta!Car' = c
  BY <1>2, CarFacts DEF Delta!Car
<1>. HIDE DEF c
<1>4. c.lap \in Nat /\ c.dist \in Nat /\ c.lap \in 1..MaxLap
  BY <1>3, SampleNumbers DEF Delta!Sample
<1>5. base \in Seq(Delta!Sample) /\ Increasing(base)
      /\ \A k \in DOMAIN base : c.lap \in DOMAIN laps /\ base[k] = laps[c.lap][k]
                                /\ k \in DOMAIN laps[c.lap]
  <2>1. CASE c.lap \in DOMAIN laps
    <3>1. base = laps[c.lap]
      BY <2>1 DEF Delta!PointsOf
    <3>. QED BY <2>1, <3>1 DEF DeltaInv, Delta!TypeOK, Delta!Points, Delta!HolyPrinciple,
                               Increasing
  <2>2. CASE c.lap \notin DOMAIN laps
    <3>1. base = <<>>
      BY <2>2 DEF Delta!PointsOf
    <3>. QED BY <3>1 DEF Increasing
  <2>. QED BY <2>1, <2>2
<1>. HIDE DEF base
<1>6. /\ q \in Seq(Delta!Sample) /\ q # <<>> /\ Increasing(q)
      /\ \A i \in DOMAIN q :
            \/ q[i] = c
            \/ q[i].dist < c.dist /\ \E k \in DOMAIN base : q[i] = base[k]
  <2>1. q = Append(Delta!Cut(base, c.dist), c)
    OBVIOUS
  <2>. HIDE DEF q
  <2>2. c \in Delta!Sample /\ base \in Seq(Delta!Sample) /\ Increasing(base)
    BY <1>3, <1>5
  <2>3. q \in Seq(Delta!Sample) /\ q # <<>> /\ Increasing(q)
    BY <2>1, <2>2, CutThenAppend, Zenon
  <2>4. \A i \in DOMAIN q :
           \/ q[i] = c
           \/ q[i].dist < c.dist /\ \E k \in DOMAIN base : q[i] = base[k]
    BY <2>1, <2>2, PointsBeforeCut
  <2>. QED BY <2>3, <2>4, Zenon
<1>. HIDE DEF q
<1>7. \A i \in DOMAIN q :
         \/ q[i] = c
         \/ /\ q[i].dist < c.dist /\ c.lap \in DOMAIN laps
            /\ \E k \in DOMAIN laps[c.lap] : q[i] = laps[c.lap][k]
  BY <1>5, <1>6
<1>8. Delta!TypeOK'
  <2>1. \A lap \in DOMAIN laps' : lap \in 1..MaxLap /\ laps'[lap] \in Seq(Delta!Sample)
    BY <1>1, <1>4, <1>6 DEF DeltaInv, Delta!TypeOK, Delta!Points
  <2>. QED BY <1>2, <1>3, <2>1 DEF DeltaInv, Delta!TypeOK, Delta!Points
<1>9. Delta!HolyPrinciple'
  <2>1. SUFFICES ASSUME NEW lap \in DOMAIN laps'
                 PROVE  /\ \A i, j \in DOMAIN laps'[lap] :
                              i < j => laps'[lap][i].dist < laps'[lap][j].dist
                        /\ \A i \in DOMAIN laps'[lap] : laps'[lap][i].time > 0
    BY DEF Delta!HolyPrinciple
  <2>2. CASE lap = c.lap
    <3>1. \A i \in DOMAIN q : q[i].time > 0
      BY <1>3, <1>7 DEF DeltaInv, Delta!HolyPrinciple
    <3>. QED BY <1>1, <1>6, <2>2, <3>1 DEF Increasing
  <2>3. CASE lap # c.lap
    BY <1>1, <2>3 DEF DeltaInv, Delta!HolyPrinciple
  <2>. QED BY <2>2, <2>3
<1>10. RoadInv'
  BY <1>2 DEF DeltaInv, RoadInv, Earlier
<1>11. DrivenInv'
  <2>1. SUFFICES ASSUME NEW lap \in DOMAIN laps', NEW i \in DOMAIN laps'[lap]
                 PROVE  /\ laps'[lap][i].lap = lap
                        /\ ~late => \/ WasDriven(laps'[lap][i])
                                    \/ event /\ ~NotBeyond(laps'[lap][i], c)
    BY <1>2, <1>3 DEF DrivenInv, WasDriven
  <2>2. CASE lap = c.lap
    <3>1. CASE laps'[lap][i] = c
      BY <1>3, <2>2, <3>1
    <3>2. CASE laps'[lap][i] # c
      <4>1. PICK k \in DOMAIN laps[lap] :
               laps'[lap][i] = laps[lap][k] /\ laps[lap][k].dist < c.dist
        BY <1>1, <1>7, <2>1, <2>2, <3>2
      <4>2. lap \in DOMAIN laps
        BY <1>1, <1>7, <2>1, <2>2, <3>2
      <4>3. laps[lap][k] \in Delta!Sample
        BY <4>2 DEF DeltaInv, Delta!TypeOK, Delta!Points
      <4>4. NotBeyond(laps[lap][k], c)
        BY <1>4, <2>2, <4>1, <4>2, <4>3, SampleNumbers DEF NotBeyond, DeltaInv, DrivenInv
      <4>. QED BY <4>1, <4>2, <4>4 DEF DeltaInv, DrivenInv, c
    <3>. QED BY <3>1, <3>2
  <2>3. CASE lap # c.lap
    <3>1. lap \in DOMAIN laps /\ laps'[lap] = laps[lap] /\ (occurred => lap < c.lap)
      BY <1>1, <2>3
    <3>2. laps[lap][i].lap = lap
      BY <2>1, <3>1 DEF DeltaInv, DrivenInv
    <3>3. occurred => NotBeyond(laps[lap][i], c)
      BY <3>1, <3>2 DEF NotBeyond
    <3>. QED BY <2>1, <3>1, <3>2, <3>3 DEF DeltaInv, DrivenInv, c
  <2>. QED BY <2>2, <2>3
<1>. QED BY <1>8, <1>9, <1>10, <1>11 DEF DeltaInv

LEMMA Product ==
    ASSUME NEW m \in Nat, NEW d \in Nat
    PROVE  /\ m * d \in Nat /\ m * (d + 1) = m * d + m
           /\ \A e \in Nat : d <= e => m * d <= m * e
OBVIOUS

LEMMA DriveDelta == ASSUME DeltaInv, Delta!Drive PROVE DeltaInv'
<1>. DEFINE c == Delta!Car
            n == Len(driven)
<1>1. /\ n \in Nat /\ n > 0 /\ DOMAIN driven = 1..n /\ driven \in Seq(Delta!Sample)
      /\ c = driven[n] /\ c \in Delta!Sample /\ c.time > 0
  BY CarFacts DEF DeltaInv, Delta!TypeOK
<1>2. PICK pace \in 1..MaxPace :
         driven' = Append(driven, IF c.dist < LapLength
                                  THEN [c EXCEPT !.dist = @ + 1, !.time = @ + pace]
                                  ELSE [lap |-> c.lap + 1, dist |-> 1, time |-> pace])
  BY DEF Delta!Drive
<1>3. /\ c.dist < LapLength \/ c.lap < MaxLap
      /\ late' = (late \/ event \/ occurred)
      /\ UNCHANGED <<rewinds, event, occurred, laps, bestLap, latest>>
  BY DEF Delta!Drive
<1>. DEFINE p == IF c.dist < LapLength
                 THEN [c EXCEPT !.dist = @ + 1, !.time = @ + pace]
                 ELSE [lap |-> c.lap + 1, dist |-> 1, time |-> pace]
<1>4. MaxLap \in Nat /\ LapLength \in Nat /\ MaxPace \in Nat /\ LapLength > 0 /\ pace \in Nat
      /\ pace > 0 /\ pace <= MaxPace
  BY DeltaAssumption
<1>5. c.lap \in 1..MaxLap /\ c.dist \in 1..LapLength /\ c.time \in Nat
      /\ c.time <= MaxPace * c.dist
  <2>. HIDE DEF c
  <2>1. c.lap \in 1..MaxLap /\ c.dist \in 1..LapLength /\ c.time \in Nat
    BY <1>1, SampleNumbers DEF Delta!Sample
  <2>. QED BY <1>1, <2>1 DEF DeltaInv, RoadInv
<1>6. /\ p.lap \in 1..MaxLap /\ p.dist \in 1..LapLength /\ p.time \in Nat /\ p.time > 0
      /\ p = [lap |-> p.lap, dist |-> p.dist, time |-> p.time]
      /\ p.time <= MaxPace * p.dist /\ Earlier(c, p)
  <2>. HIDE DEF c
  <2>1. CASE c.dist < LapLength
    <3>1. p = [c EXCEPT !.dist = @ + 1, !.time = @ + pace]
      BY <2>1
    <3>2. /\ p.lap = c.lap /\ p.dist = c.dist + 1 /\ p.time = c.time + pace
          /\ p = [lap |-> p.lap, dist |-> p.dist, time |-> p.time]
      BY <1>1, <3>1 DEF Delta!Sample
    <3>. HIDE DEF p
    <3>3. MaxPace * p.dist = MaxPace * c.dist + MaxPace /\ MaxPace * c.dist \in Nat
      BY <1>4, <1>5, <3>2, Product
    <3>. QED BY <1>4, <1>5, <2>1, <3>2, <3>3 DEF Earlier
  <2>2. CASE ~(c.dist < LapLength)
    <3>1. p = [lap |-> c.lap + 1, dist |-> 1, time |-> pace]
      BY <2>2
    <3>2. p.lap = c.lap + 1 /\ p.dist = 1 /\ p.time = pace
      BY <3>1
    <3>3. MaxPace * 1 = MaxPace
      BY <1>4
    <3>. HIDE DEF p
    <3>4. p.time <= MaxPace * p.dist
      BY <1>4, <3>2, <3>3
    <3>. QED BY <1>3, <1>4, <1>5, <2>2, <3>1, <3>2, <3>4 DEF Earlier
  <2>. QED BY <2>1, <2>2
<1>7. p \in Delta!Sample
  <2>. HIDE DEF p
  <2>1. /\ MaxPace * p.dist <= MaxPace * LapLength /\ MaxPace * p.dist \in Nat
        /\ MaxPace * LapLength \in Nat
    BY <1>4, <1>6, Product
  <2>2. p.time \in 0..(MaxPace * LapLength)
    BY <1>6, <2>1
  <2>. QED BY <1>6, <2>2 DEF Delta!Sample, Delta!MaxTime
<1>8. driven' = Append(driven, p)
  BY <1>2
<1>. HIDE DEF p, c, n
<1>9. /\ driven' \in Seq(Delta!Sample) /\ driven' # <<>> /\ DOMAIN driven' = 1..(n + 1)
      /\ driven'[n + 1] = p /\ \A i \in 1..n : driven'[i] = driven[i]
  BY <1>1, <1>7, <1>8 DEF n
<1>10. Delta!TypeOK' /\ Delta!HolyPrinciple'
  BY <1>3, <1>9 DEF DeltaInv, Delta!TypeOK, Delta!HolyPrinciple, Delta!Points
<1>11. RoadInv'
  <2>1. ASSUME NEW i \in 1..(n + 1), NEW j \in 1..(n + 1), i < j
        PROVE  Earlier(driven'[i], driven'[j])
    <3>1. i \in 1..n /\ driven'[i] = driven[i]
      BY <1>1, <1>9, <2>1
    <3>2. CASE j # n + 1
      <4>1. j \in 1..n
        BY <1>1, <2>1, <3>2
      <4>. QED BY <1>1, <1>9, <2>1, <3>1, <4>1 DEF DeltaInv, RoadInv
    <3>3. CASE j = n + 1 /\ i = n
      BY <1>1, <1>6, <1>9, <3>1, <3>3
    <3>4. CASE j = n + 1 /\ i # n
      <4>1. i < n /\ n \in 1..n
        BY <1>1, <3>1, <3>4
      <4>2. Earlier(driven[i], c) /\ driven[i] \in Delta!Sample
        BY <1>1, <3>1, <4>1 DEF DeltaInv, RoadInv
      <4>3. /\ driven[i].lap \in Nat /\ driven[i].dist \in Nat /\ driven[i].time \in Nat
            /\ c.lap \in Nat /\ c.dist \in Nat /\ c.time \in Nat
            /\ p.lap \in Nat /\ p.dist \in Nat /\ p.time \in Nat
        BY <1>1, <1>7, <4>2, SampleNumbers
      <4>4. Earlier(driven[i], p)
        BY <1>6, <4>2, <4>3 DEF Earlier
      <4>. QED BY <1>9, <3>1, <3>4, <4>4
    <3>. QED BY <3>2, <3>3, <3>4
  <2>2. ASSUME NEW i \in 1..(n + 1)
        PROVE  driven'[i].time > 0 /\ driven'[i].time <= MaxPace * driven'[i].dist
    <3>1. CASE i = n + 1
      BY <1>6, <1>9, <3>1
    <3>2. CASE i # n + 1
      <4>1. i \in 1..n
        BY <1>1, <3>2
      <4>. QED BY <1>1, <1>9, <4>1 DEF DeltaInv, RoadInv
    <3>. QED BY <3>1, <3>2
  <2>. QED BY <1>9, <2>1, <2>2 DEF RoadInv
<1>12. DrivenInv'
  <2>1. \A q : WasDriven(q) => WasDriven(q)'
    <3>. SUFFICES ASSUME NEW q, NEW k \in DOMAIN driven, driven[k] = q
                  PROVE  \E m \in DOMAIN driven' : driven'[m] = q
      BY DEF WasDriven
    <3>1. k \in 1..n /\ k \in 1..(n + 1)
      BY <1>1
    <3>. QED BY <1>9, <3>1
  <2>2. \A q : WasDriven(q) => \E m \in DOMAIN driven' : driven'[m] = q
    BY <2>1 DEF WasDriven
  <2>3. ASSUME ~late', NEW lap \in DOMAIN laps, NEW i \in DOMAIN laps[lap]
        PROVE  \E m \in DOMAIN driven' : driven'[m] = laps[lap][i]
    BY <1>3, <2>2, <2>3 DEF DeltaInv, DrivenInv
  <2>. QED BY <1>3, <2>3 DEF DeltaInv, DrivenInv, WasDriven
<1>. QED BY <1>10, <1>11, <1>12 DEF DeltaInv

\* A flashback takes the car back: what was kept at or before that place was driven before it.
LEMMA FlashbackDelta == ASSUME DeltaInv, Delta!Flashback PROVE DeltaInv'
<1>1. PICK n \in 1..(Len(driven) - 1) : driven' = SubSeq(driven, 1, n)
  BY DEF Delta!Flashback
<1>2. /\ rewinds < MaxRewinds /\ rewinds' = rewinds + 1 /\ ~event /\ event' = TRUE
      /\ UNCHANGED <<late, occurred, laps, bestLap, latest>>
  BY DEF Delta!Flashback
<1>3. driven \in Seq(Delta!Sample) /\ n \in Nat /\ n > 0 /\ n <= Len(driven) /\ Len(driven) \in Nat
      /\ DOMAIN driven = 1..Len(driven)
  BY CarFacts DEF DeltaInv, Delta!TypeOK
<1>4. /\ driven' \in Seq(Delta!Sample) /\ Len(driven') = n /\ DOMAIN driven' = 1..n
      /\ \A i \in 1..n : driven'[i] = driven[i]
  BY <1>1, <1>3
<1>5. driven' # <<>>
  BY <1>3, <1>4
<1>6. rewinds' \in 0..MaxRewinds
  BY <1>2, DeltaAssumption DEF DeltaInv, Delta!TypeOK
<1>7. Delta!TypeOK' /\ Delta!HolyPrinciple'
  BY <1>2, <1>4, <1>5, <1>6 DEF DeltaInv, Delta!TypeOK, Delta!HolyPrinciple, Delta!Points
<1>8. \A i \in 1..n : i \in DOMAIN driven
  BY <1>3
<1>9. RoadInv'
  BY <1>4, <1>8 DEF DeltaInv, RoadInv
<1>10. Delta!Car' = driven[n] /\ n \in DOMAIN driven
  BY <1>3, <1>4, <1>8 DEF Delta!Car
<1>11. DrivenInv'
  <2>1. SUFFICES ASSUME ~late, NEW lap \in DOMAIN laps, NEW i \in DOMAIN laps[lap],
                        NotBeyond(laps[lap][i], driven[n])
                 PROVE  \E m \in 1..n : driven[m] = laps[lap][i]
    BY <1>2, <1>4, <1>10 DEF DeltaInv, DrivenInv, WasDriven
  <2>. DEFINE p == laps[lap][i]
  <2>2. p \in Delta!Sample
    BY DEF DeltaInv, Delta!TypeOK, Delta!Points
  <2>. HIDE DEF p
  <2>3. /\ p.lap \in Nat /\ p.dist \in Nat /\ driven[n].lap \in Nat /\ driven[n].dist \in Nat
    BY <1>3, <1>10, <2>2, SampleNumbers
  <2>4. NotBeyond(p, Delta!Car)
    <3>1. Delta!Car = driven[Len(driven)] /\ Len(driven) \in DOMAIN driven
          /\ Delta!Car \in Delta!Sample
      BY CarFacts
    <3>2. Earlier(driven[n], Delta!Car)
      <4>1. n < Len(driven)
        BY <1>3
      <4>. QED BY <1>10, <3>1, <4>1 DEF DeltaInv, RoadInv
    <3>3. Delta!Car.lap \in Nat /\ Delta!Car.dist \in Nat
      BY <3>1, SampleNumbers
    <3>. QED BY <2>1, <2>3, <3>2, <3>3 DEF NotBeyond, Earlier, p
  <2>5. PICK m \in DOMAIN driven : driven[m] = p
    BY <2>1, <2>4 DEF DeltaInv, DrivenInv, WasDriven, p
  <2>6. m <= n
    <3>1. SUFFICES ASSUME n < m PROVE FALSE
      BY <1>3
    <3>2. Earlier(driven[n], p)
      BY <1>10, <2>5, <3>1 DEF DeltaInv, RoadInv
    <3>. QED BY <2>1, <2>3, <3>2 DEF NotBeyond, Earlier, p
  <2>7. m \in 1..n
    BY <1>3, <2>6
  <2>. QED BY <2>5, <2>7 DEF p
<1>. QED BY <1>7, <1>9, <1>11 DEF DeltaInv

LEMMA DeltaInit == ASSUME Delta!Init PROVE DeltaInv
<1>1. PICK pace \in 1..MaxPace : driven = <<[lap |-> 1, dist |-> 1, time |-> pace]>>
  BY DEF Delta!Init
<1>2. laps = <<>> /\ rewinds = 0 /\ ~event /\ ~late /\ ~occurred /\ bestLap = None /\ latest = None
  BY DEF Delta!Init
<1>. DEFINE p == [lap |-> 1, dist |-> 1, time |-> pace]
<1>3. MaxLap \in Nat /\ LapLength \in Nat /\ MaxPace \in Nat /\ MaxLap > 0 /\ LapLength > 0
      /\ pace \in Nat /\ pace > 0 /\ pace <= MaxPace
  BY DeltaAssumption
<1>4. pace \in 0..(MaxPace * LapLength) /\ MaxPace * 1 = MaxPace
  <2>1. 1 <= LapLength /\ 1 \in Nat
    BY <1>3
  <2>2. MaxPace * 1 <= MaxPace * LapLength /\ MaxPace * LapLength \in Nat
    BY <1>3, <2>1, Product
  <2>3. MaxPace * 1 = MaxPace
    BY <1>3
  <2>. QED BY <1>3, <2>2, <2>3
<1>5. p \in Delta!Sample
  BY <1>3, <1>4 DEF Delta!Sample, Delta!MaxTime
<1>6. driven \in Seq(Delta!Sample) /\ driven # <<>> /\ DOMAIN driven = {1} /\ driven[1] = p
  <2>. HIDE DEF p
  <2>1. driven = <<p>>
    BY <1>1 DEF p
  <2>. QED BY <1>5, <2>1
<1>7. DOMAIN laps = {}
  BY <1>2
<1>8. Delta!TypeOK
  <2>1. rewinds \in 0..MaxRewinds
    BY <1>2, DeltaAssumption
  <2>2. event \in BOOLEAN /\ late \in BOOLEAN /\ occurred \in BOOLEAN
    BY DEF Delta!Init
  <2>. QED BY <1>2, <1>6, <1>7, <2>1, <2>2 DEF Delta!TypeOK
<1>9. Delta!HolyPrinciple /\ DrivenInv
  BY <1>7 DEF Delta!HolyPrinciple, DrivenInv
<1>10. RoadInv
  BY <1>3, <1>4, <1>6 DEF RoadInv
<1>. QED BY <1>8, <1>9, <1>10 DEF DeltaInv

LEMMA DeltaNext == ASSUME DeltaInv, [Delta!Next]_deltaVars PROVE DeltaInv'
<1>1. CASE Delta!LoseEvent
  BY <1>1 DEF Delta!LoseEvent, Delta!game, DeltaInv, Delta!TypeOK, Delta!HolyPrinciple, RoadInv,
              DrivenInv
<1>2. CASE Delta!FlashbackEvent
  BY <1>2 DEF Delta!FlashbackEvent, Delta!game, DeltaInv, Delta!TypeOK, Delta!HolyPrinciple,
              RoadInv, DrivenInv, WasDriven, Delta!Car
<1>3. CASE Delta!SessionHistory
  <2>1. PICK lap \in 1..(Delta!Car.lap - 1) : bestLap' = lap
    BY <1>3 DEF Delta!SessionHistory
  <2>2. lap \in 1..MaxLap
    <3>1. Delta!Car \in Delta!Sample
      BY CarFacts
    <3>2. Delta!Car.lap \in 1..MaxLap
      BY <3>1 DEF Delta!Sample
    <3>. QED BY <2>1, <3>2, DeltaAssumption
  <2>3. UNCHANGED <<driven, rewinds, event, late, occurred, laps, latest>>
    BY <1>3 DEF Delta!SessionHistory, Delta!game
  <2>. QED BY <2>1, <2>2, <2>3 DEF DeltaInv, Delta!TypeOK, Delta!HolyPrinciple, RoadInv,
                                   DrivenInv, WasDriven, Delta!Car
<1>4. CASE UNCHANGED deltaVars
  BY <1>4 DEF deltaVars, DeltaInv, Delta!TypeOK, Delta!HolyPrinciple, RoadInv, DrivenInv,
              WasDriven, Delta!Car
<1>. QED BY <1>1, <1>2, <1>3, <1>4, DriveDelta, FlashbackDelta, LapDataDelta DEF Delta!Next

\* Times increase with the distances: an interpolated time lies between those of the ends.
LEMMA TimeWithinLap ==
    ASSUME NEW points \in Seq(Delta!Sample), Increasing(points), NEW dist \in Nat,
           \A i, j \in DOMAIN points : i < j => points[i].time < points[j].time,
           Delta!TimeAt(points, dist) # None
    PROVE  /\ points # <<>>
           /\ points[1].time <= Delta!TimeAt(points, dist)
           /\ Delta!TimeAt(points, dist) <= points[Len(points)].time
<1>. DEFINE n == Delta!Before(points, dist)
            m == Len(points)
            lo == points[n]
            hi == points[n + 1]
            t == Delta!TimeAt(points, dist)
<1>1. t = IF points = <<>> THEN None
          ELSE IF dist < points[1].dist \/ dist > points[Len(points)].dist THEN None
          ELSE IF hi.dist = dist THEN hi.time
          ELSE lo.time + ((dist - lo.dist) * (hi.time - lo.time)) \div (hi.dist - lo.dist)
  BY Zenon DEF Delta!TimeAt
<1>2. /\ n \in 0..m
      /\ \A i \in 1..n : points[i].dist < dist
      /\ \A i \in (n + 1)..m : dist <= points[i].dist
  BY BeforeIsPrefix, Zenon
<1>3. points # <<>> /\ ~(dist < points[1].dist) /\ ~(dist > points[m].dist)
  BY <1>1
<1>. HIDE DEF n, t
<1>4. m \in Nat /\ m > 0 /\ DOMAIN points = 1..m
      /\ \A i \in 1..m : points[i].dist \in Nat /\ points[i].time \in Nat
  BY <1>3, SampleNumbers
<1>. HIDE DEF m
<1>5. \A i, j \in 1..m : i <= j => points[i].time <= points[j].time
  <2>. SUFFICES ASSUME NEW i \in 1..m, NEW j \in 1..m, i <= j
                PROVE  points[i].time <= points[j].time
    OBVIOUS
  <2>1. CASE i = j
    BY <1>4, <2>1
  <2>2. CASE i # j
    <3>1. i < j /\ i \in DOMAIN points /\ j \in DOMAIN points
      BY <1>4, <2>2
    <3>2. points[i].time < points[j].time
      BY <3>1
    <3>. QED BY <1>4, <3>2
  <2>. QED BY <2>1, <2>2
<1>6. n < m
  <2>1. SUFFICES ASSUME n = m PROVE FALSE
    BY <1>2, <1>4
  <2>. QED BY <1>2, <1>3, <1>4, <2>1
<1>7. n + 1 \in 1..m /\ 1 \in 1..m /\ m \in 1..m /\ dist <= hi.dist
  BY <1>2, <1>4, <1>6
<1>8. points[1].time <= hi.time /\ hi.time <= points[m].time
  BY <1>4, <1>5, <1>7
<1>9. CASE hi.dist = dist
  <2>1. t = hi.time
    BY <1>1, <1>3, <1>9 DEF m
  <2>. HIDE DEF hi
  <2>. QED BY <1>3, <1>8, <2>1 DEF m, t
<1>10. CASE hi.dist # dist
  <2>1. n # 0
    BY <1>3, <1>4, <1>7, <1>10
  <2>2. n \in 1..m /\ n \in 1..n
    BY <1>2, <1>4, <2>1
  <2>3. lo.dist < dist /\ dist < hi.dist
    BY <1>2, <1>4, <1>7, <1>10, <2>2
  <2>4. points[1].time <= lo.time /\ lo.time <= hi.time
    BY <1>2, <1>4, <1>5, <1>7, <2>2
  <2>5. /\ lo.dist \in Nat /\ hi.dist \in Nat /\ lo.time \in Nat /\ hi.time \in Nat
        /\ points[1].time \in Nat /\ points[m].time \in Nat
    BY <1>4, <1>7, <2>2
  <2>. HIDE DEF lo, hi
  <2>. DEFINE a == dist - lo.dist
              b == hi.dist - lo.dist
              c == hi.time - lo.time
  <2>6. a \in Nat /\ b \in Nat /\ c \in Nat /\ a <= b /\ b > 0
    BY <2>3, <2>4, <2>5
  <2>7. t = lo.time + (a * c) \div b
    BY <1>1, <1>3, <1>10 DEF m
  <2>. HIDE DEF a, b
  <2>8. (a * c) \div b \in Nat /\ (a * c) \div b <= c
    <3>. HIDE DEF c
    <3>. QED BY <2>6, Share
  <2>. DEFINE d == (a * c) \div b
  <2>. HIDE DEF d
  <2>9. d \in Nat /\ d <= hi.time - lo.time /\ t = lo.time + d
    BY <2>7, <2>8 DEF d
  <2>. QED BY <1>3, <1>8, <2>4, <2>5, <2>9 DEF m, t
<1>. QED BY <1>9, <1>10 DEF m, t

\* The two properties of LapDelta follow.
LEMMA DeltaInvSound == ASSUME DeltaInv PROVE DeltaIsSound
<1>1. SUFFICES ASSUME ~late, ~event, ~occurred PROVE Delta!DeltaOfDrivenLap
  BY DEF DeltaInv, DeltaIsSound, Delta!DeltaOfDrivenLap
<1>2. \A lap \in DOMAIN laps : \A i \in DOMAIN laps[lap] :
         laps[lap][i].lap = lap /\ \E n \in DOMAIN driven : driven[n] = laps[lap][i]
  BY <1>1 DEF DeltaInv, DrivenInv, WasDriven
<1>3. ASSUME Delta!BestTimeHere # None
      PROVE  LET points == laps[bestLap] IN
             /\ points[1].time <= Delta!BestTimeHere
             /\ Delta!BestTimeHere <= points[Len(points)].time
  <2>. DEFINE points == laps[bestLap]
  <2>1. /\ latest # None
        /\ Delta!BestTimeHere = Delta!TimeAt(Delta!PointsOf(laps, bestLap), latest.dist)
    BY <1>3 DEF Delta!BestTimeHere
  <2>2. bestLap \in DOMAIN laps
    <3>1. SUFFICES ASSUME bestLap \notin DOMAIN laps PROVE FALSE
      OBVIOUS
    <3>2. Delta!PointsOf(laps, bestLap) = <<>>
      BY <3>1 DEF Delta!PointsOf
    <3>. QED BY <1>3, <2>1, <3>2 DEF Delta!TimeAt
  <2>3. Delta!BestTimeHere = Delta!TimeAt(points, latest.dist)
    BY <2>1, <2>2 DEF Delta!PointsOf
  <2>4. latest.dist \in Nat
    BY <2>1, SampleNumbers DEF DeltaInv, Delta!TypeOK
  <2>5. points \in Seq(Delta!Sample) /\ Increasing(points)
    BY <2>2 DEF DeltaInv, Delta!TypeOK, Delta!Points, Delta!HolyPrinciple, Increasing
  <2>6. ASSUME NEW i \in DOMAIN points, NEW j \in DOMAIN points, i < j
        PROVE  points[i].time < points[j].time
    <3>1. PICK k \in DOMAIN driven : driven[k] = points[i]
      BY <1>2, <2>2
    <3>2. PICK l \in DOMAIN driven : driven[l] = points[j]
      BY <1>2, <2>2
    <3>3. points[i].lap = points[j].lap /\ points[i].dist < points[j].dist
      BY <1>2, <2>2, <2>5, <2>6 DEF Increasing
    <3>. HIDE DEF points
    <3>4. points[i] \in Delta!Sample /\ points[j] \in Delta!Sample
      BY <2>5, <2>6
    <3>5. /\ points[i].lap \in Nat /\ points[i].dist \in Nat /\ points[i].time \in Nat
          /\ points[j].lap \in Nat /\ points[j].dist \in Nat /\ points[j].time \in Nat
      BY <3>4, SampleNumbers
    <3>6. k # l /\ ~(l < k)
      BY <3>1, <3>2, <3>3, <3>5 DEF DeltaInv, RoadInv, Earlier
    <3>7. k \in Nat /\ l \in Nat
      BY CarFacts
    <3>8. Earlier(points[i], points[j])
      <4>1. k < l
        BY <3>6, <3>7
      <4>. QED BY <3>1, <3>2, <4>1 DEF DeltaInv, RoadInv
    <3>. QED BY <3>3, <3>5, <3>8 DEF Earlier
  <2>. HIDE DEF points
  <2>7. Delta!TimeAt(points, latest.dist) # None
    BY <1>3, <2>3
  <2>8. /\ points[1].time <= Delta!TimeAt(points, latest.dist)
        /\ Delta!TimeAt(points, latest.dist) <= points[Len(points)].time
    BY <2>4, <2>5, <2>6, <2>7, TimeWithinLap
  <2>. QED BY <2>3, <2>8 DEF points
<1>4. \A lap \in DOMAIN laps : \A i \in DOMAIN laps[lap] :
         \E n \in DOMAIN driven : driven[n] = laps[lap][i]
  BY <1>2
<1>. QED BY <1>3, <1>4, Zenon DEF Delta!DeltaOfDrivenLap

\* The distances of a lap increase, no point of a flashback survives the packet that puts it
\* in, and when the flashbacks were dealt with in time all points kept were driven and the time
\* a delta is taken against lies within the best lap: for a race of any length.
THEOREM DeltaSound == Delta!Spec => []DeltaIsSound
<1>1. Delta!Init => DeltaInv
  BY DeltaInit
<1>2. DeltaInv /\ [Delta!Next]_(Delta!vars) => DeltaInv'
  BY DeltaNext DEF Delta!vars, Delta!game, deltaVars
<1>3. DeltaInv => DeltaIsSound
  BY DeltaInvSound
<1>. QED BY <1>1, <1>2, <1>3, PTL DEF Delta!Spec

-----------------------------------------------------------------------------
(* FastestLap.  The property is nearly inductive.  What it needs besides   *)
(* is that the two places in which the code looks up a best lap agree with *)
(* the game for every driver whose history is current (BooksInv); and that *)
(* a driver with the least time exists, for _recomputeFastestLap chooses   *)
(* it.                                                                     *)

BooksInv ==
    \A d \in current :
        /\ best[d] = true[d]
        /\ history[d] # None => history[d].time = true[d]

RecordTypes ==
    /\ true \in [Driver -> Time \cup {None}] /\ racing \subseteq Driver
    /\ current \subseteq Driver
    /\ best \in [Driver -> Time \cup {None}]
    /\ DOMAIN history = Driver
    /\ valid \subseteq Driver
    /\ fastest \in Driver \cup {None}

RecordInv == RecordTypes /\ BooksInv /\ Record!RecordIsRight

-----------------------------------------------------------------------------

\* _recomputeFastestLap finds a driver with a best lap and none faster, if one has a lap.
LEMMA RecomputedIsLeast ==
    ASSUME NEW times \in [Driver -> Time \cup {None}], NEW drivers \in SUBSET Driver
    PROVE  LET r == Record!Recomputed(times, drivers) IN
           /\ r # None => r \in drivers /\ times[r] # None
           /\ \A d \in drivers : times[d] # None => r # None /\ times[r] <= times[d]
<1>. DEFINE timed == {d \in drivers : times[d] # None}
            First(d) == \A e \in timed :
                           times[d] < times[e] \/ (times[d] = times[e] /\ d <= e)
<1>1. Record!Recomputed(times, drivers) =
          IF timed = {} THEN None ELSE CHOOSE d \in timed : First(d)
  BY DEF Record!Recomputed
<1>2. \A d \in timed : d \in Nat /\ times[d] \in Nat
  BY RecordAssumption
<1>3. ASSUME timed # {} PROVE \E d \in timed : First(d)
  <2>. DEFINE least == {times[d] : d \in timed}
  <2>1. PICK t \in least : \A u \in least : t <= u
    <3>1. least \subseteq Nat /\ least # {}
      BY <1>2, <1>3
    <3>. HIDE DEF least
    <3>. QED BY <3>1, LeastNumber
  <2>. DEFINE tied == {d \in timed : times[d] = t}
  <2>2. PICK d \in tied : \A e \in tied : d <= e
    <3>1. tied \subseteq Nat /\ tied # {}
      BY <1>2
    <3>. HIDE DEF tied
    <3>. QED BY <3>1, LeastNumber
  <2>3. d \in timed /\ \A e \in timed : times[d] <= times[e] /\ (times[d] = times[e] => d <= e)
    BY <2>1, <2>2
  <2>. QED BY <1>2, <2>3
<1>4. CASE timed = {}
  BY <1>1, <1>4
<1>5. CASE timed # {}
  <2>. DEFINE r == CHOOSE d \in timed : First(d)
  <2>1. r \in timed /\ First(r)
    BY <1>3, <1>5
  <2>2. r = Record!Recomputed(times, drivers)
    BY <1>1, <1>5
  <2>3. r # None
    BY <1>2, <2>1, RecordAssumption
  <2>. HIDE DEF r
  <2>. QED BY <1>2, <2>1, <2>2, <2>3
<1>. QED BY <1>4, <1>5

LEMMA SessionHistoryStep ==
    ASSUME RecordInv, NEW d \in Driver, Record!SessionHistory(d)
    PROVE  RecordInv'
<1>1. PICK isValid \in BOOLEAN :
         LET packet == IF true[d] = None THEN Record!NoLap
                       ELSE [time |-> true[d], isValid |-> isValid]
             times == IF true[d] = None THEN best ELSE [best EXCEPT ![d] = true[d]]
             histories == [history EXCEPT ![d] = packet]
             holder == IF Record!ShouldRecompute(d, times, histories)
                       THEN Record!Recomputed(times, valid) ELSE fastest
         IN
         /\ history' = histories
         /\ best' = [best EXCEPT ![d] = true[d]]
         /\ fastest' = IF true[d] = None /\ holder = d THEN None ELSE holder
         /\ current' = current \cup {d}
         /\ settled' = FALSE
         /\ UNCHANGED <<true, racing, changes, valid, active>>
  BY DEF Record!SessionHistory, Record!game
<1>. DEFINE packet == IF true[d] = None THEN Record!NoLap
                      ELSE [time |-> true[d], isValid |-> isValid]
            times == IF true[d] = None THEN best ELSE [best EXCEPT ![d] = true[d]]
<1>2. packet.time = true[d]
  BY DEF Record!NoLap
<1>3. times \in [Driver -> Time \cup {None}] /\ best' \in [Driver -> Time \cup {None}]
  BY <1>1 DEF RecordInv, RecordTypes
<1>4. PICK holder \in {Record!Recomputed(times, valid), fastest} :
         fastest' = IF true[d] = None /\ holder = d THEN None ELSE holder
  BY <1>1
<1>5. holder # None => holder \in Driver /\ times[holder] # None
  <2>1. CASE holder = fastest
    BY <2>1 DEF RecordInv, RecordTypes, Record!RecordIsRight
  <2>2. CASE holder = Record!Recomputed(times, valid)
    <3>. HIDE DEF times
    <3>1. valid \in SUBSET Driver
      BY DEF RecordInv, RecordTypes
    <3>. QED BY <1>3, <2>2, <3>1, RecomputedIsLeast
  <2>. QED BY <2>1, <2>2
<1>6. fastest' # None => fastest' \in Driver /\ best'[fastest'] # None
  BY <1>1, <1>4, <1>5 DEF RecordInv, RecordTypes
<1>7. RecordTypes'
  BY <1>1, <1>3, <1>6 DEF RecordInv, RecordTypes
<1>8. BooksInv'
  <2>. SUFFICES ASSUME NEW e \in current'
                PROVE  best'[e] = true[e] /\ (history'[e] # None => history'[e].time = true[e])
    BY <1>1 DEF BooksInv
  <2>. QED BY <1>1, <1>2 DEF RecordInv, RecordTypes, BooksInv
<1>. QED BY <1>1, <1>6, <1>7, <1>8 DEF RecordInv, Record!RecordIsRight

LEMMA RecordLapDataStep ==
    ASSUME RecordInv, Record!LapData
    PROVE  RecordInv'
<1>1. /\ valid' = racing
      /\ UNCHANGED <<true, racing, changes, current, best, history>>
  BY DEF Record!LapData, Record!game
<1>. DEFINE r == Record!Recomputed(best, racing)
<1>2. /\ r # None => r \in racing /\ best[r] # None
      /\ \A d \in racing : best[d] # None => r # None /\ best[r] <= best[d]
  BY RecomputedIsLeast DEF RecordInv, RecordTypes
<1>3. fastest' \in {r, fastest}
  BY DEF Record!LapData
<1>4. fastest' # None => fastest' \in Driver /\ best[fastest'] # None
  BY <1>2, <1>3 DEF RecordInv, RecordTypes, Record!RecordIsRight
<1>5. RecordTypes' /\ BooksInv'
  BY <1>1, <1>4 DEF RecordInv, RecordTypes, BooksInv
<1>6. ASSUME settled', current = Driver, NEW d \in racing, true[d] # None
      PROVE  fastest' # None /\ best[fastest'] <= best[d]
  <2>1. d \in Driver /\ best[d] = true[d] /\ best[d] \in Nat
    BY <1>6, RecordAssumption DEF RecordInv, RecordTypes, BooksInv
  <2>2. CASE fastest' = r
    BY <1>2, <1>6, <2>1, <2>2
  <2>3. CASE fastest' # r
    <3>1. ~Record!ShouldRecompute(d, best, history) /\ fastest' = fastest
      BY <1>6, <2>3 DEF Record!LapData
    <3>. DEFINE known == IF history[d] # None /\ history[d].isValid
                         THEN history[d].time ELSE best[d]
    <3>2. fastest # None /\ ~(best[fastest] > known)
      BY <1>6, <2>1, <3>1 DEF Record!ShouldRecompute, Record!LapData
    <3>3. known = best[d]
      BY <1>6, <2>1 DEF RecordInv, BooksInv
    <3>4. best[fastest] \in Nat
      BY <1>4, <3>1, <3>2, RecordAssumption DEF RecordInv, RecordTypes
    <3>. QED BY <2>1, <3>1, <3>2, <3>3, <3>4
  <2>. QED BY <2>2, <2>3
<1>7. Record!RecordIsRight'
  BY <1>1, <1>4, <1>6 DEF Record!RecordIsRight, RecordInv, RecordTypes, BooksInv
<1>. QED BY <1>5, <1>7 DEF RecordInv

LEMMA RecordStep ==
    ASSUME RecordInv, [Record!Next]_recordVars
    PROVE  RecordInv'
<1>1. ASSUME NEW d \in Driver, Record!BestLapChanges(d) PROVE RecordInv'
  <2>1. PICK time \in Time \cup {None} : true' = [true EXCEPT ![d] = time]
    BY <1>1 DEF Record!BestLapChanges
  <2>2. RecordTypes'
    BY <1>1, <2>1 DEF Record!BestLapChanges, RecordInv, RecordTypes
  <2>3. BooksInv'
    BY <1>1, <2>1 DEF Record!BestLapChanges, RecordInv, RecordTypes, BooksInv
  <2>4. Record!RecordIsRight'
    BY <1>1 DEF Record!BestLapChanges, RecordInv, Record!RecordIsRight
  <2>. QED BY <2>2, <2>3, <2>4 DEF RecordInv
<1>2. ASSUME NEW d \in Driver, Record!Leave(d) PROVE RecordInv'
  BY <1>2 DEF Record!Leave, RecordInv, RecordTypes, BooksInv, Record!RecordIsRight
<1>3. ASSUME NEW d \in Driver, Record!FastestLapEvent(d) PROVE RecordInv'
  <2>1. PICK time \in Time : best' = [best EXCEPT ![d] = time]
    BY <1>3 DEF Record!FastestLapEvent
  <2>2. time # None
    BY RecordAssumption
  <2>3. fastest' = d /\ best'[d] = time /\ ~settled' /\ current' = current \ {d}
        /\ UNCHANGED <<true, racing, history, valid>>
    BY <1>3, <2>1 DEF Record!FastestLapEvent, Record!game, RecordInv, RecordTypes
  <2>4. RecordTypes'
    BY <2>1, <2>3 DEF RecordInv, RecordTypes
  <2>5. BooksInv' /\ Record!RecordIsRight'
    BY <2>1, <2>2, <2>3 DEF RecordInv, RecordTypes, BooksInv, Record!RecordIsRight
  <2>. QED BY <2>4, <2>5 DEF RecordInv
<1>4. CASE UNCHANGED recordVars
  BY <1>4 DEF recordVars, Record!game, RecordInv, RecordTypes, BooksInv, Record!RecordIsRight
<1>. QED BY <1>1, <1>2, <1>3, <1>4, SessionHistoryStep, RecordLapDataStep DEF Record!Next

\* The types of the record.  There are finitely many cars to count.
LEMMA RecordTypedStep ==
    ASSUME RecordInv, Record!TypeOK, [Record!Next]_recordVars
    PROVE  Record!TypeOK'
<1>1. RecordTypes'
  <2>1. RecordInv'
    BY RecordStep
  <2>. QED BY <2>1 DEF RecordInv
<1>2. \/ UNCHANGED <<changes, active>> /\ settled' \in {settled, FALSE}
      \/ /\ changes < MaxChanges /\ changes' = changes + 1 /\ settled' = FALSE
         /\ active' = active
      \/ /\ changes' = changes /\ active' = Cardinality(racing)
         /\ settled' = (active \notin {None, 0})
  <2>1. ASSUME NEW d \in Driver, Record!BestLapChanges(d)
        PROVE  /\ changes < MaxChanges /\ changes' = changes + 1 /\ settled' = FALSE
               /\ active' = active
    BY <2>1 DEF Record!BestLapChanges
  <2>2. ASSUME NEW d \in Driver, Record!Leave(d)
        PROVE  UNCHANGED <<changes, active>> /\ settled' = FALSE
    BY <2>2 DEF Record!Leave
  <2>3. ASSUME NEW d \in Driver, Record!SessionHistory(d)
        PROVE  UNCHANGED <<changes, active>> /\ settled' = FALSE
    BY <2>3 DEF Record!SessionHistory, Record!game
  <2>4. ASSUME NEW d \in Driver, Record!FastestLapEvent(d)
        PROVE  UNCHANGED <<changes, active>> /\ settled' = FALSE
    BY <2>4 DEF Record!FastestLapEvent, Record!game
  <2>5. CASE Record!LapData
    <3>1. changes' = changes
      BY <2>5 DEF Record!LapData, Record!game
    <3>2. active' = Cardinality(racing)
      BY <2>5 DEF Record!LapData, Cardinality, Record!Cardinality
    <3>3. settled' = (active \notin {None, 0})
      BY <2>5, Zenon DEF Record!LapData
    <3>. QED BY <3>1, <3>2, <3>3, Zenon
  <2>6. CASE UNCHANGED recordVars
    BY <2>6 DEF recordVars
  <2>. QED BY <2>1, <2>2, <2>3, <2>4, <2>5, <2>6 DEF Record!Next
<1>3. /\ changes' \in 0..MaxChanges /\ settled' \in BOOLEAN
      /\ active' \in Nat \cup {None}
  <2>1. changes \in 0..MaxChanges /\ settled \in BOOLEAN /\ active \in Nat \cup {None}
    BY DEF Record!TypeOK
  <2>2. Cardinality(racing) \in Nat
    <3>1. racing \subseteq Driver /\ IsFiniteSet(Driver)
      BY RecordAssumption DEF Record!TypeOK
    <3>2. IsFiniteSet(racing)
      BY <3>1, FS_Subset
    <3>. QED BY <3>2, FS_CardinalityType
  <2>3. settled' \in BOOLEAN
    BY <1>2, <2>1, Zenon
  <2>4. changes' \in 0..MaxChanges
    <3>1. changes' = changes \/ (changes < MaxChanges /\ changes' = changes + 1)
      BY <1>2, Zenon
    <3>. QED BY <2>1, <3>1, RecordAssumption
  <2>5. active' \in {active, Cardinality(racing)}
    BY <1>2, Zenon
  <2>. QED BY <2>1, <2>2, <2>3, <2>4, <2>5, Zenon
<1>4. history' \in [Driver -> Record!History \cup {None}]
  <2>1. ASSUME NEW d \in Driver, Record!SessionHistory(d)
        PROVE  history' \in [Driver -> Record!History \cup {None}]
    <3>1. PICK isValid \in BOOLEAN :
              history' = [history EXCEPT ![d] = IF true[d] = None THEN Record!NoLap
                                               ELSE [time |-> true[d], isValid |-> isValid]]
      BY <2>1 DEF Record!SessionHistory
    <3>2. true[d] # None => [time |-> true[d], isValid |-> isValid] \in Record!History
      BY DEF RecordInv, RecordTypes, Record!History
    <3>3. Record!NoLap \in Record!History
      BY DEF Record!History
    <3>. QED BY <3>1, <3>2, <3>3 DEF Record!TypeOK
  <2>2. \/ \E d \in Driver : Record!SessionHistory(d)
        \/ history' = history
    BY DEF Record!Next, Record!BestLapChanges, Record!Leave, Record!FastestLapEvent,
           Record!LapData, recordVars
  <2>. QED BY <2>1, <2>2 DEF Record!TypeOK
<1>. QED BY <1>1, <1>3, <1>4 DEF Record!TypeOK, RecordTypes

\* Whatever the order of best laps, retirements, fastest lap events, session histories and
\* lap data, the holder has a best lap, and is the fastest once the histories are current.
THEOREM RecordCorrect == Record!Spec => []RecordIsRight
<1>1. Record!Init => RecordInv
  BY RecordAssumption DEF Record!Init, RecordInv, RecordTypes, BooksInv, Record!RecordIsRight
<1>2. RecordInv /\ [Record!Next]_(Record!vars) => RecordInv'
  BY RecordStep DEF Record!vars, Record!game, recordVars
<1>3. RecordInv => RecordIsRight
  BY DEF RecordInv, RecordIsRight
<1>. QED BY <1>1, <1>2, <1>3, PTL DEF Record!Spec

-----------------------------------------------------------------------------

\* A behaviour that is model-checked, in which one of the parts moves, is one of each part:
\* what is proved of the parts holds of it.
THEOREM AllParts == MCSpec => Spec /\ Delta!Spec /\ Record!Spec
<1>. USE DEF vars, deltaVars, recordVars, Delta!vars, Delta!game, Record!vars, Record!game
<1>1. MCInit => Init /\ Delta!Init /\ Record!Init
  BY DEF MCInit
<1>2. [MCNext]_<<part, vars, deltaVars, recordVars>> =>
          [Next]_vars /\ [Delta!Next]_(Delta!vars) /\ [Record!Next]_(Record!vars)
  BY DEF MCNext
<1>. QED BY <1>1, <1>2, PTL DEF MCSpec, Spec, Delta!Spec, Record!Spec

\* The types of the three records of SessionState, in every behaviour that is model-checked.
THEOREM RecordsTyped == MCSpec => []TypesOK
<1>1. Spec => []TypeOK
  BY BookAlways, LapsTyped, PTL
<1>2. Delta!Spec => []Delta!TypeOK
  <2>1. Delta!Init => DeltaInv
    BY DeltaInit
  <2>2. DeltaInv /\ [Delta!Next]_(Delta!vars) => DeltaInv'
    BY DeltaNext DEF Delta!vars, Delta!game, deltaVars
  <2>3. DeltaInv => Delta!TypeOK
    BY DEF DeltaInv
  <2>. QED BY <2>1, <2>2, <2>3, PTL DEF Delta!Spec
<1>3. Record!Spec => []Record!TypeOK
  <2>1. Record!Init => RecordInv /\ Record!TypeOK
    <3>1. Record!Init => RecordInv
      BY RecordAssumption
         DEF Record!Init, RecordInv, RecordTypes, BooksInv, Record!RecordIsRight
    <3>2. Record!Init => Record!TypeOK
      <4>. SUFFICES ASSUME Record!Init PROVE Record!TypeOK
        OBVIOUS
      <4>1. changes \in 0..MaxChanges
        BY RecordAssumption DEF Record!Init
      <4>2. settled \in BOOLEAN /\ active \in Nat \cup {None}
        BY DEF Record!Init
      <4>. QED BY <4>1, <4>2 DEF Record!Init, Record!TypeOK
    <3>. QED BY <3>1, <3>2
  <2>2. RecordInv /\ Record!TypeOK /\ [Record!Next]_(Record!vars)
            => RecordInv' /\ Record!TypeOK'
    BY RecordStep, RecordTypedStep DEF Record!vars, Record!game, recordVars
  <2>. QED BY <2>1, <2>2, PTL DEF Record!Spec
<1>4. TypeOK /\ Delta!TypeOK /\ Record!TypeOK => TypesOK
  BY DEF TypesOK
<1>. QED BY <1>1, <1>2, <1>3, <1>4, AllParts, PTL
=============================================================================
