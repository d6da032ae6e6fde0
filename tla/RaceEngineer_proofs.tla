------------------------ MODULE RaceEngineer_proofs ------------------------
(***************************************************************************)
(* The safety properties of the race engineer for every size of the queue, *)
(* any number of callouts, sessions and mutes, and any number of presses   *)
(* of the button: Callouts by the invariant Inv, PushToTalk by HoldInv.    *)
(* The lemmas before them say what the bounded queue keeps.                *)
(***************************************************************************)
EXTENDS MCRaceEngineer, FiniteSetTheorems, WellFoundedInduction, TLAPS

\* A set of numbers that is not empty has a least one.
LEMMA LeastNumber ==
    ASSUME NEW S, S \subseteq Nat, S # {}
    PROVE  \E m \in S : \A k \in S : m <= k
<1>1. PICK m \in S : \A k \in S : <<k, m>> \notin OpToRel(<, Nat)
  BY WFMin, NatLessThanWellFounded, Zenon
<1>2. \A k \in S : ~(k < m)
  BY <1>1, Zenon DEF OpToRel
<1>. QED BY <1>2

\* Every number up to that of a finite set's members is reached by counting them from below.
LEMMA Counted ==
    ASSUME NEW n \in Nat, NEW kept \in SUBSET (1..n), NEW k \in 1..Cardinality(kept)
    PROVE  \E i \in kept : Cardinality(kept \cap 1..i) = k
<1>. DEFINE C(i) == Cardinality(kept \cap 1..i)
            enough == {i \in 0..n : C(i) >= k}
<1>1. IsFiniteSet(kept) /\ Cardinality(kept) \in Nat
  <2>1. IsFiniteSet(1..n)
    BY FS_Interval
  <2>. QED BY <2>1, FS_Subset, FS_CardinalityType
<1>2. \A i \in 0..n : IsFiniteSet(kept \cap 1..i) /\ C(i) \in Nat
  BY <1>1, FS_Subset, FS_CardinalityType
<1>3. PICK i \in enough : \A j \in enough : i <= j
  <2>1. kept \cap 1..n = kept
    OBVIOUS
  <2>2. C(n) >= k
    BY <1>1, <2>1
  <2>3. n \in enough /\ enough \subseteq Nat
    BY <2>2
  <2>. HIDE DEF enough
  <2>. QED BY <2>3, LeastNumber
<1>4. i # 0
  <2>1. kept \cap 1..0 = {}
    OBVIOUS
  <2>2. C(0) = 0
    BY <2>1, FS_EmptySet
  <2>3. C(i) >= k
    BY <1>3
  <2>. QED BY <2>2, <2>3
<1>5. C(i - 1) \in Nat /\ C(i - 1) < k
  <2>1. i \in 0..n
    BY <1>3
  <2>2. i - 1 \in 0..n /\ ~(i <= i - 1)
    BY <2>1, <1>4
  <2>3. i - 1 \notin enough
    <3>. HIDE DEF enough
    <3>. QED BY <1>3, <2>2
  <2>4. C(i - 1) \in Nat
    BY <1>2, <2>2
  <2>5. ~(C(i - 1) >= k)
    BY <2>2, <2>3
  <2>. HIDE DEF C
  <2>. QED BY <2>4, <2>5
<1>6. kept \cap 1..i = IF i \in kept THEN (kept \cap 1..(i - 1)) \cup {i}
                       ELSE kept \cap 1..(i - 1)
  BY <1>3, <1>4
<1>7. i \in kept
  <2>1. C(i) >= k
    BY <1>3
  <2>2. SUFFICES ASSUME i \notin kept PROVE FALSE
    OBVIOUS
  <2>3. C(i) = C(i - 1)
    BY <1>6, <2>2
  <2>. QED BY <1>5, <2>1, <2>3
<1>8. C(i) = C(i - 1) + 1
  <2>1. i - 1 \in 0..n /\ i \notin kept \cap 1..(i - 1)
    BY <1>3, <1>4
  <2>2. IsFiniteSet(kept \cap 1..(i - 1))
    BY <1>2, <2>1
  <2>. HIDE DEF C
  <2>. QED BY <1>6, <1>7, <2>1, <2>2, FS_AddElement DEF C
<1>9. C(i) = k
  <2>1. C(i) >= k
    BY <1>3
  <2>. QED BY <1>5, <1>8, <2>1
<1>. QED BY <1>7, <1>9

\* drop_matching keeps critical callouts of the queue, no more than there were.
LEMMA DropLowerKeeps ==
    ASSUME NEW C, NEW items \in Seq(C)
    PROVE  /\ DropLower(items) \in Seq(C)
           /\ Len(DropLower(items)) <= Len(items)
           /\ \A k \in DOMAIN DropLower(items) :
                 /\ DropLower(items)[k].kind = "critical"
                 /\ \E i \in DOMAIN items : DropLower(items)[k] = items[i]
<1>. DEFINE n == Len(items)
            kept == {i \in DOMAIN items : items[i].kind = "critical"}
            at(k) == CHOOSE i \in kept : Cardinality(kept \cap 1..i) = k
            s == [k \in 1..Cardinality(kept) |-> items[at(k)]]
<1>1. DropLower(items) = s
  BY DEF DropLower
<1>2. n \in Nat /\ kept \in SUBSET (1..n)
  OBVIOUS
<1>3. Cardinality(kept) \in Nat /\ Cardinality(kept) <= n
  <2>. HIDE DEF kept, n
  <2>1. IsFiniteSet(1..n) /\ Cardinality(1..n) = n
    BY <1>2, FS_Interval
  <2>. QED BY <1>2, <2>1, FS_Subset, FS_CardinalityType
<1>4. ASSUME NEW k \in 1..Cardinality(kept) PROVE at(k) \in kept
  <2>. HIDE DEF kept, n
  <2>. QED BY <1>2, Counted
<1>5. \A k \in 1..Cardinality(kept) : /\ s[k] \in C /\ s[k].kind = "critical"
                                      /\ \E i \in DOMAIN items : s[k] = items[i]
  <2>. SUFFICES ASSUME NEW k \in 1..Cardinality(kept)
                PROVE  /\ s[k] \in C /\ s[k].kind = "critical"
                       /\ \E i \in DOMAIN items : s[k] = items[i]
    OBVIOUS
  <2>1. at(k) \in DOMAIN items /\ items[at(k)].kind = "critical"
    BY <1>4
  <2>2. s[k] = items[at(k)]
    OBVIOUS
  <2>. HIDE DEF s, at, kept
  <2>. QED BY <2>1, <2>2
<1>6. DOMAIN s = 1..Cardinality(kept)
  OBVIOUS
<1>. HIDE DEF s, kept
<1>7. s \in Seq(C) /\ Len(s) = Cardinality(kept)
  <2>1. s \in [1..Cardinality(kept) -> C]
    BY <1>5, <1>6 DEF s
  <2>. QED BY <1>3, <2>1
<1>. QED BY <1>1, <1>3, <1>5, <1>6, <1>7

-----------------------------------------------------------------------------

\* No critical callout behind another.
Ahead(items) ==
    \A i, j \in DOMAIN items : i < j /\ items[j].kind = "critical" => items[i].kind = "critical"

\* What q holds is c or was in items.
From(q, items, c) == \A k \in DOMAIN q : q[k] = c \/ \E i \in DOMAIN items : q[k] = items[i]

\* push
LEMMA PushKeeps ==
    ASSUME NEW C, NEW items \in Seq(C), NEW c \in C, Len(items) <= QueueSize,
           NEW q, q = Push(items, c)
    PROVE  /\ q \in Seq(C) /\ Len(q) \in 1..QueueSize /\ Len(q) <= Len(items) + 1
           /\ From(q, items, c)
           /\ /\ Ahead(items)
              /\ c.kind = "critical" => \A i \in DOMAIN items : items[i].kind = "critical"
              => Ahead(q)
<1>0. QueueSize \in Nat \ {0}
  BY CalloutsAssumption
<1>1. CASE Len(items) = QueueSize
  <2>1. q = Append(Tail(items), c)
    BY <1>1 DEF Push
  <2>2. items # <<>>
    BY <1>0, <1>1
  <2>3. /\ Tail(items) \in Seq(C) /\ Len(Tail(items)) = Len(items) - 1
        /\ \A k \in 1..(Len(items) - 1) : Tail(items)[k] = items[k + 1]
    BY <2>2
  <2>4. /\ q \in Seq(C) /\ Len(q) = Len(items) /\ q[Len(q)] = c
        /\ \A k \in 1..(Len(items) - 1) : q[k] = items[k + 1]
    BY <2>1, <2>3
  <2>5. Len(items) \in Nat /\ DOMAIN items = 1..Len(items) /\ DOMAIN q = 1..Len(q)
    BY <2>4
  <2>6. From(q, items, c)
    <3>. SUFFICES ASSUME NEW k \in DOMAIN q
                  PROVE  q[k] = c \/ \E i \in DOMAIN items : q[k] = items[i]
      BY DEF From
    <3>1. CASE k = Len(q)
      BY <2>4, <3>1
    <3>2. CASE k # Len(q)
      <4>1. k \in 1..(Len(items) - 1) /\ k + 1 \in DOMAIN items
        BY <2>4, <2>5, <3>2
      <4>. QED BY <2>4, <4>1
    <3>. QED BY <3>1, <3>2
  <2>7. ASSUME Ahead(items),
               c.kind = "critical" => \A i \in DOMAIN items : items[i].kind = "critical"
        PROVE  Ahead(q)
    <3>. SUFFICES ASSUME NEW i \in DOMAIN q, NEW j \in DOMAIN q, i < j,
                         q[j].kind = "critical"
                  PROVE  q[i].kind = "critical"
      BY DEF Ahead
    <3>1. i \in 1..(Len(items) - 1) /\ i + 1 \in DOMAIN items /\ q[i] = items[i + 1]
      BY <2>4, <2>5
    <3>2. CASE j = Len(q)
      BY <2>4, <2>7, <3>1, <3>2
    <3>3. CASE j # Len(q)
      <4>1. j + 1 \in DOMAIN items /\ q[j] = items[j + 1] /\ i + 1 < j + 1
        BY <2>4, <2>5, <3>3
      <4>. QED BY <2>7, <3>1, <4>1 DEF Ahead
    <3>. QED BY <3>2, <3>3
  <2>. QED BY <1>0, <1>1, <2>4, <2>6, <2>7
<1>2. CASE Len(items) # QueueSize
  <2>1. q = Append(items, c)
    BY <1>2 DEF Push
  <2>2. /\ q \in Seq(C) /\ Len(q) = Len(items) + 1 /\ q[Len(q)] = c
        /\ \A k \in 1..Len(items) : q[k] = items[k]
    BY <2>1
  <2>. QED BY <1>0, <1>2, <2>2 DEF From, Ahead
<1>. QED BY <1>1, <1>2

\* A queued callout finds its place: the queue stays within its limit, holds nothing that was
\* not queued, and the critical callouts stay ahead.
LEMMA EnqueueKeeps ==
    ASSUME NEW C, NEW items \in Seq(C), NEW c \in C, Len(items) <= QueueSize,
           NEW q, q = Enqueue(items, c)
    PROVE  /\ q \in Seq(C) /\ Len(q) \in 1..QueueSize /\ Len(q) <= Len(items) + 1
           /\ From(q, items, c)
           /\ Ahead(items) => Ahead(q)
<1>0. QueueSize \in Nat \ {0}
  BY CalloutsAssumption
<1>1. CASE c.kind = "critical"
  <2>. DEFINE d == DropLower(items)
  <2>1. /\ d \in Seq(C) /\ Len(d) <= Len(items)
        /\ \A k \in DOMAIN d : /\ d[k].kind = "critical"
                               /\ \E i \in DOMAIN items : d[k] = items[i]
    BY DropLowerKeeps
  <2>2. q = Push(d, c)
    BY <1>1 DEF Enqueue
  <2>. HIDE DEF d
  <2>3. Len(d) <= QueueSize /\ Ahead(d)
    BY <1>0, <2>1 DEF Ahead
  <2>4. /\ q \in Seq(C) /\ Len(q) \in 1..QueueSize /\ Len(q) <= Len(d) + 1
        /\ From(q, d, c) /\ Ahead(q)
    BY <2>1, <2>2, <2>3, PushKeeps
  <2>5. From(q, items, c)
    BY <2>1, <2>4 DEF From
  <2>. QED BY <1>0, <2>1, <2>4, <2>5
<1>2. CASE c.kind # "critical"
  <2>1. q = Push(items, c)
    BY <1>2 DEF Enqueue
  <2>. QED BY <1>2, <2>1, PushKeeps
<1>. QED BY <1>1, <1>2

-----------------------------------------------------------------------------

\* What the statistics say of the next state while the worker's hands are as they were.
Accounted ==
    /\ queue' \in Seq(Callout) /\ Len(queue') \in 0..QueueSize
    /\ offered' \in offered..MaxCallouts /\ counted' \in 0..MaxCallouts
    /\ offered' = counted' + Len(queue') + IF worker = Idle THEN 0 ELSE 1

\* _queue_announcement, onto the queue as it is or as a reset or a mute cleared it.
LEMMA QueueStep ==
    ASSUME TypeOK, CalloutsCounted, NEW kind \in Kind,
           NEW of \in 0..MaxSessions \cup {NoSnapshot}, NEW gen \in 0..MaxSessions,
           NEW items, NEW cleared,
           \/ items = queue /\ cleared = 0
           \/ items = <<>> /\ cleared = Len(queue),
           Queue(kind, of, gen, items, cleared)
    PROVE  /\ Accounted /\ recent' = TRUE
           /\ From(queue', items, [kind |-> kind, gen |-> gen, of |-> of])
           /\ Ahead(items) => Ahead(queue')
<1>. DEFINE c == [kind |-> kind, gen |-> gen, of |-> of]
<1>1. c \in Callout
  BY DEF Callout
<1>2. items \in Seq(Callout) /\ Len(items) \in 0..QueueSize /\ Len(queue) \in 0..QueueSize
      /\ cleared + Len(items) = Len(queue) /\ cleared \in Nat
  <2>1. queue \in Seq(Callout) /\ Len(queue) \in 0..QueueSize /\ QueueSize \in Nat
    BY CalloutsAssumption DEF TypeOK
  <2>2. <<>> \in Seq(Callout) /\ Len(<<>>) = 0
    OBVIOUS
  <2>3. CASE items = queue /\ cleared = 0
    BY <2>1, <2>3
  <2>4. CASE items = <<>> /\ cleared = Len(queue)
    <3>1. Len(items) = 0 /\ items \in Seq(Callout)
      BY <2>2, <2>4
    <3>. QED BY <2>1, <2>4, <3>1
  <2>. QED BY <2>3, <2>4
<1>3. queue' = Enqueue(items, c)
  BY DEF Queue
<1>. HIDE DEF c
<1>4. /\ queue' \in Seq(Callout) /\ Len(queue') \in 1..QueueSize
      /\ Len(queue') <= Len(items) + 1
      /\ From(queue', items, c) /\ (Ahead(items) => Ahead(queue'))
  BY <1>1, <1>2, <1>3, EnqueueKeeps
<1>5. /\ offered \in 0..MaxCallouts /\ counted \in 0..MaxCallouts /\ MaxCallouts \in Nat
      /\ QueueSize \in Nat
  BY CalloutsAssumption DEF TypeOK
<1>6. /\ offered < MaxCallouts /\ offered' = offered + 1
      /\ counted' = counted + cleared + Len(items) + 1 - Len(queue') /\ recent' = TRUE
  BY DEF Queue
<1>7. Len(queue') \in Nat /\ Len(items) \in Nat
  BY <1>2, <1>4, <1>5
<1>8. offered' = counted' + Len(queue') + IF worker = Idle THEN 0 ELSE 1
  BY <1>2, <1>5, <1>6, <1>7 DEF CalloutsCounted
<1>9. Accounted
  BY <1>4, <1>2, <1>5, <1>6, <1>7, <1>8 DEF Accounted
<1>. QED BY <1>4, <1>6, <1>9 DEF c

\* A callout dropped before the queue, or a queue cleared, is counted.
LEMMA ClearStep ==
    ASSUME TypeOK, CalloutsCounted,
           \/ queue' = queue /\ counted' = counted
           \/ queue' = <<>> /\ counted' = counted + Len(queue),
           offered' = offered
    PROVE  Accounted
<1>1. /\ queue \in Seq(Callout) /\ Len(queue) \in 0..QueueSize /\ offered \in 0..MaxCallouts
      /\ counted \in 0..MaxCallouts /\ MaxCallouts \in Nat /\ QueueSize \in Nat
  BY CalloutsAssumption DEF TypeOK
<1>2. <<>> \in Seq(Callout) /\ Len(<<>>) = 0
  OBVIOUS
<1>3. CASE queue' = queue /\ counted' = counted
  BY <1>1, <1>3 DEF CalloutsCounted, Accounted
<1>4. CASE queue' = <<>> /\ counted' = counted + Len(queue)
  <2>1. Len(queue') = 0
    BY <1>2, <1>4
  <2>2. offered' = counted' + Len(queue') + IF worker = Idle THEN 0 ELSE 1
    BY <1>1, <1>4, <2>1 DEF CalloutsCounted
  <2>. QED BY <1>1, <1>2, <1>4, <2>1, <2>2 DEF Accounted
<1>. QED BY <1>3, <1>4

\* _cancel_active_voice
LEMMA CancelledKeeps ==
    ASSUME TypeOK, worker' = Cancelled(worker)
    PROVE  /\ worker' \in {Idle} \cup [state : {"window", "cancelled"}, item : Callout,
                                       late : BOOLEAN]
           /\ worker' = Idle <=> worker = Idle
           /\ worker'.state = "window" => worker' = worker
<1>1. CASE worker = Idle
  BY <1>1 DEF Cancelled, Idle
<1>2. CASE worker # Idle
  <2>1. worker \in [state : {"window", "spawned", "speaking", "cancelled"}, item : Callout,
                    late : BOOLEAN]
    BY <1>2 DEF TypeOK
  <2>2. worker' \in [state : {"window", "cancelled"}, item : Callout, late : BOOLEAN]
    BY <2>1 DEF Cancelled
  <2>3. worker' # Idle
    BY <2>2 DEF Idle
  <2>4. worker'.state = "window" => worker' = worker
    BY <2>1 DEF Cancelled
  <2>. QED BY <1>2, <2>2, <2>3, <2>4
<1>. QED BY <1>1, <1>2

\* _reset_for_new_session_if_needed and the callout of the message: what the queue holds is of
\* this session or was there, and the engineer is on when something is added.
LEMMA ResetStep ==
    ASSUME TypeOK, CalloutsCounted, NEW new \in BOOLEAN, Reset(new)
    PROVE  /\ generation' = (IF new THEN generation + 1 ELSE generation)
           /\ generation' \in 0..MaxSessions
           /\ worker' = IF new THEN Cancelled(worker) ELSE worker
           /\ recent' \in BOOLEAN /\ Accounted
           /\ Ahead(queue) => Ahead(queue')
           /\ \A k \in DOMAIN queue' :
                 \/ ~new /\ \E i \in DOMAIN queue : queue'[k] = queue[i]
                 \/ /\ enabled /\ queue'[k].kind \in OnTheRace
                    /\ queue'[k].gen = generation' /\ queue'[k].of = generation'
<1>. DEFINE gen == IF new THEN generation + 1 ELSE generation
            left == IF new THEN <<>> ELSE queue
            cleared == IF new THEN Len(queue) ELSE 0
<1>0. /\ MaxSessions \in Nat /\ generation \in 0..MaxSessions /\ recent \in BOOLEAN
      /\ offered \in 0..MaxCallouts /\ counted \in 0..MaxCallouts /\ MaxCallouts \in Nat
      /\ queue \in Seq(Callout) /\ Len(queue) \in 0..QueueSize /\ QueueSize \in Nat
  BY CalloutsAssumption DEF TypeOK
<1>1. /\ generation' = gen /\ gen \in 0..MaxSessions
      /\ worker' = IF new THEN Cancelled(worker) ELSE worker
  BY <1>0 DEF Reset
<1>2. Ahead(<<>>) /\ (Ahead(queue) => Ahead(left))
  BY DEF Ahead
<1>3. CASE queue' = left /\ counted' = counted + cleared /\ recent' = (~(new \/ ~recent))
           /\ UNCHANGED offered
  <2>1. Accounted
    BY <1>0, <1>3, ClearStep
  <2>. QED BY <1>0, <1>1, <1>2, <1>3, <2>1
<1>4. ASSUME enabled, NEW kind \in OnTheRace, Queue(kind, gen, gen, left, cleared)
      PROVE  /\ recent' \in BOOLEAN /\ Accounted /\ (Ahead(queue) => Ahead(queue'))
             /\ \A k \in DOMAIN queue' :
                   \/ ~new /\ \E i \in DOMAIN queue : queue'[k] = queue[i]
                   \/ /\ enabled /\ queue'[k].kind \in OnTheRace
                      /\ queue'[k].gen = generation' /\ queue'[k].of = generation'
  <2>. DEFINE c == [kind |-> kind, gen |-> gen, of |-> gen]
  <2>1. kind \in Kind /\ gen \in 0..MaxSessions \cup {NoSnapshot}
    BY <1>1, <1>4 DEF Kind
  <2>2. \/ left = queue /\ cleared = 0
        \/ left = <<>> /\ cleared = Len(queue)
    OBVIOUS
  <2>. HIDE DEF gen, left, cleared
  <2>3. Accounted /\ recent' = TRUE /\ From(queue', left, c) /\ (Ahead(left) => Ahead(queue'))
    BY <1>1, <1>4, <2>1, <2>2, QueueStep
  <2>4. \A k \in DOMAIN queue' :
           \/ ~new /\ \E i \in DOMAIN queue : queue'[k] = queue[i]
           \/ /\ enabled /\ queue'[k].kind \in OnTheRace
              /\ queue'[k].gen = generation' /\ queue'[k].of = generation'
    BY <1>1, <1>4, <2>3 DEF From, left
  <2>. QED BY <1>2, <2>3, <2>4
<1>5. CASE /\ enabled /\ ~(new \/ ~recent) /\ offered < MaxCallouts
           /\ offered' = offered + 1 /\ counted' = counted + 1
           /\ UNCHANGED <<queue, recent>>
  <2>1. Accounted
    BY <1>0, <1>5 DEF Accounted, CalloutsCounted
  <2>. QED BY <1>0, <1>1, <1>5, <2>1
<1>6. \/ queue' = left /\ counted' = counted + cleared /\ recent' = (~(new \/ ~recent))
           /\ UNCHANGED offered
      \/ enabled /\ \E kind \in OnTheRace : Queue(kind, gen, gen, left, cleared)
      \/ /\ enabled /\ ~(new \/ ~recent) /\ offered < MaxCallouts
         /\ offered' = offered + 1 /\ counted' = counted + 1
         /\ UNCHANGED <<queue, recent>>
  BY Zenon DEF Reset
<1>. HIDE DEF gen, left, cleared
<1>. QED BY <1>1, <1>3, <1>4, <1>5, <1>6 DEF gen

-----------------------------------------------------------------------------
(* The inductive invariant.                                                *)

\* The telemetry an answer may be made from: this session's, or none with a session UID.
Made(gen) == {gen, 0, NoSnapshot}

Current(c, gen) == c.kind # "typed" => c.of \in Made(gen)

\* Whatever waits belongs to the session; the callout in the worker's hands does too from the
\* moment it has its task, for a new session cancels the task.
SessionInv ==
    /\ snapshot \in Made(generation)
    /\ question["subscriber"].step = "answer" => question["subscriber"].of \in Made(generation)
    /\ \A i \in DOMAIN queue : queue[i].gen = generation /\ Current(queue[i], generation)
    /\ worker # Idle => worker.item.gen <= generation
    /\ worker.state \in {"window", "spawned", "speaking"} /\ worker.item.gen = generation =>
          Current(worker.item, generation)
    /\ worker.state \in {"spawned", "speaking"} => worker.item.gen = generation

\* Only a callout that was held back when the engineer was muted may still begin, once.
MuteInv ==
    /\ ~enabled => \A i \in DOMAIN queue : queue[i].kind \notin OnTheRace
    /\ enabled => spokenMuted = 0
    /\ ~enabled /\ worker.state \in {"window", "spawned"} /\ worker.item.kind \in OnTheRace =>
          spokenMuted = 0
    /\ spokenMuted <= 1 /\ spokenMuted <= offered

Inv == TypeOK /\ CalloutsCounted /\ CriticalsAhead /\ SessionInv /\ MuteInv

WorkerType == {Idle} \cup [state : {"window", "spawned", "speaking", "cancelled"},
                           item : Callout, late : BOOLEAN]

QuestionType == [Asker -> {None, [step |-> "transcribe"]} \cup
                          [step : {"answer"}, of : 0..MaxSessions \cup {NoSnapshot}]]

\* The counters' part of the next state's invariant.
LEMMA AccountedKeeps ==
    ASSUME Inv, Accounted, worker' = Idle <=> worker = Idle
    PROVE  /\ queue' \in Seq(Callout) /\ Len(queue') <= QueueSize
           /\ offered' \in 0..MaxCallouts /\ counted' \in 0..MaxCallouts
           /\ CalloutsCounted' /\ offered <= offered' /\ offered \in 0..MaxCallouts
           /\ spokenMuted \in Nat /\ spokenMuted <= offered' /\ spokenMuted \in 0..MaxCallouts
<1>1. /\ offered \in 0..MaxCallouts /\ spokenMuted \in 0..MaxCallouts /\ MaxCallouts \in Nat
      /\ spokenMuted <= offered
  BY CalloutsAssumption DEF Inv, TypeOK, MuteInv
<1>2. CalloutsCounted'
  BY DEF Accounted, CalloutsCounted
<1>. QED BY <1>1, <1>2 DEF Accounted

\* A worker that is cancelled or left alone.
LEMMA WorkerCancelled ==
    ASSUME Inv, worker' = worker \/ worker' = Cancelled(worker)
    PROVE  /\ worker' \in WorkerType /\ (worker' = Idle <=> worker = Idle)
           /\ worker' = worker \/ worker'.state \notin {"spawned", "speaking"}
           /\ worker'.state = "window" => worker' = worker
           /\ worker' # Idle => worker'.item = worker.item
<1>1. CASE worker' = worker
  BY <1>1 DEF Inv, TypeOK, WorkerType
<1>2. CASE worker' = Cancelled(worker)
  <2>1. /\ worker' \in {Idle} \cup [state : {"window", "cancelled"}, item : Callout,
                                    late : BOOLEAN]
        /\ worker' = Idle <=> worker = Idle
        /\ worker'.state = "window" => worker' = worker
    BY <1>2, CancelledKeeps DEF Inv
  <2>2. worker' # Idle => worker'.item = worker.item
    <3>1. CASE worker = Idle
      BY <2>1, <3>1
    <3>2. CASE worker # Idle
      <4>1. worker \in [state : {"window", "spawned", "speaking", "cancelled"},
                        item : Callout, late : BOOLEAN]
        BY <3>2 DEF Inv, TypeOK
      <4>. QED BY <1>2, <4>1 DEF Cancelled
    <3>. QED BY <3>1, <3>2
  <2>3. worker'.state \notin {"spawned", "speaking"}
    BY <2>1 DEF Idle
  <2>. QED BY <2>1, <2>2, <2>3 DEF WorkerType
<1>. QED BY <1>1, <1>2

\* A telemetry message.
LEMMA TelemetryKeeps ==
    ASSUME Inv, NEW new \in BOOLEAN, Free("subscriber"), Reset(new),
           snapshot' \in Made(generation'), busy' \in BOOLEAN,
           UNCHANGED <<enabled, question, switches, spokenMuted>>
    PROVE  Inv'
<1>1. /\ generation' = (IF new THEN generation + 1 ELSE generation)
      /\ generation' \in 0..MaxSessions
      /\ worker' = IF new THEN Cancelled(worker) ELSE worker
      /\ recent' \in BOOLEAN /\ Accounted
      /\ Ahead(queue) => Ahead(queue')
      /\ \A k \in DOMAIN queue' :
            \/ ~new /\ \E i \in DOMAIN queue : queue'[k] = queue[i]
            \/ /\ enabled /\ queue'[k].kind \in OnTheRace
               /\ queue'[k].gen = generation' /\ queue'[k].of = generation'
  BY ResetStep DEF Inv
<1>2. /\ worker' \in WorkerType /\ (worker' = Idle <=> worker = Idle)
      /\ worker' = worker \/ worker'.state \notin {"spawned", "speaking"}
      /\ worker'.state = "window" => worker' = worker
      /\ worker' # Idle => worker'.item = worker.item
  BY <1>1, WorkerCancelled
<1>3. generation \in Nat /\ generation' \in Nat
  BY <1>1, CalloutsAssumption DEF Inv, TypeOK
<1>4. /\ queue' \in Seq(Callout) /\ Len(queue') <= QueueSize
      /\ offered' \in 0..MaxCallouts /\ counted' \in 0..MaxCallouts
      /\ CalloutsCounted' /\ spokenMuted <= offered'
  BY <1>1, <1>2, AccountedKeeps
<1>5. TypeOK'
  BY <1>1, <1>2, <1>4, CalloutsAssumption DEF Inv, TypeOK, WorkerType, Made
<1>6. CriticalsAhead'
  <2>1. Ahead(queue')
    BY <1>1 DEF Inv, CriticalsAhead, Ahead
  <2>. QED BY <1>2, <2>1 DEF Inv, CriticalsAhead, Ahead
<1>7. SessionInv'
  <2>1. (question["subscriber"].step = "answer" => question["subscriber"].of \in Made(generation))'
    BY DEF Free, None
  <2>2. \A i \in DOMAIN queue' : queue'[i].gen = generation' /\ Current(queue'[i], generation')
    BY <1>1 DEF Inv, SessionInv, Current, Made
  <2>3. worker' # Idle => worker.item.gen <= generation /\ worker.item.gen \in Nat
                          /\ worker'.item = worker.item
    <3>1. worker # Idle => worker.item.gen \in 0..MaxSessions
      BY DEF Inv, TypeOK, Callout
    <3>2. MaxSessions \in Nat
      BY CalloutsAssumption
    <3>. QED BY <1>2, <3>1, <3>2 DEF Inv, SessionInv
  <2>4. worker' # Idle => worker'.item.gen <= generation'
    BY <1>1, <1>3, <2>3
  <2>5. worker'.state \in {"window", "spawned", "speaking"} /\ worker'.item.gen = generation' =>
           Current(worker'.item, generation')
    <3>1. SUFFICES ASSUME worker'.state \in {"window", "spawned", "speaking"},
                          worker'.item.gen = generation'
                   PROVE  Current(worker'.item, generation')
      OBVIOUS
    <3>2. worker' = worker /\ worker' # Idle
      BY <1>2, <3>1 DEF Idle
    <3>3. ~new /\ generation' = generation
      BY <1>1, <1>3, <2>3, <3>1, <3>2
    <3>. QED BY <3>1, <3>2, <3>3 DEF Inv, SessionInv, Current, Made
  <2>6. worker'.state \in {"spawned", "speaking"} => worker'.item.gen = generation'
    <3>1. SUFFICES ASSUME worker'.state \in {"spawned", "speaking"}
                   PROVE  worker'.item.gen = generation'
      OBVIOUS
    <3>2. worker' = worker
      BY <1>2, <3>1
    <3>3. CASE new
      <4>1. worker' \in {Idle} \cup [state : {"window", "cancelled"}, item : Callout,
                                     late : BOOLEAN]
        BY <1>1, <3>3, CancelledKeeps DEF Inv
      <4>. QED BY <3>1, <4>1 DEF Idle
    <3>4. CASE ~new
      BY <1>1, <3>1, <3>2, <3>4 DEF Inv, SessionInv
    <3>. QED BY <3>3, <3>4
  <2>. QED BY <2>1, <2>2, <2>4, <2>5, <2>6 DEF SessionInv
<1>8. MuteInv'
  <2>1. ~enabled' => \A i \in DOMAIN queue' : queue'[i].kind \notin OnTheRace
    BY <1>1 DEF Inv, MuteInv
  <2>2. worker'.state \in {"window", "spawned"} => worker' = worker
    BY <1>2
  <2>. QED BY <1>4, <2>1, <2>2 DEF Inv, MuteInv
<1>. QED BY <1>4, <1>5, <1>6, <1>7, <1>8 DEF Inv

\* set_enabled
LEMMA SetEnabledKeeps ==
    ASSUME Inv, NEW a \in Asker, NEW announce \in BOOLEAN, SetEnabled(a, announce)
    PROVE  Inv'
<1>. DEFINE c == [kind |-> "system", gen |-> generation, of |-> generation]
<1>1. /\ enabled' = ~enabled /\ spokenMuted' = 0 /\ worker' = Cancelled(worker)
      /\ switches < MaxSwitches /\ switches' = switches + 1
      /\ UNCHANGED <<generation, snapshot, busy, question>>
  BY DEF SetEnabled
<1>2. Accounted /\ recent' \in BOOLEAN /\ From(queue', <<>>, c) /\ Ahead(queue')
  <2>0. Ahead(<<>>) /\ generation \in 0..MaxSessions /\ "system" \in Kind
    BY DEF Ahead, Inv, TypeOK, Kind
  <2>1. CASE announce
    <3>1. Queue("system", generation, generation, <<>>, Len(queue))
      BY <2>1 DEF SetEnabled
    <3>. QED BY <2>0, <3>1, QueueStep DEF Inv
  <2>2. CASE ~announce
    <3>1. /\ queue' = <<>> /\ counted' = counted + Len(queue) /\ recent' = FALSE
          /\ offered' = offered
      BY <2>2 DEF SetEnabled
    <3>2. Accounted
      BY <3>1, ClearStep DEF Inv
    <3>. QED BY <2>0, <3>1, <3>2 DEF From
  <2>. QED BY <2>1, <2>2
<1>3. /\ worker' \in WorkerType /\ (worker' = Idle <=> worker = Idle)
      /\ worker' = worker \/ worker'.state \notin {"spawned", "speaking"}
      /\ worker'.state = "window" => worker' = worker
      /\ worker' # Idle => worker'.item = worker.item
  BY <1>1, WorkerCancelled
<1>4. /\ queue' \in Seq(Callout) /\ Len(queue') <= QueueSize
      /\ offered' \in 0..MaxCallouts /\ counted' \in 0..MaxCallouts
      /\ CalloutsCounted'
  BY <1>2, <1>3, AccountedKeeps
<1>5. \A k \in DOMAIN queue' : queue'[k] = c
  BY <1>2 DEF From
<1>6. TypeOK'
  <2>1. switches' \in 0..MaxSwitches /\ spokenMuted' \in 0..MaxCallouts
    BY <1>1, CalloutsAssumption DEF Inv, TypeOK
  <2>. QED BY <1>1, <1>2, <1>3, <1>4, <2>1 DEF Inv, TypeOK, WorkerType
<1>7. CriticalsAhead'
  BY <1>2, <1>3 DEF Inv, CriticalsAhead, Ahead
<1>8. SessionInv'
  BY <1>1, <1>3, <1>5 DEF Inv, SessionInv, Current, Made
<1>9. MuteInv'
  <2>1. \A i \in DOMAIN queue' : queue'[i].kind \notin OnTheRace
    BY <1>5 DEF OnTheRace
  <2>. QED BY <1>1, <1>4, <2>1 DEF MuteInv
<1>. QED BY <1>4, <1>6, <1>7, <1>8, <1>9 DEF Inv

\* A callout that reports or answers.
LEMMA SayKeeps ==
    ASSUME Inv, NEW kind \in Kind \ OnTheRace, NEW of \in 0..MaxSessions \cup {NoSnapshot},
           kind # "typed" => of \in Made(generation),
           Say(kind, of), question' \in QuestionType,
           question'["subscriber"].step = "answer" => question'["subscriber"] = question["subscriber"],
           UNCHANGED <<enabled, generation, snapshot, busy, worker, switches, spokenMuted>>
    PROVE  Inv'
<1>. DEFINE c == [kind |-> kind, gen |-> generation, of |-> of]
<1>1. Accounted /\ recent' = TRUE /\ From(queue', queue, c) /\ (Ahead(queue) => Ahead(queue'))
  <2>1. Queue(kind, of, generation, queue, 0) /\ generation \in 0..MaxSessions
    BY DEF Say, Inv, TypeOK
  <2>. QED BY <2>1, QueueStep DEF Inv
<1>2. /\ queue' \in Seq(Callout) /\ Len(queue') <= QueueSize
      /\ offered' \in 0..MaxCallouts /\ counted' \in 0..MaxCallouts
      /\ CalloutsCounted' /\ spokenMuted <= offered'
  BY <1>1, AccountedKeeps
<1>3. TypeOK'
  BY <1>1, <1>2 DEF Inv, TypeOK, QuestionType
<1>4. CriticalsAhead'
  BY <1>1 DEF Inv, CriticalsAhead, Ahead
<1>5. SessionInv'
  <2>1. \A i \in DOMAIN queue' : queue'[i].gen = generation' /\ Current(queue'[i], generation')
    BY <1>1 DEF From, Inv, SessionInv, Current, Made
  <2>. QED BY <2>1 DEF Inv, SessionInv, Current, Made
<1>6. MuteInv'
  <2>1. ~enabled' => \A i \in DOMAIN queue' : queue'[i].kind \notin OnTheRace
    BY <1>1 DEF From, Inv, MuteInv
  <2>. QED BY <1>2, <2>1 DEF Inv, MuteInv
<1>. QED BY <1>2, <1>3, <1>4, <1>5, <1>6 DEF Inv

\* A question that is asked, or put to the agent.
LEMMA QuestionKeeps ==
    ASSUME Inv, question' \in QuestionType,
           question'["subscriber"].step = "answer" =>
              \/ question'["subscriber"] = question["subscriber"]
              \/ question'["subscriber"].of = snapshot,
           UNCHANGED <<enabled, generation, snapshot, recent, busy, queue, worker, offered,
                       counted, switches, spokenMuted>>
    PROVE  Inv'
<1>1. TypeOK'
  BY DEF Inv, TypeOK, QuestionType
<1>2. CalloutsCounted' /\ CriticalsAhead' /\ MuteInv'
  BY DEF Inv, CalloutsCounted, CriticalsAhead, MuteInv
<1>3. SessionInv'
  BY DEF Inv, SessionInv, Current, Made
<1>. QED BY <1>1, <1>2, <1>3 DEF Inv

\* A callout that is considered: dropped as obsolete, held back, or given a task.
LEMMA ConsiderKeeps ==
    ASSUME Inv, NEW c \in Callout, NEW late \in BOOLEAN, Consider(c, late),
           queue' \in Seq(Callout), Len(queue') <= QueueSize,
           Ahead(queue'), \A k \in DOMAIN queue' : \E i \in DOMAIN queue : queue'[k] = queue[i],
           offered = counted + Len(queue') + 1,
           c.gen <= generation, c.gen = generation => Current(c, generation),
           ~enabled /\ c.kind \in OnTheRace => spokenMuted = 0
    PROVE  Inv'
<1>1. UNCHANGED <<enabled, generation, snapshot, recent, busy, question, offered, switches,
                  spokenMuted>>
  BY DEF Consider, others
<1>2. CASE Obsolete(c)
  <2>1. worker' = Idle /\ counted' = counted + 1
    BY <1>2 DEF Consider
  <2>2. worker'.state = "idle"
    BY <2>1 DEF Idle
  <2>3. CalloutsCounted' /\ counted' \in 0..MaxCallouts
    BY <1>1, <2>1, CalloutsAssumption DEF Inv, TypeOK, CalloutsCounted
  <2>4. TypeOK'
    BY <1>1, <2>1, <2>3 DEF Inv, TypeOK
  <2>5. CriticalsAhead'
    BY <2>2 DEF CriticalsAhead, Ahead
  <2>6. SessionInv'
    BY <1>1, <2>1, <2>2 DEF Inv, SessionInv
  <2>7. MuteInv'
    BY <1>1, <2>2 DEF Inv, MuteInv
  <2>. QED BY <2>3, <2>4, <2>5, <2>6, <2>7 DEF Inv
<1>3. CASE ~Obsolete(c)
  <2>1. /\ worker' = [state |-> IF Delay(c, late) THEN "window" ELSE "spawned",
                      item |-> c, late |-> late]
        /\ counted' = counted
    BY <1>3 DEF Consider
  <2>2. /\ worker' \in [state : {"window", "spawned"}, item : Callout, late : BOOLEAN]
        /\ worker'.item = c
        /\ worker'.state = "window" => c.kind = "automatic"
    BY <2>1 DEF Delay
  <2>3. worker' # Idle
    BY <2>2 DEF Idle
  <2>4. CalloutsCounted'
    BY <1>1, <2>1, <2>3 DEF CalloutsCounted
  <2>5. TypeOK'
    BY <1>1, <2>1, <2>2 DEF Inv, TypeOK
  <2>6. CriticalsAhead'
    BY <2>2 DEF CriticalsAhead, Ahead
  <2>7. c.gen = generation
    BY <1>3 DEF Obsolete
  <2>8. SessionInv'
    BY <1>1, <2>2, <2>7 DEF Inv, SessionInv
  <2>9. MuteInv'
    BY <1>1, <2>2 DEF Inv, MuteInv
  <2>. QED BY <2>4, <2>5, <2>6, <2>8, <2>9 DEF Inv
<1>. QED BY <1>2, <1>3

LEMMA TakeKeeps == ASSUME Inv, Take PROVE Inv'
<1>1. /\ worker.state = "idle" /\ queue # <<>> /\ queue' = Tail(queue)
      /\ queue \in Seq(Callout) /\ Len(queue) <= QueueSize
  BY DEF Take, Inv, TypeOK
<1>2. PICK late \in BOOLEAN : Consider(Head(queue), late)
  BY DEF Take
<1>3. /\ queue' \in Seq(Callout) /\ Len(queue') = Len(queue) - 1 /\ Len(queue) \in Nat
      /\ \A k \in 1..(Len(queue) - 1) : queue'[k] = queue[k + 1]
      /\ Head(queue) \in Callout /\ Head(queue) = queue[1] /\ 1 \in DOMAIN queue
  BY <1>1
<1>4. worker = Idle
  BY <1>1 DEF Inv, TypeOK, Idle
<1>5. \A k \in DOMAIN queue' : k + 1 \in DOMAIN queue /\ queue'[k] = queue[k + 1]
  BY <1>3
<1>6. Ahead(queue')
  <2>. SUFFICES ASSUME NEW i \in DOMAIN queue', NEW j \in DOMAIN queue', i < j,
                       queue'[j].kind = "critical"
                PROVE  queue'[i].kind = "critical"
    BY DEF Ahead
  <2>1. i + 1 < j + 1
    BY <1>3
  <2>. QED BY <1>5, <2>1 DEF Inv, CriticalsAhead
<1>7. QueueSize \in Nat
  BY CalloutsAssumption
<1>8. Len(queue') <= QueueSize /\ offered = counted + Len(queue') + 1
  BY <1>1, <1>3, <1>4, <1>7, CalloutsAssumption DEF Inv, TypeOK, CalloutsCounted
<1>9. Head(queue).gen <= generation /\ Current(Head(queue), generation)
  BY <1>3, CalloutsAssumption DEF Inv, TypeOK, SessionInv
<1>10. ~enabled => Head(queue).kind \notin OnTheRace
  BY <1>3 DEF Inv, MuteInv
<1>. QED BY <1>2, <1>3, <1>5, <1>6, <1>8, <1>9, <1>10, ConsiderKeeps

\* A worker that is not idle holds a callout, and all of it is of its type.
LEMMA WorkerHolds ==
    ASSUME Inv, worker.state # "idle"
    PROVE  /\ worker \in [state : {"window", "spawned", "speaking", "cancelled"},
                          item : Callout, late : BOOLEAN]
           /\ worker # Idle
           /\ offered = counted + Len(queue) + 1 /\ Len(queue) \in Nat
           /\ counted \in Nat /\ offered \in Nat
<1>1. worker # Idle
  BY DEF Idle
<1>2. queue \in Seq(Callout) /\ counted \in 0..MaxCallouts /\ offered \in 0..MaxCallouts
  BY DEF Inv, TypeOK
<1>3. MaxCallouts \in Nat
  BY CalloutsAssumption
<1>. QED BY <1>1, <1>2, <1>3 DEF Inv, TypeOK, CalloutsCounted

LEMMA RecheckKeeps == ASSUME Inv, Recheck PROVE Inv'
<1>1. worker.state = "window" /\ Consider(worker.item, worker.late) /\ queue' = queue
  BY DEF Recheck
<1>2. /\ worker.item \in Callout /\ worker.late \in BOOLEAN /\ worker # Idle
      /\ offered = counted + Len(queue) + 1
  BY <1>1, WorkerHolds
<1>3. queue' \in Seq(Callout) /\ Len(queue') <= QueueSize /\ Ahead(queue')
  BY <1>1 DEF Inv, TypeOK, CriticalsAhead, Ahead
<1>4. /\ worker.item.gen <= generation
      /\ worker.item.gen = generation => Current(worker.item, generation)
  BY <1>1, <1>2 DEF Inv, SessionInv
<1>5. ~enabled /\ worker.item.kind \in OnTheRace => spokenMuted = 0
  BY <1>1 DEF Inv, MuteInv
<1>. QED BY <1>1, <1>2, <1>3, <1>4, <1>5, ConsiderKeeps

LEMMA MaxDelayPassesKeeps == ASSUME Inv, MaxDelayPasses PROVE Inv'
<1>1. /\ worker.state = "window" /\ worker' = [worker EXCEPT !.late = TRUE]
      /\ UNCHANGED <<others, queue, counted, spokenMuted>>
  BY DEF MaxDelayPasses
<1>2. worker \in [state : {"window", "spawned", "speaking", "cancelled"}, item : Callout,
                  late : BOOLEAN]
  BY <1>1, WorkerHolds
<1>3. /\ worker' \in [state : {"window", "spawned", "speaking", "cancelled"}, item : Callout,
                      late : BOOLEAN]
      /\ worker'.state = worker.state /\ worker'.item = worker.item
  BY <1>1, <1>2
<1>. worker # Idle /\ worker' # Idle
  BY <1>1, <1>3 DEF Idle
<1>4. TypeOK' /\ CalloutsCounted'
  BY <1>1, <1>3 DEF others, Inv, TypeOK, CalloutsCounted
<1>5. CriticalsAhead' /\ SessionInv' /\ MuteInv'
  BY <1>1, <1>3 DEF others, Inv, CriticalsAhead, SessionInv, MuteInv, Current, Made
<1>. QED BY <1>4, <1>5 DEF Inv

LEMMA BeginKeeps == ASSUME Inv, Begin PROVE Inv'
<1>1. /\ worker.state = "spawned" /\ worker' = [worker EXCEPT !.state = "speaking"]
      /\ UNCHANGED <<others, queue, counted>>
      /\ spokenMuted' = IF ~enabled /\ worker.item.kind \in OnTheRace THEN spokenMuted + 1
                        ELSE spokenMuted
  BY DEF Begin
<1>2. /\ worker \in [state : {"window", "spawned", "speaking", "cancelled"}, item : Callout,
                     late : BOOLEAN]
      /\ offered = counted + Len(queue) + 1 /\ Len(queue) \in Nat /\ counted \in Nat
      /\ worker # Idle
  BY <1>1, WorkerHolds
<1>3. /\ worker' \in [state : {"window", "spawned", "speaking", "cancelled"}, item : Callout,
                      late : BOOLEAN]
      /\ worker'.state = "speaking" /\ worker'.item = worker.item /\ worker' # Idle
  BY <1>1, <1>2 DEF Idle
<1>4. MuteInv' /\ spokenMuted' \in 0..MaxCallouts
  <2>1. offered \in 0..MaxCallouts /\ spokenMuted \in 0..MaxCallouts /\ MaxCallouts \in Nat
        /\ offered >= 1
    BY <1>2, CalloutsAssumption DEF Inv, TypeOK
  <2>2. CASE ~enabled /\ worker.item.kind \in OnTheRace
    <3>1. spokenMuted = 0
      BY <1>1, <2>2 DEF Inv, MuteInv
    <3>. QED BY <1>1, <1>3, <2>1, <2>2, <3>1 DEF others, Inv, MuteInv
  <2>3. CASE ~(~enabled /\ worker.item.kind \in OnTheRace)
    BY <1>1, <1>3, <2>1, <2>3 DEF others, Inv, MuteInv
  <2>. QED BY <2>2, <2>3
<1>5. TypeOK' /\ CalloutsCounted'
  BY <1>1, <1>2, <1>3, <1>4 DEF others, Inv, TypeOK, CalloutsCounted
<1>6. CriticalsAhead' /\ SessionInv'
  BY <1>1, <1>2, <1>3 DEF others, Inv, CriticalsAhead, SessionInv, Current, Made
<1>. QED BY <1>4, <1>5, <1>6 DEF Inv

LEMMA EndKeeps == ASSUME Inv, End PROVE Inv'
<1>1. /\ worker.state \in {"speaking", "cancelled"} /\ worker' = Idle
      /\ counted' = counted + 1 /\ UNCHANGED <<others, queue, spokenMuted>>
  BY DEF End
<1>2. /\ offered = counted + Len(queue) + 1 /\ Len(queue) \in Nat /\ counted \in Nat
      /\ offered \in Nat
  BY <1>1, WorkerHolds
<1>3. worker'.state = "idle"
  BY <1>1 DEF Idle
<1>4. counted' \in 0..MaxCallouts /\ CalloutsCounted'
  BY <1>1, <1>2, CalloutsAssumption DEF others, Inv, TypeOK, CalloutsCounted
<1>5. TypeOK'
  BY <1>1, <1>4 DEF others, Inv, TypeOK
<1>6. CriticalsAhead' /\ SessionInv' /\ MuteInv'
  BY <1>1, <1>3 DEF others, Inv, CriticalsAhead, SessionInv, MuteInv, Current, Made
<1>. QED BY <1>4, <1>5, <1>6 DEF Inv

LEMMA InitInv == ASSUME Init PROVE Inv
<1>1. queue = <<>> /\ worker = Idle /\ worker.state = "idle"
  BY DEF Init, Idle
<1>2. <<>> \in Seq(Callout) /\ Len(<<>>) = 0 /\ DOMAIN <<>> = {}
  OBVIOUS
<1>3. question = [a \in Asker |-> None] /\ question["subscriber"].step = "none"
  BY DEF Init, Asker, None
<1>4. TypeOK
  <2>1. queue \in Seq(Callout) /\ Len(queue) <= QueueSize
    BY <1>1, <1>2, CalloutsAssumption
  <2>2. question \in QuestionType
    BY <1>3 DEF QuestionType
  <2>3. /\ 0 \in 0..MaxSessions /\ 0 \in 0..MaxCallouts /\ 0 \in 0..MaxSwitches
    BY CalloutsAssumption
  <2>. QED BY <1>1, <2>1, <2>2, <2>3 DEF Init, TypeOK, QuestionType
<1>5. CalloutsCounted /\ CriticalsAhead /\ MuteInv
  BY <1>1, <1>2 DEF Init, CalloutsCounted, CriticalsAhead, MuteInv
<1>6. SessionInv
  BY <1>1, <1>2, <1>3 DEF Init, SessionInv, Made
<1>. QED BY <1>4, <1>5, <1>6 DEF Inv

LEMMA NextInv == ASSUME Inv, [Next]_vars PROVE Inv'
<1>0. generation \in 0..MaxSessions /\ MaxSessions \in Nat /\ question \in QuestionType
      /\ snapshot \in 0..MaxSessions \cup {NoSnapshot} /\ busy \in BOOLEAN
  BY CalloutsAssumption DEF Inv, TypeOK, QuestionType
<1>1. ASSUME NEW new \in BOOLEAN, RaceTable(new) PROVE Inv'
  <2>1. /\ Free("subscriber") /\ Reset(new) /\ snapshot' = generation'
        /\ busy' = (busy /\ ~new) /\ UNCHANGED <<enabled, question, switches, spokenMuted>>
    BY <1>1 DEF RaceTable
  <2>. QED BY <1>0, <2>1, TelemetryKeeps DEF Made
<1>2. ASSUME NEW new \in BOOLEAN, Trace(new) PROVE Inv'
  <2>1. /\ Free("subscriber") /\ Reset(new)
        /\ snapshot' = IF new /\ generation > 0 THEN NoSnapshot ELSE snapshot
        /\ busy' \in BOOLEAN /\ UNCHANGED <<enabled, question, switches, spokenMuted>>
    BY <1>0, <1>2 DEF Trace
  <2>2. generation' = IF new THEN generation + 1 ELSE generation
    BY <2>1 DEF Reset
  <2>3. snapshot' \in Made(generation')
    BY <1>0, <2>1, <2>2 DEF Inv, SessionInv, Made
  <2>. QED BY <2>1, <2>3, TelemetryKeeps
<1>3. CASE SampleAges
  <2>1. TypeOK'
    BY <1>3 DEF SampleAges, Inv, TypeOK
  <2>. QED BY <1>3, <2>1 DEF SampleAges, Inv, CalloutsCounted, CriticalsAhead, SessionInv,
                             Current, Made, MuteInv
<1>4. ASSUME NEW a \in Asker, Report(a) PROVE Inv'
  <2>1. "system" \in Kind \ OnTheRace
    BY DEF Kind, OnTheRace
  <2>2. generation \in Made(generation)
    BY DEF Made
  <2>. QED BY <1>0, <1>4, <2>1, <2>2, SayKeeps DEF Report
<1>5. ASSUME NEW a \in Asker, Ask(a) PROVE Inv'
  <2>1. question' = [question EXCEPT ![a] = [step |-> "answer", of |-> snapshot]]
    BY <1>5 DEF Ask, AskAgent
  <2>2. question' \in QuestionType /\
        (\/ question'["subscriber"] = question["subscriber"]
         \/ question'["subscriber"].of = snapshot)
    BY <1>0, <2>1 DEF QuestionType
  <2>. QED BY <1>5, <2>2, QuestionKeeps DEF Ask
<1>6. ASSUME NEW a \in Asker, Answer(a) PROVE Inv'
  <2>1. /\ question[a].step = "answer"
        /\ Say(IF a = "launcher" THEN "typed" ELSE "answer", question[a].of)
        /\ question' = [question EXCEPT ![a] = None]
        /\ UNCHANGED <<enabled, generation, snapshot, busy, worker, switches, spokenMuted>>
    BY <1>6 DEF Answer
  <2>2. question[a].of \in 0..MaxSessions \cup {NoSnapshot}
    BY <1>0, <2>1 DEF QuestionType, None
  <2>3. /\ question' \in QuestionType
        /\ question'["subscriber"].step = "answer" =>
              question'["subscriber"] = question["subscriber"]
    BY <1>0, <2>1 DEF QuestionType, None, Asker
  <2>4. CASE a = "launcher"
    <3>1. "typed" \in Kind \ OnTheRace
      BY DEF Kind, OnTheRace
    <3>. QED BY <2>1, <2>2, <2>3, <2>4, <3>1, SayKeeps
  <2>5. CASE a = "subscriber"
    <3>1. "answer" \in Kind \ OnTheRace
      BY DEF Kind, OnTheRace
    <3>2. question[a].of \in Made(generation)
      BY <2>1, <2>5 DEF Inv, SessionInv
    <3>3. Say("answer", question[a].of)
      BY <2>1, <2>5
    <3>. QED BY <2>1, <2>2, <2>3, <3>1, <3>2, <3>3, SayKeeps
  <2>. QED BY <2>4, <2>5 DEF Asker
<1>7. CASE AskAloud
  <2>1. /\ question' \in QuestionType
        /\ question'["subscriber"].step # "answer"
    BY <1>0, <1>7 DEF AskAloud, QuestionType, Asker
  <2>. QED BY <1>7, <2>1, QuestionKeeps DEF AskAloud
<1>8. CASE Transcribed
  <2>1. CASE AskAgent("subscriber") /\ UNCHANGED <<recent, queue, offered, counted>>
    <3>1. question' \in QuestionType /\ question'["subscriber"].of = snapshot
      BY <1>0, <2>1 DEF AskAgent, QuestionType, Asker
    <3>. QED BY <1>8, <2>1, <3>1, QuestionKeeps DEF Transcribed
  <2>2. CASE /\ Say("system", generation)
             /\ question' = [question EXCEPT !["subscriber"] = None]
    <3>1. question' \in QuestionType /\ question'["subscriber"].step # "answer"
      BY <1>0, <2>2 DEF QuestionType, Asker, None
    <3>2. "system" \in Kind \ OnTheRace /\ generation \in Made(generation)
      BY DEF Kind, OnTheRace, Made
    <3>. QED BY <1>0, <1>8, <2>2, <3>1, <3>2, SayKeeps DEF Transcribed
  <2>. QED BY <1>8, <2>1, <2>2 DEF Transcribed
<1>9. ASSUME NEW a \in Asker, NEW announce \in BOOLEAN, SetEnabled(a, announce) PROVE Inv'
  BY <1>9, SetEnabledKeeps
<1>10. CASE UNCHANGED vars
  <2>1. TypeOK'
    BY <1>10 DEF vars, Inv, TypeOK
  <2>. QED BY <1>10, <2>1 DEF vars, Inv, CalloutsCounted, CriticalsAhead, SessionInv, Current,
                              Made, MuteInv
<1>. QED BY <1>1, <1>2, <1>3, <1>4, <1>5, <1>6, <1>7, <1>8, <1>9, <1>10, TakeKeeps,
            RecheckKeeps, MaxDelayPassesKeeps, BeginKeeps, EndKeeps DEF Next

-----------------------------------------------------------------------------
(* PushToTalk.                                                             *)

\* What PTT!MicFollowsHold and PTT!ClipOfOneHold need: the thread is away from its poll only
\* while the microphone is on; a buffer that is active holds chunks of its own recording, but
\* while a second start waits for the microphone to refuse it; and the last command on its way,
\* or the microphone when none is, agrees with the button unless a command was lost.
HoldInv ==
    /\ wire \in Seq({"start", "stop"}) /\ hold \in BOOLEAN
    /\ buffer.chunks \in Seq(Nat) /\ recording \in Nat /\ clip.chunks \in Seq(Nat)
    /\ thread \in {PTT!Polling} \cup [at : {"append", "size"}, chunk : Nat, size : Nat]
    /\ buffer = [active |-> buffer.active, chunks |-> buffer.chunks, raw |-> buffer.raw]
    /\ buffer.active \in BOOLEAN /\ buffer.raw \in Nat
    /\ thread.at # "poll" => mic
    /\ buffer.active /\ ~(starting /\ mic) =>
          /\ \A i \in DOMAIN buffer.chunks : buffer.chunks[i] = recording
          /\ thread.at = "append" => thread.chunk = recording
    /\ \A i \in DOMAIN clip.chunks : clip.chunks[i] = clip.of
    /\ mic \/ starting => listening
    /\ ~lastLost /\ wire = <<>> /\ (mic \/ starting) => hold
    /\ ~lastLost /\ wire # <<>> => wire[Len(wire)] = IF hold THEN "start" ELSE "stop"

LEMMA EmptyBuffer ==
    /\ PTT!Empty.active = FALSE /\ PTT!Empty.chunks = <<>> /\ PTT!Empty.raw = 0
    /\ PTT!Empty = [active |-> PTT!Empty.active, chunks |-> PTT!Empty.chunks,
                    raw |-> PTT!Empty.raw]
    /\ PTT!Empty.chunks \in Seq(Nat) /\ DOMAIN PTT!Empty.chunks = {}
<1>1. <<>> \in Seq(Nat) /\ DOMAIN <<>> = {}
  OBVIOUS
<1>. QED BY <1>1 DEF PTT!Empty

\* The last command on the way is the same when the first is taken, and so is the first of one.
LEMMA TailLast ==
    ASSUME NEW C, NEW s \in Seq(C), s # <<>>
    PROVE  /\ Tail(s) \in Seq(C)
           /\ Tail(s) # <<>> => Tail(s)[Len(Tail(s))] = s[Len(s)]
           /\ Tail(s) = <<>> => s[Len(s)] = Head(s)
<1>1. /\ Tail(s) \in Seq(C) /\ Len(Tail(s)) = Len(s) - 1 /\ Head(s) = s[1]
      /\ Len(s) \in Nat /\ Len(s) > 0
      /\ \A k \in 1..(Len(s) - 1) : Tail(s)[k] = s[k + 1]
  OBVIOUS
<1>2. ASSUME Tail(s) # <<>> PROVE Tail(s)[Len(Tail(s))] = s[Len(s)]
  <2>1. Len(Tail(s)) > 0
    BY <1>1, <1>2
  <2>2. Len(s) - 1 \in 1..(Len(s) - 1)
    BY <1>1, <2>1
  <2>. QED BY <1>1, <2>2
<1>3. ASSUME Tail(s) = <<>> PROVE s[Len(s)] = Head(s)
  <2>1. \A t : t = <<>> => Len(t) = 0
    OBVIOUS
  <2>2. Len(s) - 1 = 0
    BY <1>1, <1>3, <2>1, Zenon
  <2>3. Len(s) \in Nat
    OBVIOUS
  <2>4. Len(s) = 1
    BY <2>2, <2>3
  <2>. QED BY <1>1, <2>4
<1>. QED BY <1>1, <1>2, <1>3

LEMMA HoldInit == ASSUME PTT!Init PROVE HoldInv
<1>1. /\ wire = <<>> /\ buffer = [active |-> FALSE, chunks |-> <<>>, raw |-> 0]
      /\ recording = 0 /\ clip = [of |-> 0, chunks |-> <<>>] /\ thread = PTT!Polling
      /\ hold = FALSE /\ mic = FALSE /\ starting = FALSE
  BY DEF PTT!Init, PTT!Empty
<1>2. <<>> \in Seq({"start", "stop"}) /\ <<>> \in Seq(Nat) /\ DOMAIN <<>> = {}
  OBVIOUS
<1>3. thread.at = "poll"
  BY <1>1 DEF PTT!Polling
<1>. QED BY <1>1, <1>2, <1>3 DEF HoldInv

LEMMA HoldNext == ASSUME HoldInv, [PTT!Next]_pttVars PROVE HoldInv'
<1>. USE DEF HoldInv
<1>0. PTT!Polling.at = "poll"
  BY DEF PTT!Polling
<1>e. /\ PTT!Empty.active = FALSE /\ PTT!Empty.chunks = <<>> /\ PTT!Empty.raw \in Nat
      /\ PTT!Empty = [active |-> PTT!Empty.active, chunks |-> PTT!Empty.chunks,
                      raw |-> PTT!Empty.raw]
      /\ PTT!Empty.chunks \in Seq(Nat) /\ DOMAIN PTT!Empty.chunks = {}
  BY EmptyBuffer
<1>1. CASE PTT!Transition
  <2>1. CASE wire' = wire /\ lastLost' = TRUE
    BY <1>1, <2>1 DEF PTT!Transition
  <2>2. CASE /\ wire' = Append(wire, IF hold THEN "stop" ELSE "start")
             /\ lastLost' = FALSE
    <3>1. /\ wire' \in Seq({"start", "stop"}) /\ wire' # <<>>
          /\ wire'[Len(wire')] = IF hold THEN "stop" ELSE "start"
      BY <2>2
    <3>. QED BY <1>1, <3>1 DEF PTT!Transition
  <2>. QED BY <1>1, <2>1, <2>2 DEF PTT!Transition
<1>2. CASE PTT!Hear
  <2>1. CASE buffer' = PTT!Empty /\ UNCHANGED thread
    BY <1>0, <1>2, <1>e, <2>1 DEF PTT!Hear
  <2>2. CASE /\ thread' = [at |-> "append", chunk |-> recording, size |-> buffer.raw + 1]
             /\ UNCHANGED buffer
    <3>1. /\ thread' \in [at : {"append", "size"}, chunk : Nat, size : Nat]
          /\ thread'.at = "append" /\ thread'.chunk = recording /\ mic
          /\ UNCHANGED <<hold, wire, lastLost, listening, starting, recording, mic, clip>>
      BY <1>2, <2>2 DEF PTT!Hear
    <3>. QED BY <2>2, <3>1
  <2>. QED BY <1>2, <2>1, <2>2 DEF PTT!Hear
<1>3. CASE PTT!AppendChunk
  <2>1. /\ thread \in [at : {"append", "size"}, chunk : Nat, size : Nat]
        /\ thread.at = "append"
    BY <1>0, <1>3 DEF PTT!AppendChunk
  <2>2. /\ buffer'.chunks = Append(buffer.chunks, thread.chunk)
        /\ buffer'.active = buffer.active /\ buffer'.raw = buffer.raw
        /\ buffer' = [active |-> buffer'.active, chunks |-> buffer'.chunks, raw |-> buffer'.raw]
    BY <1>3 DEF PTT!AppendChunk
  <2>3. /\ thread' \in [at : {"append", "size"}, chunk : Nat, size : Nat]
        /\ thread'.at = "size"
    BY <1>3, <2>1 DEF PTT!AppendChunk
  <2>4. /\ buffer'.chunks \in Seq(Nat)
        /\ \A i \in DOMAIN buffer'.chunks :
              \/ buffer'.chunks[i] = thread.chunk
              \/ i \in DOMAIN buffer.chunks /\ buffer'.chunks[i] = buffer.chunks[i]
    BY <2>1, <2>2
  <2>. QED BY <1>3, <2>1, <2>2, <2>3, <2>4 DEF PTT!AppendChunk
<1>4. CASE PTT!SetSize
  <2>1. thread \in [at : {"append", "size"}, chunk : Nat, size : Nat]
    BY <1>0, <1>4 DEF PTT!SetSize
  <2>. QED BY <1>0, <1>4, <2>1 DEF PTT!SetSize
<1>5. CASE PTT!Start
  <2>1. /\ wire # <<>> /\ Head(wire) = "start" /\ wire' = Tail(wire) /\ ~starting
        /\ UNCHANGED <<hold, lastLost, listening, asking, mic, thread, clip, presses, mutes>>
    BY <1>5 DEF PTT!Start
  <2>2. /\ wire' \in Seq({"start", "stop"})
        /\ wire' # <<>> => wire'[Len(wire')] = wire[Len(wire)]
        /\ wire' = <<>> => wire[Len(wire)] = "start"
    BY <2>1, TailLast
  <2>9. /\ ~lastLost' /\ wire' # <<>> => wire'[Len(wire')] = IF hold' THEN "start" ELSE "stop"
        /\ ~lastLost' /\ wire' = <<>> => hold'
    BY <2>1, <2>2
  <2>3. CASE /\ listening /\ buffer' = [PTT!Empty EXCEPT !.active = TRUE]
             /\ recording' = recording + 1 /\ starting' = TRUE
    <3>1. buffer' = [active |-> TRUE, chunks |-> <<>>, raw |-> 0]
      BY <2>3 DEF PTT!Empty
    <3>2. buffer'.chunks = <<>> /\ buffer'.chunks \in Seq(Nat) /\ DOMAIN buffer'.chunks = {}
      BY <3>1
    <3>3. ~(starting' /\ mic') => thread'.at = "poll"
      BY <2>1, <2>3
    <3>4. /\ buffer'.active = TRUE /\ buffer'.raw = 0
          /\ buffer' = [active |-> buffer'.active, chunks |-> buffer'.chunks,
                        raw |-> buffer'.raw]
      BY <3>1
    <3>5. recording' \in Nat /\ (mic' \/ starting' => listening')
      BY <2>1, <2>3
    <3>6. /\ clip'.chunks \in Seq(Nat) /\ (thread'.at # "poll" => mic')
          /\ \A i \in DOMAIN clip'.chunks : clip'.chunks[i] = clip'.of
          /\ thread' \in {PTT!Polling} \cup [at : {"append", "size"}, chunk : Nat, size : Nat]
          /\ wire' \in Seq({"start", "stop"}) /\ hold' \in BOOLEAN
      BY <2>1, <2>2
    <3>7. /\ buffer'.active \in BOOLEAN /\ buffer'.raw \in Nat
          /\ \A i \in DOMAIN buffer'.chunks : buffer'.chunks[i] = recording'
          /\ ~(starting' /\ mic') => thread'.at # "append"
      <4>1. \A i \in DOMAIN buffer'.chunks : buffer'.chunks[i] = recording'
        BY <3>2, Zenon
      <4>2. ~(starting' /\ mic') => thread'.at # "append"
        BY <3>3
      <4>3. buffer'.active \in BOOLEAN /\ buffer'.raw \in Nat
        BY <3>1
      <4>. QED BY <4>1, <4>2, <4>3, Zenon
    <3>8. ~lastLost' /\ wire' = <<>> /\ (mic' \/ starting') => hold'
      BY <2>9
    <3>. QED BY <2>9, <3>2, <3>4, <3>5, <3>6, <3>7, <3>8, Zenon
  <2>4. CASE UNCHANGED <<buffer, recording, starting>>
    BY <2>1, <2>2, <2>4, <2>9
  <2>. QED BY <1>5, <2>3, <2>4 DEF PTT!Start
<1>6. CASE PTT!StartMicrophone
  <2>1. CASE ~mic /\ mic' = TRUE /\ UNCHANGED buffer
    <3>1. thread.at = "poll"
      BY <2>1
    <3>. QED BY <1>6, <2>1, <3>1 DEF PTT!StartMicrophone
  <2>2. CASE buffer' = PTT!Empty /\ UNCHANGED mic
    BY <1>6, <1>e, <2>2 DEF PTT!StartMicrophone
  <2>. QED BY <1>6, <2>1, <2>2 DEF PTT!StartMicrophone
<1>7. CASE PTT!Stop
  <2>1. /\ wire # <<>> /\ Head(wire) = "stop" /\ wire' = Tail(wire) /\ ~starting
        /\ thread = PTT!Polling /\ mic' = FALSE
        /\ buffer' = IF buffer.active THEN PTT!Empty ELSE buffer
        /\ UNCHANGED <<hold, lastLost, listening, starting, recording, thread, presses, mutes>>
    BY <1>7 DEF PTT!Stop
  <2>2. /\ wire' \in Seq({"start", "stop"})
        /\ wire' # <<>> => wire'[Len(wire')] = wire[Len(wire)]
    BY <2>1, TailLast
  <2>3. PICK b \in IF mic THEN PTT!Drained(buffer) ELSE {buffer} :
           IF b.active /\ b.chunks # <<>>
           THEN clip' = [of |-> recording, chunks |-> b.chunks] /\ asking' = TRUE
           ELSE UNCHANGED <<clip, asking>>
    BY <1>7, Zenon DEF PTT!Stop
  <2>4. b.active => /\ b.chunks \in Seq(Nat)
                    /\ \A i \in DOMAIN b.chunks : b.chunks[i] = recording
    <3>1. CASE b = buffer
      BY <2>1, <3>1
    <3>2. CASE b = PTT!Empty
      BY <3>2 DEF PTT!Empty
    <3>3. CASE /\ buffer.active
               /\ b = [buffer EXCEPT !.chunks = Append(@, recording), !.raw = @ + 1]
      <4>1. b.chunks = Append(buffer.chunks, recording)
        BY <3>3
      <4>. QED BY <2>1, <3>3, <4>1
    <3>. QED BY <2>3, <3>1, <3>2, <3>3 DEF PTT!Drained
  <2>5. clip'.chunks \in Seq(Nat) /\ \A i \in DOMAIN clip'.chunks : clip'.chunks[i] = clip'.of
    BY <2>3, <2>4
  <2>. QED BY <1>0, <1>e, <2>1, <2>2, <2>5
<1>8. CASE PTT!Answered
  BY <1>8 DEF PTT!Answered
<1>9. CASE PTT!Switch
  BY <1>0, <1>e, <1>9 DEF PTT!Switch
<1>10. CASE UNCHANGED pttVars
  BY <1>10 DEF pttVars
<1>. QED BY <1>1, <1>2, <1>3, <1>4, <1>5, <1>6, <1>7, <1>8, <1>9, <1>10 DEF PTT!Next

\* The positions of the start commands on their way.
Starts(w) == {i \in DOMAIN w : w[i] = "start"}

\* What a buffer, the thread and a clip may be.
Buffers == [active : BOOLEAN, chunks : Seq(1..MaxPresses), raw : 0..MaxAudio]
Appending == [at : {"append", "size"}, chunk : 1..MaxPresses, size : 1..MaxAudio]
Clips == [of : 0..MaxPresses, chunks : Seq(1..MaxPresses)]

\* PTT!TypeOK, a variable at a time.
PressTypes ==
    /\ hold \in BOOLEAN /\ lastLost \in BOOLEAN /\ listening \in BOOLEAN
    /\ asking \in BOOLEAN /\ starting \in BOOLEAN /\ mic \in BOOLEAN
    /\ wire \in Seq({"start", "stop"})
    /\ buffer \in Buffers
    /\ thread \in {PTT!Polling} \cup Appending
    /\ clip \in Clips
    /\ recording \in 0..MaxPresses
    /\ presses \in 0..MaxPresses /\ mutes \in 0..MaxSwitches

\* What PTT!TypeOK needs: there is a press of the button for every recording and for every start
\* command that is on its way.
PressInv ==
    /\ PressTypes
    /\ buffer.active => recording # 0
    /\ recording + Cardinality(Starts(wire)) <= presses

LEMMA StartsFinite ==
    ASSUME NEW w \in Seq({"start", "stop"})
    PROVE  IsFiniteSet(Starts(w)) /\ Cardinality(Starts(w)) \in Nat
<1>1. Len(w) \in Nat /\ Starts(w) \subseteq 1..Len(w)
  BY DEF Starts
<1>2. IsFiniteSet(1..Len(w))
  BY <1>1, FS_Interval
<1>. QED BY <1>1, <1>2, FS_Subset, FS_CardinalityType

\* A command that is sent adds itself.
LEMMA StartsAppend ==
    ASSUME NEW w \in Seq({"start", "stop"}), NEW c \in {"start", "stop"}
    PROVE  Cardinality(Starts(Append(w, c))) <=
              Cardinality(Starts(w)) + IF c = "start" THEN 1 ELSE 0
<1>1. IsFiniteSet(Starts(w)) /\ Cardinality(Starts(w)) \in Nat
  BY StartsFinite
<1>2. CASE c = "start"
  <2>1. Starts(Append(w, c)) = Starts(w) \cup {Len(w) + 1}
    BY <1>2 DEF Starts
  <2>2. Cardinality(Starts(Append(w, c))) \in {Cardinality(Starts(w)), Cardinality(Starts(w)) + 1}
    BY <1>1, <2>1, FS_AddElement
  <2>. QED BY <1>1, <1>2, <2>2
<1>3. CASE c = "stop"
  <2>1. Starts(Append(w, c)) = Starts(w)
    BY <1>3 DEF Starts
  <2>. QED BY <1>1, <1>3, <2>1
<1>. QED BY <1>2, <1>3

\* The first command takes itself away.
LEMMA StartsTail ==
    ASSUME NEW w \in Seq({"start", "stop"}), w # <<>>
    PROVE  Cardinality(Starts(Tail(w))) + (IF Head(w) = "start" THEN 1 ELSE 0)
              = Cardinality(Starts(w))
<1>. DEFINE S == Starts(w) \ {1}
            f == [i \in S |-> i - 1]
<1>1. /\ Len(w) \in Nat /\ Len(w) > 0 /\ DOMAIN w = 1..Len(w) /\ Head(w) = w[1]
      /\ Tail(w) \in Seq({"start", "stop"}) /\ DOMAIN Tail(w) = 1..(Len(w) - 1)
      /\ \A i \in 1..(Len(w) - 1) : Tail(w)[i] = w[i + 1]
  OBVIOUS
<1>2. IsFiniteSet(Starts(w)) /\ Cardinality(Starts(w)) \in Nat
  BY StartsFinite
<1>3. /\ IsFiniteSet(S)
      /\ Cardinality(S) = IF 1 \in Starts(w) THEN Cardinality(Starts(w)) - 1
                                             ELSE Cardinality(Starts(w))
  BY <1>2, FS_RemoveElement
<1>4. S \subseteq 2..Len(w)
  BY <1>1 DEF Starts
<1>5. f \in Bijection(S, Starts(Tail(w)))
  <2>1. \A i \in S : f[i] \in Starts(Tail(w))
    BY <1>1, <1>4 DEF Starts
  <2>2. \A i, j \in S : f[i] = f[j] => i = j
    BY <1>4
  <2>3. \A k \in Starts(Tail(w)) : k + 1 \in S /\ f[k + 1] = k
    BY <1>1 DEF Starts
  <2>4. f \in [S -> Starts(Tail(w))]
    BY <2>1
  <2>. HIDE DEF f, S
  <2>5. \A k \in Starts(Tail(w)) : \E i \in S : f[i] = k
    BY <2>3
  <2>. QED BY <2>2, <2>4, <2>5 DEF Bijection, Injection, Surjection, IsInjective
<1>6. Cardinality(Starts(Tail(w))) = Cardinality(S)
  <2>1. ExistsBijection(S, Starts(Tail(w)))
    BY <1>5 DEF ExistsBijection
  <2>. QED BY <1>3, <2>1, FS_Bijection
<1>7. 1 \in Starts(w) <=> Head(w) = "start"
  BY <1>1 DEF Starts
<1>. QED BY <1>2, <1>3, <1>6, <1>7

\* It holds at the start, and every step keeps it.
LEMMA PressInit == ASSUME PTT!Init PROVE PressInv
<1>1. Starts(<<>>) = {}
  BY DEF Starts
<1>2. Cardinality(Starts(<<>>)) = 0
  BY <1>1, FS_EmptySet
<1>3. \A C : <<>> \in Seq(C)
  OBVIOUS
<1>4. /\ wire = <<>> /\ buffer = [active |-> FALSE, chunks |-> <<>>, raw |-> 0]
      /\ recording = 0 /\ clip = [of |-> 0, chunks |-> <<>>] /\ thread = PTT!Polling
      /\ presses = 0 /\ mutes = 0
      /\ {hold, lastLost, listening, asking, starting, mic} \subseteq BOOLEAN
  BY DEF PTT!Init, PTT!Empty
<1>5. PressTypes
  BY <1>3, <1>4, MaxAudioAssumption, MaxPressesAssumption, CalloutsAssumption
     DEF PressTypes, Buffers, Clips
<1>. QED BY <1>2, <1>4, <1>5 DEF PressInv

LEMMA PressNext == ASSUME PressInv, [PTT!Next]_pttVars PROVE PressInv'
<1>. USE MaxAudioAssumption, MaxPressesAssumption, CalloutsAssumption
         DEF PressInv, PressTypes
<1>. DEFINE n == Cardinality(Starts(wire))
<1>b. /\ buffer.active \in BOOLEAN /\ buffer.chunks \in Seq(1..MaxPresses)
      /\ buffer.raw \in 0..MaxAudio
      /\ buffer = [active |-> buffer.active, chunks |-> buffer.chunks, raw |-> buffer.raw]
      /\ \A a \in BOOLEAN, c \in Seq(1..MaxPresses), k \in 0..MaxAudio :
            [active |-> a, chunks |-> c, raw |-> k] \in Buffers
  BY DEF Buffers
<1>c. thread \in Appending =>
        /\ thread.at \in {"append", "size"} /\ thread.chunk \in 1..MaxPresses
        /\ thread.size \in 1..MaxAudio
        /\ [thread EXCEPT !.at = "size"] \in Appending
  BY DEF Appending
<1>0. /\ n \in Nat /\ PTT!Polling.at = "poll" /\ recording \in Nat /\ presses \in Nat
      /\ presses <= MaxPresses /\ recording + n <= presses
  BY StartsFinite DEF PTT!Polling
<1>e. /\ PTT!Empty \in Buffers
      /\ PTT!Empty.active = FALSE
  <2>1. <<>> \in Seq(1..MaxPresses)
    OBVIOUS
  <2>. QED BY <2>1 DEF PTT!Empty, Buffers
<1>1. CASE PTT!Transition
  <2>1. /\ wire' \in Seq({"start", "stop"})
        /\ recording + Cardinality(Starts(wire')) <= presses'
    <3>1. CASE wire' = wire
      BY <1>0, <1>1, <3>1 DEF PTT!Transition
    <3>2. CASE wire' = Append(wire, IF hold THEN "stop" ELSE "start")
      <4>. DEFINE c == IF hold THEN "stop" ELSE "start"
      <4>. c \in {"start", "stop"} /\ Append(wire, c) \in Seq({"start", "stop"})
        OBVIOUS
      <4>1. /\ Cardinality(Starts(Append(wire, c))) <= n + IF c = "start" THEN 1 ELSE 0
            /\ Cardinality(Starts(Append(wire, c))) \in Nat
        BY StartsAppend, StartsFinite
      <4>2. presses' = presses + IF c = "start" THEN 1 ELSE 0
        BY <1>0, <1>1 DEF PTT!Transition
      <4>. QED BY <1>0, <3>2, <4>1, <4>2
    <3>. QED BY <1>1, <3>1, <3>2 DEF PTT!Transition
  <2>2. hold' \in BOOLEAN /\ lastLost' \in BOOLEAN /\ presses' \in 0..MaxPresses
    <3>1. hold' = ~hold /\ lastLost' \in BOOLEAN
      BY <1>1 DEF PTT!Transition
    <3>2. presses' \in 0..MaxPresses
      <4>1. CASE hold
        BY <1>1, <4>1 DEF PTT!Transition
      <4>2. CASE ~hold
        <5>1. presses < MaxPresses /\ presses' = presses + 1
          BY <1>1, <4>2 DEF PTT!Transition
        <5>. QED BY <1>0, <5>1
      <4>. QED BY <4>1, <4>2
    <3>. QED BY <3>1, <3>2
  <2>3. UNCHANGED <<listening, asking, starting, buffer, recording, mic, thread, clip, mutes>>
    BY <1>1 DEF PTT!Transition
  <2>. QED BY <2>1, <2>2, <2>3
<1>2. CASE PTT!Hear
  <2>1. CASE buffer' = PTT!Empty /\ UNCHANGED thread
    BY <1>2, <1>e, <2>1 DEF PTT!Hear
  <2>2. CASE /\ thread' = [at |-> "append", chunk |-> recording, size |-> buffer.raw + 1]
             /\ UNCHANGED buffer /\ buffer.raw + 1 <= MaxAudio
    <3>1. thread' \in Appending
      BY <1>2, <1>b, <2>2 DEF PTT!Hear, Appending
    <3>. QED BY <1>2, <2>2, <3>1 DEF PTT!Hear
  <2>3. buffer.raw + 1 > MaxAudio \/ buffer.raw + 1 <= MaxAudio
    BY <1>b
  <2>. QED BY <1>2, <2>1, <2>2, <2>3 DEF PTT!Hear
<1>3. CASE PTT!AppendChunk
  <2>1. thread \in Appending
    BY <1>0, <1>3 DEF PTT!AppendChunk
  <2>2. /\ buffer' \in Buffers
        /\ buffer'.active = buffer.active
        /\ thread' \in Appending
    <3>1. Append(buffer.chunks, thread.chunk) \in Seq(1..MaxPresses)
      BY <1>b, <1>c, <2>1
    <3>2. buffer' = [active |-> buffer.active, chunks |-> Append(buffer.chunks, thread.chunk),
                     raw |-> buffer.raw]
      BY <1>3, <1>b DEF PTT!AppendChunk
    <3>3. thread' \in Appending
      BY <1>3, <1>c, <2>1 DEF PTT!AppendChunk
    <3>. QED BY <1>b, <3>1, <3>2, <3>3
  <2>. QED BY <1>3, <2>2 DEF PTT!AppendChunk
<1>4. CASE PTT!SetSize
  <2>1. thread \in Appending
    BY <1>0, <1>4 DEF PTT!SetSize
  <2>2. buffer' = [active |-> buffer.active, chunks |-> buffer.chunks, raw |-> thread.size]
    BY <1>4, <1>b DEF PTT!SetSize
  <2>3. thread.size \in 0..MaxAudio
    BY <1>c, <2>1
  <2>4. buffer' \in Buffers /\ buffer'.active = buffer.active
    BY <1>b, <2>2, <2>3
  <2>. QED BY <1>4, <2>4 DEF PTT!SetSize
<1>5. CASE PTT!Start
  <2>1. /\ wire # <<>> /\ Head(wire) = "start" /\ wire' = Tail(wire)
        /\ UNCHANGED <<hold, lastLost, listening, asking, mic, thread, clip, presses, mutes>>
    BY <1>5 DEF PTT!Start
  <2>2. /\ wire' \in Seq({"start", "stop"}) /\ Cardinality(Starts(wire')) + 1 = n
        /\ Cardinality(Starts(wire')) \in Nat
    BY <2>1, StartsTail, StartsFinite, TailLast
  <2>3. CASE /\ buffer' = [PTT!Empty EXCEPT !.active = TRUE]
             /\ recording' = recording + 1 /\ starting' = TRUE
    <3>1. /\ buffer' \in Buffers
      <4>1. buffer' = [active |-> TRUE, chunks |-> <<>>, raw |-> 0]
        BY <2>3 DEF PTT!Empty
      <4>2. <<>> \in Seq(1..MaxPresses)
        OBVIOUS
      <4>. QED BY <4>1, <4>2 DEF Buffers
    <3>2. recording' \in 0..MaxPresses /\ recording' # 0
          /\ recording' + Cardinality(Starts(wire')) <= presses'
      <4>. HIDE DEF n, PressInv, PressTypes
      <4>1. presses' = presses /\ recording' = recording + 1
        BY <2>1, <2>3
      <4>. QED BY <1>0, <2>2, <4>1
    <3>. QED BY <2>1, <2>2, <2>3, <3>1, <3>2
  <2>4. CASE UNCHANGED <<buffer, recording, starting>>
    BY <1>0, <2>1, <2>2, <2>4
  <2>. QED BY <1>5, <2>3, <2>4 DEF PTT!Start
<1>6. CASE PTT!StartMicrophone
  BY <1>6, <1>e DEF PTT!StartMicrophone
<1>7. CASE PTT!Stop
  <2>1. /\ wire # <<>> /\ wire' = Tail(wire) /\ mic' = FALSE /\ Head(wire) = "stop"
        /\ buffer' = IF buffer.active THEN PTT!Empty ELSE buffer
        /\ UNCHANGED <<hold, lastLost, listening, starting, recording, thread, presses, mutes>>
    BY <1>7 DEF PTT!Stop
  <2>2. /\ wire' \in Seq({"start", "stop"}) /\ Cardinality(Starts(wire')) = n
    <3>1. /\ Tail(wire) \in Seq({"start", "stop"})
          /\ Cardinality(Starts(Tail(wire))) + (IF Head(wire) = "start" THEN 1 ELSE 0) = n
          /\ Cardinality(Starts(Tail(wire))) \in Nat
      BY <2>1, StartsTail, StartsFinite, TailLast
    <3>. QED BY <1>0, <2>1, <3>1
  <2>3. PICK b \in IF mic THEN PTT!Drained(buffer) ELSE {buffer} :
           IF b.active /\ b.chunks # <<>>
           THEN clip' = [of |-> recording, chunks |-> b.chunks] /\ asking' = TRUE
           ELSE UNCHANGED <<clip, asking>>
    BY <1>7, Zenon DEF PTT!Stop
  <2>4. b.active => b.chunks \in Seq(1..MaxPresses)
    <3>1. CASE b = buffer \/ b = PTT!Empty
      BY <1>b, <1>e, <2>3, <3>1
    <3>2. CASE /\ buffer.active
               /\ b = [buffer EXCEPT !.chunks = Append(@, recording), !.raw = @ + 1]
      <4>1. b.chunks = Append(buffer.chunks, recording)
        BY <3>2
      <4>2. recording \in 1..MaxPresses
        BY <3>2
      <4>. QED BY <1>b, <4>1, <4>2
    <3>. QED BY <2>3, <3>1, <3>2 DEF PTT!Drained
  <2>5. clip' \in Clips /\ asking' \in BOOLEAN
    <3>1. CASE /\ b.active
               /\ clip' = [of |-> recording, chunks |-> b.chunks] /\ asking' = TRUE
      BY <2>4, <3>1 DEF Clips
    <3>2. CASE UNCHANGED <<clip, asking>>
      BY <3>2
    <3>. QED BY <2>3, <3>1, <3>2
  <2>. QED BY <1>0, <1>e, <2>1, <2>2, <2>5
<1>8. CASE PTT!Answered
  BY <1>8 DEF PTT!Answered
<1>9. CASE PTT!Switch
  <2>1. /\ mutes' \in 0..MaxSwitches /\ listening' \in BOOLEAN /\ mic' \in BOOLEAN
        /\ buffer' \in {buffer, PTT!Empty}
        /\ UNCHANGED <<hold, wire, lastLost, asking, starting, recording, thread, clip, presses>>
    <3>1. listening' = ~listening /\ mutes' = mutes + 1 /\ mutes < MaxSwitches
      BY <1>9 DEF PTT!Switch
    <3>2. mutes' \in 0..MaxSwitches /\ listening' \in BOOLEAN
      BY <3>1
    <3>3. mic' \in {mic, FALSE} /\ buffer' \in {buffer, PTT!Empty}
      BY <1>9, Zenon DEF PTT!Switch
    <3>4. UNCHANGED <<hold, wire, lastLost, asking, starting, recording, thread, clip, presses>>
      BY <1>9, Zenon DEF PTT!Switch
    <3>. QED BY <3>2, <3>3, <3>4
  <2>. QED BY <1>e, <2>1
<1>10. CASE UNCHANGED pttVars
  BY <1>10 DEF pttVars
<1>. QED BY <1>1, <1>2, <1>3, <1>4, <1>5, <1>6, <1>7, <1>8, <1>9, <1>10 DEF PTT!Next

-----------------------------------------------------------------------------
(* The theorems.                                                           *)

\* Whatever the handlers, the worker and the task it speaks in do between two awaits, the
\* invariant of the callouts holds.
THEOREM CalloutsInvariant == Spec => []Inv
BY InitInv, NextInv, PTL DEF Spec

THEOREM CalloutsTyped == Spec => []TypeOK
<1>1. Inv => TypeOK
  BY DEF Inv
<1>. QED BY <1>1, CalloutsInvariant, PTL

\* The statistics account for every callout: it waits, is in the worker's hands, or was counted
\* once, whatever the queue's limit, a mute, a new session or a cancelled task did to it.
THEOREM EveryCalloutCounted == Spec => []CalloutsCounted
<1>1. Inv => CalloutsCounted
  BY DEF Inv
<1>. QED BY <1>1, CalloutsInvariant, PTL

\* What is being said was made in this session, and from telemetry of this session unless it
\* answers a question typed in the launcher or asked before the first session UID.
THEOREM AdviceOfThisSession == Spec => []OldSessionSilent
<1>1. Inv => OldSessionSilent
  <2>1. SUFFICES ASSUME Inv, worker.state = "speaking"
                 PROVE  /\ worker.item.gen = generation
                        /\ worker.item.kind # "typed" =>
                              worker.item.of \in {generation, 0, NoSnapshot}
    BY DEF OldSessionSilent
  <2>. QED BY <2>1 DEF Inv, SessionInv, Current, Made
<1>. QED BY <1>1, CalloutsInvariant, PTL

\* A mute leaves no callout on the race in the queue, and none joins it while muted.
THEOREM MuteClears == Spec => []MutedQueue
<1>1. Inv => MutedQueue
  BY DEF Inv, MuteInv, MutedQueue
<1>. QED BY <1>1, CalloutsInvariant, PTL

\* A callout on the race that begins while muted is the one that was held back when the mute
\* came: there is at most one of a mute.
THEOREM MutedOnce == Spec => [](spokenMuted <= 1)
<1>1. Inv => spokenMuted <= 1
  BY DEF Inv, MuteInv
<1>. QED BY <1>1, CalloutsInvariant, PTL

\* No callout waits ahead of a critical one, and none that is critical is held back.
THEOREM CriticalAheadOfAll == Spec => []CriticalsAhead
<1>1. Inv => CriticalsAhead
  BY DEF Inv
<1>. QED BY <1>1, CalloutsInvariant, PTL

\* What is recognized was recorded under the last start command and no other, and the microphone
\* is on only while the engineer is and, unless a command was lost, only while the button is
\* down or a command that tells of it is on its way.
THEOREM HoldRespected == PTT!Spec => []HoldIsRespected
<1>1. HoldInv => HoldIsRespected
  BY DEF HoldInv, HoldIsRespected, PTT!ClipOfOneHold, PTT!MicFollowsHold
<1>2. HoldInv /\ [PTT!Next]_(PTT!vars) => HoldInv'
  BY HoldNext DEF pttVars, PTT!vars
<1>. QED BY <1>1, <1>2, HoldInit, PTL DEF PTT!Spec

\* The composition is an execution of both, so that all of the above holds of it.
THEOREM BothParts == MCSpec => Spec /\ PTT!Spec
<1>1. MCInit => Init /\ PTT!Init
  BY DEF MCInit
<1>2. [MCNext]_<<part, vars, pttVars>> => [Next]_vars /\ [PTT!Next]_(PTT!vars)
  BY DEF MCNext, pttVars, PTT!vars
<1>. QED BY <1>1, <1>2, PTL DEF MCSpec, Spec, PTT!Spec

\* Every variable of both has its type: no queue of the mouth and no buffer of the ears is ever
\* longer, and no recording more than the button was pressed for.
THEOREM EngineerTyped == MCSpec => []TypesOK
<1>1. PTT!Spec => []PTT!TypeOK
  <2>1. PressInv /\ [PTT!Next]_(PTT!vars) => PressInv'
    BY PressNext DEF pttVars, PTT!vars
  <2>2. PressInv => PTT!TypeOK
    BY Zenon DEF PressInv, PressTypes, PTT!TypeOK, Buffers, Appending, Clips
  <2>. QED BY <2>1, <2>2, PressInit, PTL DEF PTT!Spec
<1>2. TypeOK /\ PTT!TypeOK => TypesOK
  BY DEF TypesOK
<1>. QED BY <1>1, <1>2, BothParts, CalloutsTyped, PTL
=============================================================================
