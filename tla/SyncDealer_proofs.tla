------------------------- MODULE SyncDealer_proofs -------------------------
(***************************************************************************)
(* The dealer with a thread of its own keeps the promise of RequestReply   *)
(* too, for any set of threads and any number of requests, although its    *)
(* wire may reorder replies at will and its threads meet in three          *)
(* variables that no lock guards.                                          *)
(*                                                                         *)
(* The lock is taken before a request is numbered, so its holder makes the *)
(* youngest request of all and every other one is over (LockInv).  A       *)
(* number is in one place at a time: the pipe, the wire, the slot, or an   *)
(* outcome (PlaceInv).                                                     *)
(***************************************************************************)
EXTENDS SyncDealer, Replies_proofs, SequenceTheorems

Constants == MaxSends \in Nat /\ Nobody \notin Thread

Holds(t) == step[t] \in {"erase", "write", "wait"}

LockInv ==
    /\ \A t \in Thread : Holds(t) <=> lock = t
    /\ \A t \in Thread : lock = t => sent # 0 /\ req[t] = sent
    /\ \A n \in Request : outcome[n] = Unresolved <=> n > sent \/ (n = sent /\ lock # Nobody)

InPipe(m) == \E i \in 1..Len(pipe) : pipe[i] = m
Given(m) == \E n \in Request : outcome[n] = Reply(m)
Travelled(m) == InPipe(m) \/ m \in wire \/ slot = Reply(m) \/ Given(m)

PlaceInv ==
    /\ \A i, j \in 1..Len(pipe) : pipe[i] = pipe[j] => i = j \/ pipe[i] = Stop
    /\ \A m \in Request :
          /\ InPipe(m) => m \notin wire /\ slot # Reply(m) /\ ~Given(m)
          /\ m \in wire => slot # Reply(m) /\ ~Given(m)
          /\ slot = Reply(m) => ~Given(m)

\* What travelled was written by the lock's holder or an earlier one.
TravelInv ==
    \A m \in Request : Travelled(m) =>
        /\ m <= sent
        /\ \A t \in Thread : step[t] \in {"erase", "write"} => m # sent

Abandoned(m) == \E k \in 1..m : outcome[k].kind \in Reason

GivenInv ==
    \A n, m \in Request : outcome[n] = Reply(m) => m <= n /\ (m # n => Abandoned(m))

Inv == TypeOK /\ LockInv /\ PlaceInv /\ TravelInv /\ GivenInv

-----------------------------------------------------------------------------

LEMMA Numbers ==
    ASSUME Constants
    PROVE  /\ MaxSends \in Nat /\ Request \subseteq Nat /\ Request \subseteq 0..MaxSends
           /\ \A n \in 0..MaxSends : n # 0 <=> n \in Request
           /\ Stop \in 0..MaxSends /\ Stop \notin Request
BY DEF Constants, Request, Stop

\* A send() that returns: with a failure, or with the reply in the slot, which it takes.
Returns(t) ==
    \E r \in Result :
        /\ Holds(t) /\ Return(t, r) /\ r # Unresolved
        /\ \/ (\E why \in Reason : r = Failure(why)) /\ slot' \in {slot, Unresolved}
           \/ r = slot /\ slot' = Unresolved
        /\ UNCHANGED <<pipe, event, awaiting, life, deaf, wire>>

LEMMA HowSendReturns ==
    ASSUME TypeOK, NEW t \in Thread, WriteFails(t) \/ Wake(t) \/ Timeout(t)
    PROVE  Returns(t)
<1>. USE DEF handover, Holds
<1>1. CASE WriteFails(t)
  BY <1>1, Results DEF WriteFails, Returns, Reason
<1>2. CASE Wake(t)
  <2>1. CASE slot = Unresolved
    BY <1>2, <2>1, Results DEF Wake, Returns, Reason
  <2>2. CASE slot # Unresolved
    BY <1>2, <2>2, Results DEF Wake, Returns, TypeOK
  <2>. QED BY <2>1, <2>2
<1>3. CASE Timeout(t)
  BY <1>3, Results DEF Timeout, Returns, Reason
<1>. QED BY <1>1, <1>2, <1>3

LEMMA TypeStep ==
    ASSUME Constants, TypeOK, LockInv, [Next]_vars
    PROVE  TypeOK'
<1>. USE Numbers DEF caller, handover, life
<1>1. ASSUME NEW t \in Thread, Call(t) PROVE TypeOK'
  BY <1>1 DEF Call, TypeOK
<1>2. ASSUME NEW t \in Thread, Acquire(t) PROVE TypeOK'
  <2>1. sent' \in 0..MaxSends /\ req' \in [Thread -> 0..MaxSends]
    BY <1>2 DEF Acquire, TypeOK
  <2>. QED BY <1>2, <2>1 DEF Acquire, TypeOK
<1>3. ASSUME NEW t \in Thread, Erase(t) PROVE TypeOK'
  BY <1>3, Results DEF Erase, TypeOK
<1>4. ASSUME NEW t \in Thread, Write(t) PROVE TypeOK'
  <2>1. pipe' \in Seq(0..MaxSends)
    BY <1>4 DEF Write, TypeOK
  <2>. QED BY <1>4, <2>1 DEF Write, TypeOK
<1>5. ASSUME NEW t \in Thread, Returns(t) PROVE TypeOK'
  <2>1. PICK r \in Result : /\ Return(t, r) /\ slot' \in {slot, Unresolved}
                            /\ UNCHANGED <<pipe, event, awaiting, life, deaf, wire>>
    BY <1>5 DEF Returns
  <2>2. outcome' \in [Request -> Result] /\ slot' \in Result
    BY <2>1, Results DEF Return, TypeOK
  <2>3. step' \in [Thread -> {"idle", "lock", "erase", "write", "wait"}]
    BY <2>1 DEF Return, TypeOK
  <2>. QED BY <2>1, <2>2, <2>3 DEF Return, TypeOK
<1>6. CASE Start
  BY <1>6 DEF Start, TypeOK
<1>7. CASE Command
  <2>1. Head(pipe) \in 0..MaxSends /\ pipe' \in Seq(0..MaxSends)
    BY <1>7 DEF Command, TypeOK
  <2>2. Head(pipe) # Stop => Head(pipe) \in Request
    BY <2>1 DEF Stop
  <2>3. Failure("error") \in Result
    BY Results DEF Reason
  <2>. QED BY <1>7, <2>1, <2>2, <2>3 DEF Command, Deposit, TypeOK
<1>8. CASE Receive
  BY <1>8, Results DEF Receive, Deposit, TypeOK
<1>9. CASE ReceiveFails
  <2>1. Failure("error") \in Result
    BY Results DEF Reason
  <2>. QED BY <1>9, <2>1 DEF ReceiveFails, Deposit, TypeOK
<1>10. CASE PollFails \/ Close \/ UNCHANGED vars
  BY <1>10 DEF PollFails, Close, vars, TypeOK
<1>11. CASE Finish
  BY <1>11 DEF Finish, TypeOK
<1>12. CASE CloseSends
  <2>1. pipe \in Seq(0..MaxSends) /\ Append(pipe, Stop) \in Seq(0..MaxSends)
    BY AppendProperties DEF TypeOK
  <2>. QED BY <1>12, <2>1 DEF CloseSends, TypeOK
<1>. QED
  BY <1>1, <1>2, <1>3, <1>4, <1>5, <1>6, <1>7, <1>8, <1>9, <1>10, <1>11, <1>12,
     HowSendReturns DEF Next, Send, Loop

LEMMA LockStep ==
    ASSUME Constants, TypeOK, LockInv, [Next]_vars
    PROVE  LockInv'
<1>. USE Numbers DEF caller, handover, life
<1>0. /\ sent \in Nat /\ Nobody \notin Thread
      /\ \A n \in Request : n \in Nat /\ n # 0
  BY DEF TypeOK, Constants, Request
<1>1. ASSUME NEW t \in Thread, Call(t) PROVE LockInv'
  <2>1. \A u \in Thread : Holds(u)' <=> Holds(u)
    BY <1>1 DEF Call, Holds, TypeOK
  <2>. QED BY <1>1, <2>1 DEF Call, LockInv
<1>2. ASSUME NEW t \in Thread, Acquire(t) PROVE LockInv'
  <2>1. /\ lock = Nobody /\ lock' = t /\ sent' = sent + 1 /\ step'[t] = "erase"
        /\ req'[t] = sent + 1 /\ outcome' = outcome
        /\ \A u \in Thread : u # t => step'[u] = step[u]
    BY <1>2 DEF Acquire, TypeOK
  <2>2. \A u \in Thread : Holds(u)' <=> lock' = u
    BY <1>0, <2>1 DEF LockInv, Holds
  <2>3. \A n \in Request : n > sent <=> n > sent + 1 \/ n = sent + 1
    BY <1>0
  <2>4. \A n \in Request : outcome'[n] = Unresolved <=> n > sent' \/ (n = sent' /\ lock' # Nobody)
    BY <1>0, <2>1, <2>3 DEF LockInv
  <2>5. \A u \in Thread : lock' = u => sent' # 0 /\ req'[u] = sent'
    BY <1>0, <2>1
  <2>. QED BY <2>2, <2>4, <2>5 DEF LockInv
<1>3. ASSUME NEW t \in Thread, Erase(t) \/ Write(t) PROVE LockInv'
  <2>1. \A u \in Thread : Holds(u)' <=> Holds(u)
    BY <1>3 DEF Erase, Write, Holds, TypeOK
  <2>. QED BY <1>3, <2>1 DEF Erase, Write, LockInv
<1>4. ASSUME NEW t \in Thread, Returns(t) PROVE LockInv'
  <2>1. PICK r \in Result : Holds(t) /\ Return(t, r) /\ r # Unresolved
    BY <1>4 DEF Returns
  <2>2. /\ lock = t /\ lock' = Nobody /\ req' = req /\ sent' = sent
        /\ req[t] = sent /\ sent \in Request
        /\ outcome'[sent] # Unresolved
        /\ \A n \in Request : n # sent => outcome'[n] = outcome[n]
    BY <2>1 DEF Return, LockInv, TypeOK
  <2>3. step'[t] = "idle" /\ \A u \in Thread : u # t => step'[u] = step[u]
    BY <2>1 DEF Return, TypeOK
  <2>4. \A u \in Thread : ~Holds(u)' /\ lock' # u
    BY <1>0, <2>2, <2>3 DEF LockInv, Holds
  <2>5. \A n \in Request : outcome'[n] = Unresolved <=> n > sent' \/ (n = sent' /\ lock' # Nobody)
    BY <1>0, <2>2 DEF LockInv
  <2>. QED BY <2>4, <2>5 DEF LockInv
<1>5. CASE UNCHANGED caller
  BY <1>5 DEF LockInv, Holds
<1>6. CASE Loop \/ Close \/ CloseSends \/ UNCHANGED vars
  BY <1>5, <1>6 DEF Loop, Start, Command, Receive, ReceiveFails, PollFails, Finish, Close,
     CloseSends, vars
<1>. QED BY <1>1, <1>2, <1>3, <1>4, <1>6, HowSendReturns DEF Next, Send

-----------------------------------------------------------------------------
(* The places of a number.                                                 *)

LEMMA InitInv == ASSUME Constants, Init PROVE Inv
<1>. USE Numbers
<1>1. TypeOK
  <2>1. outcome \in [Request -> Result] /\ slot \in Result
    BY Results DEF Init
  <2>2. pipe \in Seq(0..MaxSends)
    BY DEF Init
  <2>. QED BY <2>1, <2>2 DEF Init, TypeOK
<1>2. LockInv
  BY DEF Init, LockInv, Holds, Constants, Request
<1>3. \A m \in Request : ~InPipe(m) /\ m \notin wire /\ slot # Reply(m) /\ ~Given(m)
  BY Results DEF Init, InPipe, Given
<1>4. PlaceInv
  BY <1>3 DEF PlaceInv, Init
<1>5. TravelInv /\ GivenInv
  BY <1>3 DEF TravelInv, Travelled, GivenInv, Given
<1>. QED BY <1>1, <1>2, <1>4, <1>5 DEF Inv

\* Numbers move from place to place, or vanish, beside the threads that call send().
LEMMA Moves ==
    ASSUME Inv, UNCHANGED caller, PlaceInv', \A m \in Request : Travelled(m)' => Travelled(m)
    PROVE  TravelInv' /\ GivenInv'
<1>1. TravelInv'
  BY DEF caller, Inv, TravelInv
<1>2. GivenInv'
  BY DEF caller, Inv, GivenInv, Abandoned
<1>. QED BY <1>1, <1>2

\* The reply that a thread takes from the slot is one it may have.
LEMMA TakenMayAnswer ==
    ASSUME Constants, Inv, NEW t \in Thread, Holds(t), NEW m \in Request, slot = Reply(m)
    PROVE  /\ m <= req[t] /\ (m # req[t] => Abandoned(m))
           /\ \A k \in Request : outcome[k] # Reply(m)
<1>1. m <= sent /\ req[t] = sent /\ \A k \in Request : outcome[k] # Reply(m)
  BY DEF Inv, TravelInv, Travelled, LockInv, PlaceInv, Given
<1>2. ASSUME m # sent PROVE Abandoned(m)
  <2>1. outcome[m] # Unresolved /\ outcome[m] \in Result /\ m \in Nat /\ m \in 1..m
    BY <1>1, <1>2, Numbers DEF Inv, TypeOK, LockInv, Request
  <2>2. CASE \E why \in Reason : outcome[m] = Failure(why)
    BY <2>1, <2>2, Results DEF Abandoned
  <2>3. ASSUME NEW j \in Request, outcome[m] = Reply(j) PROVE Abandoned(m)
    <3>1. j <= m /\ j # m /\ Abandoned(j)
      BY <2>3, <1>1 DEF Inv, GivenInv
    <3>. QED BY <3>1, <2>1, Numbers DEF Abandoned
  <2>. QED BY <2>1, <2>2, <2>3, Results
<1>. QED BY <1>1, <1>2

LEMMA ReturnKeeps ==
    ASSUME Constants, Inv, NEW t \in Thread, Returns(t)
    PROVE  PlaceInv' /\ TravelInv' /\ GivenInv'
<1>1. PICK r \in Result :
         /\ Holds(t) /\ Return(t, r) /\ r # Unresolved
         /\ \/ (\E why \in Reason : r = Failure(why)) /\ slot' \in {slot, Unresolved}
            \/ r = slot /\ slot' = Unresolved
         /\ UNCHANGED <<pipe, event, awaiting, life, deaf, wire>>
  BY DEF Returns
<1>2. /\ req[t] = sent /\ sent \in Request /\ sent' = sent /\ outcome[sent] = Unresolved
      /\ outcome'[sent] = r /\ \A n \in Request : n # sent => outcome'[n] = outcome[n]
      /\ lock = t /\ step'[t] = "idle" /\ \A u \in Thread : u # t => step'[u] = step[u]
  BY <1>1, Numbers DEF Return, Inv, LockInv, TypeOK, Constants, Request
<1>3. \A m \in Request : /\ InPipe(m)' <=> InPipe(m)
                         /\ m \in wire' <=> m \in wire
                         /\ slot' = Reply(m) => slot = Reply(m) /\ r # Reply(m)
                         /\ Given(m)' => Given(m) \/ (r = Reply(m) /\ slot = Reply(m))
  BY <1>1, <1>2, Results DEF InPipe, Given
<1>4. PlaceInv'
  BY <1>1, <1>3 DEF Inv, PlaceInv
<1>5. \A m \in Request : Travelled(m)' => Travelled(m)
  BY <1>3 DEF Travelled
<1>6. TravelInv'
  BY <1>2, <1>5 DEF Inv, TravelInv
<1>7. \A m \in Request : Abandoned(m) => Abandoned(m)'
  BY <1>2, Results, Numbers DEF Abandoned, Request
<1>8. GivenInv'
  <2>. SUFFICES ASSUME NEW n \in Request, NEW m \in Request, outcome'[n] = Reply(m)
                PROVE  m <= n /\ (m # n => Abandoned(m)')
    BY DEF GivenInv
  <2>1. CASE n = sent
    <3>1. slot = Reply(m)
      BY <1>1, <1>2, <2>1, Results
    <3>. QED BY <1>1, <1>2, <1>7, <2>1, <3>1, TakenMayAnswer
  <2>2. CASE n # sent
    BY <1>2, <1>7, <2>2 DEF Inv, GivenInv
  <2>. QED BY <2>1, <2>2
<1>. QED BY <1>4, <1>6, <1>8

LEMMA PlaceStep ==
    ASSUME Constants, Inv, [Next]_vars
    PROVE  PlaceInv' /\ TravelInv' /\ GivenInv'
<1>. USE Numbers DEF caller, handover, life
<1>0. /\ pipe \in Seq(0..MaxSends) /\ Len(pipe) \in Nat
      /\ \A i \in 1..Len(pipe) : pipe[i] \in 0..MaxSends
      /\ sent \in Nat /\ \A m \in Request : m \in Nat
  BY DEF Inv, TypeOK
<1>1. ASSUME NEW t \in Thread, Call(t) \/ Acquire(t) \/ Erase(t)
      PROVE  PlaceInv' /\ TravelInv' /\ GivenInv'
  <2>1. /\ outcome' = outcome /\ pipe' = pipe /\ wire' = wire /\ slot' \in {slot, Unresolved}
        /\ \/ sent' = sent /\ (\A u \in Thread : step'[u] \in {"erase", "write"} =>
                                                   step[u] \in {"erase", "write"})
           \/ sent' = sent + 1
    BY <1>1 DEF Call, Acquire, Erase, Inv, TypeOK
  <2>2. \A m \in Request : /\ InPipe(m)' <=> InPipe(m)
                           /\ Given(m)' <=> Given(m)
                           /\ slot' = Reply(m) => slot = Reply(m)
    BY <2>1, Results DEF InPipe, Given
  <2>3. \A m \in Request : Travelled(m)' => Travelled(m)
    BY <2>1, <2>2 DEF Travelled
  <2>4. PlaceInv'
    BY <2>1, <2>2 DEF Inv, PlaceInv
  <2>5. TravelInv'
    <3>1. CASE sent' = sent + 1
      BY <1>0, <2>3, <3>1 DEF Inv, TravelInv
    <3>2. CASE sent' = sent
      BY <1>0, <2>1, <2>3, <3>2 DEF Inv, TravelInv
    <3>. QED BY <2>1, <3>1, <3>2
  <2>6. GivenInv'
    BY <2>1 DEF Inv, GivenInv, Abandoned
  <2>. QED BY <2>4, <2>5, <2>6
<1>2. ASSUME NEW t \in Thread, Write(t) PROVE PlaceInv' /\ TravelInv' /\ GivenInv'
  <2>1. /\ step[t] = "write" /\ lock = t /\ req[t] = sent /\ sent \in Request
        /\ step'[t] = "wait" /\ \A u \in Thread : u # t => step'[u] = step[u]
        /\ pipe' = Append(pipe, sent)
        /\ UNCHANGED <<sent, outcome, slot, wire>>
    BY <1>2 DEF Write, Inv, TypeOK, LockInv, Holds
  <2>2. /\ Len(pipe') = Len(pipe) + 1 /\ pipe'[Len(pipe) + 1] = sent
        /\ \A i \in 1..Len(pipe) : pipe'[i] = pipe[i]
        /\ 1..Len(pipe') = 1..Len(pipe) \cup {Len(pipe) + 1}
    BY <1>0, <2>1
  <2>3. ~Travelled(sent)
    BY <2>1 DEF Inv, TravelInv
  <2>4. \A m \in Request : /\ InPipe(m)' => InPipe(m) \/ m = sent
                           /\ Given(m)' <=> Given(m)
    BY <2>1, <2>2 DEF InPipe, Given
  <2>5. \A i \in 1..Len(pipe) : pipe[i] # sent
    BY <2>3 DEF Travelled, InPipe
  <2>6. PlaceInv'
    <3>1. \A i, j \in 1..Len(pipe') : pipe'[i] = pipe'[j] => i = j \/ pipe'[i] = Stop
      BY <2>2, <2>5 DEF Inv, PlaceInv
    <3>. QED BY <2>1, <2>3, <2>4, <3>1 DEF Inv, PlaceInv, Travelled
  <2>7. TravelInv'
    <3>1. \A m \in Request : Travelled(m)' => Travelled(m) \/ m = sent
      BY <2>1, <2>4 DEF Travelled
    <3>2. \A u \in Thread : step'[u] \notin {"erase", "write"}
      BY <2>1 DEF Inv, LockInv, Holds
    <3>. QED BY <1>0, <2>1, <3>1, <3>2 DEF Inv, TravelInv
  <2>8. GivenInv'
    BY <2>1 DEF Inv, GivenInv, Abandoned
  <2>. QED BY <2>6, <2>7, <2>8
<1>3. ASSUME NEW t \in Thread, Returns(t) PROVE PlaceInv' /\ TravelInv' /\ GivenInv'
  BY <1>3, ReturnKeeps
<1>4. ASSUME UNCHANGED <<outcome, pipe, wire>>,
             slot' = slot \/ (\A m \in Request : slot' # Reply(m))
      PROVE  PlaceInv' /\ \A m \in Request : Travelled(m)' => Travelled(m)
  <2>1. \A m \in Request : /\ InPipe(m)' <=> InPipe(m)
                           /\ Given(m)' <=> Given(m)
                           /\ slot' = Reply(m) => slot = Reply(m)
    BY <1>4 DEF InPipe, Given
  <2>. QED BY <1>4, <2>1 DEF Inv, PlaceInv, Travelled
<1>5. \A m \in Request : Failure("error") # Reply(m)
  BY Results DEF Reason
<1>6. CASE Start \/ ReceiveFails \/ PollFails \/ Close
  BY <1>4, <1>5, <1>6, Moves DEF Start, ReceiveFails, PollFails, Close, Deposit
<1>7. CASE Command
  <2>1. /\ UNCHANGED caller
        /\ 1 \in 1..Len(pipe) /\ Head(pipe) = pipe[1] /\ Len(pipe') = Len(pipe) - 1
        /\ \A i \in 1..Len(pipe') : pipe'[i] = pipe[i+1] /\ i + 1 \in 1..Len(pipe)
        /\ \/ slot' \in {slot, Failure("error")} /\ wire' = wire
           \/ slot' = slot /\ pipe[1] # Stop /\ wire' = wire \cup {pipe[1]}
    BY <1>0, <1>7 DEF Command, Deposit
  <2>2. \A m \in Request : /\ InPipe(m)' => InPipe(m) /\ m # pipe[1]
                           /\ Given(m)' <=> Given(m)
                           /\ slot' = Reply(m) => slot = Reply(m)
    <3>1. \A i \in 1..Len(pipe') : i + 1 # 1
      BY <1>0, <2>1
    <3>. QED BY <1>5, <2>1, <3>1 DEF InPipe, Given, Inv, PlaceInv
  <2>3. pipe[1] \in Request => InPipe(pipe[1])
    BY <2>1 DEF InPipe
  <2>4. ASSUME NEW i \in 1..Len(pipe'), NEW j \in 1..Len(pipe'), pipe'[i] = pipe'[j]
        PROVE  i = j \/ pipe'[i] = Stop
    <3>1. i + 1 = j + 1 \/ pipe[i+1] = Stop
      BY <2>1, <2>4 DEF Inv, PlaceInv
    <3>. QED BY <2>1, <3>1
  <2>5. PlaceInv'
    BY <2>1, <2>2, <2>3, <2>4 DEF Inv, PlaceInv
  <2>6. \A m \in Request : Travelled(m)' => Travelled(m)
    BY <2>1, <2>2, <2>3 DEF Travelled
  <2>. QED BY <2>1, <2>5, <2>6, Moves
<1>8. CASE Receive
  <2>1. PICK m \in wire : wire' = wire \ {m} /\ slot' \in {slot, Reply(m)}
    BY <1>8 DEF Receive, Deposit
  <2>2. UNCHANGED caller /\ pipe' = pipe /\ m \in Request
    BY <1>8, <2>1 DEF Receive, Inv, TypeOK
  <2>3. \A n \in Request : /\ InPipe(n)' <=> InPipe(n)
                           /\ Given(n)' <=> Given(n)
                           /\ slot' = Reply(n) => slot = Reply(n) \/ n = m
    BY <2>1, <2>2, Results DEF InPipe, Given
  <2>4. PlaceInv'
    BY <2>1, <2>2, <2>3 DEF Inv, PlaceInv
  <2>5. \A n \in Request : Travelled(n)' => Travelled(n)
    BY <2>1, <2>3 DEF Travelled
  <2>. QED BY <2>2, <2>4, <2>5, Moves
<1>9. CASE Finish
  <2>1. UNCHANGED <<caller, wire, slot>> /\ pipe' = <<>> /\ Len(pipe') = 0
    BY <1>9 DEF Finish
  <2>2. \A m \in Request : ~InPipe(m)' /\ (Given(m)' <=> Given(m))
    BY <2>1 DEF InPipe, Given
  <2>3. PlaceInv' /\ \A m \in Request : Travelled(m)' => Travelled(m)
    BY <2>1, <2>2 DEF Inv, PlaceInv, Travelled
  <2>. QED BY <2>1, <2>3, Moves
<1>10. CASE CloseSends
  <2>1. UNCHANGED <<caller, wire, slot>> /\ pipe' \in {pipe, Append(pipe, Stop)}
    BY <1>10 DEF CloseSends
  <2>2. CASE pipe' = pipe
    BY <1>4, <2>1, <2>2, Moves
  <2>3. CASE pipe' = Append(pipe, Stop)
    <3>1. /\ Len(pipe') = Len(pipe) + 1 /\ pipe'[Len(pipe) + 1] = Stop
          /\ \A i \in 1..Len(pipe) : pipe'[i] = pipe[i]
          /\ 1..Len(pipe') = 1..Len(pipe) \cup {Len(pipe) + 1}
      BY <1>0, <2>3
    <3>2. \A m \in Request : (InPipe(m)' => InPipe(m)) /\ (Given(m)' <=> Given(m))
      BY <2>1, <3>1 DEF InPipe, Given
    <3>3. PlaceInv' /\ \A m \in Request : Travelled(m)' => Travelled(m)
      <4>1. \A i, j \in 1..Len(pipe') : pipe'[i] = pipe'[j] => i = j \/ pipe'[i] = Stop
        BY <3>1 DEF Inv, PlaceInv
      <4>. QED BY <2>1, <3>2, <4>1 DEF Inv, PlaceInv, Travelled
    <3>. QED BY <2>1, <3>3, Moves
  <2>. QED BY <2>1, <2>2, <2>3
<1>11. CASE UNCHANGED vars
  BY <1>4, <1>11, Moves DEF vars
<1>. QED
  BY <1>1, <1>2, <1>3, <1>6, <1>7, <1>8, <1>9, <1>10, <1>11, HowSendReturns
  DEF Next, Send, Loop, Inv

-----------------------------------------------------------------------------
(* The promise.                                                            *)

\* The abstract module means the same by its words.
LEMMA SameWords ==
    /\ Promise!Request = Request /\ Promise!Reason = Reason
    /\ Promise!Unresolved = Unresolved
    /\ \A m : Promise!Reply(m) = Reply(m) /\ Promise!Failure(m) = Failure(m)
BY DEF Promise!Request, Promise!Reason, Promise!Unresolved, Promise!Reply, Promise!Failure,
   Request, Reason, Unresolved, Reply, Failure

LEMMA ReturnRefines ==
    ASSUME Constants, Inv, NEW t \in Thread, Returns(t)
    PROVE  Promise!Next
<1>1. PICK r \in Result :
         /\ Holds(t) /\ Return(t, r) /\ r # Unresolved
         /\ (\E why \in Reason : r = Failure(why)) \/ r = slot
  BY DEF Returns
<1>2. /\ req[t] = sent /\ sent \in Request /\ lock = t
      /\ outcome' = [outcome EXCEPT ![sent] = r] /\ sent' = sent
  BY <1>1, Numbers DEF Return, Inv, LockInv, TypeOK
<1>3. sent <= sent /\ outcome[sent] = Unresolved
  BY <1>2, Numbers DEF Inv, LockInv, Constants
<1>4. ASSUME NEW why \in Reason, r = Failure(why) PROVE Promise!Return(sent)
  BY <1>2, <1>3, <1>4, SameWords DEF Promise!Return
<1>5. ASSUME NEW m \in Request, r = Reply(m) PROVE Promise!Return(sent)
  <2>1. slot = Reply(m)
    BY <1>1, <1>5, Results
  <2>2. Promise!MayAnswer(sent, m)
    BY <1>1, <1>2, <2>1, TakenMayAnswer, SameWords DEF Promise!MayAnswer, Abandoned
  <2>. QED BY <1>2, <1>3, <1>5, <2>2, SameWords DEF Promise!Return
<1>. QED BY <1>1, <1>2, <1>4, <1>5, Results, SameWords DEF Promise!Next

LEMMA StepRefines ==
    ASSUME Constants, Inv, [Next]_vars
    PROVE  [Promise!Next]_(Promise!promiseVars)
<1>. SUFFICES Promise!Next \/ UNCHANGED <<sent, outcome>>
  BY DEF Promise!promiseVars
<1>. USE DEF caller
<1>1. ASSUME NEW t \in Thread, Acquire(t) PROVE Promise!Next
  BY <1>1 DEF Acquire, Promise!Next, Promise!Ask
<1>2. ASSUME NEW t \in Thread, Call(t) \/ Erase(t) \/ Write(t) PROVE UNCHANGED <<sent, outcome>>
  BY <1>2 DEF Call, Erase, Write
<1>3. ASSUME NEW t \in Thread, WriteFails(t) \/ Wake(t) \/ Timeout(t) PROVE Promise!Next
  BY <1>3, HowSendReturns, ReturnRefines DEF Inv
<1>4. CASE Loop \/ Close \/ CloseSends \/ UNCHANGED vars
  BY <1>4 DEF Loop, Start, Command, Receive, ReceiveFails, PollFails, Finish, Close,
     CloseSends, vars
<1>. QED BY <1>1, <1>2, <1>3, <1>4 DEF Next, Send

\* The invariant holds in every reachable state: the types, the lock, and that a number is in
\* one place at a time.
THEOREM Invariance == ASSUME Constants PROVE Spec => []Inv
<1>1. Init => Inv
  BY InitInv
<1>2. Inv /\ [Next]_vars => Inv'
  BY TypeStep, LockStep, PlaceStep DEF Inv
<1>. QED BY <1>1, <1>2, PTL DEF Spec

\* send() keeps the promise, for any set of threads, whatever is lost, late or reordered and
\* wherever errors and close() fall: no reply goes to two threads, and one that is not the
\* thread's own is of an earlier request and comes after one failed.
THEOREM Refinement == ASSUME Constants PROVE Spec => ImplementsRequestReply
<1>1. Init => Promise!Init
  BY SameWords DEF Init, Promise!Init
<1>2. Inv /\ [Next]_vars => [Promise!Next]_(Promise!promiseVars)
  BY StepRefines
<1>3. Spec => []Inv
  BY Invariance
<1>. QED BY <1>1, <1>2, <1>3, PTL DEF Spec, ImplementsRequestReply, Promise!Spec
=============================================================================
