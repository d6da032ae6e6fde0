----------------------------- MODULE Ipc_proofs -----------------------------
(***************************************************************************)
(* The ways in which the processes talk, for any tasks, topics and times.  *)
(*                                                                         *)
(* Dealer keeps the promise of RequestReply, whatever is dropped, late or  *)
(* cancelled.  The lock lets one task at a time send, in the order of the  *)
(* requests (LockInv), and the wire is in that order too: what a caller    *)
(* was given is older than all that is still under way, so a reply is      *)
(* given once, and one that is not the caller's own is older than the      *)
(* caller's request, which then was abandoned (WireInv).                   *)
(*                                                                         *)
(* PubSub: a subscriber's gaps are losses, and what it handles is in order *)
(* (PSInv).  RequestServer: a child whose launcher is there takes itself   *)
(* for an orphan only when its handlers kept it busy (RSInv).              *)
(* SyncDealer was proved in a module of its own, and is met here in the    *)
(* instance that MCIpc runs.                                               *)
(*                                                                         *)
(* The types are joined last: PubSub needs finitely many messages          *)
(* (MessagesFinite), and RequestServer that requests are sent no faster    *)
(* than they time out, and time out although they wait (RoomInv).          *)
(***************************************************************************)
EXTENDS MCIpc, Replies_proofs, SequenceTheorems, FiniteSetTheorems, WellFoundedInduction

InSend(t) == step[t] \in {"send", "reply"}

\* The lock's queue holds who is in send(), in the order of their requests.
QueueOfCallers ==
    /\ \A i \in 1..Len(queue) : step[queue[i]] # "idle"
    /\ \A t \in Task : step[t] # "idle" => \E i \in 1..Len(queue) : queue[i] = t
    /\ \A i, j \in 1..Len(queue) : i < j => req[queue[i]] < req[queue[j]]

\* Who is past the lock is the first of them, and the future is that of its request.
HolderInFront ==
    /\ \A t \in Task : InSend(t) => t = queue[1] /\ pending = req[t]
    /\ (\A t \in Task : ~InSend(t)) => pending = 0 /\ future = Unresolved

Outstanding ==
    /\ \A t \in Task : step[t] # "idle" => req[t] \in 1..sent /\ outcome[req[t]] = Unresolved
    /\ \A n \in Request : n > sent => outcome[n] = Unresolved

LockInv == QueueOfCallers /\ HolderInFront /\ Outstanding

\* A message or a reply with number m is under way, or the reply was given to a caller.
OnWire(m) ==
    \/ \E i \in 1..Len(toPeer) : toPeer[i] = m
    \/ handling = m
    \/ \E i \in 1..Len(toUs) : toUs[i] = m
Given(m) == \E n \in Request : outcome[n] = Reply(m)
Travelled(m) == OnWire(m) \/ future = Reply(m) \/ Given(m)

\* The oldest is in front.
Pipeline ==
    /\ \A i, j \in 1..Len(toPeer) : i < j => toPeer[i] < toPeer[j]
    /\ \A i, j \in 1..Len(toUs) : i < j => toUs[i] < toUs[j]
    /\ \A i \in 1..Len(toUs), j \in 1..Len(toPeer) : toUs[i] < toPeer[j]
    /\ handling # 0 => /\ \A i \in 1..Len(toUs) : toUs[i] < handling
                       /\ \A i \in 1..Len(toPeer) : handling < toPeer[i]

\* What was received is older still, and the reply in the future was given to nobody.
ReceivedInv ==
    /\ \A m, w \in Request : (future = Reply(m) \/ Given(m)) /\ OnWire(w) => m < w
    /\ \A m \in Request : future = Reply(m) => ~Given(m)

\* A request that travelled is of the task that waits for the reply, or is over; all others
\* that wait are younger.
TravelInv ==
    \A m \in Request : Travelled(m) =>
        /\ m <= sent
        /\ \A t \in Task : step[t] # "idle" => m <= req[t]
        /\ \A t \in Task : step[t] \in {"lock", "send"} => m < req[t]
        /\ outcome[m] = Unresolved => \E t \in Task : step[t] = "reply" /\ req[t] = m

Abandoned(m) == \E k \in 1..m : outcome[k].kind \in Reason

GivenInv ==
    \A n, m \in Request : outcome[n] = Reply(m) => m <= n /\ (m # n => Abandoned(m))

WireInv == Pipeline /\ ReceivedInv /\ TravelInv /\ GivenInv

Inv == TypeOK /\ LockInv /\ WireInv

-----------------------------------------------------------------------------

\* Taking the entry at place p out of a sequence closes the gap and keeps the rest.
Cut(q, p) == SubSeq(q, 1, p - 1) \o SubSeq(q, p + 1, Len(q))

LEMMA Removal ==
    ASSUME NEW S, NEW q \in Seq(S), NEW p \in 1..Len(q)
    PROVE  /\ Cut(q, p) \in Seq(S) /\ Len(Cut(q, p)) = Len(q) - 1
           /\ \A i \in 1..Len(Cut(q, p)) : Cut(q, p)[i] = IF i < p THEN q[i] ELSE q[i+1]
<1>. DEFINE a == SubSeq(q, 1, p - 1)
            b == SubSeq(q, p + 1, Len(q))
<1>1. p \in Nat /\ Len(q) \in Nat /\ p >= 1 /\ p <= Len(q)
  OBVIOUS
<1>2. a \in Seq(S) /\ Len(a) = p - 1 /\ \A i \in 1..(p - 1) : a[i] = q[i]
  BY <1>1
<1>3. b \in Seq(S) /\ Len(b) = Len(q) - p /\ \A i \in 1..(Len(q) - p) : b[i] = q[i+p]
  BY <1>1
<1>. HIDE DEF a, b
<1>4. /\ a \o b \in Seq(S) /\ Len(a \o b) = Len(a) + Len(b)
      /\ \A i \in 1..(Len(a) + Len(b)) :
            (a \o b)[i] = IF i <= Len(a) THEN a[i] ELSE b[i - Len(a)]
  BY <1>2, <1>3, ConcatProperties
<1>5. Len(a \o b) = Len(q) - 1
  BY <1>1, <1>2, <1>3, <1>4
<1>6. ASSUME NEW i \in 1..(Len(q) - 1)
      PROVE  (a \o b)[i] = IF i < p THEN q[i] ELSE q[i+1]
  BY <1>1, <1>2, <1>3, <1>4
<1>. QED BY <1>4, <1>5, <1>6 DEF a, b, Cut

\* Without takes just one task out of the lock's queue.
LEMMA WithoutOne ==
    ASSUME TypeOK, LockInv, NEW t \in Task, step[t] # "idle"
    PROVE  \E p \in 1..Len(queue) :
              /\ queue[p] = t
              /\ Without(t) \in Seq(Task) /\ Len(Without(t)) = Len(queue) - 1
              /\ \A i \in 1..Len(Without(t)) :
                    Without(t)[i] = IF i < p THEN queue[i] ELSE queue[i+1]
<1>1. queue \in Seq(Task) /\ DOMAIN queue = 1..Len(queue)
  BY DEF TypeOK
<1>2. \E i \in DOMAIN queue : queue[i] = t
  BY <1>1 DEF LockInv, QueueOfCallers
<1>3. PICK p \in 1..Len(queue) :
         /\ queue[p] = t
         /\ Without(t) = Cut(queue, p)
  BY <1>1, <1>2 DEF Without, Cut
<1>4. /\ Without(t) \in Seq(Task) /\ Len(Without(t)) = Len(queue) - 1
      /\ \A i \in 1..Len(Without(t)) :
            Without(t)[i] = IF i < p THEN queue[i] ELSE queue[i+1]
  BY <1>1, <1>3, Removal, ZenonT(60)
<1>. QED BY <1>3, <1>4, Zenon

-----------------------------------------------------------------------------
(* Types.                                                                  *)

LEMMA Numbers ==
    /\ MaxSends \in Nat
    /\ Request \subseteq Nat /\ Request \subseteq 0..MaxSends
    /\ \A n \in 0..MaxSends : n # 0 <=> n \in Request
BY DealerAssumption DEF Request

\* A send() that returns does so with a result, and leaves the lock's queue.
Returns(t) ==
    \E r \in Result : /\ r # Unresolved /\ Return(t, r)
                     /\ \/ \E why \in Reason : r = Failure(why)
                        \/ step[t] = "reply" /\ r = future
                     /\ InSend(t)
                     /\ UNCHANGED <<req, sent, life, wire>>

LEMMA HowSendReturns ==
    ASSUME TypeOK, NEW t \in Task,
           SendFails(t) \/ Resume(t) \/ Timeout(t) \/ Cancel(t)
    PROVE  Returns(t)
<1>1. CASE SendFails(t)
  BY <1>1, Results DEF SendFails, Returns, InSend, Reason
<1>2. CASE Resume(t)
  BY <1>2, Results DEF Resume, Returns, InSend, TypeOK
<1>3. CASE Timeout(t)
  BY <1>3, Results DEF Timeout, Returns, InSend, Reason
<1>4. CASE Cancel(t)
  BY <1>4, Results DEF Cancel, Returns, InSend, Reason
<1>. QED BY <1>1, <1>2, <1>3, <1>4

LEMMA TypeInit == Init => TypeOK
BY Numbers, Results DEF Init, TypeOK, life, wire

LEMMA TypeStep == TypeOK /\ LockInv /\ [Next]_vars => TypeOK'
<1>. SUFFICES ASSUME TypeOK, LockInv, [Next]_vars PROVE TypeOK'
  OBVIOUS
<1>. USE Numbers DEF life, wire
<1>1. ASSUME NEW t \in Task, Call(t) PROVE TypeOK'
  BY <1>1 DEF Call, TypeOK
<1>2. ASSUME NEW t \in Task, Begin(t) PROVE TypeOK'
  BY <1>2, Results DEF Begin, TypeOK
<1>3. ASSUME NEW t \in Task, Transmit(t) PROVE TypeOK'
  <2>1. req[t] \in Request
    BY <1>3 DEF Transmit, TypeOK, LockInv, Outstanding, Request
  <2>2. toPeer \in Seq(Request) /\ Append(toPeer, req[t]) \in Seq(Request)
    BY <2>1, AppendProperties DEF TypeOK
  <2>. QED BY <1>3, <2>2 DEF Transmit, TypeOK
<1>4. ASSUME NEW t \in Task, Returns(t) PROVE TypeOK'
  <2>1. Without(t) \in Seq(Task)
    BY <1>4, WithoutOne DEF Returns, InSend
  <2>2. PICK r \in Result : Return(t, r) /\ UNCHANGED <<req, sent, life, wire>>
    BY <1>4 DEF Returns
  <2>3. pending' \in 0..MaxSends /\ future' \in Result /\ queue' \in Seq(Task)
    BY <2>1, <2>2, Results DEF Return
  <2>4. outcome' \in [Request -> Result]
    BY <2>2 DEF Return, TypeOK
  <2>5. step' \in [Task -> {"idle", "lock", "send", "reply"}]
    BY <2>2 DEF Return, TypeOK
  <2>. QED BY <2>2, <2>3, <2>4, <2>5 DEF TypeOK
<1>5. ASSUME NEW t \in Task, CancelWaiting(t) PROVE TypeOK'
  <2>1. Without(t) \in Seq(Task)
    BY <1>5, WithoutOne DEF CancelWaiting
  <2>2. Failure("cancelled") \in Result
    BY Results DEF Reason
  <2>. QED BY <1>5, <2>1, <2>2 DEF CancelWaiting, TypeOK
<1>6. CASE Receive
  <2>1. Head(toUs) \in Request /\ Tail(toUs) \in Seq(Request)
    BY <1>6 DEF Receive, TypeOK
  <2>. QED BY <1>6, <2>1, Results DEF Receive, TypeOK
<1>7. CASE Close
  <2>1. Failure("cancelled") \in Result
    BY Results DEF Reason
  <2>. QED BY <1>7, <2>1 DEF Close, TypeOK
<1>8. CASE CloseSocket
  BY <1>8 DEF CloseSocket, TypeOK
<1>9. CASE Peer
  <2>1. CASE Handle
    <3>1. Head(toPeer) \in Request /\ Tail(toPeer) \in Seq(Request)
      BY <2>1 DEF Handle, TypeOK
    <3>. QED BY <2>1, <3>1 DEF Handle, TypeOK
  <2>2. CASE SendReply
    <3>1. handling \in Request
      BY <2>2 DEF SendReply, TypeOK
    <3>2. toUs \in Seq(Request) /\ Append(toUs, handling) \in Seq(Request)
      BY <3>1, AppendProperties DEF TypeOK
    <3>3. toUs' \in Seq(Request) /\ handling' \in 0..MaxSends
      BY <2>2, <3>2 DEF SendReply
    <3>. QED BY <2>2, <3>3 DEF SendReply, TypeOK
  <2>3. CASE PeerRestarts
    BY <2>3 DEF PeerRestarts, TypeOK
  <2>. QED BY <1>9, <2>1, <2>2, <2>3 DEF Peer
<1>10. CASE UNCHANGED vars
  BY <1>10 DEF vars, TypeOK
<1>. QED
  BY <1>1, <1>2, <1>3, <1>4, <1>5, <1>6, <1>7, <1>8, <1>9, <1>10, HowSendReturns
  DEF Next, Send

-----------------------------------------------------------------------------
(* The lock.                                                               *)

\* Two callers make different requests, and each is in the queue once.
LEMMA Distinct ==
    ASSUME TypeOK, LockInv
    PROVE  /\ \A i, j \in 1..Len(queue) : queue[i] = queue[j] => i = j
           /\ \A t, u \in Task :
                 step[t] # "idle" /\ step[u] # "idle" /\ req[t] = req[u] => t = u
<1>1. queue \in Seq(Task) /\ Len(queue) \in Nat /\ \A i \in 1..Len(queue) : queue[i] \in Task
  BY DEF TypeOK
<1>2. \A t \in Task : req[t] \in Nat
  BY DealerAssumption DEF TypeOK
<1>3. ASSUME NEW i \in 1..Len(queue), NEW j \in 1..Len(queue), i # j
      PROVE  req[queue[i]] # req[queue[j]]
  <2>1. i < j \/ j < i
    BY <1>1, <1>3
  <2>2. req[queue[i]] < req[queue[j]] \/ req[queue[j]] < req[queue[i]]
    BY <2>1 DEF LockInv, QueueOfCallers
  <2>. QED BY <1>1, <1>2, <2>2
<1>. QED BY <1>3 DEF LockInv, QueueOfCallers

\* Who leaves send() leaves the queue as an ordered queue of the others.
LEMMA LeaveQueue ==
    ASSUME TypeOK, LockInv, NEW t \in Task, step[t] # "idle",
           queue' = Without(t), step' = [step EXCEPT ![t] = "idle"], req' = req
    PROVE  QueueOfCallers'
<1>1. PICK p \in 1..Len(queue) :
         /\ queue[p] = t
         /\ queue' \in Seq(Task) /\ Len(queue') = Len(queue) - 1
         /\ \A i \in 1..Len(queue') : queue'[i] = IF i < p THEN queue[i] ELSE queue[i+1]
  BY WithoutOne
<1>2. queue \in Seq(Task) /\ Len(queue) \in Nat /\ \A i \in 1..Len(queue) : queue[i] \in Task
  BY DEF TypeOK
<1>. DEFINE At(i) == IF i < p THEN i ELSE i + 1
<1>3. \A i \in 1..Len(queue') : /\ At(i) \in 1..Len(queue) /\ At(i) # p
                                /\ queue'[i] = queue[At(i)]
  BY <1>1, <1>2
<1>4. \A i, j \in 1..Len(queue') : i < j => At(i) < At(j)
  BY <1>1, <1>2
<1>5. \A k \in 1..Len(queue) : k # p => \E i \in 1..Len(queue') : At(i) = k
  <2>. SUFFICES ASSUME NEW k \in 1..Len(queue), k # p
                PROVE  \E i \in 1..Len(queue') : At(i) = k
    OBVIOUS
  <2>1. CASE k < p
    <3>1. k \in 1..Len(queue') /\ At(k) = k
      BY <2>1, <1>1, <1>2
    <3>. QED BY <3>1
  <2>2. CASE k > p
    <3>1. k - 1 \in 1..Len(queue') /\ At(k - 1) = k
      BY <2>2, <1>1, <1>2
    <3>. QED BY <3>1
  <2>. QED BY <2>1, <2>2, <1>2
<1>. HIDE DEF At
<1>6. \A i \in 1..Len(queue') : queue'[i] # t /\ queue'[i] \in Task
  BY <1>1, <1>2, <1>3, Distinct
<1>7. \A u \in Task : u # t => step'[u] = step[u]
  BY DEF TypeOK
<1>8. \A i \in 1..Len(queue') : step'[queue'[i]] # "idle"
  BY <1>3, <1>6, <1>7 DEF LockInv, QueueOfCallers
<1>9. ASSUME NEW u \in Task, step'[u] # "idle"
      PROVE  \E i \in 1..Len(queue') : queue'[i] = u
  <2>1. u # t /\ step[u] # "idle"
    BY <1>9, <1>7 DEF TypeOK
  <2>2. PICK k \in 1..Len(queue) : queue[k] = u
    BY <2>1 DEF LockInv, QueueOfCallers
  <2>. QED BY <2>1, <2>2, <1>1, <1>3, <1>5
<1>10. \A i, j \in 1..Len(queue') : i < j => req'[queue'[i]] < req'[queue'[j]]
  BY <1>3, <1>4 DEF LockInv, QueueOfCallers
<1>. QED BY <1>8, <1>9, <1>10 DEF QueueOfCallers

LEMMA LockInit == Init => LockInv
BY DEF Init, LockInv, QueueOfCallers, HolderInFront, Outstanding, InSend

LEMMA LockStep == TypeOK /\ LockInv /\ [Next]_vars => LockInv'
<1>. SUFFICES ASSUME TypeOK, LockInv, [Next]_vars PROVE LockInv'
  OBVIOUS
<1>. USE Numbers DEF life, wire
<1>0. /\ queue \in Seq(Task) /\ Len(queue) \in Nat
      /\ \A i \in 1..Len(queue) : queue[i] \in Task
      /\ sent \in Nat /\ \A t \in Task : req[t] \in Nat
  BY DEF TypeOK
<1>1. ASSUME NEW t \in Task, Call(t) PROVE LockInv'
  <2>1. /\ step[t] = "idle" /\ step' = [step EXCEPT ![t] = "lock"]
        /\ req' = [req EXCEPT ![t] = sent + 1] /\ sent' = sent + 1 /\ sent + 1 \in Request
        /\ queue' = Append(queue, t)
        /\ pending' = pending /\ future' = future /\ outcome' = outcome
    BY <1>1, <1>0 DEF Call, Request
  <2>2. /\ Len(queue') = Len(queue) + 1 /\ queue'[Len(queue) + 1] = t
        /\ \A i \in 1..Len(queue) : queue'[i] = queue[i]
    BY <2>1, <1>0
  <2>3. \A i \in 1..Len(queue) : queue[i] # t
    BY <2>1 DEF LockInv, QueueOfCallers
  <2>4. /\ step'[t] = "lock" /\ req'[t] = sent + 1
        /\ \A u \in Task : u # t => step'[u] = step[u] /\ req'[u] = req[u]
    BY <2>1 DEF TypeOK
  <2>5. 1..Len(queue') = 1..Len(queue) \cup {Len(queue) + 1}
    BY <2>2, <1>0
  <2>6. \A i \in 1..Len(queue) : req[queue[i]] <= sent
    BY <1>0 DEF LockInv, QueueOfCallers, Outstanding
  <2>7. \A i, j \in 1..Len(queue') : i < j => req'[queue'[i]] < req'[queue'[j]]
    <3>. SUFFICES ASSUME NEW i \in 1..Len(queue'), NEW j \in 1..Len(queue'), i < j
                  PROVE  req'[queue'[i]] < req'[queue'[j]]
      OBVIOUS
    <3>1. i \in 1..Len(queue) /\ req'[queue'[i]] = req[queue[i]]
      BY <1>0, <2>2, <2>3, <2>4
    <3>2. CASE j \in 1..Len(queue)
      BY <3>1, <3>2, <1>0, <2>2, <2>3, <2>4 DEF LockInv, QueueOfCallers
    <3>3. CASE j = Len(queue) + 1
      BY <3>1, <3>3, <1>0, <2>2, <2>4, <2>6
    <3>. QED BY <3>2, <3>3, <2>5
  <2>8. \A i \in 1..Len(queue') : step'[queue'[i]] # "idle"
    BY <1>0, <2>2, <2>3, <2>4, <2>5 DEF LockInv, QueueOfCallers
  <2>9. \A u \in Task : step'[u] # "idle" => \E i \in 1..Len(queue') : queue'[i] = u
    BY <2>2, <2>4, <2>5 DEF LockInv, QueueOfCallers
  <2>10. HolderInFront'
    <3>1. \A u \in Task : InSend(u)' <=> InSend(u)
      BY <2>1, <2>4 DEF InSend
    <3>2. \A u \in Task : InSend(u) => u # t /\ 1 \in 1..Len(queue)
      BY <2>1, <1>0 DEF InSend, LockInv, QueueOfCallers
    <3>. QED BY <3>1, <3>2, <2>1, <2>2, <2>4 DEF LockInv, HolderInFront
  <2>11. Outstanding'
    BY <1>0, <2>1, <2>4 DEF LockInv, Outstanding
  <2>. QED BY <2>7, <2>8, <2>9, <2>10, <2>11 DEF LockInv, QueueOfCallers
<1>2. ASSUME NEW t \in Task, Begin(t) PROVE LockInv'
  <2>1. /\ step[t] = "lock" /\ step' = [step EXCEPT ![t] = "send"] /\ pending' = req[t]
        /\ UNCHANGED <<req, sent, queue, outcome>>
    BY <1>2 DEF Begin
  <2>2. t = queue[1] /\ 1 \in 1..Len(queue)
    BY <1>2, <1>0 DEF Begin, LockInv, QueueOfCallers
  <2>3. step'[t] = "send" /\ \A u \in Task : u # t => step'[u] = step[u]
    BY <2>1 DEF TypeOK
  <2>4. \A u \in Task : ~InSend(u)
    BY <2>1, <2>2 DEF InSend, LockInv, HolderInFront
  <2>5. QueueOfCallers'
    BY <1>0, <2>1, <2>3 DEF LockInv, QueueOfCallers
  <2>6. HolderInFront'
    BY <2>1, <2>2, <2>3, <2>4 DEF HolderInFront, InSend
  <2>7. Outstanding'
    BY <2>1, <2>3 DEF LockInv, Outstanding
  <2>. QED BY <2>5, <2>6, <2>7 DEF LockInv
<1>3. ASSUME NEW t \in Task, Transmit(t) PROVE LockInv'
  <2>1. /\ step[t] = "send" /\ step' = [step EXCEPT ![t] = "reply"]
        /\ UNCHANGED <<req, sent, queue, pending, future, outcome>>
    BY <1>3 DEF Transmit
  <2>2. step'[t] = "reply" /\ \A u \in Task : u # t => step'[u] = step[u]
    BY <2>1 DEF TypeOK
  <2>3. QueueOfCallers'
    BY <1>0, <2>1, <2>2 DEF LockInv, QueueOfCallers
  <2>4. HolderInFront'
    BY <2>1, <2>2 DEF LockInv, HolderInFront, InSend
  <2>5. Outstanding'
    BY <2>1, <2>2 DEF LockInv, Outstanding
  <2>. QED BY <2>3, <2>4, <2>5 DEF LockInv
<1>4. ASSUME NEW t \in Task, Returns(t) PROVE LockInv'
  <2>1. /\ InSend(t) /\ step[t] # "idle" /\ step' = [step EXCEPT ![t] = "idle"]
        /\ queue' = Without(t) /\ pending' = 0 /\ future' = Unresolved
        /\ UNCHANGED <<req, sent>>
        /\ \E r \in Result : outcome' = [outcome EXCEPT ![req[t]] = r]
    BY <1>4 DEF Returns, Return, InSend
  <2>2. QueueOfCallers'
    BY <2>1, LeaveQueue
  <2>3. step'[t] = "idle" /\ \A u \in Task : u # t => step'[u] = step[u]
    BY <2>1 DEF TypeOK
  <2>4. HolderInFront'
    BY <2>1, <2>3 DEF LockInv, HolderInFront, InSend
  <2>5. Outstanding'
    <3>1. \A n \in Request : n # req[t] => outcome'[n] = outcome[n]
      BY <2>1 DEF TypeOK
    <3>2. \A u \in Task : step'[u] # "idle" =>
             /\ step[u] # "idle" /\ req[u] # req[t]
             /\ req[u] \in 1..sent /\ req[u] \in Request
      BY <2>1, <2>3, <1>0, Distinct DEF LockInv, Outstanding, TypeOK, Request
    <3>3. req[t] <= sent
      BY <2>1, <1>0 DEF LockInv, Outstanding
    <3>4. \A n \in Request : n > sent => n # req[t]
      BY <3>3, <1>0
    <3>. QED BY <2>1, <3>1, <3>2, <3>4 DEF LockInv, Outstanding
  <2>. QED BY <2>2, <2>4, <2>5 DEF LockInv
<1>5. ASSUME NEW t \in Task, CancelWaiting(t) PROVE LockInv'
  <2>1. /\ step[t] = "lock" /\ step[t] # "idle" /\ step' = [step EXCEPT ![t] = "idle"]
        /\ queue' = Without(t) /\ UNCHANGED <<req, sent, pending, future>>
        /\ outcome' = [outcome EXCEPT ![req[t]] = Failure("cancelled")]
    BY <1>5 DEF CancelWaiting
  <2>2. QueueOfCallers'
    BY <2>1, LeaveQueue
  <2>3. step'[t] = "idle" /\ \A u \in Task : u # t => step'[u] = step[u]
    BY <2>1 DEF TypeOK
  <2>4. \A u \in Task : InSend(u)' <=> InSend(u)
    BY <2>1, <2>3 DEF InSend
  <2>5. ASSUME NEW u \in Task, InSend(u) PROVE u = queue'[1]
    <3>1. PICK p \in 1..Len(queue) :
             /\ queue[p] = t
             /\ Len(queue') = Len(queue) - 1
             /\ \A i \in 1..Len(queue') : queue'[i] = IF i < p THEN queue[i] ELSE queue[i+1]
      BY <2>1, WithoutOne
    <3>2. u = queue[1] /\ u # t
      BY <2>1, <2>5 DEF InSend, LockInv, HolderInFront
    <3>3. 1 \in 1..Len(queue') /\ 1 < p
      BY <1>0, <3>1, <3>2
    <3>. QED BY <3>1, <3>2, <3>3
  <2>6. HolderInFront'
    BY <2>1, <2>4, <2>5 DEF LockInv, HolderInFront
  <2>7. Outstanding'
    <3>1. \A n \in Request : n # req[t] => outcome'[n] = outcome[n]
      BY <2>1 DEF TypeOK
    <3>2. \A u \in Task : step'[u] # "idle" =>
             /\ step[u] # "idle" /\ req[u] # req[t]
             /\ req[u] \in 1..sent /\ req[u] \in Request
      BY <2>1, <2>3, <1>0, Distinct DEF LockInv, Outstanding, TypeOK, Request
    <3>3. req[t] <= sent
      BY <2>1, <1>0 DEF LockInv, Outstanding
    <3>4. \A n \in Request : n > sent => n # req[t]
      BY <3>3, <1>0
    <3>. QED BY <2>1, <3>1, <3>2, <3>4 DEF LockInv, Outstanding
  <2>. QED BY <2>2, <2>6, <2>7 DEF LockInv
<1>6. ASSUME UNCHANGED <<step, req, sent, queue, pending, outcome>>,
             future' = future \/ Waiting
      PROVE  LockInv'
  <2>1. QueueOfCallers'
    BY <1>6 DEF LockInv, QueueOfCallers
  <2>2. HolderInFront'
    BY <1>6 DEF LockInv, HolderInFront, InSend, Waiting
  <2>3. Outstanding'
    BY <1>6 DEF LockInv, Outstanding
  <2>. QED BY <2>1, <2>2, <2>3 DEF LockInv
<1>7. CASE Receive \/ Close \/ CloseSocket \/ Peer \/ UNCHANGED vars
  BY <1>6, <1>7 DEF Receive, Close, CloseSocket, Peer, Handle, SendReply, PeerRestarts, vars
<1>. QED BY <1>1, <1>2, <1>3, <1>4, <1>5, <1>7, HowSendReturns DEF Next, Send

\* Every reachable state is well typed, and the lock of send() is one.
THEOREM LockCorrect == Spec => [](TypeOK /\ LockInv)
BY TypeInit, TypeStep, LockInit, LockStep, PTL DEF Spec

-----------------------------------------------------------------------------
(* The wire.                                                               *)

LEMMA WireInit == Init => WireInv
<1>. SUFFICES ASSUME Init PROVE WireInv
  OBVIOUS
<1>1. /\ toPeer = <<>> /\ toUs = <<>> /\ handling = 0 /\ future = Unresolved
      /\ \A n \in Request : outcome[n] = Unresolved
  BY DEF Init
<1>2. \A m \in Request : ~OnWire(m) /\ ~Given(m) /\ future # Reply(m)
  BY <1>1, Results, Numbers DEF OnWire, Given
<1>3. Pipeline
  BY <1>1 DEF Pipeline
<1>4. ReceivedInv /\ TravelInv
  BY <1>2 DEF ReceivedInv, TravelInv, Travelled
<1>5. GivenInv
  BY <1>1, Results DEF GivenInv
<1>. QED BY <1>3, <1>4, <1>5 DEF WireInv

\* Messages move on or are lost; the future is left alone or fails.
LEMMA Moves ==
    ASSUME WireInv, Pipeline', \A m \in Request : OnWire(m)' => OnWire(m),
           future' = future \/ (\A m \in Request : future' # Reply(m)),
           UNCHANGED <<step, req, sent, outcome>>
    PROVE  WireInv'
<1>1. \A m \in Request : Given(m)' <=> Given(m)
  BY DEF Given
<1>2. \A m \in Request : Travelled(m)' => Travelled(m)
  BY <1>1 DEF Travelled
<1>3. ReceivedInv'
  BY <1>1 DEF WireInv, ReceivedInv
<1>4. TravelInv'
  BY <1>2 DEF WireInv, TravelInv
<1>5. GivenInv'
  BY DEF WireInv, GivenInv, Abandoned
<1>. QED BY <1>3, <1>4, <1>5 DEF WireInv

\* The outcome of a request is set: to a failure, or to the reply in the future.
Settles(t, r) ==
    /\ step[t] # "idle" /\ step' = [step EXCEPT ![t] = "idle"]
    /\ r \in Result /\ r # Unresolved /\ outcome' = [outcome EXCEPT ![req[t]] = r]
    /\ \/ (\E why \in Reason : r = Failure(why)) /\ future' \in {future, Unresolved}
       \/ step[t] = "reply" /\ r = future /\ future' = Unresolved
    /\ UNCHANGED <<req, sent, toPeer, toUs, handling>>

LEMMA SettleMayAnswer ==
    ASSUME Inv, NEW t \in Task, NEW r, Settles(t, r), NEW m \in Request, r = Reply(m)
    PROVE  /\ m <= req[t] /\ (m # req[t] => Abandoned(m))
           /\ future = Reply(m) /\ \A k \in Request : outcome[k] # Reply(m)
<1>1. future = Reply(m) /\ step[t] = "reply"
  BY Results DEF Settles
<1>2. Travelled(m) /\ m <= req[t]
  BY <1>1 DEF Travelled, Inv, WireInv, TravelInv
<1>3. \A k \in Request : outcome[k] # Reply(m)
  BY <1>1 DEF Inv, WireInv, ReceivedInv, Given
<1>4. ASSUME m # req[t] PROVE Abandoned(m)
  <2>1. outcome[m] # Unresolved
    <3>. SUFFICES ASSUME outcome[m] = Unresolved PROVE FALSE
      OBVIOUS
    <3>1. PICK u \in Task : step[u] = "reply" /\ req[u] = m
      BY <1>2 DEF Inv, WireInv, TravelInv
    <3>2. u = t
      BY <3>1, <1>1 DEF Inv, LockInv, HolderInFront, InSend
    <3>. QED BY <3>1, <3>2, <1>4
  <2>2. outcome[m] \in Result /\ m \in Nat /\ m \in 1..m
    BY Numbers DEF Inv, TypeOK, Request
  <2>3. CASE \E why \in Reason : outcome[m] = Failure(why)
    BY <2>2, <2>3, Results DEF Abandoned
  <2>4. ASSUME NEW j \in Request, outcome[m] = Reply(j) PROVE Abandoned(m)
    <3>1. j <= m /\ j # m /\ Abandoned(j)
      BY <2>4, <1>3 DEF Inv, WireInv, GivenInv
    <3>. QED BY <3>1, <2>2, Numbers DEF Abandoned
  <2>. QED BY <2>1, <2>2, <2>3, <2>4, Results
<1>. QED BY <1>1, <1>2, <1>3, <1>4

LEMMA SettleKeeps ==
    ASSUME Inv, NEW t \in Task, NEW r, Settles(t, r)
    PROVE  WireInv'
<1>1. /\ step'[t] = "idle" /\ \A u \in Task : u # t => step'[u] = step[u]
      /\ req[t] \in Request /\ outcome[req[t]] = Unresolved
      /\ outcome'[req[t]] = r /\ \A n \in Request : n # req[t] => outcome'[n] = outcome[n]
  BY Numbers DEF Settles, Inv, TypeOK, LockInv, Outstanding, Request
<1>2. \A m : OnWire(m)' <=> OnWire(m)
  BY DEF Settles, OnWire
<1>3. \A m \in Request : Given(m)' => Given(m) \/ (r = Reply(m) /\ future = Reply(m))
  BY <1>1, SettleMayAnswer DEF Given
<1>4. \A m \in Request : future' = Reply(m) => future = Reply(m) /\ r # Reply(m)
  BY Results DEF Settles
<1>5. Pipeline'
  BY DEF Settles, Inv, WireInv, Pipeline
<1>6. ReceivedInv'
  BY <1>2, <1>3, <1>4 DEF Inv, WireInv, ReceivedInv
<1>7. TravelInv'
  <2>. SUFFICES ASSUME NEW m \in Request, Travelled(m)'
                PROVE  /\ m <= sent'
                       /\ \A u \in Task : step'[u] # "idle" => m <= req'[u]
                       /\ \A u \in Task : step'[u] \in {"lock", "send"} => m < req'[u]
                       /\ outcome'[m] = Unresolved =>
                             \E u \in Task : step'[u] = "reply" /\ req'[u] = m
    BY DEF TravelInv
  <2>1. Travelled(m)
    BY <1>2, <1>3, <1>4 DEF Travelled
  <2>2. UNCHANGED <<req, sent>> /\ r # Unresolved
    BY DEF Settles
  <2>3. outcome'[m] = Unresolved => m # req[t] /\ outcome[m] = Unresolved
    BY <1>1, <2>2
  <2>. QED BY <1>1, <2>1, <2>2, <2>3 DEF Inv, WireInv, TravelInv
<1>8. GivenInv'
  <2>1. \A m \in Request : Abandoned(m) => Abandoned(m)'
    BY <1>1, Results, Numbers DEF Abandoned, Request
  <2>. QED BY <1>1, <2>1, SettleMayAnswer DEF Inv, WireInv, GivenInv
<1>. QED BY <1>5, <1>6, <1>7, <1>8 DEF WireInv

LEMMA WireStep == Inv /\ [Next]_vars => WireInv'
<1>. SUFFICES ASSUME Inv, [Next]_vars PROVE WireInv'
  OBVIOUS
<1>. USE Numbers DEF life, wire
<1>0. /\ toPeer \in Seq(Request) /\ toUs \in Seq(Request)
      /\ \A i \in 1..Len(toPeer) : toPeer[i] \in Request
      /\ \A i \in 1..Len(toUs) : toUs[i] \in Request
      /\ Len(toPeer) \in Nat /\ Len(toUs) \in Nat
      /\ sent \in Nat /\ \A t \in Task : req[t] \in Nat
  BY DEF Inv, TypeOK
<1>1. ASSUME NEW t \in Task, Call(t) PROVE WireInv'
  <2>1. /\ step[t] = "idle" /\ step'[t] = "lock" /\ req'[t] = sent + 1 /\ sent' = sent + 1
        /\ \A u \in Task : u # t => step'[u] = step[u] /\ req'[u] = req[u]
        /\ UNCHANGED <<toPeer, toUs, handling, future, outcome>>
    BY <1>1 DEF Call, Inv, TypeOK
  <2>2. /\ \A m : OnWire(m)' <=> OnWire(m)
        /\ \A m : Given(m)' <=> Given(m)
    BY <2>1 DEF OnWire, Given
  <2>3. TravelInv'
    <3>1. \A m \in Request : Travelled(m)' => Travelled(m) /\ m <= sent /\ m \in Nat
      BY <2>1, <2>2 DEF Travelled, Inv, WireInv, TravelInv
    <3>. QED BY <3>1, <2>1, <1>0 DEF Inv, WireInv, TravelInv
  <2>. QED
    BY <2>1, <2>2, <2>3 DEF Inv, WireInv, Pipeline, ReceivedInv, GivenInv, Abandoned
<1>2. ASSUME NEW t \in Task, Begin(t) PROVE WireInv'
  <2>1. /\ step[t] = "lock" /\ step'[t] = "send" /\ future' = Unresolved
        /\ \A u \in Task : u # t => step'[u] = step[u]
        /\ UNCHANGED <<req, sent, toPeer, toUs, handling, outcome>>
    BY <1>2 DEF Begin, Inv, TypeOK
  <2>2. /\ \A m : OnWire(m)' <=> OnWire(m)
        /\ \A m : Given(m)' <=> Given(m)
        /\ \A m \in Request : future' # Reply(m)
    BY <2>1, Results DEF OnWire, Given
  <2>3. TravelInv'
    <3>1. \A m \in Request : Travelled(m)' => Travelled(m)
      BY <2>2 DEF Travelled
    <3>. QED BY <3>1, <2>1 DEF Inv, WireInv, TravelInv
  <2>. QED
    BY <2>1, <2>2, <2>3 DEF Inv, WireInv, Pipeline, ReceivedInv, GivenInv, Abandoned
<1>3. ASSUME NEW t \in Task, Transmit(t) PROVE WireInv'
  <2>1. /\ step[t] = "send" /\ step'[t] = "reply" /\ req[t] \in Request /\ req[t] <= sent
        /\ \A u \in Task : u # t => step'[u] = step[u]
        /\ UNCHANGED <<req, sent, toUs, handling, outcome, future>>
        /\ toPeer' \in {Append(toPeer, req[t]), toPeer}
    BY <1>3 DEF Transmit, Inv, TypeOK, LockInv, Outstanding, Request
  <2>2. \A m \in Request : Travelled(m) => m < req[t]
    BY <2>1 DEF Inv, WireInv, TravelInv
  <2>3. \A m : Given(m)' <=> Given(m)
    BY <2>1 DEF Given
  <2>4. \A u \in Task : step[u] # "idle" /\ u # t => req[t] < req[u]
    <3>. SUFFICES ASSUME NEW u \in Task, step[u] # "idle", u # t PROVE req[t] < req[u]
      OBVIOUS
    <3>1. PICK k \in 1..Len(queue) : queue[k] = u
      BY DEF Inv, LockInv, QueueOfCallers
    <3>2. t = queue[1]
      BY <2>1 DEF Inv, LockInv, HolderInFront, InSend
    <3>3. 1 \in 1..Len(queue) /\ 1 < k
      BY <3>1, <3>2 DEF Inv, TypeOK
    <3>. QED BY <3>1, <3>2, <3>3 DEF Inv, LockInv, QueueOfCallers
  <2>5. /\ Pipeline'
        /\ \A m \in Request : OnWire(m)' => OnWire(m) \/ m = req[t]
    <3>1. CASE toPeer' = toPeer
      BY <2>1, <3>1 DEF OnWire, Inv, WireInv, Pipeline
    <3>2. CASE toPeer' = Append(toPeer, req[t])
      <4>1. /\ Len(toPeer') = Len(toPeer) + 1 /\ toPeer'[Len(toPeer) + 1] = req[t]
            /\ \A i \in 1..Len(toPeer) : toPeer'[i] = toPeer[i]
            /\ 1..Len(toPeer') = 1..Len(toPeer) \cup {Len(toPeer) + 1}
        BY <3>2, <1>0, <2>1
      <4>2. /\ \A i \in 1..Len(toPeer) : toPeer[i] < req[t]
            /\ \A i \in 1..Len(toUs) : toUs[i] < req[t]
            /\ handling # 0 => handling < req[t]
        BY <1>0, <2>2 DEF Travelled, OnWire, Inv, TypeOK
      <4>3. \A i, j \in 1..Len(toPeer') : i < j => toPeer'[i] < toPeer'[j]
        BY <1>0, <4>1, <4>2 DEF Inv, WireInv, Pipeline
      <4>4. Pipeline'
        BY <2>1, <4>1, <4>2, <4>3 DEF Inv, WireInv, Pipeline
      <4>. QED BY <2>1, <4>1, <4>4 DEF OnWire
    <3>. QED BY <2>1, <3>1, <3>2
  <2>6. ReceivedInv'
    BY <2>1, <2>2, <2>3, <2>5 DEF Travelled, Inv, WireInv, ReceivedInv
  <2>7. TravelInv'
    <3>. SUFFICES ASSUME NEW m \in Request, Travelled(m)'
                  PROVE  /\ m <= sent
                         /\ \A u \in Task : step'[u] # "idle" => m <= req[u]
                         /\ \A u \in Task : step'[u] \in {"lock", "send"} => m < req[u]
                         /\ outcome[m] = Unresolved =>
                               \E u \in Task : step'[u] = "reply" /\ req[u] = m
      BY <2>1 DEF TravelInv
    <3>1. CASE Travelled(m)
      BY <3>1, <2>1 DEF Inv, WireInv, TravelInv
    <3>2. CASE m = req[t]
      BY <3>2, <1>0, <2>1, <2>4
    <3>. QED BY <3>1, <3>2, <2>1, <2>3, <2>5 DEF Travelled
  <2>8. GivenInv'
    BY <2>1 DEF Inv, WireInv, GivenInv, Abandoned
  <2>. QED BY <2>5, <2>6, <2>7, <2>8 DEF WireInv
<1>4. ASSUME NEW t \in Task, Returns(t) PROVE WireInv'
  <2>1. PICK r \in Result : Settles(t, r)
    BY <1>4 DEF Returns, Return, Settles, InSend
  <2>. QED BY <2>1, SettleKeeps
<1>5. ASSUME NEW t \in Task, CancelWaiting(t) PROVE WireInv'
  <2>1. Settles(t, Failure("cancelled"))
    BY <1>5, Results DEF CancelWaiting, Settles, Reason
  <2>. QED BY <2>1, SettleKeeps
<1>6. CASE Receive
  <2>1. /\ UNCHANGED <<step, req, sent, queue, pending, outcome, toPeer, handling>>
        /\ toUs # <<>> /\ toUs' = Tail(toUs)
        /\ future' = IF Waiting THEN Reply(Head(toUs)) ELSE future
    BY <1>6 DEF Receive
  <2>2. /\ 1 \in 1..Len(toUs) /\ Head(toUs) = toUs[1] /\ toUs[1] \in Request
        /\ Len(toUs') = Len(toUs) - 1
        /\ \A i \in 1..Len(toUs') : toUs'[i] = toUs[i+1] /\ i + 1 \in 1..Len(toUs)
    BY <2>1, <1>0
  <2>3. Pipeline'
    BY <1>0, <2>1, <2>2 DEF Inv, WireInv, Pipeline
  <2>4. \A m \in Request : OnWire(m)' => OnWire(m) /\ toUs[1] < m
    BY <1>0, <2>1, <2>2 DEF OnWire, Inv, WireInv, Pipeline
  <2>5. CASE ~Waiting
    BY <2>1, <2>3, <2>4, <2>5, Moves DEF Inv
  <2>6. CASE Waiting
    <3>1. future' = Reply(toUs[1]) /\ OnWire(toUs[1])
      BY <2>1, <2>2, <2>6 DEF OnWire
    <3>2. \A m \in Request : future' = Reply(m) <=> m = toUs[1]
      BY <3>1, Results
    <3>3. /\ \A m : Given(m)' <=> Given(m)
          /\ ~Given(toUs[1])
      <4>1. \A m : Given(m)' <=> Given(m)
        BY <2>1 DEF Given
      <4>2. Given(toUs[1]) => toUs[1] < toUs[1]
        BY <2>2, <3>1 DEF Inv, WireInv, ReceivedInv
      <4>. QED BY <4>1, <4>2, <2>2 DEF Request
    <3>4. \A m \in Request : Travelled(m)' => Travelled(m)
      BY <2>4, <3>1, <3>2, <3>3 DEF Travelled
    <3>5. ReceivedInv'
      BY <2>4, <3>2, <3>3 DEF Inv, WireInv, ReceivedInv
    <3>6. TravelInv'
      BY <2>1, <3>4 DEF Inv, WireInv, TravelInv
    <3>7. GivenInv'
      BY <2>1 DEF Inv, WireInv, GivenInv, Abandoned
    <3>. QED BY <2>3, <3>5, <3>6, <3>7 DEF WireInv
  <2>. QED BY <2>5, <2>6
<1>7. CASE Close
  <2>1. /\ UNCHANGED <<step, req, sent, outcome, toPeer, toUs, handling>>
        /\ future' = future \/ future' = Failure("cancelled")
    BY <1>7 DEF Close
  <2>2. \A m \in Request : Failure("cancelled") # Reply(m)
    BY Results DEF Reason
  <2>. QED BY <2>1, <2>2, Moves DEF Inv, WireInv, Pipeline, OnWire
<1>8. CASE CloseSocket \/ UNCHANGED vars
  <2>1. UNCHANGED <<step, req, sent, outcome, toPeer, toUs, handling, future>>
    BY <1>8 DEF CloseSocket, vars
  <2>. QED BY <2>1, Moves DEF Inv, WireInv, Pipeline, OnWire
<1>9. CASE Handle
  <2>1. /\ UNCHANGED <<step, req, sent, outcome, toUs, future>>
        /\ handling = 0 /\ toPeer # <<>> /\ handling' = toPeer[1] /\ toPeer' = Tail(toPeer)
        /\ 1 \in 1..Len(toPeer) /\ Len(toPeer') = Len(toPeer) - 1
        /\ \A i \in 1..Len(toPeer') : toPeer'[i] = toPeer[i+1] /\ i + 1 \in 1..Len(toPeer)
    BY <1>9, <1>0 DEF Handle
  <2>2. Pipeline'
    BY <1>0, <2>1 DEF Inv, WireInv, Pipeline
  <2>3. \A m \in Request : OnWire(m)' => OnWire(m)
    BY <2>1 DEF OnWire
  <2>. QED BY <2>1, <2>2, <2>3, Moves DEF Inv
<1>10. CASE SendReply
  <2>1. /\ UNCHANGED <<step, req, sent, outcome, toPeer, future>>
        /\ handling # 0 /\ handling \in Request /\ handling' = 0
        /\ toUs' = Append(toUs, handling) \/ toUs' = toUs
    BY <1>10 DEF SendReply, Inv, TypeOK
  <2>2. CASE toUs' = toUs
    BY <2>1, <2>2, Numbers, Moves DEF Inv, WireInv, Pipeline, OnWire, Request
  <2>3. CASE toUs' = Append(toUs, handling)
    <3>1. /\ Len(toUs') = Len(toUs) + 1 /\ toUs'[Len(toUs) + 1] = handling
          /\ \A i \in 1..Len(toUs) : toUs'[i] = toUs[i]
          /\ 1..Len(toUs') = 1..Len(toUs) \cup {Len(toUs) + 1}
      BY <2>1, <2>3, <1>0
    <3>2. Pipeline'
      <4>1. \A i, j \in 1..Len(toUs') : i < j => toUs'[i] < toUs'[j]
        BY <1>0, <2>1, <3>1 DEF Inv, WireInv, Pipeline
      <4>. QED BY <2>1, <3>1, <4>1 DEF Inv, WireInv, Pipeline
    <3>3. \A m \in Request : m # 0
      BY DEF Request
    <3>4. \A m \in Request : OnWire(m)' => OnWire(m)
      BY <2>1, <3>1, <3>3 DEF OnWire
    <3>. QED BY <2>1, <3>2, <3>4, Moves DEF Inv
  <2>. QED BY <2>1, <2>2, <2>3
<1>11. CASE PeerRestarts
  <2>1. /\ UNCHANGED <<step, req, sent, outcome, toUs, future>>
        /\ handling' = 0 /\ toPeer' = <<>> /\ Len(toPeer') = 0
    BY <1>11 DEF PeerRestarts
  <2>2. Pipeline'
    BY <2>1 DEF Inv, WireInv, Pipeline
  <2>3. \A m \in Request : OnWire(m)' => OnWire(m)
    BY <2>1 DEF OnWire, Request
  <2>. QED BY <2>1, <2>2, <2>3, Moves DEF Inv
<1>12. ASSUME NEW t \in Task, Send(t) \/ Cancel(t) PROVE WireInv'
  BY <1>2, <1>3, <1>4, <1>12, HowSendReturns DEF Send, Inv
<1>13. CASE Peer
  BY <1>9, <1>10, <1>11, <1>13 DEF Peer
<1>. QED BY <1>1, <1>5, <1>6, <1>7, <1>8, <1>12, <1>13 DEF Next

-----------------------------------------------------------------------------
(* The promise.                                                            *)

\* The abstract module means the same by its words.
LEMMA SameWords ==
    /\ Promise!Request = Request /\ Promise!Reason = Reason
    /\ Promise!Unresolved = Unresolved
    /\ \A m : Promise!Reply(m) = Reply(m) /\ Promise!Failure(m) = Failure(m)
BY DEF Promise!Request, Promise!Reason, Promise!Unresolved, Promise!Reply, Promise!Failure,
   Request, Reason, Unresolved, Reply, Failure

\* A request settles as the promise allows.
LEMMA SettleReturns ==
    ASSUME Inv, NEW t \in Task, NEW r, Settles(t, r)
    PROVE  Promise!Next
<1>1. /\ req[t] \in Request /\ req[t] <= sent /\ outcome[req[t]] = Unresolved
      /\ r \in Result /\ r # Unresolved
      /\ outcome' = [outcome EXCEPT ![req[t]] = r] /\ sent' = sent
  BY DEF Settles, Inv, TypeOK, LockInv, Outstanding, Request
<1>2. ASSUME NEW why \in Reason, r = Failure(why) PROVE Promise!Return(req[t])
  BY <1>1, <1>2, SameWords DEF Promise!Return
<1>3. ASSUME NEW m \in Request, r = Reply(m) PROVE Promise!Return(req[t])
  <2>1. /\ m <= req[t] /\ (m # req[t] => Abandoned(m))
        /\ \A k \in Request : outcome[k] # Reply(m)
    BY <1>3, SettleMayAnswer
  <2>2. Promise!MayAnswer(req[t], m)
    BY <2>1, SameWords DEF Promise!MayAnswer, Abandoned
  <2>. QED BY <1>1, <1>3, <2>2, SameWords DEF Promise!Return
<1>. QED BY <1>1, <1>2, <1>3, Results, SameWords DEF Promise!Next

LEMMA StepRefines == Inv /\ [Next]_vars => [Promise!Next]_(Promise!promiseVars)
<1>. SUFFICES ASSUME Inv, [Next]_vars
              PROVE  Promise!Next \/ UNCHANGED <<sent, outcome>>
  BY DEF Promise!promiseVars
<1>. USE DEF life, wire
<1>1. ASSUME NEW t \in Task, Call(t) PROVE Promise!Next
  BY <1>1 DEF Call, Promise!Next, Promise!Ask
<1>2. ASSUME NEW t \in Task, Begin(t) \/ Transmit(t) PROVE UNCHANGED <<sent, outcome>>
  BY <1>2 DEF Begin, Transmit
<1>3. ASSUME NEW t \in Task, Returns(t) PROVE Promise!Next
  <2>1. PICK r \in Result : Settles(t, r)
    BY <1>3 DEF Returns, Return, Settles, InSend
  <2>. QED BY <2>1, SettleReturns
<1>4. ASSUME NEW t \in Task, CancelWaiting(t) PROVE Promise!Next
  <2>1. Settles(t, Failure("cancelled"))
    BY <1>4, Results DEF CancelWaiting, Settles, Reason
  <2>. QED BY <2>1, SettleReturns
<1>5. CASE Receive \/ Close \/ CloseSocket \/ Peer \/ UNCHANGED vars
  BY <1>5 DEF Receive, Close, CloseSocket, Peer, Handle, SendReply, PeerRestarts, vars
<1>6. ASSUME NEW t \in Task, Send(t) \/ Cancel(t)
      PROVE  Promise!Next \/ UNCHANGED <<sent, outcome>>
  BY <1>2, <1>3, <1>6, HowSendReturns DEF Send, Inv
<1>. QED BY <1>1, <1>4, <1>5, <1>6 DEF Next

\* The invariant holds in every reachable state.
THEOREM Invariance == Spec => []Inv
<1>1. Init => Inv
  BY TypeInit, LockInit, WireInit DEF Inv
<1>2. Inv /\ [Next]_vars => Inv'
  BY TypeStep, LockStep, WireStep DEF Inv
<1>. QED BY <1>1, <1>2, PTL DEF Spec

\* send() keeps the promise, for any set of tasks, whatever is dropped, late or cancelled: no
\* reply goes to two callers, and one that is not the caller's own is of an earlier request and
\* comes after one was abandoned.
THEOREM Refinement == Spec => ImplementsRequestReply
<1>1. Init => Promise!Init
  BY SameWords DEF Init, Promise!Init
<1>. QED BY <1>1, StepRefines, Invariance, PTL DEF Spec, ImplementsRequestReply, Promise!Spec

-----------------------------------------------------------------------------
(* SyncDealer: what is proved in its own module, of the instance that the *)
(* composition has.                                                        *)

SP == INSTANCE SyncDealer_proofs WITH
    MaxSends <- MaxSyncSends, step <- syncStep, req <- syncReq, sent <- syncSent,
    outcome <- syncOutcome, loop <- syncLoop, wire <- replies

\* The terms, the type, the actions and the promise of both instances of SyncDealer are the same.
LEMMA SameTerms ==
    /\ SP!Request = Sync!Request /\ SP!Result = Sync!Result /\ SP!Unresolved = Sync!Unresolved
    /\ \A x : SP!Failure(x) = Sync!Failure(x) /\ SP!Reply(x) = Sync!Reply(x)
<1>1. \A x : SP!Failure(x) = Sync!Failure(x) /\ SP!Reply(x) = Sync!Reply(x)
  BY DEF SP!Failure, Sync!Failure, SP!Reply, Sync!Reply
<1>2. SP!Request = Sync!Request
  BY DEF SP!Request, Sync!Request
<1>3. SP!Unresolved = Sync!Unresolved
  BY <1>1 DEF SP!Unresolved, Sync!Unresolved
<1>4. SP!Reason = Sync!Reason
  BY DEF SP!Reason, Sync!Reason
<1>5. SP!Result = Sync!Result
  BY <1>1, <1>2, <1>4 DEF SP!Result, Sync!Result
<1>. QED BY <1>1, <1>2, <1>3, <1>5

LEMMA SameType == SP!TypeOK <=> Sync!TypeOK
BY SameTerms DEF SP!TypeOK, Sync!TypeOK

LEMMA SameInit == Sync!Init => SP!Init
BY SameTerms DEF SP!Init, Sync!Init

LEMMA SameSend == ASSUME NEW t \in Thread PROVE Sync!Send(t) => SP!Send(t)
<1>1. Sync!Acquire(t) => SP!Acquire(t)
  BY DEF SP!Acquire, Sync!Acquire, SP!life, Sync!life
<1>2. Sync!Erase(t) => SP!Erase(t)
  BY SameTerms DEF SP!Erase, Sync!Erase, SP!life, Sync!life
<1>3. Sync!Write(t) => SP!Write(t)
  BY DEF SP!Write, Sync!Write, SP!life, Sync!life, SP!handover, Sync!handover
<1>4. Sync!WriteFails(t) => SP!WriteFails(t)
  BY SameTerms
   DEF SP!WriteFails, Sync!WriteFails, SP!Return, Sync!Return, SP!life, Sync!life, SP!handover,
       Sync!handover
<1>5. Sync!Wake(t) => SP!Wake(t)
  BY SameTerms
   DEF SP!Wake, Sync!Wake, SP!Return, Sync!Return, SP!life, Sync!life, SP!handover,
       Sync!handover
<1>6. Sync!Timeout(t) => SP!Timeout(t)
  BY SameTerms
   DEF SP!Timeout, Sync!Timeout, SP!Return, Sync!Return, SP!life, Sync!life, SP!handover,
       Sync!handover
<1>. QED BY <1>1, <1>2, <1>3, <1>4, <1>5, <1>6 DEF Sync!Send, SP!Send

LEMMA SameLoop == Sync!Loop => SP!Loop
<1>. USE SameTerms
     DEF SP!caller, Sync!caller, SP!life, Sync!life, SP!handover, Sync!handover,
         SP!Deposit, Sync!Deposit
<1>1. Sync!Start => SP!Start
  BY DEF SP!Start, Sync!Start
<1>2. Sync!Command => SP!Command
  BY DEF SP!Command, Sync!Command, SP!Stop, Sync!Stop
<1>3. Sync!Receive => SP!Receive
  BY DEF SP!Receive, Sync!Receive
<1>4. Sync!ReceiveFails => SP!ReceiveFails
  BY DEF SP!ReceiveFails, Sync!ReceiveFails
<1>5. Sync!PollFails => SP!PollFails
  BY DEF SP!PollFails, Sync!PollFails
<1>6. Sync!Finish => SP!Finish
  BY DEF SP!Finish, Sync!Finish
<1>. QED BY <1>1, <1>2, <1>3, <1>4, <1>5, <1>6 DEF SP!Loop, Sync!Loop

LEMMA SameNext == [Sync!Next]_(Sync!vars) => [SP!Next]_(SP!vars)
<1>. USE DEF SP!caller, Sync!caller, SP!life, Sync!life, SP!handover, Sync!handover
<1>1. ASSUME NEW t \in Thread, Sync!Call(t) PROVE SP!Call(t)
  BY <1>1 DEF SP!Call, Sync!Call
<1>2. Sync!Close => SP!Close
  BY DEF SP!Close, Sync!Close
<1>3. Sync!CloseSends => SP!CloseSends
  BY DEF SP!CloseSends, Sync!CloseSends, SP!Stop, Sync!Stop
<1>4. Sync!Next => SP!Next
  BY <1>1, <1>2, <1>3, SameSend, SameLoop DEF SP!Next, Sync!Next
<1>5. UNCHANGED Sync!vars => UNCHANGED SP!vars
  BY DEF SP!vars, Sync!vars
<1>. QED BY <1>4, <1>5

LEMMA SyncTyped == Sync!Spec => []Sync!TypeOK
<1>1. SP!Constants
  BY SyncAssumption DEF SP!Constants
<1>2. SP!Spec => []SP!Inv
  BY <1>1, SP!Invariance
<1>3. SP!Inv => Sync!TypeOK
  BY SameType DEF SP!Inv
<1>. QED BY <1>2, <1>3, SameInit, SameNext, PTL DEF SP!Spec, Sync!Spec

LEMMA SamePromise ==
    /\ SP!Promise!Init <=> Sync!Promise!Init
    /\ [SP!Promise!Next]_(SP!Promise!promiseVars) <=> [Sync!Promise!Next]_(Sync!Promise!promiseVars)
<1>1. /\ SP!Promise!Request = Sync!Promise!Request /\ SP!Promise!Reason = Sync!Promise!Reason
      /\ SP!Promise!Unresolved = Sync!Promise!Unresolved
      /\ \A x : /\ SP!Promise!Failure(x) = Sync!Promise!Failure(x)
                /\ SP!Promise!Reply(x) = Sync!Promise!Reply(x)
  BY DEF SP!Promise!Request, Sync!Promise!Request, SP!Promise!Reason, Sync!Promise!Reason,
         SP!Promise!Unresolved, Sync!Promise!Unresolved, SP!Promise!Failure,
         Sync!Promise!Failure, SP!Promise!Reply, Sync!Promise!Reply
<1>2. SP!Promise!Init <=> Sync!Promise!Init
  BY <1>1 DEF SP!Promise!Init, Sync!Promise!Init
<1>3. \A n, m : SP!Promise!MayAnswer(n, m) <=> Sync!Promise!MayAnswer(n, m)
  BY <1>1 DEF SP!Promise!MayAnswer, Sync!Promise!MayAnswer
<1>4. \A n : SP!Promise!Return(n) <=> Sync!Promise!Return(n)
  BY <1>1, <1>3 DEF SP!Promise!Return, Sync!Promise!Return
<1>5. SP!Promise!Next <=> Sync!Promise!Next
  BY <1>1, <1>4 DEF SP!Promise!Next, Sync!Promise!Next, SP!Promise!Ask, Sync!Promise!Ask
<1>6. UNCHANGED SP!Promise!promiseVars <=> UNCHANGED Sync!Promise!promiseVars
  BY DEF SP!Promise!promiseVars, Sync!Promise!promiseVars
<1>. QED BY <1>2, <1>5, <1>6, Zenon

\* The synchronous dealer keeps the same promise, for any number of threads.
THEOREM SyncKeepsPromise == Sync!Spec => SyncImplementsRequestReply
<1>1. SP!Constants
  BY SyncAssumption DEF SP!Constants
<1>2. SP!Spec => SP!ImplementsRequestReply
  BY <1>1, SP!Refinement
<1>. QED BY <1>2, SameInit, SameNext, SamePromise, PTL
    DEF SP!Spec, Sync!Spec, SP!ImplementsRequestReply, SP!Promise!Spec,
        SyncImplementsRequestReply, Sync!ImplementsRequestReply, Sync!Promise!Spec

-----------------------------------------------------------------------------
(* PubSub.  The numbers of a topic grow along the way of its messages:     *)
(* what a handler was given is older than what is in the batch, what was   *)
(* received older than what is under way, and that older than the next     *)
(* number.  Loss only thins these out.                                     *)

\* A message without the bounds of the model.
AnyMessage == [topic : Topic, life : Nat, id : Nat \ {0}]

PSTypes ==
    /\ pubLife \in Nat \ {0} /\ numbered \in [Topic -> Nat]
    /\ pubWire \in Seq(AnyMessage)
    /\ last \in [Topic -> Nat] /\ missed \in [Topic -> Nat]
    /\ batch \in [Topic -> SUBSET AnyMessage]
    /\ heard \in [Topic -> SUBSET AnyMessage]
    /\ handled \in [Topic -> Seq(AnyMessage)]

\* The publisher that lives has numbered the message, or an earlier one had.
Numbered(m, alive, numbers) ==
    m.life < alive \/ (m.life = alive /\ m.id <= numbers[m.topic])

WayInv ==
    /\ \A i \in DOMAIN pubWire : Numbered(pubWire[i], pubLife, numbered)
    /\ \A i, j \in DOMAIN pubWire :
          i < j /\ pubWire[i].topic = pubWire[j].topic => PS!Newer(pubWire[i], pubWire[j])
    /\ \A t \in Topic : \A m \in heard[t] :
          /\ m.topic = t /\ Numbered(m, pubLife, numbered)
          /\ \A i \in DOMAIN pubWire : pubWire[i].topic = t => PS!Newer(m, pubWire[i])

\* None of the messages is newer.
Newest(m, messages) == \A n \in messages : ~PS!Newer(m, n)

HandlerInv ==
    \A t \in Topic :
        /\ \A i, j \in DOMAIN handled[t] : i < j => PS!Newer(handled[t][i], handled[t][j])
        /\ \A i \in DOMAIN handled[t] : handled[t][i] \in heard[t]
        /\ \A m \in batch[t] :
              /\ batch[t] = {m} /\ m \in heard[t] /\ Newest(m, heard[t])
              /\ \A i \in DOMAIN handled[t] : PS!Newer(handled[t][i], m)
        /\ t \notin dropped /\ batch[t] = {} /\ heard[t] # {} =>
              handled[t] # <<>> /\ Newest(handled[t][Len(handled[t])], heard[t])

\* The asynchronous subscriber has no batch.
NoBatch == ~conflating => \A t \in Topic : batch[t] = {}

Skipped(t) == {id \in 1..last[t] : /\ \E m \in heard[t] : m.id < id
                                   /\ \A m \in heard[t] : m.id # id}

\* While the first publisher lives, the last number is the greatest.
GapInv ==
    \A t \in Topic : (\A m \in heard[t] : m.life = 1) =>
        /\ heard[t] = {} => last[t] = 0
        /\ heard[t] # {} => \E m \in heard[t] : m.id = last[t]
        /\ \A m \in heard[t] : m.id <= last[t]
        /\ IsFiniteSet(Skipped(t)) /\ missed[t] = Cardinality(Skipped(t))

PSInv == PSTypes /\ WayInv /\ HandlerInv /\ NoBatch /\ GapInv

-----------------------------------------------------------------------------

LEMMA PSStart == PS!Init => PSInv
<1>. SUFFICES ASSUME PS!Init PROVE PSInv
  OBVIOUS
<1>1. PSTypes /\ WayInv /\ HandlerInv /\ NoBatch
  BY DEF PS!Init, PSTypes, WayInv, HandlerInv, NoBatch
<1>2. \A t \in Topic : heard[t] = {} /\ last[t] = 0 /\ missed[t] = 0
  BY DEF PS!Init
<1>3. \A t \in Topic : Skipped(t) = {}
  BY <1>2 DEF Skipped
<1>4. GapInv
  BY <1>2, <1>3, FS_EmptySet DEF GapInv
<1>. QED BY <1>1, <1>4 DEF PSInv

\* A message that is taken off the wire.
LEMMA TakeFacts ==
    ASSUME PSTypes, NEW m, PS!Take(m)
    PROVE  /\ m \in AnyMessage /\ pubWire # <<>> /\ m = pubWire[1] /\ 1 \in DOMAIN pubWire
           /\ pubWire' \in Seq(AnyMessage)
           /\ \A i \in DOMAIN pubWire' : /\ i + 1 \in DOMAIN pubWire
                                         /\ pubWire'[i] = pubWire[i + 1]
           /\ heard' = [heard EXCEPT ![m.topic] = @ \cup {m}]
           /\ last' = [last EXCEPT ![m.topic] = m.id]
           /\ missed' = [missed EXCEPT ![m.topic] = @ + PS!MissedBefore(m.topic, m.id)]
           /\ PS!MissedBefore(m.topic, m.id) \in Nat
           /\ UNCHANGED <<conflating, pubLife, numbered, dropped>>
<1>1. pubWire \in Seq(AnyMessage) /\ pubWire # <<>> /\ m = Head(pubWire)
      /\ pubWire' = Tail(pubWire)
  BY DEF PS!Take, PSTypes
<1>2. m = pubWire[1] /\ 1 \in DOMAIN pubWire /\ m \in AnyMessage
  BY <1>1
<1>3. /\ pubWire' \in Seq(AnyMessage)
      /\ \A i \in DOMAIN pubWire' : i + 1 \in DOMAIN pubWire /\ pubWire'[i] = pubWire[i + 1]
  BY <1>1
<1>4. m.id \in Nat /\ last[m.topic] \in Nat
  BY <1>2 DEF AnyMessage, PSTypes
<1>5. PS!MissedBefore(m.topic, m.id) \in Nat
  BY <1>4 DEF PS!MissedBefore
<1>. QED BY <1>1, <1>2, <1>3, <1>5 DEF PS!Take, PS!publisher

\* The wire keeps what it had, but for one message.
LEMMA LoseFacts ==
    ASSUME PSTypes, PS!Lose
    PROVE  /\ pubWire' \in Seq(AnyMessage)
           /\ \E k \in DOMAIN pubWire : \A i \in DOMAIN pubWire' :
                 LET j == IF i < k THEN i ELSE i + 1 IN
                 j \in DOMAIN pubWire /\ pubWire'[i] = pubWire[j]
<1>1. PICK k \in DOMAIN pubWire :
          pubWire' = SubSeq(pubWire, 1, k - 1) \o SubSeq(pubWire, k + 1, Len(pubWire))
  BY DEF PS!Lose
<1>. DEFINE n == Len(pubWire)
            before == SubSeq(pubWire, 1, k - 1)
            after == SubSeq(pubWire, k + 1, n)
<1>2. pubWire \in Seq(AnyMessage) /\ n \in Nat /\ k \in 1..n
  BY DEF PSTypes
<1>3. before \in Seq(AnyMessage) /\ Len(before) = k - 1
      /\ \A i \in 1..(k - 1) : before[i] = pubWire[i]
  BY <1>2
<1>4. after \in Seq(AnyMessage) /\ Len(after) = n - k
      /\ \A i \in 1..(n - k) : after[i] = pubWire[k + i]
  BY <1>2
<1>. HIDE DEF before, after
<1>5. pubWire' = before \o after
  BY <1>1 DEF before, after
<1>6. pubWire' \in Seq(AnyMessage) /\ Len(pubWire') = n - 1
  BY <1>2, <1>3, <1>4, <1>5
<1>7. \A i \in 1..(n - 1) : pubWire'[i] = IF i < k THEN pubWire[i] ELSE pubWire[i + 1]
  <2>. SUFFICES ASSUME NEW i \in 1..(n - 1)
                PROVE  pubWire'[i] = IF i < k THEN pubWire[i] ELSE pubWire[i + 1]
    OBVIOUS
  <2>1. CASE i < k
    BY <1>2, <1>3, <1>4, <1>5, <2>1, SMTT(30)
  <2>2. CASE ~(i < k)
    <3>1. pubWire'[i] = after[i - (k - 1)]
      BY <1>2, <1>3, <1>4, <1>5, <2>2, SMTT(30)
    <3>2. i - (k - 1) \in 1..(n - k) /\ k + (i - (k - 1)) = i + 1
      BY <1>2, <2>2
    <3>. QED BY <1>4, <2>2, <3>1, <3>2
  <2>. QED BY <2>1, <2>2
<1>. QED BY <1>2, <1>6, <1>7

LEMMA PublishFacts ==
    ASSUME PSTypes, NEW t \in Topic, PS!Publish(t)
    PROVE  LET m == [topic |-> t, life |-> pubLife, id |-> numbered[t] + 1] IN
           /\ m \in AnyMessage
           /\ numbered' = [numbered EXCEPT ![t] = @ + 1]
           /\ pubWire' \in {pubWire, Append(pubWire, m)}
           /\ UNCHANGED <<conflating, pubLife, last, missed, heard, batch, handled, dropped>>
<1>. DEFINE m == [topic |-> t, life |-> pubLife, id |-> numbered[t] + 1]
<1>1. m \in AnyMessage
  BY DEF PSTypes, AnyMessage
<1>2. /\ numbered' = [numbered EXCEPT ![t] = @ + 1]
      /\ pubWire' = Append(pubWire, m) \/ pubWire' = pubWire
      /\ UNCHANGED <<conflating, pubLife, PS!account, batch, handled, dropped>>
  BY Zenon DEF PS!Publish
<1>. HIDE DEF m
<1>3. UNCHANGED <<conflating, pubLife, last, missed, heard, batch, handled, dropped>>
  BY <1>2 DEF PS!account
<1>. QED BY <1>1, <1>2, <1>3 DEF m

LEMMA PSTypesStep ==
    ASSUME PSTypes, PS!Next
    PROVE  PSTypes'
<1>1. CASE PS!Reconnect \/ PS!PublisherRestarts
  BY <1>1 DEF PS!Reconnect, PS!PublisherRestarts, PS!account, PSTypes
<1>2. ASSUME NEW t \in Topic, PS!Publish(t) PROVE PSTypes'
  <2>. DEFINE m == [topic |-> t, life |-> pubLife, id |-> numbered[t] + 1]
  <2>1. /\ m \in AnyMessage
        /\ numbered' = [numbered EXCEPT ![t] = @ + 1]
        /\ pubWire' \in {pubWire, Append(pubWire, m)}
        /\ UNCHANGED <<pubLife, last, missed, heard, batch, handled>>
    BY <1>2, PublishFacts
  <2>. HIDE DEF m
  <2>2. numbered' \in [Topic -> Nat]
    BY <2>1 DEF PSTypes
  <2>3. pubWire' \in Seq(AnyMessage)
    <3>1. pubWire \in Seq(AnyMessage)
      BY DEF PSTypes
    <3>2. Append(pubWire, m) \in Seq(AnyMessage)
      BY <2>1, <3>1
    <3>. QED BY <2>1, <3>1, <3>2
  <2>. QED BY <2>1, <2>2, <2>3 DEF PSTypes
<1>3. CASE PS!Lose
  BY <1>3, LoseFacts DEF PS!Lose, PS!account, PS!publisher, PSTypes
<1>4. ASSUME NEW m, PS!Take(m)
      PROVE  /\ m \in AnyMessage /\ m.topic \in Topic
             /\ pubLife' \in Nat \ {0} /\ numbered' \in [Topic -> Nat]
             /\ pubWire' \in Seq(AnyMessage)
             /\ last' \in [Topic -> Nat] /\ missed' \in [Topic -> Nat]
             /\ heard' \in [Topic -> SUBSET AnyMessage]
  <2>1. /\ m \in AnyMessage
        /\ pubWire' \in Seq(AnyMessage)
        /\ heard' = [heard EXCEPT ![m.topic] = @ \cup {m}]
        /\ last' = [last EXCEPT ![m.topic] = m.id]
        /\ missed' = [missed EXCEPT ![m.topic] = @ + PS!MissedBefore(m.topic, m.id)]
        /\ PS!MissedBefore(m.topic, m.id) \in Nat
        /\ UNCHANGED <<pubLife, numbered>>
    BY <1>4, TakeFacts
  <2>2. m.topic \in Topic /\ m.id \in Nat
    BY <2>1 DEF AnyMessage
  <2>. QED BY <2>1, <2>2 DEF PSTypes
<1>5. CASE PS!ReceiveAsync
  <2>1. PICK m : PS!Take(m) /\ handled' = [handled EXCEPT ![m.topic] = Append(@, m)]
                 /\ batch' = batch
    BY <1>5 DEF PS!ReceiveAsync
  <2>2. handled' \in [Topic -> Seq(AnyMessage)]
    BY <1>4, <2>1 DEF PSTypes
  <2>. QED BY <1>4, <2>1, <2>2 DEF PSTypes
<1>6. CASE PS!ReceiveSync
  <2>1. PICK m : PS!Take(m) /\ batch' = [batch EXCEPT ![m.topic] = {m}] /\ handled' = handled
    BY <1>6 DEF PS!ReceiveSync
  <2>2. batch' \in [Topic -> SUBSET AnyMessage]
    BY <1>4, <2>1 DEF PSTypes
  <2>. QED BY <1>4, <2>1, <2>2 DEF PSTypes
<1>7. CASE PS!Dispatch
  <2>1. batch' \in [Topic -> SUBSET AnyMessage]
    BY <1>7 DEF PS!Dispatch, PS!NothingReceived, PSTypes
  <2>2. \A t \in Topic : batch[t] # {} => (CHOOSE m \in batch[t] : TRUE) \in AnyMessage
    BY DEF PSTypes
  <2>3. handled' \in [Topic -> Seq(AnyMessage)]
    BY <1>7, <2>2 DEF PS!Dispatch, PSTypes
  <2>. QED BY <1>7, <2>1, <2>3 DEF PS!Dispatch, PS!publisher, PS!account, PSTypes
<1>8. CASE PS!ReceiveFails
  BY <1>8 DEF PS!ReceiveFails, PS!NothingReceived, PS!publisher, PS!account, PSTypes
<1>. QED
  BY <1>1, <1>2, <1>3, <1>5, <1>6, <1>7, <1>8 DEF PS!Next

LEMMA WayStep ==
    ASSUME PSTypes, WayInv, PS!Next
    PROVE  WayInv'
<1>0. /\ pubWire \in Seq(AnyMessage)
      /\ \A i \in DOMAIN pubWire : pubWire[i] \in AnyMessage
      /\ \A t \in Topic : \A m \in heard[t] : m \in AnyMessage
  BY DEF PSTypes
<1>. USE DEF WayInv
<1>1. CASE PS!Reconnect \/ PS!Dispatch
  BY <1>1 DEF PS!Reconnect, PS!Dispatch, PS!account, PS!publisher, Numbered
<1>2. CASE PS!PublisherRestarts
  <2>1. pubLife' = pubLife + 1 /\ UNCHANGED <<pubWire, heard>>
    BY <1>2 DEF PS!PublisherRestarts, PS!account
  <2>2. \A m \in AnyMessage : Numbered(m, pubLife, numbered) => Numbered(m, pubLife', numbered')
    BY <2>1 DEF Numbered, AnyMessage, PSTypes
  <2>. QED BY <1>0, <2>1, <2>2
<1>3. ASSUME NEW t \in Topic, PS!Publish(t) PROVE WayInv'
  <2>. DEFINE m == [topic |-> t, life |-> pubLife, id |-> numbered[t] + 1]
  <2>1. /\ m \in AnyMessage
        /\ numbered' = [numbered EXCEPT ![t] = @ + 1]
        /\ pubWire' \in {pubWire, Append(pubWire, m)}
        /\ pubLife' = pubLife /\ heard' = heard
    BY <1>3, PublishFacts
  <2>2. \A n \in AnyMessage : Numbered(n, pubLife, numbered) => Numbered(n, pubLife', numbered')
    BY <2>1 DEF Numbered, AnyMessage, PSTypes
  <2>3. Numbered(m, pubLife', numbered')
    BY <2>1 DEF Numbered, PSTypes
  <2>4. \A n \in AnyMessage : n.topic = t /\ Numbered(n, pubLife, numbered) => PS!Newer(n, m)
    BY DEF Numbered, AnyMessage, PSTypes, PS!Newer
  <2>5. CASE pubWire' = pubWire
    BY <1>0, <2>1, <2>2, <2>5
  <2>6. CASE pubWire' = Append(pubWire, m)
    <3>1. m.topic = t
      OBVIOUS
    <3>. HIDE DEF m
    <3>2. /\ DOMAIN pubWire' = DOMAIN pubWire \cup {Len(pubWire) + 1}
          /\ \A i \in DOMAIN pubWire : i < Len(pubWire) + 1 /\ pubWire'[i] = pubWire[i]
          /\ pubWire'[Len(pubWire) + 1] = m
          /\ Len(pubWire) + 1 \in Nat /\ DOMAIN pubWire \subseteq Nat
      BY <1>0, <2>1, <2>6
    <3>3. \A i, j \in DOMAIN pubWire' :
             i < j /\ pubWire'[i].topic = pubWire'[j].topic =>
                 PS!Newer(pubWire'[i], pubWire'[j])
      BY <1>0, <2>4, <3>1, <3>2
    <3>4. \A i \in DOMAIN pubWire' : Numbered(pubWire'[i], pubLife', numbered')
      BY <1>0, <2>2, <2>3, <3>2
    <3>5. \A u \in Topic : \A n \in heard[u] :
             /\ n.topic = u /\ Numbered(n, pubLife', numbered')
             /\ \A i \in DOMAIN pubWire' : pubWire'[i].topic = u => PS!Newer(n, pubWire'[i])
      BY <1>0, <2>2, <2>4, <3>1, <3>2
    <3>. QED BY <2>1, <3>3, <3>4, <3>5
  <2>. QED BY <2>1, <2>5, <2>6
\* The rest thins out the wire, and one message of it may be heard.
<1>4. ASSUME NEW f, UNCHANGED <<pubLife, numbered>>,
             \A i \in DOMAIN pubWire' :
                 f[i] \in DOMAIN pubWire /\ pubWire'[i] = pubWire[f[i]],
             \A i, j \in DOMAIN pubWire' : i < j => f[i] < f[j]
      PROVE  /\ \A i \in DOMAIN pubWire' : Numbered(pubWire'[i], pubLife', numbered')
             /\ \A i, j \in DOMAIN pubWire' :
                   i < j /\ pubWire'[i].topic = pubWire'[j].topic =>
                       PS!Newer(pubWire'[i], pubWire'[j])
             /\ \A t \in Topic : \A m \in heard[t] :
                   /\ m.topic = t /\ Numbered(m, pubLife', numbered')
                   /\ \A i \in DOMAIN pubWire' :
                         pubWire'[i].topic = t => PS!Newer(m, pubWire'[i])
  BY <1>4 DEF Numbered
<1>5. CASE PS!Lose
  <2>1. pubWire' \in Seq(AnyMessage) /\ UNCHANGED <<pubLife, numbered, heard>>
    BY <1>5, LoseFacts DEF PS!Lose, PS!publisher, PS!account
  <2>2. PICK k \in DOMAIN pubWire : \A i \in DOMAIN pubWire' :
                 LET j == IF i < k THEN i ELSE i + 1 IN
                 j \in DOMAIN pubWire /\ pubWire'[i] = pubWire[j]
    BY <1>5, LoseFacts
  <2>. DEFINE f == [i \in DOMAIN pubWire' |-> IF i < k THEN i ELSE i + 1]
  <2>3. \A i, j \in DOMAIN pubWire' : i < j => f[i] < f[j]
    BY <1>0, <2>1
  <2>4. \A i \in DOMAIN pubWire' : f[i] \in DOMAIN pubWire /\ pubWire'[i] = pubWire[f[i]]
    BY <2>2
  <2>. HIDE DEF f
  <2>. QED BY <1>4, <2>1, <2>3, <2>4
<1>6. ASSUME NEW m, PS!Take(m) PROVE WayInv'
  <2>1. /\ m \in AnyMessage /\ m = pubWire[1] /\ 1 \in DOMAIN pubWire
        /\ pubWire' \in Seq(AnyMessage)
        /\ \A i \in DOMAIN pubWire' : /\ i + 1 \in DOMAIN pubWire
                                      /\ pubWire'[i] = pubWire[i + 1]
        /\ heard' = [heard EXCEPT ![m.topic] = @ \cup {m}]
        /\ UNCHANGED <<pubLife, numbered>>
    BY <1>6, TakeFacts
  <2>. DEFINE f == [i \in DOMAIN pubWire' |-> i + 1]
  <2>2. \A i, j \in DOMAIN pubWire' : i < j => f[i] < f[j]
    BY <2>1
  <2>3. \A i \in DOMAIN pubWire' : f[i] \in DOMAIN pubWire /\ pubWire'[i] = pubWire[f[i]]
    BY <2>1
  <2>4. \A i \in DOMAIN pubWire' : 1 < f[i]
    BY <2>1
  <2>. HIDE DEF f
  <2>5. /\ \A i \in DOMAIN pubWire' : Numbered(pubWire'[i], pubLife', numbered')
        /\ \A i, j \in DOMAIN pubWire' :
              i < j /\ pubWire'[i].topic = pubWire'[j].topic =>
                  PS!Newer(pubWire'[i], pubWire'[j])
        /\ \A t \in Topic : \A n \in heard[t] :
              /\ n.topic = t /\ Numbered(n, pubLife', numbered')
              /\ \A i \in DOMAIN pubWire' : pubWire'[i].topic = t => PS!Newer(n, pubWire'[i])
    BY <1>4, <2>1, <2>2, <2>3
  <2>6. /\ Numbered(m, pubLife', numbered')
        /\ \A i \in DOMAIN pubWire' : pubWire'[i].topic = m.topic => PS!Newer(m, pubWire'[i])
    BY <2>1, <2>3, <2>4 DEF Numbered
  <2>7. \A t \in Topic : \A n \in heard'[t] : n \in heard[t] \/ (n = m /\ t = m.topic)
    BY <2>1 DEF PSTypes
  <2>. QED BY <2>5, <2>6, <2>7
<1>7. CASE PS!ReceiveAsync \/ PS!ReceiveSync
  BY <1>6, <1>7 DEF PS!ReceiveAsync, PS!ReceiveSync
<1>8. CASE PS!ReceiveFails
  <2>1. pubWire' = <<>> /\ UNCHANGED <<pubLife, numbered, heard>>
    BY <1>8 DEF PS!ReceiveFails, PS!publisher, PS!account
  <2>. QED BY <2>1 DEF Numbered
<1>. QED
  BY <1>1, <1>2, <1>3, <1>5, <1>7, <1>8 DEF PS!Next

\* The message taken is newer than all that was received of its topic.
LEMMA TakenIsNewest ==
    ASSUME PSTypes, WayInv, NEW m, PS!Take(m)
    PROVE  /\ m \in AnyMessage /\ m.topic \in Topic
           /\ \A n \in heard[m.topic] : PS!Newer(n, m)
           /\ heard' = [heard EXCEPT ![m.topic] = @ \cup {m}]
           /\ Newest(m, heard'[m.topic])
           /\ UNCHANGED <<conflating, dropped>>
<1>1. /\ m \in AnyMessage /\ 1 \in DOMAIN pubWire /\ m = pubWire[1]
      /\ heard' = [heard EXCEPT ![m.topic] = @ \cup {m}]
      /\ UNCHANGED <<conflating, dropped>>
  BY TakeFacts
<1>2. m.topic \in Topic /\ m.life \in Nat /\ m.id \in Nat
  BY <1>1 DEF AnyMessage
<1>3. \A n \in heard[m.topic] : PS!Newer(n, m)
  BY <1>1, <1>2 DEF WayInv
<1>4. heard'[m.topic] = heard[m.topic] \cup {m}
  BY <1>1, <1>2 DEF PSTypes
<1>5. \A n \in heard[m.topic] : n.life \in Nat /\ n.id \in Nat
  BY <1>2 DEF PSTypes, AnyMessage
<1>6. Newest(m, heard'[m.topic])
  BY <1>2, <1>3, <1>4, <1>5 DEF Newest, PS!Newer
<1>. QED BY <1>1, <1>2, <1>3, <1>6

LEMMA HandlerStep ==
    ASSUME PSTypes, WayInv, HandlerInv, NoBatch, PS!Next
    PROVE  HandlerInv' /\ NoBatch'
<1>0. \A t \in Topic : /\ handled[t] \in Seq(AnyMessage) /\ heard[t] \subseteq AnyMessage
                       /\ batch[t] \subseteq AnyMessage
  BY DEF PSTypes
\* A handler is called with a message newer than all it has seen.
<1>1. ASSUME NEW t \in Topic, NEW m \in AnyMessage, handled'[t] = Append(handled[t], m),
             \A i \in DOMAIN handled[t] : PS!Newer(handled[t][i], m)
      PROVE  /\ \A i, j \in DOMAIN handled'[t] :
                   i < j => PS!Newer(handled'[t][i], handled'[t][j])
             /\ handled'[t] # <<>> /\ handled'[t][Len(handled'[t])] = m
             /\ \A i \in DOMAIN handled'[t] :
                   \/ handled'[t][i] = m
                   \/ \E k \in DOMAIN handled[t] : handled'[t][i] = handled[t][k]
  <2>1. /\ DOMAIN handled'[t] = DOMAIN handled[t] \cup {Len(handled[t]) + 1}
        /\ \A i \in DOMAIN handled[t] : /\ i < Len(handled[t]) + 1
                                        /\ handled'[t][i] = handled[t][i]
        /\ handled'[t][Len(handled[t]) + 1] = m
        /\ Len(handled'[t]) = Len(handled[t]) + 1
        /\ DOMAIN handled[t] \subseteq Nat /\ Len(handled[t]) \in Nat
    BY <1>0, <1>1
  <2>2. handled'[t] # <<>>
    BY <1>0, <1>1
  <2>3. \A i, j \in DOMAIN handled[t] : i < j => PS!Newer(handled[t][i], handled[t][j])
    BY DEF HandlerInv
  <2>4. \A i, j \in DOMAIN handled'[t] : i < j => PS!Newer(handled'[t][i], handled'[t][j])
    BY <1>1, <2>1, <2>3
  <2>. QED BY <2>1, <2>2, <2>4
<1>2. ASSUME UNCHANGED <<conflating, heard, batch, handled, dropped>>
      PROVE  HandlerInv' /\ NoBatch'
  BY <1>2 DEF HandlerInv, NoBatch
<1>3. CASE PS!Reconnect \/ PS!PublisherRestarts \/ PS!Lose \/ \E t \in Topic : PS!Publish(t)
  BY <1>2, <1>3, PublishFacts
     DEF PS!Reconnect, PS!PublisherRestarts, PS!Lose, PS!account, PS!publisher
<1>4. ASSUME NEW m, PS!Take(m), NEW t \in Topic, t # m.topic,
             batch'[t] = batch[t], handled'[t] = handled[t]
      PROVE  heard'[t] = heard[t] /\ dropped' = dropped
  BY <1>4, TakenIsNewest DEF PSTypes
<1>5. CASE PS!ReceiveAsync
  <2>1. PICK m : PS!Take(m) /\ handled' = [handled EXCEPT ![m.topic] = Append(@, m)]
                 /\ batch' = batch /\ ~conflating
    BY <1>5 DEF PS!ReceiveAsync
  <2>. DEFINE t == m.topic
  <2>2. /\ m \in AnyMessage /\ t \in Topic
        /\ \A n \in heard[t] : PS!Newer(n, m)
        /\ heard'[t] = heard[t] \cup {m} /\ Newest(m, heard'[t])
        /\ conflating' = conflating
    BY <2>1, TakenIsNewest DEF PSTypes
  <2>3. handled'[t] = Append(handled[t], m) /\ batch'[t] = {}
    BY <2>1, <2>2 DEF PSTypes, NoBatch
  <2>4. \A i \in DOMAIN handled[t] : handled[t][i] \in heard[t]
    BY <2>2 DEF HandlerInv
  <2>5. /\ \A i, j \in DOMAIN handled'[t] :
              i < j => PS!Newer(handled'[t][i], handled'[t][j])
        /\ handled'[t] # <<>> /\ handled'[t][Len(handled'[t])] = m
        /\ \A i \in DOMAIN handled'[t] : handled'[t][i] \in heard'[t]
    <3>1. \A i \in DOMAIN handled[t] : PS!Newer(handled[t][i], m)
      BY <2>2, <2>4
    <3>2. /\ \A i, j \in DOMAIN handled'[t] :
                i < j => PS!Newer(handled'[t][i], handled'[t][j])
          /\ handled'[t] # <<>> /\ handled'[t][Len(handled'[t])] = m
          /\ \A i \in DOMAIN handled'[t] :
                \/ handled'[t][i] = m
                \/ \E k \in DOMAIN handled[t] : handled'[t][i] = handled[t][k]
      <4>. HIDE DEF t
      <4>. QED BY <1>1, <2>2, <2>3, <3>1, Zenon
    <3>. QED BY <2>2, <2>4, <3>2
  <2>6. \A u \in Topic : u # t =>
            /\ heard'[u] = heard[u] /\ dropped' = dropped
            /\ batch'[u] = batch[u] /\ handled'[u] = handled[u]
    BY <1>4, <2>1 DEF PSTypes
  <2>. HIDE DEF t
  <2>7. HandlerInv'
    BY <2>2, <2>3, <2>5, <2>6 DEF HandlerInv
  <2>. QED BY <2>1, <2>2, <2>7 DEF NoBatch
<1>6. CASE PS!ReceiveSync
  <2>1. PICK m : PS!Take(m) /\ batch' = [batch EXCEPT ![m.topic] = {m}]
                 /\ handled' = handled /\ conflating
    BY <1>6 DEF PS!ReceiveSync
  <2>. DEFINE t == m.topic
  <2>2. /\ m \in AnyMessage /\ t \in Topic
        /\ \A n \in heard[t] : PS!Newer(n, m)
        /\ heard'[t] = heard[t] \cup {m} /\ Newest(m, heard'[t])
        /\ conflating' = conflating
    BY <2>1, TakenIsNewest DEF PSTypes
  <2>3. batch'[t] = {m}
    BY <2>1, <2>2 DEF PSTypes
  <2>4. \A i \in DOMAIN handled[t] : handled[t][i] \in heard[t] /\ PS!Newer(handled[t][i], m)
    BY <2>2 DEF HandlerInv
  <2>5. \A u \in Topic : u # t =>
            /\ heard'[u] = heard[u] /\ dropped' = dropped
            /\ batch'[u] = batch[u] /\ handled'[u] = handled[u]
    BY <1>4, <2>1 DEF PSTypes
  <2>. HIDE DEF t
  <2>6. handled' = handled /\ \A n \in batch'[t] : n = m
    BY <2>1, <2>3
  <2>7. /\ \A i, j \in DOMAIN handled'[t] :
              i < j => PS!Newer(handled'[t][i], handled'[t][j])
        /\ \A i \in DOMAIN handled'[t] : handled'[t][i] \in heard'[t]
        /\ \A n \in batch'[t] :
              /\ batch'[t] = {n} /\ n \in heard'[t] /\ Newest(n, heard'[t])
              /\ \A i \in DOMAIN handled'[t] : PS!Newer(handled'[t][i], n)
        /\ batch'[t] # {}
    BY <2>2, <2>3, <2>4, <2>6 DEF HandlerInv
  <2>8. HandlerInv'
    <3>. SUFFICES ASSUME NEW u \in Topic
                  PROVE  /\ \A i, j \in DOMAIN handled'[u] :
                               i < j => PS!Newer(handled'[u][i], handled'[u][j])
                         /\ \A i \in DOMAIN handled'[u] : handled'[u][i] \in heard'[u]
                         /\ \A n \in batch'[u] :
                               /\ batch'[u] = {n} /\ n \in heard'[u] /\ Newest(n, heard'[u])
                               /\ \A i \in DOMAIN handled'[u] : PS!Newer(handled'[u][i], n)
                         /\ u \notin dropped' /\ batch'[u] = {} /\ heard'[u] # {} =>
                               /\ handled'[u] # <<>>
                               /\ Newest(handled'[u][Len(handled'[u])], heard'[u])
      BY DEF HandlerInv
    <3>1. CASE u = t
      BY <2>7, <3>1
    <3>2. CASE u # t
      BY <2>5, <3>2 DEF HandlerInv
    <3>. QED BY <3>1, <3>2
  <2>. QED BY <2>1, <2>2, <2>8 DEF NoBatch
<1>7. CASE PS!Dispatch
  <2>1. /\ \A t \in Topic : handled'[t] = IF batch[t] = {} THEN handled[t]
                                  ELSE Append(handled[t], CHOOSE m \in batch[t] : TRUE)
        /\ \A t \in Topic : batch'[t] = {}
        /\ UNCHANGED <<conflating, heard, dropped>>
    BY <1>7 DEF PS!Dispatch, PS!NothingReceived, PS!account
  <2>2. ASSUME NEW t \in Topic, batch[t] # {}
        PROVE  /\ \A i, j \in DOMAIN handled'[t] :
                     i < j => PS!Newer(handled'[t][i], handled'[t][j])
               /\ \A i \in DOMAIN handled'[t] : handled'[t][i] \in heard'[t]
               /\ handled'[t] # <<>> /\ Newest(handled'[t][Len(handled'[t])], heard'[t])
    <3>. DEFINE m == CHOOSE m \in batch[t] : TRUE
    <3>1. m \in batch[t]
      BY <2>2
    <3>. HIDE DEF m
    <3>2. /\ m \in AnyMessage /\ m \in heard[t] /\ Newest(m, heard[t])
          /\ \A i \in DOMAIN handled[t] :
                handled[t][i] \in heard[t] /\ PS!Newer(handled[t][i], m)
      BY <1>0, <3>1 DEF HandlerInv
    <3>3. handled'[t] = Append(handled[t], m)
      BY <2>1, <2>2 DEF m
    <3>4. /\ \A i, j \in DOMAIN handled'[t] :
                i < j => PS!Newer(handled'[t][i], handled'[t][j])
          /\ handled'[t] # <<>> /\ handled'[t][Len(handled'[t])] = m
          /\ \A i \in DOMAIN handled'[t] :
                \/ handled'[t][i] = m
                \/ \E k \in DOMAIN handled[t] : handled'[t][i] = handled[t][k]
      BY <1>1, <3>2, <3>3, Zenon
    <3>. QED BY <2>1, <3>2, <3>4
  <2>3. \A t \in Topic : batch[t] = {} => handled'[t] = handled[t]
    BY <2>1
  <2>4. HandlerInv'
    BY <2>1, <2>2, <2>3 DEF HandlerInv
  <2>. QED BY <2>1, <2>4 DEF NoBatch
<1>8. CASE PS!ReceiveFails
  <2>1. /\ \A t \in Topic : batch'[t] = {} /\ (batch[t] # {} => t \in dropped')
        /\ dropped \subseteq dropped'
        /\ UNCHANGED <<conflating, heard, handled>>
    BY <1>8 DEF PS!ReceiveFails, PS!NothingReceived, PS!account
  <2>. QED BY <2>1 DEF HandlerInv, NoBatch
<1>. QED
  BY <1>3, <1>5, <1>6, <1>7, <1>8 DEF PS!Next

\* Of the first publisher's numbers those between the last one and the next are skipped.
LEMMA GapStep ==
    ASSUME PSTypes, WayInv, GapInv, PS!Next
    PROVE  GapInv'
<1>1. ASSUME UNCHANGED <<last, missed, heard>> PROVE GapInv'
  BY <1>1 DEF GapInv, Skipped
<1>2. ASSUME NEW m, PS!Take(m) PROVE GapInv'
  <2>. DEFINE t == m.topic
  <2>1. /\ m \in AnyMessage /\ t \in Topic
        /\ \A n \in heard[t] : PS!Newer(n, m)
        /\ heard' = [heard EXCEPT ![t] = @ \cup {m}]
        /\ last' = [last EXCEPT ![t] = m.id]
        /\ missed' = [missed EXCEPT ![t] = @ + PS!MissedBefore(t, m.id)]
    BY <1>2, TakenIsNewest, TakeFacts
  <2>2. /\ heard'[t] = heard[t] \cup {m} /\ last'[t] = m.id
        /\ missed'[t] = missed[t] + PS!MissedBefore(t, m.id)
    BY <2>1 DEF PSTypes
  <2>3. ASSUME NEW u \in Topic, u # t, \A n \in heard'[u] : n.life = 1
        PROVE  /\ heard'[u] = {} => last'[u] = 0
               /\ heard'[u] # {} => \E n \in heard'[u] : n.id = last'[u]
               /\ \A n \in heard'[u] : n.id <= last'[u]
               /\ IsFiniteSet(Skipped(u)') /\ missed'[u] = Cardinality(Skipped(u)')
    <3>1. heard'[u] = heard[u] /\ last'[u] = last[u] /\ missed'[u] = missed[u]
      BY <2>1, <2>3 DEF PSTypes
    <3>2. Skipped(u)' = Skipped(u)
      BY <3>1 DEF Skipped
    <3>. QED BY <2>3, <3>1, <3>2 DEF GapInv
  <2>4. ASSUME \A n \in heard'[t] : n.life = 1
        PROVE  /\ \E n \in heard'[t] : n.id = last'[t]
               /\ \A n \in heard'[t] : n.id <= last'[t]
               /\ IsFiniteSet(Skipped(t)') /\ missed'[t] = Cardinality(Skipped(t)')
    <3>1. /\ m.id \in Nat \ {0} /\ last[t] \in Nat /\ missed[t] \in Nat
          /\ \A n \in heard[t] : n.id \in Nat \ {0} /\ n.life \in Nat
      BY <2>1 DEF PSTypes, AnyMessage
    <3>2. /\ \A n \in heard[t] : n.id < m.id
          /\ \A n \in heard[t] : n.life = 1
      BY <2>1, <2>2, <2>4 DEF PS!Newer
    <3>3. /\ heard[t] = {} => last[t] = 0
          /\ heard[t] # {} => \E n \in heard[t] : n.id = last[t]
          /\ \A n \in heard[t] : n.id <= last[t]
          /\ IsFiniteSet(Skipped(t)) /\ missed[t] = Cardinality(Skipped(t))
      BY <2>1, <3>2 DEF GapInv
    <3>4. /\ \E n \in heard'[t] : n.id = last'[t]
          /\ \A n \in heard'[t] : n.id <= last'[t]
      BY <2>2, <3>1, <3>2
    <3>5. CASE heard[t] = {}
      <4>1. Skipped(t)' = {}
        BY <2>2, <3>1, <3>5 DEF Skipped
      <4>2. Skipped(t) = {} /\ last[t] = 0
        BY <3>3, <3>5 DEF Skipped
      <4>3. missed'[t] = missed[t]
        BY <2>2, <3>1, <4>2 DEF PS!MissedBefore
      <4>. QED BY <3>3, <3>4, <4>1, <4>2, <4>3
    <3>6. CASE heard[t] # {}
      <4>. DEFINE new == (last[t] + 1)..(m.id - 1)
      <4>1. last[t] # 0 /\ last[t] < m.id
        BY <3>1, <3>2, <3>3, <3>6
      <4>2. Skipped(t)' = Skipped(t) \cup new
        <5>1. ASSUME NEW id \in Skipped(t)' PROVE id \in Skipped(t) \cup new
          <6>1. id \in 1..m.id /\ id # m.id /\ \A n \in heard[t] : n.id # id
            BY <2>2, <5>1 DEF Skipped
          <6>2. \E n \in heard[t] : n.id < id
            BY <2>2, <3>1, <5>1, <6>1 DEF Skipped
          <6>. QED BY <3>1, <4>1, <6>1, <6>2 DEF Skipped
        <5>2. ASSUME NEW id \in Skipped(t) PROVE id \in Skipped(t)'
          <6>1. id \in 1..last[t] /\ (\E n \in heard[t] : n.id < id)
                /\ \A n \in heard[t] : n.id # id
            BY <5>2 DEF Skipped
          <6>2. id \in 1..m.id /\ m.id # id
            BY <3>1, <4>1, <6>1
          <6>. QED BY <2>2, <6>1, <6>2 DEF Skipped
        <5>3. ASSUME NEW id \in new PROVE id \in Skipped(t)'
          <6>1. id \in 1..m.id /\ m.id # id /\ id > last[t]
            BY <3>1, <4>1, <5>3
          <6>2. \A n \in heard[t] : n.id < id
            BY <3>1, <3>3, <5>3, <6>1
          <6>. QED BY <2>2, <3>1, <3>6, <6>1, <6>2 DEF Skipped
        <5>. QED BY <5>1, <5>2, <5>3
      <4>3. Skipped(t) \cap new = {}
        BY <3>1 DEF Skipped
      <4>4. IsFiniteSet(new) /\ Cardinality(new) = m.id - (last[t] + 1)
        <5>1. m.id - 1 \in Int /\ last[t] + 1 \in Int
          BY <3>1
        <5>2. /\ IsFiniteSet(new)
              /\ Cardinality(new) = IF last[t] + 1 > m.id - 1 THEN 0
                                    ELSE (m.id - 1) - (last[t] + 1) + 1
          BY <5>1, FS_Interval
        <5>. QED BY <3>1, <4>1, <5>2
      <4>. HIDE DEF new
      <4>5. IsFiniteSet(Skipped(t) \cup new)
        BY <3>3, <4>4, FS_Union
      <4>6. Cardinality(Skipped(t) \cup new)
              = Cardinality(Skipped(t)) + Cardinality(new) - Cardinality(Skipped(t) \cap new)
        BY <3>3, <4>4, FS_Union
      <4>7. Cardinality(Skipped(t) \cap new) = 0
        BY <4>3, FS_EmptySet
      <4>8. missed'[t] = missed[t] + (m.id - (last[t] + 1))
        BY <2>2, <3>1, <4>1 DEF PS!MissedBefore
      <4>9. Cardinality(Skipped(t) \cup new) = missed[t] + (m.id - (last[t] + 1))
        BY <3>1, <3>3, <4>4, <4>6, <4>7
      <4>. QED BY <3>4, <4>2, <4>5, <4>8, <4>9
    <3>. QED BY <3>5, <3>6
  <2>5. heard'[t] # {}
    BY <2>2
  <2>. HIDE DEF t
  <2>. QED BY <2>3, <2>4, <2>5 DEF GapInv
<1>3. CASE PS!ReceiveAsync \/ PS!ReceiveSync
  BY <1>2, <1>3 DEF PS!ReceiveAsync, PS!ReceiveSync
<1>4. CASE \E t \in Topic : PS!Publish(t)
  BY <1>1, <1>4, PublishFacts
<1>. QED
  BY <1>1, <1>3, <1>4
  DEF PS!Next, PS!Reconnect, PS!PublisherRestarts, PS!Lose, PS!Dispatch, PS!ReceiveFails,
      PS!account

LEMMA PSStep == PSInv /\ [PS!Next]_(PS!vars) => PSInv'
<1>1. CASE PSInv /\ PS!Next
  BY <1>1, PSTypesStep, WayStep, HandlerStep, GapStep DEF PSInv
<1>2. CASE PSInv /\ UNCHANGED PS!vars
  <2>. SUFFICES ASSUME PSInv, UNCHANGED PS!vars PROVE PSInv'
    BY <1>2
  <2>. USE DEF PSInv, PS!vars, PS!publisher, PS!account
  <2>1. PSTypes' /\ NoBatch'
    BY DEF PSTypes, NoBatch
  <2>2. WayInv'
    BY DEF WayInv
  <2>3. HandlerInv'
    BY DEF HandlerInv
  <2>4. GapInv'
    BY DEF GapInv, Skipped
  <2>. QED BY <2>1, <2>2, <2>3, <2>4
<1>. QED BY <1>1, <1>2

LEMMA GapsCounted == PSInv => PS!GapsAreLosses
<1>. SUFFICES ASSUME PSInv, NEW t \in Topic, heard[t] # {}, \A m \in heard[t] : m.life = 1
              PROVE  missed[t] = PS!Cardinality(Skipped(t))
  BY DEF PS!GapsAreLosses, Skipped
<1>. QED BY DEF PSInv, GapInv, PS!Cardinality, Cardinality

LEMMA HandlersSeeNewest == PSInv => PS!HandledInOrder
BY DEF PSInv, HandlerInv, Newest, PS!HandledInOrder

\* What a subscriber counts as missed is what was lost, and handlers see messages in order and
\* the newest of each batch: for any topics and messages, and losses anywhere and at any time.
THEOREM SubscribersSound == PS!Spec => []SubscriberSound
<1>. USE DEF SubscriberSound
<1>. QED BY PSStart, PSStep, GapsCounted, HandlersSeeNewest, PTL DEF PS!Spec

-----------------------------------------------------------------------------
(* What the publisher numbers, and what travels, stays within the bounds.  *)

LEMMA Pairs ==
    ASSUME NEW A, NEW B, IsFiniteSet(A), IsFiniteSet(B)
    PROVE  IsFiniteSet(A \X B)
BY FS_Product, SMT

\* A set is finite when two finite sets tell its elements apart.
LEMMA TwoKeys ==
    ASSUME NEW A, NEW B, IsFiniteSet(A), IsFiniteSet(B), NEW S,
           NEW f \in [S -> A \X B], \A s, r \in S : f[s] = f[r] => s = r
    PROVE  IsFiniteSet(S)
<1>1. f \in Injection(S, A \X B)
  BY DEF Injection, IsInjective
<1>. QED BY <1>1, Pairs, FS_Injection

LEMMA MessagesFinite == IsFiniteSet(PS!Message)
<1>. DEFINE lives == 1..MaxLives
            ids == 1..MaxMessages
            Label == [topic : Topic, life : lives]
            f == [l \in Label |-> <<l.topic, l.life>>]
            g == [m \in PS!Message |-> <<[topic |-> m.topic, life |-> m.life], m.id>>]
<1>1. IsFiniteSet(lives) /\ IsFiniteSet(ids) /\ IsFiniteSet(Topic)
  BY PubSubAssumption, FS_Interval
<1>. HIDE DEF ids, lives
<1>2. IsFiniteSet(Label)
  <2>1. \A s, r \in Label : f[s] = f[r] => s = r
    OBVIOUS
  <2>2. f \in [Label -> Topic \X lives]
    OBVIOUS
  <2>. HIDE DEF f, Label
  <2>. QED BY <1>1, <2>1, <2>2, TwoKeys
<1>3. IsFiniteSet(PS!Message)
  <2>1. \A s, r \in PS!Message : g[s] = g[r] => s = r
    BY DEF PS!Message
  <2>2. g \in [PS!Message -> Label \X ids]
    BY DEF PS!Message, ids, lives
  <2>. HIDE DEF g, Label
  <2>. QED BY <1>1, <1>2, <2>1, <2>2, TwoKeys
<1>. QED BY <1>3

\* A topic of which MaxMessages messages are numbered gets no more.
LEMMA RoomForMessage ==
    ASSUME PS!TypeOK, NEW t \in Topic, PS!Publish(t)
    PROVE  numbered[t] + 1 \in 1..MaxMessages
<1>. DEFINE made == {m \in PS!Message : m.life = pubLife /\ m.id <= numbered[m.topic]}
            f == [i \in 1..MaxMessages |-> [topic |-> t, life |-> pubLife, id |-> i]]
<1>1. pubLife \in 1..MaxLives /\ numbered[t] \in 0..MaxMessages
  BY DEF PS!TypeOK
<1>2. PS!Cardinality(made) < MaxMessages
  BY DEF PS!Publish
<1>3. Cardinality(made) < MaxMessages
  BY <1>2 DEF PS!Cardinality, Cardinality
<1>4. SUFFICES ASSUME numbered[t] = MaxMessages PROVE FALSE
  BY <1>1, PubSubAssumption
<1>5. IsFiniteSet(made)
  BY MessagesFinite, FS_Subset
<1>6. f \in Injection(1..MaxMessages, made)
  <2>1. \A i \in 1..MaxMessages : f[i] \in made
    BY <1>1, <1>4 DEF PS!Message
  <2>2. \A i, j \in 1..MaxMessages : f[i] = f[j] => i = j
    OBVIOUS
  <2>3. f \in [1..MaxMessages -> made]
    BY <2>1
  <2>. HIDE DEF f, made
  <2>. QED BY <2>2, <2>3 DEF Injection, IsInjective
<1>. HIDE DEF f, made
<1>7. Cardinality(1..MaxMessages) = MaxMessages
  BY PubSubAssumption, FS_Interval
<1>8. Cardinality(1..MaxMessages) <= Cardinality(made) /\ Cardinality(made) \in Nat
  BY <1>5, <1>6, FS_Injection, FS_CardinalityType
<1>. QED BY <1>3, <1>7, <1>8, PubSubAssumption

LEMMA PSTypedStart == PS!Init => PS!TypeOK
<1>1. <<>> \in Seq(PS!Message) /\ 1 \in 1..MaxLives /\ 0 \in 0..MaxMessages
  BY PubSubAssumption
<1>. SUFFICES ASSUME PS!Init PROVE PS!TypeOK
  OBVIOUS
<1>2. /\ conflating \in BOOLEAN
      /\ connected = FALSE
      /\ pubLife = 1
      /\ pubWire = <<>>
      /\ dropped = {}
      /\ numbered = [t \in Topic |-> 0]
      /\ last = [t \in Topic |-> 0]
      /\ missed = [t \in Topic |-> 0]
      /\ batch = [t \in Topic |-> {}]
      /\ heard = [t \in Topic |-> {}]
      /\ handled = [t \in Topic |-> <<>>]
  BY DEF PS!Init
<1>3. /\ numbered \in [Topic -> 0..MaxMessages] /\ last \in [Topic -> 0..MaxMessages]
      /\ missed \in [Topic -> Nat]
  BY <1>1, <1>2
<1>4. /\ batch \in [Topic -> SUBSET PS!Message] /\ heard \in [Topic -> SUBSET PS!Message]
      /\ handled \in [Topic -> Seq(PS!Message)]
  BY <1>1, <1>2
<1>. QED BY <1>1, <1>2, <1>3, <1>4 DEF PS!TypeOK

LEMMA PSTypedStep ==
    ASSUME PS!TypeOK, PSTypes, [PS!Next]_(PS!vars)
    PROVE  PS!TypeOK'
<1>. USE PubSubAssumption DEF PS!publisher, PS!account
<1>0. CASE PS!Reconnect
  BY <1>0 DEF PS!Reconnect, PS!TypeOK
<1>1. CASE PS!PublisherRestarts
  <2>1. pubLife' \in 1..MaxLives /\ numbered' \in [Topic -> 0..MaxMessages]
    BY <1>1 DEF PS!PublisherRestarts, PS!TypeOK
  <2>. QED BY <1>1, <2>1 DEF PS!PublisherRestarts, PS!TypeOK
<1>2. ASSUME NEW t \in Topic, PS!Publish(t) PROVE PS!TypeOK'
  <2>. DEFINE m == [topic |-> t, life |-> pubLife, id |-> numbered[t] + 1]
  <2>1. m \in PS!Message
    BY <1>2, RoomForMessage DEF PS!Message, PS!TypeOK
  <2>2. /\ numbered' = [numbered EXCEPT ![t] = @ + 1]
        /\ pubWire' \in {pubWire, Append(pubWire, m)}
        /\ UNCHANGED <<conflating, pubLife, last, missed, heard, batch, handled, dropped>>
    BY <1>2, PublishFacts
  <2>3. connected' \in BOOLEAN
    BY <1>2, Zenon DEF PS!Publish, PS!TypeOK
  <2>4. numbered[t] + 1 \in 0..MaxMessages
    BY <1>2, RoomForMessage
  <2>. HIDE DEF m
  <2>5. pubWire' \in Seq(PS!Message)
    <3>1. pubWire \in Seq(PS!Message)
      BY DEF PS!TypeOK
    <3>2. Append(pubWire, m) \in Seq(PS!Message)
      BY <2>1, <3>1
    <3>. QED BY <2>2, <3>1, <3>2
  <2>6. numbered' \in [Topic -> 0..MaxMessages]
    BY <2>2, <2>4 DEF PS!TypeOK
  <2>. QED BY <2>2, <2>3, <2>5, <2>6 DEF PS!TypeOK
<1>3. CASE PS!Lose
  <2>1. PICK i \in 1..Len(pubWire) : pubWire' = Cut(pubWire, i)
    <3>1. DOMAIN pubWire = 1..Len(pubWire)
      BY DEF PS!TypeOK
    <3>. QED BY <1>3, <3>1 DEF PS!Lose, Cut
  <2>2. pubWire' \in Seq(PS!Message)
    BY <2>1, Removal DEF PS!TypeOK
  <2>. QED BY <1>3, <2>2 DEF PS!Lose, PS!TypeOK
<1>4. ASSUME NEW m, PS!Take(m)
      PROVE  /\ m \in PS!Message /\ m.topic \in Topic
             /\ pubWire' \in Seq(PS!Message)
             /\ last' \in [Topic -> 0..MaxMessages] /\ missed' \in [Topic -> Nat]
             /\ heard' \in [Topic -> SUBSET PS!Message]
             /\ UNCHANGED <<conflating, pubLife, connected, numbered, dropped>>
  <2>1. m \in PS!Message /\ pubWire' \in Seq(PS!Message)
    BY <1>4 DEF PS!Take, PS!TypeOK
  <2>2. /\ heard' = [heard EXCEPT ![m.topic] = @ \cup {m}]
        /\ last' = [last EXCEPT ![m.topic] = m.id]
        /\ missed' = [missed EXCEPT ![m.topic] = @ + PS!MissedBefore(m.topic, m.id)]
        /\ PS!MissedBefore(m.topic, m.id) \in Nat
    BY <1>4, TakeFacts
  <2>3. m.topic \in Topic /\ m.id \in 0..MaxMessages
    BY <2>1 DEF PS!Message
  <2>. QED BY <1>4, <2>1, <2>2, <2>3 DEF PS!Take, PS!TypeOK
<1>5. CASE PS!ReceiveAsync
  <2>1. PICK m : PS!Take(m) /\ handled' = [handled EXCEPT ![m.topic] = Append(@, m)]
                 /\ batch' = batch
    BY <1>5 DEF PS!ReceiveAsync
  <2>2. handled' \in [Topic -> Seq(PS!Message)]
    BY <1>4, <2>1 DEF PS!TypeOK
  <2>. QED BY <1>4, <2>1, <2>2 DEF PS!TypeOK
<1>6. CASE PS!ReceiveSync
  <2>1. PICK m : PS!Take(m) /\ batch' = [batch EXCEPT ![m.topic] = {m}] /\ handled' = handled
    BY <1>6 DEF PS!ReceiveSync
  <2>2. batch' \in [Topic -> SUBSET PS!Message]
    BY <1>4, <2>1 DEF PS!TypeOK
  <2>. QED BY <1>4, <2>1, <2>2 DEF PS!TypeOK
<1>7. CASE PS!Dispatch
  <2>1. batch' \in [Topic -> SUBSET PS!Message]
    BY <1>7 DEF PS!Dispatch, PS!NothingReceived
  <2>2. \A t \in Topic : batch[t] # {} => (CHOOSE m \in batch[t] : TRUE) \in PS!Message
    BY DEF PS!TypeOK
  <2>3. handled' \in [Topic -> Seq(PS!Message)]
    BY <1>7, <2>2 DEF PS!Dispatch, PS!TypeOK
  <2>. QED BY <1>7, <2>1, <2>3 DEF PS!Dispatch, PS!TypeOK
<1>8. CASE PS!ReceiveFails
  BY <1>8 DEF PS!ReceiveFails, PS!NothingReceived, PS!TypeOK
<1>9. CASE UNCHANGED PS!vars
  BY <1>9 DEF PS!vars, PS!TypeOK
<1>. QED
  BY <1>0, <1>1, <1>2, <1>3, <1>5, <1>6, <1>7, <1>8, <1>9 DEF PS!Next

-----------------------------------------------------------------------------
(* RequestServer.  While the launcher sends heartbeats, the next one is on *)
(* its way within Interval + 1 seconds of the last, and once it waits the  *)
(* handlers before it keep the child busy; so the seconds since the last   *)
(* one, without those of the handlers, are no more than Interval + 1       *)
(* (BeatInTime).  The monitor has counted no period that has not passed    *)
(* (CountedPeriods).                                                       *)

RSTypes ==
    /\ beat \in {RS!Off} \cup [at : {"waits"}, left : 0..Interval + 1]
                         \cup [at : {"asked"}, left : 0..BeatTimeout]
    /\ requests \in Seq({"heartbeat", "command", "shutdown"})
    /\ serving \in {RS!Idle} \cup [what : {"command", "shutdown"}, left : 0..MaxHandler]
    /\ since \in Nat /\ busy \in Nat /\ count \in Nat /\ check \in 0..Period
    /\ child \in {"runs", "ended", "orphaned"}

\* How long the handler that runs will yet take.
Remaining == IF serving = RS!Idle THEN 0 ELSE serving.left

NoBeatWaits == \A i \in DOMAIN requests : requests[i] # "heartbeat"

BeatInTime ==
    \/ NoBeatWaits /\ beat.at = "waits" /\ since + beat.left <= Interval + 1 + busy
    \/ ~NoBeatWaits /\ since <= Interval + 1 + busy

\* How many of the periods since the last heartbeat were counted.
CountedPeriods == count = 0 \/ since >= count * Period + (Period - check)

ServedInv ==
    /\ serving = RS!Idle \/ serving.what = "command"
    /\ \A i \in DOMAIN requests : requests[i] # "shutdown"
    /\ IsFiniteSet(RS!Commands) /\ RS!Pending <= MaxPending
    /\ BeatInTime /\ CountedPeriods

\* The times that the monitor looks at.
CountInv ==
    /\ since <= RS!LongAgo /\ busy <= since /\ count <= MaxMissed
    /\ child = "runs" => count < MaxMissed

RSInv ==
    /\ RSTypes /\ CountInv /\ OrphanedOrBusy
    /\ child = "runs" /\ beat # RS!Off => ServedInv

-----------------------------------------------------------------------------

\* A set of numbers that is not empty has a least one.
LEMMA LeastNumber ==
    ASSUME NEW S, S \subseteq Nat, S # {}
    PROVE  \E m \in S : \A k \in S : m <= k
<1>1. PICK m \in S : \A k \in S : <<k, m>> \notin OpToRel(<, Nat)
  BY WFMin, NatLessThanWellFounded, Zenon
<1>2. \A k \in S : ~(k < m)
  BY <1>1, Zenon DEF OpToRel
<1>. QED BY <1>2

LEMMA TimesMonotone ==
    ASSUME NEW a \in Nat, NEW b \in Nat, NEW c \in Nat, b <= c
    PROVE  a * b \in Nat /\ a * c \in Nat /\ a * b <= a * c
OBVIOUS

LEMMA TimesNext == ASSUME NEW a \in Nat, NEW b \in Nat PROVE a * (b + 1) = a * b + a
OBVIOUS

LEMMA SameCount == \A S : RS!Cardinality(S) = Cardinality(S)
BY DEF RS!Cardinality, Cardinality

Requests == {"heartbeat", "command", "shutdown"}

\* A request joins the queue.
LEMMA Appended ==
    ASSUME NEW q \in Seq(Requests), NEW r \in Requests
    PROVE  /\ DOMAIN Append(q, r) = DOMAIN q \cup {Len(q) + 1} /\ Len(q) + 1 \notin DOMAIN q
           /\ \A i \in DOMAIN q : Append(q, r)[i] = q[i]
           /\ Append(q, r)[Len(q) + 1] = r
OBVIOUS

LEMMA CountAppended ==
    ASSUME requests \in Seq(Requests), IsFiniteSet(RS!Commands),
           NEW r \in Requests, requests' = Append(requests, r)
    PROVE  /\ IsFiniteSet(RS!Commands')
           /\ Cardinality(RS!Commands') =
                Cardinality(RS!Commands) + (IF r = "command" THEN 1 ELSE 0)
<1>. DEFINE n == Len(requests) + 1
<1>1. /\ DOMAIN requests' = DOMAIN requests \cup {n} /\ n \notin DOMAIN requests
      /\ \A i \in DOMAIN requests : requests'[i] = requests[i]
      /\ requests'[n] = r
  BY Appended
<1>. HIDE DEF n
<1>2. CASE r = "command"
  <2>1. RS!Commands' = RS!Commands \cup {n} /\ n \notin RS!Commands
    BY <1>1, <1>2 DEF RS!Commands
  <2>2. /\ IsFiniteSet(RS!Commands \cup {n})
        /\ Cardinality(RS!Commands \cup {n}) =
             IF n \in RS!Commands THEN Cardinality(RS!Commands) ELSE Cardinality(RS!Commands) + 1
    BY FS_AddElement
  <2>. QED BY <1>2, <2>1, <2>2
<1>3. CASE r # "command"
  <2>1. RS!Commands' = RS!Commands
    BY <1>1, <1>3 DEF RS!Commands
  <2>2. Cardinality(RS!Commands) \in Nat
    BY FS_CardinalityType
  <2>. QED BY <1>3, <2>1, <2>2
<1>. QED BY <1>2, <1>3

\* The first request leaves it.
LEMMA CountTail ==
    ASSUME requests \in Seq(Requests), IsFiniteSet(RS!Commands),
           requests # <<>>, requests' = Tail(requests)
    PROVE  /\ IsFiniteSet(RS!Commands')
           /\ Cardinality(RS!Commands') <=
                Cardinality(RS!Commands) - (IF requests[1] = "command" THEN 1 ELSE 0)
<1>1. \A i \in DOMAIN requests' : /\ i + 1 \in DOMAIN requests /\ i + 1 # 1 /\ i \in Nat
                                  /\ requests'[i] = requests[i + 1]
  OBVIOUS
<1>. DEFINE rest == RS!Commands \ {1}
            f == [i \in RS!Commands' |-> i + 1]
<1>2. f \in Injection(RS!Commands', rest)
  <2>1. f \in [RS!Commands' -> rest]
    BY <1>1 DEF RS!Commands
  <2>2. \A i, j \in RS!Commands' : f[i] = f[j] => i = j
    BY <1>1 DEF RS!Commands
  <2>. HIDE DEF f, rest
  <2>. QED BY <2>1, <2>2 DEF Injection, IsInjective
<1>3. /\ IsFiniteSet(rest)
      /\ Cardinality(rest) =
           IF 1 \in RS!Commands THEN Cardinality(RS!Commands) - 1 ELSE Cardinality(RS!Commands)
  BY FS_RemoveElement
<1>4. 1 \in RS!Commands <=> requests[1] = "command"
  BY DEF RS!Commands
<1>5. Cardinality(RS!Commands) \in Nat
  BY FS_CardinalityType
<1>. HIDE DEF f, rest
<1>6. IsFiniteSet(RS!Commands') /\ Cardinality(RS!Commands') <= Cardinality(rest)
  BY <1>2, <1>3, FS_Injection
<1>. QED BY <1>3, <1>4, <1>5, <1>6

-----------------------------------------------------------------------------

LEMMA LongAgoType ==
    /\ Period \in Nat /\ MaxMissed \in Nat /\ Period * MaxMissed \in Nat
    /\ RS!LongAgo \in Nat /\ RS!LongAgo' = RS!LongAgo
    /\ RS!LongAgo = Period * MaxMissed + Period
<1>1. Period \in Nat /\ MaxMissed \in Nat
  BY ServerAssumption
<1>2. Period * (MaxMissed + 1) = Period * MaxMissed + Period /\ Period * MaxMissed \in Nat
  BY <1>1, TimesNext
<1>. QED BY <1>1, <1>2 DEF RS!LongAgo

LEMMA RSStart == RS!Init => RSInv
<1>. SUFFICES ASSUME RS!Init PROVE RSInv
  OBVIOUS
<1>1. RSTypes
  BY ServerAssumption DEF RSTypes, RS!Init
<1>2. RS!Commands = {} /\ RS!Pending = 0
  BY SameCount, FS_EmptySet DEF RS!Commands, RS!Pending, RS!Init
<1>3. BeatInTime
  BY ServerAssumption DEF BeatInTime, NoBeatWaits, RS!Init
<1>4. CountedPeriods
  BY DEF CountedPeriods, RS!Init
<1>5. IsFiniteSet(RS!Commands)
  BY <1>2, FS_EmptySet
<1>6. CountInv
  BY LongAgoType, ServerAssumption DEF CountInv, RS!Init
<1>7. OrphanedOrBusy
  BY DEF OrphanedOrBusy, RS!OrphanedOrBusy, RS!Init
<1>8. ServedInv
  BY <1>2, <1>3, <1>4, <1>5, ServerAssumption DEF ServedInv, RS!Init
<1>. QED BY <1>1, <1>6, <1>7, <1>8 DEF RSInv

\* A second less on a clock that runs.
LEMMA OneLess ==
    ASSUME NEW k, NEW n \in Nat, NEW b \in [at : {k}, left : 0..n], b.left > 0
    PROVE  [b EXCEPT !.left = @ - 1] \in [at : {k}, left : 0..n]
OBVIOUS

LEMMA RSTypesStep ==
    ASSUME RSTypes, RS!Next
    PROVE  RSTypes'
<1>. USE ServerAssumption DEF RSTypes
<1>0. MaxMissed * Period \in Nat
  OBVIOUS
<1>1. CASE RS!SendBeat
  BY <1>1 DEF RS!SendBeat
<1>2. CASE RS!BeatTimesOut
  BY <1>2 DEF RS!BeatTimesOut, RS!Waits
<1>3. CASE RS!Command
  BY <1>3 DEF RS!Command
<1>9. CASE RS!Stop
  <2>1. Append(requests, "shutdown") \in Seq({"heartbeat", "command", "shutdown"})
    OBVIOUS
  <2>. QED BY <1>9, <2>1 DEF RS!Stop
<1>10. CASE RS!LauncherDies
  BY <1>10 DEF RS!LauncherDies
<1>4. CASE RS!Heartbeat
  <2>1. beat' \in RS!Waits \/ beat' = beat
    BY <1>4 DEF RS!Heartbeat
  <2>2. requests' \in Seq({"heartbeat", "command", "shutdown"})
    BY <1>4 DEF RS!Heartbeat
  <2>. QED BY <1>4, <2>1, <2>2 DEF RS!Heartbeat, RS!Waits
<1>5. CASE RS!Serve
  <2>1. requests' \in Seq({"heartbeat", "command", "shutdown"})
        /\ Head(requests) \in {"command", "shutdown"}
    BY <1>5 DEF RS!Serve
  <2>. QED BY <1>5, <2>1 DEF RS!Serve
<1>6. CASE RS!Reply
  BY <1>6 DEF RS!Reply
<1>7. CASE RS!Check
  BY <1>7 DEF RS!Check
<1>8. CASE RS!Tick
  <2>1. check' \in 0..Period /\ since' \in Nat /\ busy' \in Nat /\ requests' = requests
        /\ count' = count /\ child' = child
    BY <1>8 DEF RS!Tick
  <2>2. beat' \in {RS!Off} \cup [at : {"waits"}, left : 0..Interval + 1]
                          \cup [at : {"asked"}, left : 0..BeatTimeout]
    <3>1. CASE beat = RS!Off
      BY <1>8, <3>1 DEF RS!Tick, RS!Off
    <3>2. CASE beat \in [at : {"waits"}, left : 0..Interval + 1] /\ beat # RS!Off
      <4>1. beat.at = "waits" /\ beat.left \in Nat /\ beat.left > 0
        <5>1. beat.at # "off" => beat.left > 0
          BY <1>8 DEF RS!Tick
        <5>. QED BY <3>2, <5>1
      <4>2. beat' = [beat EXCEPT !.left = @ - 1]
        <5>1. beat' = RS!Down(beat)
          BY <1>8, <3>2 DEF RS!Tick
        <5>2. ~(beat.left = 0)
          BY <4>1
        <5>. QED BY <5>1, <5>2, Zenon DEF RS!Down
      <4>3. Interval + 1 \in Nat
        OBVIOUS
      <4>4. beat \in [at : {"waits"}, left : 0..Interval + 1] => beat' \in [at : {"waits"}, left : 0..Interval + 1]
        BY <4>1, <4>2, <4>3, OneLess, Zenon
      <4>. QED BY <3>2, <4>4, Zenon
    <3>3. CASE beat \in [at : {"asked"}, left : 0..BeatTimeout] /\ beat # RS!Off
      <4>1. beat.at = "asked" /\ beat.left \in Nat /\ beat.left > 0
        <5>1. beat.at # "off" => beat.left > 0
          BY <1>8 DEF RS!Tick
        <5>. QED BY <3>3, <5>1
      <4>2. beat' = [beat EXCEPT !.left = @ - 1]
        <5>1. beat' = RS!Down(beat)
          BY <1>8, <3>3 DEF RS!Tick
        <5>2. ~(beat.left = 0)
          BY <4>1
        <5>. QED BY <5>1, <5>2, Zenon DEF RS!Down
      <4>3. BeatTimeout \in Nat
        OBVIOUS
      <4>4. beat \in [at : {"asked"}, left : 0..BeatTimeout] => beat' \in [at : {"asked"}, left : 0..BeatTimeout]
        BY <4>1, <4>2, <4>3, OneLess, Zenon
      <4>. QED BY <3>3, <4>4, Zenon
    <3>. QED BY <3>1, <3>2, <3>3
  <2>3. serving' \in {RS!Idle} \cup [what : {"command", "shutdown"}, left : 0..MaxHandler]
    <3>1. CASE serving = RS!Idle
      BY <1>8, <3>1 DEF RS!Tick
    <3>2. CASE serving # RS!Idle
      <4>1. serving' = [serving EXCEPT !.left = @ - 1] /\ serving.left > 0
        BY <1>8, <3>2 DEF RS!Tick, RS!Down
      <4>2. serving \in [what : {"command", "shutdown"}, left : 0..MaxHandler]
        BY <3>2
      <4>. QED BY <4>1, <4>2
    <3>. QED BY <3>1, <3>2
  <2>. QED BY <2>1, <2>2, <2>3
<1>. QED
  BY <1>1, <1>2, <1>3, <1>4, <1>5, <1>6, <1>7, <1>8, <1>9, <1>10
  DEF RS!Next, RS!Due

-----------------------------------------------------------------------------

Busy == IF serving = RS!Idle THEN 0 ELSE 1

\* The launcher is there, the child runs, and the invariant holds of them.
Served == RSTypes /\ CountInv /\ ServedInv /\ child = "runs" /\ beat # RS!Off

LEMMA PendingCounts ==
    /\ RS!Pending = Cardinality(RS!Commands) + Busy
    /\ RS!Pending' = Cardinality(RS!Commands') + Busy'
BY SameCount DEF RS!Pending, Busy

LEMMA ServedTypes ==
    ASSUME Served
    PROVE  /\ beat \in [at : {"waits"}, left : 0..Interval + 1]
                       \cup [at : {"asked"}, left : 0..BeatTimeout]
           /\ requests \in Seq(Requests) /\ IsFiniteSet(RS!Commands)
           /\ Cardinality(RS!Commands) \in Nat /\ Cardinality(RS!Commands) + Busy <= MaxPending
           /\ Busy \in 0..1 /\ Remaining \in 0..MaxHandler
           /\ serving # RS!Idle => serving \in [what : {"command"}, left : 0..MaxHandler]
           /\ since \in Nat /\ busy \in Nat /\ count \in Nat /\ check \in 0..Period
<1>. USE DEF Served, RSTypes, ServedInv
<1>1. Cardinality(RS!Commands) \in Nat
  BY FS_CardinalityType
<1>2. Cardinality(RS!Commands) + Busy <= MaxPending
  BY PendingCounts, Zenon
<1>3. beat \in [at : {"waits"}, left : 0..Interval + 1]
               \cup [at : {"asked"}, left : 0..BeatTimeout]
  OBVIOUS
<1>4. serving # RS!Idle => serving \in [what : {"command"}, left : 0..MaxHandler]
  OBVIOUS
<1>5. Busy \in 0..1 /\ Remaining \in 0..MaxHandler
  BY <1>4, ServerAssumption DEF Busy, Remaining
<1>. QED BY <1>1, <1>2, <1>3, <1>4, <1>5 DEF Requests

LEMMA CommandServed == ASSUME Served, RS!Command PROVE ServedInv'
<1>. USE DEF RS!Command
<1>0. requests \in Seq(Requests) /\ IsFiniteSet(RS!Commands)
      /\ Cardinality(RS!Commands) \in Nat /\ Busy \in 0..1
  BY ServedTypes
<1>1. IsFiniteSet(RS!Commands') /\ Cardinality(RS!Commands') = Cardinality(RS!Commands) + 1
  BY <1>0, CountAppended DEF Requests
<1>2. RS!Pending' <= MaxPending
  <2>1. Busy' = Busy /\ RS!Pending < MaxPending
    BY DEF Busy
  <2>. QED BY <1>0, <1>1, <2>1, PendingCounts, ServerAssumption
<1>3. /\ DOMAIN requests' = DOMAIN requests \cup {Len(requests) + 1}
      /\ \A i \in DOMAIN requests : requests'[i] = requests[i]
      /\ requests'[Len(requests) + 1] = "command"
  BY <1>0, Appended DEF Requests
<1>4. \A i \in DOMAIN requests' : requests'[i] # "shutdown"
  BY <1>3 DEF Served, ServedInv
<1>5. BeatInTime'
  <2>1. NoBeatWaits' <=> NoBeatWaits
    BY <1>3 DEF NoBeatWaits
  <2>. QED BY <2>1 DEF Served, ServedInv, BeatInTime
<1>6. CountedPeriods'
  BY DEF Served, ServedInv, CountedPeriods
<1>. QED BY <1>1, <1>2, <1>4, <1>5, <1>6 DEF Served, ServedInv

LEMMA SendBeatServed == ASSUME Served, RS!SendBeat PROVE ServedInv'
<1>. USE DEF RS!SendBeat
<1>. DEFINE n == Len(requests)
<1>0. requests \in Seq(Requests) /\ IsFiniteSet(RS!Commands) /\ n \in Nat
      /\ Cardinality(RS!Commands) \in Nat /\ Busy \in 0..1 /\ since \in Nat
      /\ Cardinality(RS!Commands) + Busy <= MaxPending /\ Remaining \in 0..MaxHandler
  BY ServedTypes
<1>1. IsFiniteSet(RS!Commands') /\ Cardinality(RS!Commands') = Cardinality(RS!Commands)
  BY <1>0, CountAppended DEF Requests
<1>2. RS!Pending' <= MaxPending
  <2>1. Busy' = Busy
    BY DEF Busy
  <2>. QED BY <1>0, <1>1, <2>1, PendingCounts
<1>3. /\ DOMAIN requests' = DOMAIN requests \cup {n + 1}
      /\ \A i \in DOMAIN requests : requests'[i] = requests[i]
      /\ requests'[n + 1] = "heartbeat"
  BY <1>0, Appended DEF Requests
<1>4. \A i \in DOMAIN requests' : requests'[i] # "shutdown"
  BY <1>3 DEF Served, ServedInv
<1>5. BeatInTime'
  <2>1. ~NoBeatWaits'
    BY <1>3 DEF NoBeatWaits
  <2>2. since <= Interval + 1 + busy
    BY <1>0, ServerAssumption DEF Served, ServedInv, BeatInTime
  <2>. QED BY <2>1, <2>2 DEF BeatInTime
<1>6. CountedPeriods'
  BY DEF Served, ServedInv, CountedPeriods
<1>. QED BY <1>1, <1>2, <1>4, <1>5, <1>6 DEF Served, ServedInv

\* The places in a queue whose head is gone.
LEMMA Shifted ==
    ASSUME NEW q \in Seq(Requests), q # <<>>
    PROVE  /\ Tail(q) \in Seq(Requests) /\ 1 \in DOMAIN q /\ Head(q) = q[1]
           /\ \A i \in DOMAIN Tail(q) : i + 1 \in DOMAIN q /\ Tail(q)[i] = q[i + 1]
           /\ \A i \in DOMAIN q : i # 1 => i - 1 \in DOMAIN Tail(q) /\ Tail(q)[i - 1] = q[i]
OBVIOUS

LEMMA HeartbeatServed == ASSUME Served, RS!Heartbeat PROVE ServedInv'
<1>. USE DEF RS!Heartbeat
<1>0. /\ requests \in Seq(Requests) /\ IsFiniteSet(RS!Commands)
      /\ Cardinality(RS!Commands) \in Nat /\ Cardinality(RS!Commands) + Busy <= MaxPending
      /\ beat \in [at : {"waits"}, left : 0..Interval + 1]
                  \cup [at : {"asked"}, left : 0..BeatTimeout]
      /\ check \in 0..Period
  BY ServedTypes
<1>1. IsFiniteSet(RS!Commands') /\ Cardinality(RS!Commands') <= Cardinality(RS!Commands)
  BY <1>0, CountTail DEF Requests
<1>2. Cardinality(RS!Commands') \in Nat
  BY <1>1, FS_CardinalityType
<1>3. Cardinality(RS!Commands') <= MaxPending /\ RS!Pending' <= MaxPending
  <2>1. Busy' = 0 /\ Busy = 0
    BY DEF Busy
  <2>. QED BY <1>0, <1>1, <1>2, <2>1, PendingCounts, ServerAssumption
<1>4. /\ requests' \in Seq(Requests)
      /\ \A i \in DOMAIN requests' : i + 1 \in DOMAIN requests /\ requests'[i] = requests[i + 1]
  BY <1>0, Shifted
<1>5. \A i \in DOMAIN requests' : requests'[i] # "shutdown"
  BY <1>4 DEF Served, ServedInv
<1>6. BeatInTime'
  <2>1. CASE \A i \in DOMAIN requests' : requests'[i] # "heartbeat"
    <3>1. CASE RS!Awaited
      <4>1. beat' \in RS!Waits
        BY <3>1
      <4>2. beat'.at = "waits" /\ beat'.left \in Nat /\ beat'.left <= Interval + 1
        BY <4>1, ServerAssumption DEF RS!Waits
      <4>. QED BY <2>1, <4>2, ServerAssumption DEF BeatInTime, NoBeatWaits
    <3>2. CASE ~RS!Awaited
      <4>1. \A i \in 2..Len(requests) : requests[i] # "heartbeat"
        <5>1. \A i \in 2..Len(requests) :
                 i - 1 \in DOMAIN requests' /\ requests'[i - 1] = requests[i]
          BY <1>0, Shifted
        <5>. QED BY <2>1, <5>1
      <4>2. beat' = beat /\ beat.at # "asked"
        BY <3>2, <4>1 DEF RS!Awaited
      <4>3. beat'.at = "waits" /\ beat'.left \in Nat /\ beat'.left <= Interval + 1
        BY <1>0, <4>2, ServerAssumption
      <4>. QED BY <2>1, <4>3, ServerAssumption DEF BeatInTime, NoBeatWaits
    <3>. QED BY <3>1, <3>2
  <2>2. CASE \E b \in DOMAIN requests' : requests'[b] = "heartbeat"
    <3>1. since' = 0 /\ busy' = 0
      OBVIOUS
    <3>. QED BY <2>2, <3>1, ServerAssumption DEF BeatInTime, NoBeatWaits
  <2>. QED BY <2>1, <2>2
<1>7. CountedPeriods'
  BY DEF CountedPeriods
<1>. QED BY <1>1, <1>3, <1>5, <1>6, <1>7 DEF Served, ServedInv

LEMMA ServeServed == ASSUME Served, RS!Serve PROVE ServedInv'
<1>. USE DEF RS!Serve
<1>0. /\ requests \in Seq(Requests) /\ IsFiniteSet(RS!Commands) /\ since \in Nat
      /\ Cardinality(RS!Commands) \in Nat /\ Cardinality(RS!Commands) + Busy <= MaxPending
  BY ServedTypes
<1>1. /\ requests' \in Seq(Requests) /\ 1 \in DOMAIN requests /\ Head(requests) = requests[1]
      /\ \A i \in DOMAIN requests' : i + 1 \in DOMAIN requests /\ requests'[i] = requests[i + 1]
      /\ \A i \in DOMAIN requests :
            i # 1 => i - 1 \in DOMAIN requests' /\ requests'[i - 1] = requests[i]
  BY <1>0, Shifted
<1>2. requests[1] = "command"
  <2>1. requests[1] \in Requests /\ requests[1] # "shutdown" /\ requests[1] # "heartbeat"
    BY <1>0, <1>1 DEF Served, ServedInv
  <2>. QED BY <2>1 DEF Requests
<1>3. /\ serving' \in [what : {"command"}, left : 0..MaxHandler]
      /\ serving'.what = "command" /\ serving'.left \in 0..MaxHandler /\ serving' # RS!Idle
  BY <1>1, <1>2 DEF RS!Idle
<1>4. /\ IsFiniteSet(RS!Commands')
      /\ Cardinality(RS!Commands') <= Cardinality(RS!Commands) - 1
  BY <1>0, <1>2, CountTail DEF Requests
<1>5. RS!Pending' <= MaxPending
  <2>1. Cardinality(RS!Commands') \in Nat
    BY <1>4, FS_CardinalityType
  <2>2. Busy = 0 /\ Busy' = 1
    BY <1>3 DEF Busy
  <2>. QED BY <1>0, <1>4, <2>1, <2>2, PendingCounts, ServerAssumption
<1>6. \A i \in DOMAIN requests' : requests'[i] # "shutdown"
  BY <1>1 DEF Served, ServedInv
<1>7. BeatInTime'
  <2>1. NoBeatWaits' <=> NoBeatWaits
    BY <1>1, <1>2 DEF NoBeatWaits
  <2>. QED BY <2>1 DEF Served, ServedInv, BeatInTime
<1>8. CountedPeriods'
  BY DEF Served, ServedInv, CountedPeriods
<1>. QED BY <1>3, <1>4, <1>5, <1>6, <1>7, <1>8 DEF ServedInv

LEMMA ReplyServed == ASSUME Served, RS!Reply PROVE ServedInv' /\ child' = "runs"
<1>. USE DEF RS!Reply
<1>0. /\ IsFiniteSet(RS!Commands) /\ Cardinality(RS!Commands) \in Nat
      /\ Cardinality(RS!Commands) + Busy <= MaxPending /\ Busy \in 0..1
  BY ServedTypes
<1>1. requests' = requests /\ since' = since /\ RS!Commands' = RS!Commands
  BY DEF RS!Commands
<1>2. Remaining = 0 /\ Remaining' = 0 /\ Busy' = 0
  BY DEF Remaining, Busy
<1>3. RS!Pending' <= MaxPending
  BY <1>0, <1>1, <1>2, PendingCounts, ServerAssumption
<1>4. BeatInTime'
  BY <1>1 DEF Served, ServedInv, BeatInTime, NoBeatWaits
<1>5. CountedPeriods'
  BY DEF Served, ServedInv, CountedPeriods
<1>6. child' = "runs"
  BY DEF Served, ServedInv
<1>. QED BY <1>0, <1>1, <1>3, <1>4, <1>5, <1>6 DEF Served, ServedInv

LEMMA BeatTimesOutServed == ASSUME Served, RS!BeatTimesOut PROVE ServedInv'
<1>. USE DEF RS!BeatTimesOut
<1>1. /\ requests' = requests /\ since' = since /\ RS!Commands' = RS!Commands
      /\ serving' = serving /\ RS!Pending' = RS!Pending /\ Remaining' = Remaining
  BY DEF RS!Commands, RS!Pending, Remaining
<1>2. BeatInTime'
  BY <1>1 DEF Served, ServedInv, BeatInTime, NoBeatWaits
<1>3. CountedPeriods'
  BY DEF Served, ServedInv, CountedPeriods
<1>. QED BY <1>1, <1>2, <1>3 DEF Served, ServedInv

\* The count stays behind the time, also when that counts no further.
LEMMA PeriodsOfTick == ASSUME Served, RS!Tick PROVE CountedPeriods'
<1>0. since \in Nat /\ count \in Nat /\ check \in 0..Period /\ count < MaxMissed
  BY ServedTypes DEF Served, CountInv
<1>1. count' = count /\ check' = check - 1 /\ check > 0
      /\ since' = IF since = RS!LongAgo THEN since ELSE since + 1
  BY DEF RS!Tick
<1>2. Period * (count + 1) <= Period * MaxMissed /\ Period * (count + 1) = count * Period + Period
  BY <1>0, LongAgoType, TimesMonotone
<1>3. count * Period \in Nat
  BY <1>0, LongAgoType
<1>4. CASE since = RS!LongAgo
  BY <1>0, <1>1, <1>2, <1>3, <1>4, LongAgoType DEF CountedPeriods
<1>5. CASE since # RS!LongAgo
  BY <1>0, <1>1, <1>3, <1>5, LongAgoType DEF Served, ServedInv, CountedPeriods
<1>. QED BY <1>4, <1>5

LEMMA TickServed == ASSUME Served, RS!Tick PROVE ServedInv'
<1>. USE DEF RS!Tick
<1>0. /\ beat \in [at : {"waits"}, left : 0..Interval + 1]
                  \cup [at : {"asked"}, left : 0..BeatTimeout]
      /\ requests \in Seq(Requests) /\ since \in Nat /\ busy \in Nat
      /\ serving # RS!Idle => serving \in [what : {"command"}, left : 0..MaxHandler]
  BY ServedTypes
<1>1. requests' = requests /\ RS!Commands' = RS!Commands /\ (NoBeatWaits' <=> NoBeatWaits)
  BY DEF RS!Commands, NoBeatWaits
<1>2. beat' = [beat EXCEPT !.left = @ - 1] /\ beat.left > 0
  <2>1. beat.at # "off"
    BY <1>0
  <2>. QED BY <2>1 DEF Served, RS!Down, RS!Off
<1>3. beat'.at = beat.at /\ beat'.left = beat.left - 1 /\ beat.left \in Nat
  BY <1>0, <1>2, ServerAssumption
<1>4. BeatInTime'
  <2>1. CASE since = RS!LongAgo
    <3>1. since' = since /\ busy' = busy
      BY <2>1
    <3>. QED BY <1>0, <1>1, <1>3, <3>1, ServerAssumption, SMTT(30)
             DEF Served, ServedInv, BeatInTime
  <2>2. CASE since # RS!LongAgo /\ serving # RS!Idle
    <3>1. since' = since + 1 /\ busy' = busy + 1
      BY <2>2
    <3>. QED BY <1>0, <1>1, <1>3, <3>1, ServerAssumption, SMTT(30)
             DEF Served, ServedInv, BeatInTime
  <2>3. CASE since # RS!LongAgo /\ serving = RS!Idle
    <3>1. since' = since + 1 /\ busy' = busy
      BY <2>3
    <3>2. NoBeatWaits
      BY <2>3 DEF NoBeatWaits
    <3>. QED BY <1>0, <1>1, <1>3, <3>1, <3>2, ServerAssumption DEF Served, ServedInv, BeatInTime
  <2>. QED BY <2>1, <2>2, <2>3
<1>5. (serving' = RS!Idle <=> serving = RS!Idle) /\ (serving' = RS!Idle \/ serving'.what = "command")
  <2>1. CASE serving = RS!Idle
    BY <2>1
  <2>2. CASE serving # RS!Idle
    <3>1. serving' = [serving EXCEPT !.left = @ - 1]
      BY <1>0, <2>2 DEF RS!Down
    <3>2. serving'.what = "command"
      BY <1>0, <2>2, <3>1
    <3>. QED BY <2>2, <3>2 DEF RS!Idle
  <2>. QED BY <2>1, <2>2
<1>6. RS!Pending' <= MaxPending
  BY <1>1, <1>5, PendingCounts DEF Busy, Served, ServedInv
<1>. QED BY <1>1, <1>4, <1>5, <1>6, PeriodsOfTick DEF Served, ServedInv

\* The monitor counts a period that has passed since the last heartbeat.
LEMMA CheckCounts ==
    ASSUME Served, RS!Check
    PROVE  count' \in Nat /\ (count' = 0 \/ since >= count' * Period)
<1>. USE DEF RS!Check
<1>0. since \in Nat /\ count \in Nat /\ check = 0 /\ Period \in Nat
  BY ServedTypes, ServerAssumption
<1>3. count = 0 \/ since >= count * Period + Period
  BY <1>0 DEF Served, ServedInv, CountedPeriods
<1>4. count * Period \in Nat /\ (count + 1) * Period = count * Period + Period
  BY <1>0
<1>5. \/ count' = count + 1 /\ since >= Period
      \/ count' = count /\ since <= Period
  <2>1. PICK overdue \in IF since = Period THEN BOOLEAN ELSE {since > Period} :
           count' = IF overdue THEN count + 1 ELSE count
    BY Zenon
  <2>2. CASE since = Period
    <3>1. since >= Period /\ since <= Period
      BY <1>0, <2>2
    <3>2. count' = count + 1 \/ count' = count
      BY <2>1, Zenon
    <3>. QED BY <3>1, <3>2
  <2>3. CASE since # Period
    <3>1. overdue = (since > Period)
      BY <2>1, <2>3, Zenon
    <3>2. count' = IF since > Period THEN count + 1 ELSE count
      BY <2>1, <3>1, Zenon
    <3>. QED BY <1>0, <3>2
  <2>. QED BY <2>2, <2>3
<1>6. CASE count' = count + 1 /\ since >= Period
  BY <1>0, <1>3, <1>4, <1>6
<1>7. CASE count' = count /\ since <= Period
  BY <1>0, <1>3, <1>4, <1>7
<1>. QED BY <1>5, <1>6, <1>7

LEMMA CheckServed == ASSUME Served, RS!Check PROVE ServedInv' /\ OrphanedOrBusy'
<1>. USE DEF RS!Check
<1>0. since \in Nat /\ busy \in Nat /\ Period \in Nat /\ MaxMissed \in Nat /\ Interval \in Nat
  BY ServedTypes, ServerAssumption
<1>1. count' \in Nat /\ (count' = 0 \/ since >= count' * Period)
  BY CheckCounts
<1>2. CountedPeriods'
  <2>1. check' = Period /\ since' = since
    OBVIOUS
  <2>2. count' * Period \in Nat
    BY <1>0, <1>1
  <2>. QED BY <1>0, <1>1, <2>1, <2>2 DEF CountedPeriods
<1>3. /\ requests' = requests /\ since' = since /\ busy' = busy /\ beat' = beat
      /\ RS!Commands' = RS!Commands /\ serving' = serving /\ RS!Pending' = RS!Pending
  BY DEF RS!Commands, RS!Pending
<1>4. child' = "orphaned" => count' >= MaxMissed
  BY Zenon
<1>. HIDE DEF RS!Check
<1>5. BeatInTime'
  BY <1>3 DEF Served, ServedInv, BeatInTime, NoBeatWaits
<1>6. since <= Interval + 1 + busy
  <2>1. beat.at = "waits" => beat.left \in Nat
    BY ServedTypes, ServerAssumption
  <2>. QED BY <1>0, <2>1 DEF Served, ServedInv, BeatInTime
<1>7. ASSUME child' = "orphaned" PROVE busy + Interval + 1 >= Period * MaxMissed
  <2>1. count' >= MaxMissed /\ MaxMissed > 0
    BY <1>4, <1>7, ServerAssumption
  <2>2. since >= count' * Period
    <3>1. count' # 0
      BY <1>0, <2>1
    <3>. QED BY <1>1, <3>1, Zenon
  <2>3. Period * MaxMissed <= Period * count' /\ Period * count' = count' * Period
        /\ Period * MaxMissed \in Nat /\ count' * Period \in Nat
    <3>1. MaxMissed <= count' /\ count' \in Nat
      BY <1>0, <1>1, <2>1
    <3>2. PICK n \in Nat : n = count'
      BY <3>1
    <3>3. Period * MaxMissed <= Period * n /\ Period * MaxMissed \in Nat
      BY <1>0, <3>1, <3>2, TimesMonotone
    <3>4. Period * n = n * Period /\ n * Period \in Nat
      BY <1>0
    <3>. QED BY <3>2, <3>3, <3>4
  <2>. QED BY <1>0, <1>6, <2>2, <2>3
<1>8. OrphanedOrBusy'
  BY <1>3, <1>7 DEF OrphanedOrBusy, RS!OrphanedOrBusy
<1>. QED BY <1>2, <1>3, <1>5, <1>8 DEF Served, ServedInv

\* Heartbeats that are off stay off, and a child that has ended stays ended.
LEMMA OffStays ==
    ASSUME RSTypes, RS!Next
    PROVE  /\ child = "runs"
           /\ beat = RS!Off => beat' = RS!Off
           /\ child' = "orphaned" => RS!Check
<1>. USE DEF RS!Off
<1>1. CASE RS!SendBeat
  BY <1>1 DEF RS!SendBeat
<1>2. CASE RS!BeatTimesOut
  BY <1>2 DEF RS!BeatTimesOut
<1>3. CASE RS!Command \/ RS!Stop \/ RS!LauncherDies
  BY <1>3 DEF RS!Command, RS!Stop, RS!LauncherDies
<1>4. CASE RS!Heartbeat
  BY <1>4 DEF RS!Heartbeat, RS!Awaited
<1>5. CASE RS!Serve
  BY <1>5 DEF RS!Serve
<1>6. CASE RS!Reply
  BY <1>6 DEF RS!Reply
<1>7. CASE RS!Check
  BY <1>7 DEF RS!Check
<1>8. CASE RS!Tick
  BY <1>8 DEF RS!Tick
<1>. QED BY <1>1, <1>2, <1>3, <1>4, <1>5, <1>6, <1>7, <1>8 DEF RS!Next, RS!Due

LEMMA CountStep == ASSUME RSTypes, CountInv, [RS!Next]_(RS!vars) PROVE CountInv'
<1>0. /\ since \in Nat /\ busy \in Nat /\ count \in Nat /\ MaxMissed > 0
      /\ MaxMissed \in Nat /\ RS!LongAgo \in Nat /\ RS!LongAgo' = RS!LongAgo
  BY LongAgoType, ServerAssumption DEF RSTypes
<1>1. CASE RS!Heartbeat
  BY <1>0, <1>1 DEF RS!Heartbeat, CountInv
<1>2. CASE RS!Check
  <2>1. child = "runs" /\ count < MaxMissed /\ since' = since /\ busy' = busy
    BY <1>2 DEF RS!Check, CountInv
  <2>2. count' = count + 1 \/ count' = count
    BY <1>2, Zenon DEF RS!Check
  <2>3. child' = "runs" => ~(count' >= MaxMissed)
    BY <1>2, Zenon DEF RS!Check
  <2>. QED BY <1>0, <2>1, <2>2, <2>3 DEF CountInv
<1>3. CASE RS!Tick
  BY <1>0, <1>3 DEF RS!Tick, CountInv
<1>4. CASE RS!Reply
  BY <1>0, <1>4 DEF RS!Reply, CountInv
<1>5. CASE RS!SendBeat \/ RS!BeatTimesOut \/ RS!Serve \/ RS!Command \/ RS!Stop \/ RS!LauncherDies
  BY <1>0, <1>5 DEF RS!SendBeat, RS!BeatTimesOut, RS!Serve, RS!Command, RS!Stop,
                    RS!LauncherDies, CountInv
<1>6. CASE UNCHANGED RS!vars
  BY <1>0, <1>6 DEF RS!vars, CountInv
<1>. QED BY <1>1, <1>2, <1>3, <1>4, <1>5, <1>6 DEF RS!Next, RS!Due

LEMMA ServedStep ==
    ASSUME Served, RS!Next
    PROVE  (beat' # RS!Off => ServedInv') /\ OrphanedOrBusy'
<1>1. RSTypes
  BY DEF Served
<1>2. OrphanedOrBusy'
  <2>1. CASE RS!Check
    BY <2>1, CheckServed
  <2>2. CASE ~RS!Check
    BY <1>1, <2>2, OffStays DEF OrphanedOrBusy, RS!OrphanedOrBusy
  <2>. QED BY <2>1, <2>2
<1>3. CASE RS!Stop \/ RS!LauncherDies
  BY <1>2, <1>3 DEF RS!Stop, RS!LauncherDies
<1>4. CASE ~(RS!Stop \/ RS!LauncherDies)
  <2>1. ServedInv'
    BY <1>4, CommandServed, SendBeatServed, BeatTimesOutServed, HeartbeatServed, ServeServed,
       ReplyServed, CheckServed, TickServed DEF RS!Next, RS!Due
  <2>. QED BY <1>2, <2>1
<1>. QED BY <1>3, <1>4

LEMMA RSStep == ASSUME RSInv, RS!Next PROVE RSInv'
<1>1. RSTypes /\ RSTypes' /\ CountInv /\ CountInv'
  BY RSTypesStep, CountStep DEF RSInv
<1>2. CASE beat # RS!Off
  <2>1. Served
    BY <1>1, <1>2, OffStays DEF RSInv, Served
  <2>. QED BY <1>1, <2>1, ServedStep DEF RSInv
<1>3. CASE beat = RS!Off
  <2>1. beat' = RS!Off
    BY <1>1, <1>3, OffStays
  <2>. QED BY <1>1, <2>1 DEF RSInv, OrphanedOrBusy, RS!OrphanedOrBusy
<1>. QED BY <1>2, <1>3

LEMMA RSStill == RSInv /\ UNCHANGED RS!vars => RSInv'
BY DEF RSInv, RSTypes, CountInv, ServedInv, BeatInTime, NoBeatWaits, CountedPeriods,
       OrphanedOrBusy, RS!OrphanedOrBusy, RS!LongAgo, RS!Pending, RS!Commands, RS!vars

(* A child whose launcher sends heartbeats takes itself for an orphan only   *)
(* when its handlers took all of the MaxMissed periods but the pause between *)
(* two heartbeats, whatever handlers there are and however long they take.   *)
THEOREM OrphansOrBusy == RS!Spec => []OrphanedOrBusy
<1>1. RSInv /\ [RS!Next]_RS!vars => RSInv'
  BY RSStill, RSStep
<1>2. RSInv => OrphanedOrBusy
  BY DEF RSInv
<1>. QED BY RSStart, <1>1, <1>2, PTL DEF RS!Spec

-----------------------------------------------------------------------------
(* RequestServer: its queue is bounded.  As long as a heartbeat waits, the *)
(* handlers ahead of it are through before more heartbeats behind it can   *)
(* have timed out than Budget says.                                        *)

\* The heartbeats in the queue; the commands ahead of place j and the heartbeats behind it.
Beats == {i \in DOMAIN requests : requests[i] = "heartbeat"}
Ahead(j) == Cardinality({i \in RS!Commands : i < j})
Behind(j) == Cardinality({i \in Beats : i > j})

\* How long ago the last heartbeat was sent, at least.
Elapsed == IF beat.at = "asked" THEN BeatTimeout - beat.left
           ELSE IF beat.left > Interval THEN BeatTimeout ELSE RS!Spacing - beat.left

\* The handlers ahead of a heartbeat last as long as the launcher had time for those behind it.
Budget ==
    \A j \in Beats :
        Remaining + Elapsed + MaxHandler * Ahead(j) + RS!Spacing * Behind(j)
            <= MaxHandler * MaxPending

LEMMA Counts ==
    ASSUME requests \in Seq(Requests)
    PROVE  /\ IsFiniteSet(Beats) /\ IsFiniteSet(RS!Commands)
           /\ Cardinality(Beats) \in Nat /\ Cardinality(RS!Commands) \in Nat
           /\ \A j : /\ Ahead(j) \in Nat /\ Ahead(j) <= Cardinality(RS!Commands)
                     /\ Behind(j) \in Nat
<1>1. Len(requests) \in Nat /\ Beats \subseteq 1..Len(requests)
      /\ RS!Commands \subseteq 1..Len(requests)
  BY DEF Beats, RS!Commands
<1>2. IsFiniteSet(1..Len(requests))
  BY <1>1, FS_Interval
<1>3. IsFiniteSet(Beats) /\ IsFiniteSet(RS!Commands)
  BY <1>1, <1>2, FS_Subset
<1>4. ASSUME NEW j
      PROVE  /\ Ahead(j) \in Nat /\ Ahead(j) <= Cardinality(RS!Commands)
             /\ Behind(j) \in Nat
  <2>1. {i \in RS!Commands : i < j} \in SUBSET RS!Commands /\ {i \in Beats : i > j} \in SUBSET Beats
    OBVIOUS
  <2>. QED BY <1>3, <2>1, FS_Subset, FS_CardinalityType DEF Ahead, Behind
<1>. QED BY <1>3, <1>4, FS_CardinalityType

\* A request that joins the queue is ahead of nothing, and behind all.
LEMMA CountsAppended ==
    ASSUME requests \in Seq(Requests), NEW r \in Requests, requests' = Append(requests, r)
    PROVE  /\ r # "heartbeat" => Beats' = Beats
           /\ r = "heartbeat" => Beats' = Beats \cup {Len(requests) + 1}
           /\ \A j \in Beats : /\ Ahead(j)' = Ahead(j)
                               /\ Behind(j)' = Behind(j) + IF r = "heartbeat" THEN 1 ELSE 0
           /\ r = "heartbeat" =>
                 \A n \in Nat : n = Len(requests) + 1 =>
                     /\ Ahead(n)' <= Cardinality(RS!Commands) /\ Ahead(n)' \in Nat
                     /\ Behind(n)' = 0
<1>0. /\ DOMAIN requests' = DOMAIN requests \cup {Len(requests) + 1}
      /\ \A i \in DOMAIN requests : requests'[i] = requests[i]
      /\ requests'[Len(requests) + 1] = r
      /\ Len(requests) \in Nat /\ DOMAIN requests = 1..Len(requests)
  BY Appended
<1>1. Beats' = IF r = "heartbeat" THEN Beats \cup {Len(requests) + 1} ELSE Beats
  BY <1>0 DEF Beats
<1>2. RS!Commands' = IF r = "command" THEN RS!Commands \cup {Len(requests) + 1} ELSE RS!Commands
  BY <1>0 DEF RS!Commands
<1>3. Beats \subseteq 1..Len(requests) /\ RS!Commands \subseteq 1..Len(requests)
  BY <1>0 DEF Beats, RS!Commands
<1>4. ASSUME NEW j \in Beats
      PROVE  /\ Ahead(j)' = Ahead(j)
             /\ Behind(j)' = Behind(j) + IF r = "heartbeat" THEN 1 ELSE 0
  <2>. DEFINE behind == {i \in Beats : i > j}
              n == Len(requests) + 1
  <2>1. {i \in RS!Commands' : i < j} = {i \in RS!Commands : i < j}
    BY <1>0, <1>2, <1>3
  <2>2. Ahead(j)' = Ahead(j)
    BY <2>1 DEF Ahead
  <2>3. IsFiniteSet(behind) /\ Behind(j) = Cardinality(behind) /\ Behind(j) \in Nat
    BY Counts, FS_Subset DEF Behind
  <2>4. CASE r = "heartbeat"
    <3>1. {i \in Beats' : i > j} = behind \cup {n} /\ n \notin behind
      BY <1>0, <1>1, <1>3, <2>4
    <3>. HIDE DEF behind
    <3>2. Cardinality(behind \cup {n}) = Cardinality(behind) + 1
      BY <2>3, <3>1, FS_AddElement
    <3>. QED BY <2>2, <2>3, <2>4, <3>1, <3>2 DEF Behind
  <2>5. CASE r # "heartbeat"
    <3>1. Behind(j)' = Behind(j)
      BY <1>1, <2>5 DEF Behind
    <3>. QED BY <2>2, <2>3, <2>5, <3>1
  <2>. QED BY <2>4, <2>5
<1>5. ASSUME r = "heartbeat", NEW n \in Nat, n = Len(requests) + 1
      PROVE  /\ Ahead(n)' <= Cardinality(RS!Commands) /\ Ahead(n)' \in Nat
             /\ Behind(n)' = 0
  <2>1. RS!Commands' = RS!Commands
    BY <1>2, <1>5
  <2>2. {i \in RS!Commands' : i < n} = {i \in RS!Commands : i < n}
    BY <2>1
  <2>3. Ahead(n)' = Ahead(n)
    BY <2>2 DEF Ahead
  <2>4. {i \in Beats' : i > n} = {}
    <3>1. \A i \in Beats' : i \in 1..n
      BY <1>0, <1>1, <1>3, <1>5
    <3>2. \A i \in 1..n : ~(i > n)
      OBVIOUS
    <3>. QED BY <3>1, <3>2
  <2>5. Behind(n)' = 0
    BY <2>4, FS_EmptySet DEF Behind
  <2>. QED BY <2>3, <2>5, Counts
<1>. QED BY <1>1, <1>4, <1>5

LEMMA ShiftedCount ==
    ASSUME NEW S, NEW T, S \subseteq Nat, IsFiniteSet(T), \A i \in S : i + 1 \in T
    PROVE  IsFiniteSet(S) /\ Cardinality(S) <= Cardinality(T)
<1>. DEFINE f == [i \in S |-> i + 1]
<1>1. f \in [S -> T] /\ \A i, j \in S : f[i] = f[j] => i = j
  OBVIOUS
<1>. HIDE DEF f
<1>2. f \in Injection(S, T)
  BY <1>1 DEF Injection, IsInjective
<1>. QED BY <1>2, FS_Injection

\* When the first is taken, no heartbeat has more ahead of it or behind it.
LEMMA CountsTail ==
    ASSUME requests \in Seq(Requests), requests # <<>>, requests' = Tail(requests)
    PROVE  \A j \in Beats' :
             /\ j \in Nat /\ j + 1 \in Beats
             /\ Behind(j)' \in Nat /\ Behind(j)' <= Behind(j + 1)
             /\ Ahead(j)' \in Nat
             /\ Ahead(j)' + (IF requests[1] = "command" THEN 1 ELSE 0) <= Ahead(j + 1)
<1>0. /\ requests' \in Seq(Requests) /\ 1 \in DOMAIN requests
      /\ \A i \in DOMAIN requests' : /\ i \in Nat /\ i >= 1 /\ i + 1 \in DOMAIN requests
                                     /\ requests'[i] = requests[i + 1]
  OBVIOUS
<1>. SUFFICES ASSUME NEW j \in Beats'
              PROVE  /\ j \in Nat /\ j + 1 \in Beats
                     /\ Behind(j)' \in Nat /\ Behind(j)' <= Behind(j + 1)
                     /\ Ahead(j)' \in Nat
                     /\ Ahead(j)' + (IF requests[1] = "command" THEN 1 ELSE 0) <= Ahead(j + 1)
  OBVIOUS
<1>1. j \in Nat /\ j >= 1 /\ j + 1 \in Beats
  BY <1>0 DEF Beats
<1>. DEFINE behind == {i \in Beats : i > j + 1}
            ahead == {i \in RS!Commands : i < j + 1}
            behindNext == {i \in Beats' : i > j}
            aheadNext == {i \in RS!Commands' : i < j}
<1>2. IsFiniteSet(behind) /\ IsFiniteSet(ahead)
  BY Counts, FS_Subset
<1>3. /\ behindNext \subseteq Nat /\ \A i \in behindNext : i + 1 \in behind
      /\ aheadNext \subseteq Nat /\ \A i \in aheadNext : i + 1 \in ahead \ {1}
  BY <1>0, <1>1 DEF Beats, RS!Commands
<1>4. requests[1] = "command" => 1 \in ahead
  BY <1>0, <1>1 DEF RS!Commands
<1>5. /\ Behind(j)' = Cardinality(behindNext) /\ Behind(j + 1) = Cardinality(behind)
      /\ Ahead(j)' = Cardinality(aheadNext) /\ Ahead(j + 1) = Cardinality(ahead)
  BY DEF Behind, Ahead
<1>. HIDE DEF behind, ahead, behindNext, aheadNext
<1>6. IsFiniteSet(behindNext) /\ Cardinality(behindNext) <= Cardinality(behind)
  BY <1>2, <1>3, ShiftedCount
<1>7. /\ IsFiniteSet(ahead \ {1})
      /\ Cardinality(ahead \ {1}) = IF 1 \in ahead THEN Cardinality(ahead) - 1
                                                   ELSE Cardinality(ahead)
  BY <1>2, FS_RemoveElement
<1>8. IsFiniteSet(aheadNext) /\ Cardinality(aheadNext) <= Cardinality(ahead \ {1})
  BY <1>3, <1>7, ShiftedCount
<1>9. /\ Cardinality(behindNext) \in Nat /\ Cardinality(aheadNext) \in Nat
      /\ Cardinality(ahead) \in Nat
  BY <1>2, <1>6, <1>8, FS_CardinalityType
<1>. QED BY <1>1, <1>4, <1>5, <1>6, <1>7, <1>8, <1>9

\* The queue holds commands and heartbeats only, while the child is served.
LEMMA LengthCounted ==
    ASSUME requests \in Seq(Requests), \A i \in DOMAIN requests : requests[i] # "shutdown"
    PROVE  Len(requests) = Cardinality(RS!Commands) + Cardinality(Beats)
<1>1. /\ IsFiniteSet(Beats) /\ IsFiniteSet(RS!Commands)
      /\ Cardinality(Beats) \in Nat /\ Cardinality(RS!Commands) \in Nat
  BY Counts
<1>2. RS!Commands \cup Beats = 1..Len(requests) /\ RS!Commands \cap Beats = {}
      /\ Len(requests) \in Nat
  BY DEF RS!Commands, Beats, Requests
<1>3. Cardinality(RS!Commands \cap Beats) = 0
  BY <1>2, FS_EmptySet
<1>4. Cardinality(RS!Commands \cup Beats) = Cardinality(RS!Commands) + Cardinality(Beats) - 0
  BY <1>1, <1>3, FS_Union
<1>5. \A n \in Nat : Cardinality(1..n) = n
  BY FS_Interval
<1>6. Cardinality(RS!Commands \cup Beats) = Len(requests)
  BY <1>2, <1>5
<1>. QED BY <1>1, <1>4, <1>6

LEMMA SpacingType ==
    /\ RS!Spacing = BeatTimeout + Interval /\ RS!Spacing \in Nat /\ RS!Spacing > 0
    /\ Interval \in Nat /\ BeatTimeout \in Nat /\ MaxHandler \in Nat /\ MaxPending \in Nat
BY ServerAssumption DEF RS!Spacing

\* Fewer handlers ahead, fewer heartbeats behind and less time keep the budget.
LEMMA Within ==
    ASSUME NEW a \in Nat, NEW b \in Nat, NEW c \in Nat, NEW d \in Nat, c <= a, d <= b,
           NEW x \in Nat, NEW y \in Nat, y <= x,
           x + MaxHandler * a + RS!Spacing * b <= MaxHandler * MaxPending
    PROVE  y + MaxHandler * c + RS!Spacing * d <= MaxHandler * MaxPending
<1>. USE SpacingType
<1>1. MaxHandler * c \in Nat /\ MaxHandler * a \in Nat /\ MaxHandler * c <= MaxHandler * a
  BY TimesMonotone
<1>2. RS!Spacing * d \in Nat /\ RS!Spacing * b \in Nat /\ RS!Spacing * d <= RS!Spacing * b
  BY TimesMonotone
<1>3. MaxHandler * MaxPending \in Nat
  BY TimesMonotone
<1>. QED BY <1>1, <1>2, <1>3

LEMMA ElapsedType ==
    ASSUME Served
    PROVE  /\ Elapsed \in Nat /\ Remaining \in Nat
           /\ beat.at = "waits" => beat.left \in 0..Interval + 1
           /\ beat.at = "asked" => beat.left \in 0..BeatTimeout
           /\ beat.at \in {"waits", "asked"}
<1>1. /\ beat.at = "waits" => beat.left \in 0..Interval + 1
      /\ beat.at = "asked" => beat.left \in 0..BeatTimeout
      /\ beat.at \in {"waits", "asked"}
  BY ServedTypes
<1>2. Remaining \in Nat
  BY ServedTypes, SpacingType
<1>3. Elapsed \in Nat
  BY <1>1, SpacingType DEF Elapsed
<1>. QED BY <1>1, <1>2, <1>3

\* Each heartbeat in the queue was there, with as much ahead of it and behind it at least.
BeatsKept ==
    \A j \in Beats' : \E i \in Beats : /\ Ahead(j)' \in Nat /\ Ahead(j)' <= Ahead(i)
                                       /\ Behind(j)' \in Nat /\ Behind(j)' <= Behind(i)

LEMMA BudgetKept ==
    ASSUME Served, Budget, BeatsKept,
           Remaining' + Elapsed' \in Nat, Remaining' + Elapsed' <= Remaining + Elapsed
    PROVE  Budget'
<1>. SUFFICES ASSUME NEW j \in Beats'
              PROVE  Remaining' + Elapsed' + MaxHandler * Ahead(j)' + RS!Spacing * Behind(j)'
                        <= MaxHandler * MaxPending
  BY DEF Budget, RS!Spacing
<1>1. PICK i \in Beats : /\ Ahead(j)' \in Nat /\ Ahead(j)' <= Ahead(i)
                         /\ Behind(j)' \in Nat /\ Behind(j)' <= Behind(i)
  BY DEF BeatsKept
<1>2. Ahead(i) \in Nat /\ Behind(i) \in Nat /\ Remaining + Elapsed \in Nat
  BY Counts, ServedTypes, ElapsedType
<1>3. Remaining + Elapsed + MaxHandler * Ahead(i) + RS!Spacing * Behind(i)
         <= MaxHandler * MaxPending
  BY DEF Budget
<1>. QED BY <1>1, <1>2, <1>3, Within

LEMMA SameQueue ==
    ASSUME Served, requests' = requests
    PROVE  BeatsKept
<1>1. Beats' = Beats /\ RS!Commands' = RS!Commands
  BY DEF Beats, RS!Commands
<1>2. \A j : Ahead(j)' = Ahead(j) /\ Behind(j)' = Behind(j)
  BY <1>1 DEF Ahead, Behind
<1>3. \A j : /\ Ahead(j)' \in Nat /\ Ahead(j)' <= Ahead(j)
             /\ Behind(j)' \in Nat /\ Behind(j)' <= Behind(j)
  BY <1>2, Counts, ServedTypes
<1>. QED BY <1>1, <1>3 DEF BeatsKept

LEMMA ShorterQueue ==
    ASSUME Served, requests # <<>>, requests' = Tail(requests)
    PROVE  BeatsKept
<1>1. ASSUME NEW j \in Beats'
      PROVE  /\ j + 1 \in Beats /\ Ahead(j)' \in Nat /\ Ahead(j)' <= Ahead(j + 1)
             /\ Behind(j)' \in Nat /\ Behind(j)' <= Behind(j + 1)
  <2>1. /\ j + 1 \in Beats
        /\ Behind(j)' \in Nat /\ Behind(j)' <= Behind(j + 1)
        /\ Ahead(j)' \in Nat
        /\ Ahead(j)' + (IF requests[1] = "command" THEN 1 ELSE 0) <= Ahead(j + 1)
    BY CountsTail, ServedTypes
  <2>2. Ahead(j + 1) \in Nat
    BY Counts, ServedTypes
  <2>. QED BY <2>1, <2>2
<1>. QED BY <1>1 DEF BeatsKept

LEMMA BudgetSendBeat == ASSUME Served, Budget, RS!SendBeat PROVE Budget'
<1>. USE DEF RS!SendBeat
<1>0. /\ requests \in Seq(Requests) /\ Cardinality(RS!Commands) \in Nat /\ Busy \in 0..1
      /\ Cardinality(RS!Commands) + Busy <= MaxPending /\ Remaining \in 0..MaxHandler
  BY ServedTypes
<1>1. Elapsed = RS!Spacing /\ Elapsed' = 0 /\ Remaining' = Remaining
  <2>1. beat'.at = "asked" /\ beat'.left = BeatTimeout
    OBVIOUS
  <2>. QED BY <2>1, SpacingType DEF Elapsed, Remaining
<1>2. ASSUME NEW j \in Beats
      PROVE  Remaining' + Elapsed' + MaxHandler * Ahead(j)' + RS!Spacing * Behind(j)'
                <= MaxHandler * MaxPending
  <2>1. Ahead(j)' = Ahead(j) /\ Behind(j)' = Behind(j) + 1
    BY <1>0, CountsAppended DEF Requests
  <2>2. Ahead(j) \in Nat /\ Behind(j) \in Nat
    BY <1>0, Counts
  <2>3. RS!Spacing * (Behind(j) + 1) = RS!Spacing * Behind(j) + RS!Spacing
    BY <2>2, SpacingType, TimesNext
  <2>4. Remaining + Elapsed + MaxHandler * Ahead(j) + RS!Spacing * Behind(j)
           <= MaxHandler * MaxPending
    BY DEF Budget
  <2>5. /\ MaxHandler * Ahead(j) \in Nat /\ RS!Spacing * Behind(j) \in Nat
        /\ MaxHandler * MaxPending \in Nat /\ Remaining \in Nat
    BY <1>0, <2>2, SpacingType, TimesMonotone
  <2>. QED BY <1>1, <2>1, <2>3, <2>4, <2>5, SpacingType
<1>3. ASSUME NEW n \in Nat, n = Len(requests) + 1
      PROVE  Remaining' + Elapsed' + MaxHandler * Ahead(n)' + RS!Spacing * Behind(n)'
                <= MaxHandler * MaxPending
  <2>1. Ahead(n)' <= Cardinality(RS!Commands) /\ Ahead(n)' \in Nat /\ Behind(n)' = 0
    BY <1>0, <1>3, CountsAppended DEF Requests
  <2>2. Remaining <= MaxHandler * Busy
    BY <1>0, SpacingType DEF Remaining, Busy
  <2>3. /\ MaxHandler * (Ahead(n)' + Busy) <= MaxHandler * MaxPending
        /\ MaxHandler * (Ahead(n)' + Busy) = MaxHandler * Ahead(n)' + MaxHandler * Busy
        /\ MaxHandler * Ahead(n)' \in Nat /\ MaxHandler * Busy \in Nat
        /\ MaxHandler * MaxPending \in Nat
    <3>1. Ahead(n)' + Busy \in Nat /\ Ahead(n)' + Busy <= MaxPending /\ Busy \in Nat
      BY <1>0, <2>1, SpacingType
    <3>2. MaxHandler * (Ahead(n)' + Busy) <= MaxHandler * MaxPending
      BY <3>1, SpacingType, TimesMonotone
    <3>. QED BY <2>1, <3>1, <3>2, SpacingType
  <2>4. RS!Spacing * Behind(n)' = 0
    BY <2>1, SpacingType
  <2>. QED BY <1>0, <1>1, <2>2, <2>3, <2>4, SpacingType
<1>4. Beats' = Beats \cup {Len(requests) + 1} /\ Len(requests) + 1 \in Nat
  BY <1>0, CountsAppended DEF Requests
<1>5. \A j \in Beats' : Remaining' + Elapsed' + MaxHandler * Ahead(j)' + RS!Spacing * Behind(j)'
                           <= MaxHandler * MaxPending
  BY <1>2, <1>3, <1>4
<1>. QED BY <1>5 DEF Budget, RS!Spacing

LEMMA BudgetServe == ASSUME Served, Budget, RS!Serve PROVE Budget'
<1>. USE DEF RS!Serve
<1>0. requests \in Seq(Requests) /\ 1 \in DOMAIN requests /\ Head(requests) = requests[1]
  BY ServedTypes, Shifted
<1>1. requests[1] = "command"
  <2>1. requests[1] \in Requests /\ requests[1] # "shutdown" /\ requests[1] # "heartbeat"
    BY <1>0 DEF Served, ServedInv
  <2>. QED BY <2>1 DEF Requests
<1>2. Remaining = 0 /\ Remaining' \in 0..MaxHandler /\ Elapsed' = Elapsed
  <2>1. serving' \in [what : {"command"}, left : 0..MaxHandler]
    BY <1>0, <1>1
  <2>. QED BY <2>1, SpacingType DEF Remaining, Elapsed, RS!Spacing
<1>. SUFFICES ASSUME NEW j \in Beats'
              PROVE  Remaining' + Elapsed' + MaxHandler * Ahead(j)' + RS!Spacing * Behind(j)'
                        <= MaxHandler * MaxPending
  BY DEF Budget, RS!Spacing
<1>3. /\ j + 1 \in Beats
      /\ Behind(j)' \in Nat /\ Behind(j)' <= Behind(j + 1)
      /\ Ahead(j)' \in Nat /\ Ahead(j)' + 1 <= Ahead(j + 1)
  BY <1>0, <1>1, CountsTail
<1>4. Remaining + Elapsed + MaxHandler * Ahead(j + 1) + RS!Spacing * Behind(j + 1)
         <= MaxHandler * MaxPending
  BY <1>3 DEF Budget
<1>5. Ahead(j + 1) \in Nat /\ Behind(j + 1) \in Nat /\ Elapsed \in Nat
  BY <1>0, Counts, ElapsedType
<1>6. Elapsed + MaxHandler * (Ahead(j)' + 1) + RS!Spacing * Behind(j)' <= MaxHandler * MaxPending
  <2>1. Elapsed + MaxHandler * Ahead(j + 1) + RS!Spacing * Behind(j + 1)
           <= MaxHandler * MaxPending
    BY <1>2, <1>4, <1>5
  <2>2. Ahead(j)' + 1 \in Nat
    BY <1>3
  <2>. QED BY <1>3, <1>5, <2>1, <2>2, Within
<1>7. MaxHandler * (Ahead(j)' + 1) = MaxHandler * Ahead(j)' + MaxHandler
  BY <1>3, SpacingType, TimesNext
<1>8. /\ MaxHandler * Ahead(j)' \in Nat /\ RS!Spacing * Behind(j)' \in Nat
      /\ MaxHandler * MaxPending \in Nat
  BY <1>3, SpacingType, TimesMonotone
<1>. QED BY <1>2, <1>5, <1>6, <1>7, <1>8, SpacingType

LEMMA BudgetStep ==
    ASSUME Served, Budget, RS!Next, beat' # RS!Off
    PROVE  Budget'
<1>0. /\ Elapsed \in Nat /\ Remaining \in Nat
      /\ beat.at = "waits" => beat.left \in 0..Interval + 1
      /\ beat.at = "asked" => beat.left \in 0..BeatTimeout
  BY ElapsedType
<1>1. CASE RS!SendBeat
  BY <1>1, BudgetSendBeat
<1>2. CASE RS!Serve
  BY <1>2, BudgetServe
<1>3. CASE RS!BeatTimesOut
  <2>1. beat' \in RS!Waits /\ requests' = requests /\ Remaining' = Remaining
        /\ beat.at = "asked" /\ beat.left = 0
    BY <1>3 DEF RS!BeatTimesOut, Remaining
  <2>2. beat'.at = "waits" /\ beat'.left \in {Interval, Interval + 1}
    BY <2>1, SpacingType DEF RS!Waits
  <2>3. Elapsed = BeatTimeout /\ Elapsed' = BeatTimeout
    BY <2>1, <2>2, SpacingType DEF Elapsed
  <2>. QED BY <1>0, <2>1, <2>3, SameQueue, BudgetKept
<1>4. CASE RS!Command
  <2>1. requests' = Append(requests, "command") /\ Remaining' = Remaining /\ Elapsed' = Elapsed
    BY <1>4 DEF RS!Command, Remaining, Elapsed, RS!Spacing
  <2>2. /\ Beats' = Beats
        /\ \A j \in Beats : Ahead(j)' = Ahead(j) /\ Behind(j)' = Behind(j) + 0
    BY <2>1, CountsAppended, ServedTypes DEF Requests
  <2>3. \A j \in Beats : Ahead(j) \in Nat /\ Behind(j) \in Nat
    BY Counts, ServedTypes
  <2>4. \A j \in Beats' : /\ j \in Beats /\ Ahead(j)' \in Nat /\ Ahead(j)' <= Ahead(j)
                          /\ Behind(j)' \in Nat /\ Behind(j)' <= Behind(j)
    BY <2>2, <2>3
  <2>5. BeatsKept
    BY <2>4 DEF BeatsKept
  <2>. QED BY <1>0, <2>1, <2>5, BudgetKept
<1>5. CASE RS!Heartbeat
  <2>1. /\ requests # <<>> /\ requests' = Tail(requests) /\ Remaining' = Remaining
        /\ IF RS!Awaited THEN beat' \in RS!Waits ELSE UNCHANGED beat
    BY <1>5 DEF RS!Heartbeat, Remaining
  <2>2. CASE RS!Awaited
    <3>1. \A j \in Beats' : j + 1 \in 2..Len(requests) /\ requests[j + 1] = "heartbeat"
      <4>1. requests \in Seq(Requests)
        BY ServedTypes
      <4>2. \A j \in Beats' : j \in 1..Len(requests) - 1 /\ requests[j + 1] = "heartbeat"
        BY <2>1, <4>1, Shifted DEF Beats
      <4>. QED BY <4>1, <4>2
    <3>2. Beats' = {}
      BY <2>2, <3>1 DEF RS!Awaited
    <3>. QED BY <3>2 DEF Budget
  <2>3. CASE ~RS!Awaited
    <3>1. Elapsed' = Elapsed
      BY <2>1, <2>3 DEF Elapsed, RS!Spacing
    <3>. QED BY <1>0, <2>1, <3>1, ShorterQueue, BudgetKept
  <2>. QED BY <2>2, <2>3
<1>6. CASE RS!Reply
  <2>1. Remaining = 0 /\ Remaining' = 0 /\ Elapsed' = Elapsed /\ requests' = requests
    BY <1>6 DEF RS!Reply, Remaining, Elapsed, RS!Spacing
  <2>. QED BY <1>0, <2>1, SameQueue, BudgetKept
<1>7. CASE RS!Check
  <2>1. Remaining' = Remaining /\ Elapsed' = Elapsed /\ requests' = requests
    BY <1>7 DEF RS!Check, Remaining, Elapsed, RS!Spacing
  <2>. QED BY <1>0, <2>1, SameQueue, BudgetKept
<1>8. CASE RS!Tick
  <2>1. requests' = requests
    BY <1>8 DEF RS!Tick
  <2>2. CASE serving = RS!Idle
    <3>1. Beats' = {}
      BY <1>8, <2>2 DEF RS!Tick, Beats
    <3>. QED BY <3>1 DEF Budget
  <2>3. CASE serving # RS!Idle
    <3>1. /\ serving \in [what : {"command"}, left : 0..MaxHandler]
          /\ serving' = [serving EXCEPT !.left = @ - 1] /\ serving.left > 0
      BY <1>8, <2>3, ServedTypes DEF RS!Tick, RS!Down
    <3>2. Remaining' = Remaining - 1 /\ Remaining > 0
      <4>1. serving'.what = "command" /\ serving'.left = serving.left - 1
        BY <3>1
      <4>2. serving' # RS!Idle
        BY <4>1 DEF RS!Idle
      <4>. QED BY <2>3, <3>1, <4>1, <4>2 DEF Remaining
    <3>3. beat' = [beat EXCEPT !.left = @ - 1] /\ beat.left > 0
      <4>1. beat.at \in {"waits", "asked"} /\ beat # RS!Off
        BY ElapsedType DEF Served
      <4>. QED BY <1>8, <4>1 DEF RS!Tick, RS!Down
    <3>4. beat'.at = beat.at /\ beat'.left = beat.left - 1
      <4>1. beat \in [at : {"waits"}, left : 0..Interval + 1]
                     \cup [at : {"asked"}, left : 0..BeatTimeout]
        BY ServedTypes
      <4>. QED BY <3>3, <4>1
    <3>5. Elapsed' \in Nat /\ Elapsed' <= Elapsed + 1
      <4>1. beat.at \in {"waits", "asked"}
        BY ElapsedType
      <4>2. RS!Spacing' = RS!Spacing
        BY DEF RS!Spacing
      <4>3. CASE beat.at = "asked"
        BY <1>0, <3>3, <3>4, <4>3, SpacingType DEF Elapsed
      <4>4. CASE beat.at = "waits"
        BY <1>0, <3>3, <3>4, <4>2, <4>4, SpacingType DEF Elapsed
      <4>. QED BY <4>1, <4>3, <4>4
    <3>6. Remaining' + Elapsed' \in Nat /\ Remaining' + Elapsed' <= Remaining + Elapsed
      <4>1. Remaining \in Nat /\ Elapsed \in Nat
        BY ElapsedType
      <4>2. \A r, e, d \in Nat, c \in Int : c = r - 1 /\ r > 0 /\ d <= e + 1 =>
               c + d \in Nat /\ c + d <= r + e
        OBVIOUS
      <4>3. Remaining' \in Int
        BY <3>2, <4>1
      <4>. QED BY <3>2, <3>5, <4>1, <4>2, <4>3
    <3>. QED BY <2>1, <3>6, SameQueue, BudgetKept
  <2>. QED BY <2>2, <2>3
<1>9. CASE RS!Stop \/ RS!LauncherDies
  BY <1>9 DEF RS!Stop, RS!LauncherDies
<1>. QED BY <1>1, <1>2, <1>3, <1>4, <1>5, <1>6, <1>7, <1>8, <1>9 DEF RS!Next, RS!Due

\* The requests that wait while the launcher is there: commands, a heartbeat, and those that were
\* given up meanwhile.
LEMMA BudgetBounds ==
    ASSUME Served, Budget
    PROVE  Len(requests) * RS!Spacing <= (MaxPending + 1) * RS!Spacing + MaxHandler * MaxPending
<1>0. /\ requests \in Seq(Requests) /\ Cardinality(RS!Commands) \in Nat
      /\ Cardinality(RS!Commands) + Busy <= MaxPending /\ Busy \in 0..1
  BY ServedTypes
<1>. DEFINE h == Cardinality(Beats)
            work == MaxHandler * MaxPending
<1>1. /\ h \in Nat /\ IsFiniteSet(Beats) /\ Len(requests) \in Nat
      /\ Len(requests) = Cardinality(RS!Commands) + h
  BY <1>0, Counts, LengthCounted DEF Served, ServedInv
<1>2. work \in Nat
  BY SpacingType, TimesMonotone
<1>3. CASE Beats = {}
  <2>1. Len(requests) <= MaxPending + 1
    <3>1. h = 0
      BY <1>3, FS_EmptySet
    <3>. QED BY <1>0, <1>1, <3>1, SpacingType
  <2>2. Len(requests) * RS!Spacing <= (MaxPending + 1) * RS!Spacing
        /\ Len(requests) * RS!Spacing \in Nat /\ (MaxPending + 1) * RS!Spacing \in Nat
    BY <1>1, <2>1, SpacingType
  <2>. QED BY <1>2, <2>2
<1>4. CASE Beats # {}
  <2>1. Beats \subseteq Nat
    BY <1>0 DEF Beats
  <2>2. PICK k \in Beats : \A i \in Beats : k <= i
    BY <1>4, <2>1, LeastNumber
  <2>3. {i \in Beats : i > k} = Beats \ {k}
    <3>1. \A i \in Beats : i > k <=> i # k
      BY <2>1, <2>2
    <3>. QED BY <3>1
  <2>4. Behind(k) = h - 1
    BY <1>1, <2>2, <2>3, FS_RemoveElement DEF Behind
  <2>5. Remaining + Elapsed + MaxHandler * Ahead(k) + RS!Spacing * Behind(k) <= work
    BY <2>2 DEF Budget
  <2>6. Ahead(k) \in Nat /\ Behind(k) \in Nat /\ Remaining \in Nat /\ Elapsed \in Nat
    BY <1>0, Counts, ElapsedType
  <2>. HIDE DEF h, work
  <2>7. RS!Spacing * Behind(k) <= work
    <3>1. MaxHandler * Ahead(k) \in Nat /\ RS!Spacing * Behind(k) \in Nat
      BY <2>6, SpacingType, TimesMonotone
    <3>. QED BY <1>2, <2>5, <2>6, <3>1
  <2>8. Len(requests) <= MaxPending + 1 + Behind(k)
    BY <1>0, <1>1, <2>4, SpacingType
  <2>9. /\ Len(requests) * RS!Spacing <= (MaxPending + 1 + Behind(k)) * RS!Spacing
        /\ Len(requests) * RS!Spacing \in Nat
        /\ (MaxPending + 1 + Behind(k)) * RS!Spacing
             = (MaxPending + 1) * RS!Spacing + RS!Spacing * Behind(k)
        /\ (MaxPending + 1) * RS!Spacing \in Nat /\ RS!Spacing * Behind(k) \in Nat
    BY <1>1, <2>6, <2>8, SpacingType
  <2>10. Len(requests) * RS!Spacing <= (MaxPending + 1) * RS!Spacing + work
    BY <1>2, <2>7, <2>9
  <2>. QED BY <2>10 DEF work
<1>. QED BY <1>3, <1>4

Room(n) == Len(requests) * RS!Spacing <= n * RS!Spacing + MaxHandler * MaxPending

\* The queue is bounded; without heartbeats it gets no longer.
RoomInv ==
    /\ RSInv
    /\ child = "runs" /\ beat # RS!Off => Budget
    /\ Room(MaxPending + 2)

LEMMA RoomStart == ASSUME RS!Init PROVE RoomInv
<1>1. requests = <<>> /\ child = "runs"
  BY DEF RS!Init
<1>2. Beats = {}
  BY <1>1 DEF Beats
<1>3. Budget
  BY <1>2 DEF Budget
<1>4. Room(MaxPending + 2)
  <2>1. Len(requests) = 0
    BY <1>1
  <2>2. 0 * RS!Spacing = 0 /\ (MaxPending + 2) * RS!Spacing \in Nat
        /\ MaxHandler * MaxPending \in Nat
    BY SpacingType
  <2>. QED BY <2>1, <2>2 DEF Room
<1>. QED BY <1>1, <1>3, <1>4, RSStart DEF RoomInv

\* The launcher that goes leaves room for its last request.
LEMMA RoomForOne ==
    ASSUME NEW k \in Nat, NEW l \in Nat, l <= k + 1,
           k * RS!Spacing <= (MaxPending + 1) * RS!Spacing + MaxHandler * MaxPending
    PROVE  l * RS!Spacing <= (MaxPending + 2) * RS!Spacing + MaxHandler * MaxPending
<1>. USE SpacingType
<1>1. l * RS!Spacing <= (k + 1) * RS!Spacing
  OBVIOUS
<1>2. (k + 1) * RS!Spacing = k * RS!Spacing + RS!Spacing
  OBVIOUS
<1>3. (MaxPending + 2) * RS!Spacing = (MaxPending + 1) * RS!Spacing + RS!Spacing
  OBVIOUS
<1>4. /\ l * RS!Spacing \in Nat /\ k * RS!Spacing \in Nat
      /\ (MaxPending + 1) * RS!Spacing \in Nat /\ MaxHandler * MaxPending \in Nat
  OBVIOUS
<1>. HIDE SpacingType
<1>5. RS!Spacing \in Nat
  BY SpacingType
<1>. QED BY <1>1, <1>2, <1>3, <1>4, <1>5

LEMMA RoomStep == ASSUME RoomInv, RS!Next PROVE RoomInv'
<1>0. RSInv /\ RSTypes /\ RSInv' /\ RSTypes' /\ RS!Spacing' = RS!Spacing
  BY RSStep, RSTypesStep DEF RoomInv, RSInv, RS!Spacing
<1>1. Len(requests) \in Nat /\ Len(requests') \in Nat
  BY <1>0 DEF RSTypes
<1>2. CASE beat # RS!Off
  <2>1. Served /\ Budget
    BY <1>0, <1>2, OffStays DEF RoomInv, RSInv, Served
  <2>2. Len(requests') <= Len(requests) + 1
    <3>1. \/ requests' = requests
          \/ requests # <<>> /\ requests' = Tail(requests)
          \/ \E r \in Requests : requests' = Append(requests, r)
      BY DEF RS!Next, RS!Due, RS!SendBeat, RS!BeatTimesOut, RS!Heartbeat, RS!Serve, RS!Reply,
             RS!Check, RS!Tick, RS!Command, RS!Stop, RS!LauncherDies, Requests
    <3>. QED BY <1>0, <3>1 DEF RSTypes, Requests
  <2>3. Len(requests) * RS!Spacing <= (MaxPending + 1) * RS!Spacing + MaxHandler * MaxPending
    BY <2>1, BudgetBounds
  <2>4. Room(MaxPending + 2)'
    BY <1>0, <1>1, <2>2, <2>3, RoomForOne DEF Room
  <2>. QED BY <1>0, <2>1, <2>4, BudgetStep DEF RoomInv
<1>3. CASE beat = RS!Off
  <2>1. beat' = RS!Off
    BY <1>0, <1>3, OffStays
  <2>2. Len(requests') <= Len(requests)
    <3>1. requests' = requests \/ (requests # <<>> /\ requests' = Tail(requests))
      BY <1>3 DEF RS!Next, RS!Due, RS!SendBeat, RS!BeatTimesOut, RS!Heartbeat, RS!Serve,
            RS!Reply, RS!Check, RS!Tick, RS!Command, RS!Stop, RS!LauncherDies, RS!Off
    <3>. QED BY <1>0, <3>1 DEF RSTypes
  <2>3. Len(requests') * RS!Spacing <= Len(requests) * RS!Spacing
        /\ Len(requests) * RS!Spacing \in Nat /\ Len(requests') * RS!Spacing \in Nat
    BY <1>1, <2>2, SpacingType
  <2>4. (MaxPending + 2) * RS!Spacing + MaxHandler * MaxPending \in Nat
    BY SpacingType
  <2>5. Len(requests) * RS!Spacing <= (MaxPending + 2) * RS!Spacing + MaxHandler * MaxPending
    BY DEF RoomInv, Room
  <2>6. Room(MaxPending + 2)'
    BY <1>0, <2>3, <2>4, <2>5 DEF Room
  <2>. QED BY <1>0, <2>1, <2>6 DEF RoomInv
<1>. QED BY <1>2, <1>3

-----------------------------------------------------------------------------

(* The composition that the runs check keeps every step of its four parts: *)
(* what is proved of Dealer, SyncDealer, PubSub and RequestServer holds of *)
(* it.                                                                     *)
THEOREM FourParts == MCSpec => Spec /\ Sync!Spec /\ PS!Spec /\ RS!Spec
<1>. USE DEF vars, syncVars, Sync!vars, Sync!caller, Sync!handover, Sync!life,
            pubSubVars, PS!vars, PS!publisher, PS!account, serverVars, RS!vars
<1>1. MCInit => Init /\ Sync!Init /\ PS!Init /\ RS!Init
  BY DEF MCInit
<1>2. [MCNext]_<<part, vars, syncVars, pubSubVars, serverVars>> =>
          /\ [Next]_vars /\ [Sync!Next]_(Sync!vars)
          /\ [PS!Next]_(PS!vars) /\ [RS!Next]_(RS!vars)
  BY DEF MCNext
<1>. QED BY <1>1, <1>2, PTL DEF MCSpec, Spec, Sync!Spec, PS!Spec, RS!Spec

(* Every variable of the four has its type.  In particular a publisher     *)
(* numbers no more than MaxMessages messages and the queue of a child is   *)
(* bounded: while its handlers keep the launcher waiting, no more          *)
(* heartbeats are sent than fit in the time they take.                     *)
THEOREM AllTyped == MCSpec => []TypesOK
<1>1. RS!Spec => []RS!TypeOK
  <2>1. RoomInv /\ [RS!Next]_(RS!vars) => RoomInv'
    <3>1. RoomInv /\ UNCHANGED RS!vars => RoomInv'
      <4>1. UNCHANGED RS!vars /\ Budget => Budget'
        BY DEF Budget, Beats, Ahead, Behind, Elapsed, Remaining, RS!Commands, RS!Spacing, RS!vars
      <4>2. UNCHANGED RS!vars /\ Room(MaxPending + 2) => Room(MaxPending + 2)'
        BY DEF Room, RS!Spacing, RS!vars
      <4>3. UNCHANGED RS!vars => beat' = beat /\ child' = child
        BY DEF RS!vars
      <4>. QED BY <4>1, <4>2, <4>3, RSStill DEF RoomInv
    <3>. QED BY <3>1, RoomStep
  <2>2. RoomInv => RS!TypeOK
    <3>1. RSInv => since \in 0..RS!LongAgo /\ busy \in 0..RS!LongAgo /\ count \in 0..MaxMissed
      BY LongAgoType DEF RSInv, RSTypes, CountInv
    <3>. QED BY <3>1, ServerAssumption DEF RoomInv, Room, RSInv, RSTypes, RS!TypeOK
  <2>. QED BY <2>1, <2>2, RoomStart, PTL DEF RS!Spec
<1>2. PS!Spec => []PS!TypeOK
  <2>1. PSInv /\ PS!TypeOK /\ [PS!Next]_(PS!vars) => PS!TypeOK'
    BY PSTypedStep DEF PSInv
  <2>. QED BY <2>1, PSStart, PSStep, PSTypedStart, PTL DEF PS!Spec
<1>3. Spec => []TypeOK
  <2>1. Inv => TypeOK
    BY DEF Inv
  <2>. QED BY <2>1, Invariance, PTL
<1>4. TypeOK /\ Sync!TypeOK /\ PS!TypeOK /\ RS!TypeOK => TypesOK
  BY DEF TypesOK
<1>. QED BY <1>1, <1>2, <1>3, <1>4, SyncTyped, FourParts, PTL
=============================================================================
