---------------------- MODULE TelemetryReceiver_proofs ----------------------
(***************************************************************************)
(* The gate is correct for any number of sessions, frames and packet types *)
(* and any stream of datagrams.  TypeOK is inductive by itself; the rest   *)
(* needs GateInv, which says what the gate's three fields mean in terms of *)
(* the packets already handed over.  At the end: how the tasks of the      *)
(* backend stop (BackendShutdown), for any number of consumers.            *)
(***************************************************************************)
EXTENDS MCTelemetryReceiver, TLAPS

\* The current run has a packet of the gate's frame and of type t.
InCurrentFrame(t) ==
    \E i \in 1..Len(delivered) : /\ Feed!InRun(delivered, i)
                                 /\ delivered[i].frame = lastFrame
                                 /\ delivered[i].type = t

\* What the gate remembers is a digest of the run of packets handed over.
GateInv ==
    /\ delivered = <<>> <=> lastSession = None
    /\ delivered # <<>> => /\ lastSession = delivered[Len(delivered)].session
                           /\ lastFrame = delivered[Len(delivered)].frame
    /\ \A i \in 1..Len(delivered) :
          Feed!InRun(delivered, i) => delivered[i].frame <= lastFrame
    /\ \A t \in Type : t \in seen <=> lastFrame # 0 /\ InCurrentFrame(t)

-----------------------------------------------------------------------------

\* Every reachable state is well typed.
LEMMA TypeInit == Init => TypeOK
BY ReceiverAssumption DEF Init, TypeOK, Packet

LEMMA TypeStep == TypeOK /\ [Next]_vars => TypeOK'
<1> SUFFICES ASSUME TypeOK, [Next]_vars PROVE TypeOK'
  OBVIOUS
<1>1. CASE Unparsable
  BY <1>1 DEF Unparsable, TypeOK, vars
<1>2. ASSUME NEW p \in Packet, Drop(p) PROVE TypeOK'
  BY <1>2 DEF Drop, DropReason, TypeOK, gateVars, OutOfOrder, Duplicate
<1>3. ASSUME NEW p \in Packet, NEW raises \in BOOLEAN, Process(p, raises) PROVE TypeOK'
  <2>1. p.session \in Session /\ p.frame \in Frame /\ p.type \in Type
    BY DEF Packet
  <2>2. /\ lastSession' \in Session \cup {None}
        /\ lastFrame' \in Frame \cup {None}
        /\ (lastSession' = None) <=> (lastFrame' = None)
        /\ seen' \subseteq Type
    <3>1. CASE ~Enabled
      BY <1>3, <3>1 DEF Process, Note, gateVars, TypeOK
    <3>2. CASE Enabled
      <4>1. lastSession' = p.session /\ lastFrame' = p.frame
        BY <1>3, <3>2 DEF Process, Note
      <4>2. seen' \in {{}, seen \cup {p.type}, {p.type}}
        BY <1>3, <3>2 DEF Process, Note
      <4>. QED BY <2>1, <4>1, <4>2, ReceiverAssumption DEF TypeOK
    <3>. QED BY <3>1, <3>2
  <2>3. lastDrop' = None /\ delivered' = Append(delivered, p) /\ alive' \in BOOLEAN
    BY <1>3 DEF Process
  <2>. QED BY <2>2, <2>3 DEF TypeOK
<1>4. CASE UNCHANGED vars
  BY <1>4 DEF TypeOK, vars
<1>. QED BY <1>1, <1>2, <1>3, <1>4 DEF Next, Receive

THEOREM TypeCorrect == Spec => []TypeOK
BY TypeInit, TypeStep, PTL DEF Spec

-----------------------------------------------------------------------------
(* Lemmas about runs.                                                      *)

\* Handing over one more packet keeps an entry in the current run exactly when the packet
\* neither restarts the counter nor changes the session.
LEMMA AppendRun ==
    ASSUME NEW s \in Seq(Packet), NEW p \in Packet, NEW i \in 1..Len(s)
    PROVE  Feed!InRun(Append(s, p), i) <=>
              Feed!InRun(s, i) /\ p.frame # 0 /\ p.session = s[i].session
<1> DEFINE a == Append(s, p)
<1>1. /\ Len(a) = Len(s) + 1
      /\ a[Len(s) + 1] = p
      /\ \A k \in 1..Len(s) : a[k] = s[k]
  OBVIOUS
<1>2. Len(s) \in Nat
  OBVIOUS
<1>. HIDE DEF a
<1>3. (i+1)..Len(a) = ((i+1)..Len(s)) \cup {Len(s) + 1}
  BY <1>1, <1>2
<1>4. \A j \in (i+1)..Len(s) : a[j] = s[j]
  BY <1>1, <1>2
<1>5. a[i] = s[i]
  BY <1>1
<1>6. Feed!InRun(a, i) <=>
        (\A j \in (i+1)..Len(s) : s[j].frame # 0 /\ s[j].session = s[i].session)
        /\ p.frame # 0 /\ p.session = s[i].session
  BY <1>1, <1>3, <1>4, <1>5 DEF Feed!InRun
<1>. QED BY <1>6 DEF Feed!InRun, a

\* The newest entry is always in the current run.
LEMMA LastInRun ==
    ASSUME NEW s \in Seq(Packet) PROVE Feed!InRun(s, Len(s))
BY DEF Feed!InRun

\* A run is of one session.
LEMMA RunSession ==
    ASSUME NEW s \in Seq(Packet), NEW i \in 1..Len(s), Feed!InRun(s, i)
    PROVE  s[i].session = s[Len(s)].session
<1>1. Len(s) \in Nat /\ i \in Nat
  OBVIOUS
<1>2. CASE i = Len(s)
  BY <1>2
<1>3. CASE i < Len(s)
  BY <1>1, <1>3 DEF Feed!InRun
<1>. QED BY <1>1, <1>2, <1>3

-----------------------------------------------------------------------------
(* The gate decides freshness.                                             *)

\* The gate's bookkeeping answers the question the feed asks of the whole list.
LEMMA DropReasonIsFreshness ==
    ASSUME TypeOK, GateInv, Enabled, NEW p \in Packet
    PROVE  DropReason(p) = None <=> Feed!Fresh(delivered, p)
<1>1. /\ p.session \in Session /\ p.frame \in Frame /\ p.type \in Type
      /\ delivered \in Seq(Packet)
  BY DEF Packet, TypeOK
<1>2. CASE delivered = <<>>
  <2>1. NewSession(p)
    BY <1>2 DEF GateInv, NewSession
  <2>. QED BY <1>2, <2>1 DEF DropReason, Feed!Fresh, Feed!OpensRun
<1>3. CASE delivered # <<>>
  <2>1. /\ Len(delivered) \in 1..Len(delivered)
        /\ delivered[Len(delivered)] \in Packet
    BY <1>1, <1>3
  <2>2. lastSession = delivered[Len(delivered)].session /\ lastSession # None
    BY <1>3 DEF GateInv
  <2>3. lastFrame = delivered[Len(delivered)].frame /\ lastFrame \in Nat
    BY <1>3, <2>1, ReceiverAssumption DEF GateInv, Packet
  <2>4. NewSession(p) \/ p.frame = 0 <=> Feed!OpensRun(delivered, p)
    BY <1>3, <2>2 DEF NewSession, Feed!OpensRun
  <2>5. CASE NewSession(p) \/ p.frame = 0
    BY <2>4, <2>5 DEF DropReason, Feed!Fresh
  <2>6. CASE ~NewSession(p) /\ p.frame # 0
    <3>1. p.frame \in Nat
      BY <1>1, ReceiverAssumption
    <3>2. DropReason(p) = None <=>
            p.frame >= lastFrame /\ (p.frame = lastFrame => p.type \notin seen)
      BY <2>3, <2>6, <3>1, ReceiverAssumption DEF DropReason
    <3>3. Feed!Fresh(delivered, p) <=>
            \A i \in 1..Len(delivered) :
               Feed!InRun(delivered, i) =>
                  /\ delivered[i].frame <= p.frame
                  /\ delivered[i].frame = p.frame => delivered[i].type # p.type
      BY <2>4, <2>6 DEF Feed!Fresh
    <3>4. ASSUME DropReason(p) = None PROVE Feed!Fresh(delivered, p)
      <4>1. p.frame >= lastFrame /\ (p.frame = lastFrame => p.type \notin seen)
        BY <3>2, <3>4
      <4>2. ASSUME NEW i \in 1..Len(delivered), Feed!InRun(delivered, i)
            PROVE  /\ delivered[i].frame <= p.frame
                   /\ delivered[i].frame = p.frame => delivered[i].type # p.type
        <5>0. delivered[i] \in Packet
          BY <1>1, <4>2
        <5>1. delivered[i].frame <= lastFrame /\ delivered[i].frame \in Nat
          BY <4>2, <5>0, ReceiverAssumption DEF GateInv, Packet
        <5>2. delivered[i].frame <= p.frame
          BY <2>3, <3>1, <4>1, <5>1
        <5>3. ASSUME delivered[i].frame = p.frame, delivered[i].type = p.type PROVE FALSE
          <6>1. p.frame = lastFrame
            BY <2>3, <3>1, <4>1, <5>1, <5>3
          <6>2. lastFrame # 0 /\ InCurrentFrame(p.type)
            BY <2>6, <4>2, <5>3, <6>1 DEF InCurrentFrame
          <6>. QED BY <1>1, <4>1, <6>1, <6>2 DEF GateInv
        <5>. QED BY <5>2, <5>3
      <4>. QED BY <3>3, <4>2
    <3>5. ASSUME Feed!Fresh(delivered, p) PROVE DropReason(p) = None
      <4>1. lastFrame <= p.frame
        BY <1>1, <2>1, <2>3, <3>3, <3>5, LastInRun
      <4>2. ASSUME p.frame = lastFrame, p.type \in seen PROVE FALSE
        <5>1. InCurrentFrame(p.type)
          BY <1>1, <4>2 DEF GateInv
        <5>. QED BY <3>3, <3>5, <4>2, <5>1 DEF InCurrentFrame
      <4>. QED BY <2>3, <3>1, <3>2, <4>1, <4>2
    <3>. QED BY <3>4, <3>5
  <2>. QED BY <2>5, <2>6
<1>. QED BY <1>2, <1>3
-----------------------------------------------------------------------------
(* The inductive invariant.                                                *)

LEMMA GateInit == Init => GateInv
BY ReceiverAssumption DEF Init, GateInv, InCurrentFrame

\* Handing over a packet the gate accepts keeps the digest exact.
LEMMA GateProcess ==
    ASSUME TypeOK, GateInv, Enabled, NEW p \in Packet, NEW raises \in BOOLEAN,
           Process(p, raises)
    PROVE  GateInv'
<1> DEFINE n == Len(delivered)
<1>1. /\ p.session \in Session /\ p.frame \in Frame /\ p.type \in Type
      /\ p.frame \in Nat /\ p.session # None
      /\ delivered \in Seq(Packet)
  BY ReceiverAssumption DEF Packet, TypeOK
<1>2. /\ n \in Nat
      /\ delivered' = Append(delivered, p)
      /\ Len(delivered') = n + 1
      /\ delivered'[n+1] = p
      /\ \A i \in 1..n : delivered'[i] = delivered[i]
      /\ delivered' \in Seq(Packet)
  BY <1>1 DEF Process
<1>3. lastSession' = p.session /\ lastFrame' = p.frame
  BY DEF Process, Note
<1>4. Feed!InRun(delivered', n+1)
  BY <1>2, LastInRun
<1>5. \A i \in 1..n : Feed!InRun(delivered', i) <=>
         Feed!InRun(delivered, i) /\ p.frame # 0 /\ p.session = delivered[i].session
  BY <1>1, <1>2, AppendRun
<1>6. 1..Len(delivered') = 1..n \cup {n+1}
  BY <1>2
<1>7. ASSUME NEW i \in 1..n PROVE delivered[i] \in Packet /\ delivered[i].frame \in Nat
  <2>1. delivered[i] \in Packet
    BY <1>1
  <2>. QED BY <2>1, ReceiverAssumption DEF Packet
<1>8. Feed!Fresh(delivered, p)
  BY DropReasonIsFreshness DEF Process
\* An older entry that stays in the run is not ahead of the new packet.
<1>9. ASSUME NEW i \in 1..n, Feed!InRun(delivered', i)
      PROVE  /\ Feed!InRun(delivered, i)
             /\ ~NewSession(p) /\ p.frame # 0
             /\ delivered[i].frame <= p.frame
             /\ delivered[i].frame = p.frame => delivered[i].type # p.type
  <2>1. Feed!InRun(delivered, i) /\ p.frame # 0 /\ p.session = delivered[i].session
    BY <1>5, <1>9
  <2>2. delivered # <<>> /\ delivered[i].session = delivered[n].session
    BY <1>1, <1>2, <1>9, <2>1, RunSession
  <2>3. ~Feed!OpensRun(delivered, p)
    BY <2>1, <2>2 DEF Feed!OpensRun
  <2>4. ~NewSession(p)
    BY <1>1, <2>1, <2>2 DEF GateInv, NewSession
  <2>. QED BY <1>8, <1>9, <2>1, <2>3, <2>4 DEF Feed!Fresh
<1>a. delivered' = <<>> <=> lastSession' = None
  BY <1>1, <1>2, <1>3
<1>b. delivered' # <<>> => /\ lastSession' = delivered'[Len(delivered')].session
                          /\ lastFrame' = delivered'[Len(delivered')].frame
  BY <1>2, <1>3
<1>c. \A i \in 1..Len(delivered') :
         Feed!InRun(delivered', i) => delivered'[i].frame <= lastFrame'
  <2>1. ASSUME NEW i \in 1..n, Feed!InRun(delivered', i)
        PROVE  delivered'[i].frame <= lastFrame'
    BY <1>2, <1>3, <1>9, <2>1
  <2>2. delivered'[n+1].frame <= lastFrame'
    BY <1>1, <1>2, <1>3
  <2>. QED BY <1>6, <2>1, <2>2
<1>d. ASSUME NEW t \in Type
      PROVE  t \in seen' <=> lastFrame' # 0 /\ InCurrentFrame(t)'
  <2>1. CASE p.frame = 0
    BY <1>3, <2>1 DEF Process, Note
  <2>2. CASE p.frame # 0 /\ ~NewSession(p) /\ p.frame = lastFrame
    <3>1. seen' = seen \cup {p.type}
      BY <2>2 DEF Process, Note
    <3>2. ASSUME t \in seen PROVE InCurrentFrame(t)'
      <4>1. PICK i \in 1..n : /\ Feed!InRun(delivered, i)
                              /\ delivered[i].frame = lastFrame
                              /\ delivered[i].type = t
        BY <3>2 DEF GateInv, InCurrentFrame
      <4>2. delivered # <<>> /\ delivered[i].session = delivered[n].session
        BY <1>1, <1>2, <4>1, RunSession
      <4>3. p.session = delivered[i].session
        BY <1>1, <2>2, <4>2 DEF GateInv, NewSession
      <4>4. Feed!InRun(delivered', i)
        BY <1>5, <2>2, <4>1, <4>3
      <4>. QED BY <1>2, <1>3, <1>6, <2>2, <4>1, <4>4 DEF InCurrentFrame
    <3>3. InCurrentFrame(p.type)'
      BY <1>2, <1>3, <1>4, <1>6 DEF InCurrentFrame
    <3>4. ASSUME InCurrentFrame(t)' PROVE t \in seen'
      <4>1. PICK i \in 1..Len(delivered') : /\ Feed!InRun(delivered', i)
                                           /\ delivered'[i].frame = lastFrame'
                                           /\ delivered'[i].type = t
        BY <3>4 DEF InCurrentFrame
      <4>2. CASE i = n+1
        BY <1>2, <3>1, <4>1, <4>2
      <4>3. CASE i \in 1..n
        <5>1. Feed!InRun(delivered, i) /\ delivered[i].frame = lastFrame
              /\ delivered[i].type = t
          BY <1>2, <1>3, <1>9, <2>2, <4>1, <4>3
        <5>2. InCurrentFrame(t) /\ lastFrame # 0
          BY <2>2, <4>3, <5>1 DEF InCurrentFrame
        <5>. QED BY <3>1, <5>2 DEF GateInv
      <4>. QED BY <1>6, <4>2, <4>3
    <3>. QED BY <1>3, <2>2, <3>1, <3>2, <3>3, <3>4
  <2>3. CASE p.frame # 0 /\ ~(~NewSession(p) /\ p.frame = lastFrame)
    <3>1. seen' = {p.type}
      BY <2>3 DEF Process, Note
    <3>2. InCurrentFrame(p.type)'
      BY <1>2, <1>3, <1>4, <1>6 DEF InCurrentFrame
    <3>3. ASSUME NEW i \in 1..n, Feed!InRun(delivered', i), delivered'[i].frame = lastFrame'
          PROVE  FALSE
      <4>1. /\ Feed!InRun(delivered, i) /\ ~NewSession(p)
            /\ delivered[i].frame = p.frame
        BY <1>2, <1>3, <1>9, <3>3
      <4>2. delivered # <<>> /\ delivered[n] \in Packet /\ delivered[n].frame \in Nat
        BY <1>1, <1>2, <1>7, <3>3
      <4>3. lastFrame = delivered[n].frame /\ delivered[i].frame <= lastFrame
        BY <3>3, <4>1, <4>2 DEF GateInv
      <4>4. Feed!InRun(delivered, n) /\ n \in 1..n
        BY <1>1, <1>2, <4>2, LastInRun
      <4>5. ~Feed!OpensRun(delivered, p)
        <5>1. p.session = delivered[n].session
          BY <1>1, <4>1, <4>2 DEF GateInv, NewSession
        <5>. QED BY <2>3, <4>2, <5>1 DEF Feed!OpensRun
      <4>6. delivered[n].frame <= p.frame
        BY <1>8, <4>4, <4>5 DEF Feed!Fresh
      <4>7. p.frame = lastFrame
        BY <1>1, <4>1, <4>2, <4>3, <4>6
      <4>. QED BY <2>3, <4>1, <4>7
    <3>4. ASSUME InCurrentFrame(t)' PROVE t = p.type
      <4>1. PICK i \in 1..Len(delivered') : /\ Feed!InRun(delivered', i)
                                           /\ delivered'[i].frame = lastFrame'
                                           /\ delivered'[i].type = t
        BY <3>4 DEF InCurrentFrame
      <4>2. i = n+1
        BY <1>6, <3>3, <4>1
      <4>. QED BY <1>2, <4>1, <4>2
    <3>. QED BY <1>3, <2>3, <3>1, <3>2, <3>4
  <2>. QED BY <2>1, <2>2, <2>3
<1>. QED BY <1>a, <1>b, <1>c, <1>d DEF GateInv
LEMMA GateStep == TypeOK /\ Enabled /\ GateInv /\ [Next]_vars => GateInv'
<1> SUFFICES ASSUME TypeOK, Enabled, GateInv, [Next]_vars PROVE GateInv'
  OBVIOUS
<1>1. CASE UNCHANGED <<gateVars, delivered>>
  BY <1>1 DEF GateInv, InCurrentFrame, Feed!InRun, gateVars
<1>2. ASSUME NEW p \in Packet, NEW raises \in BOOLEAN, Process(p, raises) PROVE GateInv'
  BY <1>2, GateProcess
<1>3. ASSUME NEW p \in Packet, Drop(p) PROVE UNCHANGED <<gateVars, delivered>>
  BY <1>3 DEF Drop
<1>4. Unparsable \/ UNCHANGED vars => UNCHANGED <<gateVars, delivered>>
  BY DEF Unparsable, vars, gateVars
<1>. QED BY <1>1, <1>2, <1>3, <1>4 DEF Next, Receive

LEMMA GateInvariant == Enabled => (Spec => [](TypeOK /\ GateInv))
<1> SUFFICES ASSUME Enabled PROVE Spec => [](TypeOK /\ GateInv)
  OBVIOUS
<1>1. Init => TypeOK /\ GateInv
  BY TypeInit, GateInit
<1>2. (TypeOK /\ GateInv) /\ [Next]_vars => (TypeOK /\ GateInv)'
  BY TypeStep, GateStep
<1>. QED BY <1>1, <1>2, PTL DEF Spec

-----------------------------------------------------------------------------
(* The theorems.                                                           *)

\* In every reachable state the gate accepts exactly the packets that are fresh with respect
\* to everything handed over before.
THEOREM GateCorrect == Spec => []GateDecidesFreshness
<1>1. CASE ~Enabled
  <2>1. GateDecidesFreshness
    BY <1>1 DEF GateDecidesFreshness
  <2>. QED BY <2>1, PTL
<1>2. CASE Enabled
  <2>1. TypeOK /\ GateInv => GateDecidesFreshness
    BY <1>2, DropReasonIsFreshness DEF GateDecidesFreshness
  <2>2. Spec => [](TypeOK /\ GateInv)
    BY <1>2, GateInvariant
  <2>. QED BY <2>1, <2>2, PTL
<1>. QED BY <1>1, <1>2

\* A fresh packet keeps the list ordered.
LEMMA OrderedProcess ==
    ASSUME TypeOK, GateInv, Enabled, Ordered, NEW p \in Packet, NEW raises \in BOOLEAN,
           Process(p, raises)
    PROVE  Ordered'
<1> DEFINE n == Len(delivered)
           Linked(s, i, j) == \A k \in (i+1)..j : /\ s[k].frame # 0
                                                 /\ s[k].session = s[i].session
           InOrder(s, i, j) == /\ s[i].frame <= s[j].frame
                               /\ s[i].frame = s[j].frame => s[i].type # s[j].type
<1>1. /\ n \in Nat
      /\ delivered \in Seq(Packet)
      /\ delivered' = Append(delivered, p)
      /\ Len(delivered') = n + 1
      /\ delivered'[n+1] = p
      /\ \A i \in 1..n : delivered'[i] = delivered[i]
      /\ delivered' \in Seq(Packet)
  BY DEF Process, TypeOK
<1>2. ASSUME NEW i \in 1..n, NEW j \in 1..n, i < j, Linked(delivered', i, j)
      PROVE  InOrder(delivered', i, j)
  <2>1. \A k \in (i+1)..j : k \in 1..n
    BY <1>1
  <2>2. Linked(delivered, i, j)
    BY <1>1, <1>2, <2>1
  <2>3. InOrder(delivered, i, j)
    BY <1>2, <2>2 DEF Ordered
  <2>. QED BY <1>1, <2>3
<1>3. ASSUME NEW i \in 1..n, Linked(delivered', i, n+1)
      PROVE  InOrder(delivered', i, n+1)
  <2>1. Feed!InRun(delivered', i)
    BY <1>1, <1>3 DEF Feed!InRun
  <2>2. Feed!InRun(delivered, i) /\ p.frame # 0 /\ p.session = delivered[i].session
    BY <1>1, <2>1, AppendRun
  <2>3. delivered # <<>> /\ delivered[i].session = delivered[n].session
    BY <1>1, <2>2, RunSession
  <2>4. ~Feed!OpensRun(delivered, p)
    BY <2>2, <2>3 DEF Feed!OpensRun
  <2>5. Feed!Fresh(delivered, p)
    BY DropReasonIsFreshness DEF Process
  <2>. QED BY <1>1, <2>2, <2>4, <2>5 DEF Feed!Fresh
<1>4. ASSUME NEW i \in 1..Len(delivered'), NEW j \in 1..Len(delivered'), i < j,
             Linked(delivered', i, j)
      PROVE  InOrder(delivered', i, j)
  <2>1. i \in 1..n /\ (j \in 1..n \/ j = n+1)
    BY <1>1, <1>4
  <2>. QED BY <1>2, <1>3, <1>4, <2>1
<1>. QED BY <1>4 DEF Ordered

\* The handlers of the backend see, within a session and until its frame counter restarts,
\* frames that never go back and no packet type twice in a frame.
THEOREM DeliveryOrdered == Spec => []Ordered
<1>1. CASE ~Enabled
  <2>1. Ordered
    BY <1>1 DEF Ordered
  <2>. QED BY <2>1, PTL
<1>2. CASE Enabled
  <2>1. Init => Ordered
    BY DEF Init, Ordered
  <2>2. (TypeOK /\ GateInv) /\ Ordered /\ [Next]_vars => Ordered'
    <3> SUFFICES ASSUME TypeOK, GateInv, Ordered, [Next]_vars PROVE Ordered'
      OBVIOUS
    <3>1. CASE UNCHANGED delivered
      BY <3>1 DEF Ordered
    <3>2. ASSUME NEW p \in Packet, Receive(p) PROVE Ordered'
      BY <1>2, <3>1, <3>2, OrderedProcess DEF Receive, Drop
    <3>. QED BY <3>1, <3>2 DEF Next, Unparsable, vars
  <2>3. Spec => [](TypeOK /\ GateInv)
    BY <1>2, GateInvariant
  <2>. QED BY <2>1, <2>2, <2>3, PTL DEF Spec
<1>. QED BY <1>1, <1>2

\* With ordering switched on, the receive loop implements the abstract feed: each step hands
\* over a fresh packet or changes nothing the feed speaks of.
THEOREM Refinement == Enabled => (Spec => ImplementsOrderedFeed)
<1> SUFFICES ASSUME Enabled PROVE Spec => ImplementsOrderedFeed
  OBVIOUS
<1>1. Init => Feed!FeedInit
  BY DEF Init, Feed!FeedInit
<1>2. TypeOK /\ GateInv /\ [Next]_vars => [Feed!FeedNext]_Feed!feedVars
  <2> SUFFICES ASSUME TypeOK, GateInv, [Next]_vars PROVE [Feed!FeedNext]_Feed!feedVars
    OBVIOUS
  <2>1. ASSUME NEW p \in Packet, NEW raises \in BOOLEAN, Process(p, raises)
        PROVE  Feed!FeedNext
    <3>1. Feed!Fresh(delivered, p)
      BY <2>1, DropReasonIsFreshness DEF Process
    <3>2. Feed!Deliver(p)
      BY <2>1, <3>1 DEF Process, Feed!Deliver
    <3>. QED BY <3>2 DEF Feed!FeedNext, Feed!Packet, Packet
  <2>2. ASSUME NEW p \in Packet, Drop(p) PROVE UNCHANGED Feed!feedVars
    BY <2>2 DEF Drop, Feed!feedVars
  <2>3. Unparsable \/ UNCHANGED vars => UNCHANGED Feed!feedVars
    BY DEF Unparsable, vars, Feed!feedVars
  <2>. QED BY <2>1, <2>2, <2>3 DEF Next, Receive
<1>3. Spec => [](TypeOK /\ GateInv)
  BY GateInvariant
<1>. QED BY <1>1, <1>2, <1>3, PTL DEF Spec, ImplementsOrderedFeed, Feed!FeedSpec

-----------------------------------------------------------------------------
(* BackendShutdown.  Why the save is not cut: until run() is cancelled or  *)
(* a task fails, only the stopper cancels tasks, the receiver before the   *)
(* save and the publisher after it.  That the publisher was cancelled, so  *)
(* that gather can be through, thus tells that the save is over and that   *)
(* no other will start.                                                    *)

Excused == interrupted \/ \E t \in Backend!Child : state[t] = "failed"

\* The task ends the next time it runs, or has ended.
Ending(t) == t \in pending \/ Backend!Done(t)

\* No save is about and none can start.
SaveOver == state["save"] \in {"none", "ended"} /\ Ending("receiver")

OrderOfCancelling ==
    /\ "save" \notin pending /\ state["save"] # "cancelled"
    /\ main = "gather" =>
          /\ pending \subseteq {"receiver", "publisher"}
          /\ \A t \in Backend!Child : state[t] = "cancelled" => t = "publisher"
    /\ Ending("publisher") \/ main # "gather" \/ stopper = "dealer" => SaveOver
    /\ stopper \in {"save", "dealer"} => Ending("receiver")

BackendInv == Backend!TypeOK /\ (Excused \/ OrderOfCancelling)

-----------------------------------------------------------------------------

LEMMA BackendInit == Backend!Init => BackendInv
BY ConsumerAssumption DEF Backend!Init, BackendInv, Backend!TypeOK, OrderOfCancelling, Excused,
   Ending, SaveOver, Backend!Child, Backend!Task, Backend!Done, Backend!Over


LEMMA TaskNames ==
    /\ Consumer \subseteq Backend!Child /\ Backend!Child \subseteq Backend!Task
    /\ {"receiver", "publisher", "control", "others", "stopper"} \subseteq Backend!Child
    /\ {"receiver", "publisher", "control", "others", "stopper"} \cap Consumer = {}
    /\ "save" \in Backend!Task /\ "save" \notin Backend!Child
BY ConsumerAssumption DEF Backend!Child, Backend!Task

StateOfTask == Backend!Over \cup {"none", "running", "receiving", "working"}

\* The part of the type invariant that says whose cancellation is still to be delivered.
Deliverable == state \in [Backend!Task -> StateOfTask]
               /\ pending \subseteq {t \in Backend!Task : ~Backend!Done(t)}

LEMMA TypedParts ==
    Backend!TypeOK <=>
        /\ Deliverable
        /\ main \in {"gather", "cleanup", "exited"}
        /\ stopper \in {"waiting", "web", "save", "dealer"}
        /\ sentinel \subseteq Consumer
        /\ {event, asked, interrupted} \subseteq BOOLEAN
BY DEF Backend!TypeOK, Deliverable, StateOfTask

\* A task that no cancellation waits for does something, or one that one waited for got it.
LEMMA TaskMoves ==
    ASSUME Deliverable, NEW t \in Backend!Task, NEW s \in StateOfTask,
           Backend!Becomes(t, s), pending' \subseteq pending, t \notin pending'
    PROVE  Deliverable'
<1>1. state' = [state EXCEPT ![t] = s]
  BY DEF Backend!Becomes
<1>2. state' \in [Backend!Task -> StateOfTask]
  BY <1>1 DEF Deliverable
<1>3. \A u \in pending' : u \in Backend!Task /\ ~Backend!Done(u) /\ state'[u] = state[u]
  BY <1>1 DEF Deliverable
<1>. QED BY <1>2, <1>3 DEF Deliverable, Backend!Done

\* cancel() reaches only tasks that go on, and nothing else changes.
LEMMA CancelReachesLive ==
    ASSUME Deliverable, UNCHANGED state, NEW tasks \in SUBSET Backend!Task,
           Backend!Cancelling(tasks)
    PROVE  Deliverable'
<1>. DEFINE reached == tasks \cup IF "stopper" \in tasks /\ stopper = "save" THEN {"save"} ELSE {}
<1>1. pending' = pending \cup {t \in reached : ~Backend!Done(t)} /\ reached \subseteq Backend!Task
  BY TaskNames DEF Backend!Cancelling
<1>2. \A t : Backend!Done(t)' <=> Backend!Done(t)
  BY DEF Backend!Done
<1>. QED BY <1>1, <1>2 DEF Deliverable

LEMMA DeliverableStep ==
    ASSUME Backend!TypeOK, Backend!Next
    PROVE  Deliverable'
<1>0. Deliverable
  BY TypedParts
<1>. USE DEF StateOfTask, Backend!Over
<1>1. ASSUME NEW c \in Consumer, Backend!Get(c) \/ Backend!Worked(c) \/ Backend!Unblocked(c)
      PROVE  Deliverable'
  <2>1. \E s \in StateOfTask : Backend!Becomes(c, s)
    BY <1>1 DEF Backend!Get, Backend!Worked, Backend!Unblocked, Backend!Looped
  <2>2. pending' = pending /\ c \notin pending
    BY <1>1 DEF Backend!Get, Backend!Worked, Backend!Unblocked, Backend!Runs
  <2>. QED BY <1>0, <2>1, <2>2, TaskNames, TaskMoves
<1>2. ASSUME NEW t \in Backend!Task, Backend!Fail(t) PROVE Deliverable'
  <2>1. Backend!Becomes(t, "failed") /\ pending' = pending /\ t \notin pending
    BY <1>2 DEF Backend!Fail, Backend!Runs
  <2>. QED BY <1>0, <2>1, TaskMoves
<1>3. ASSUME NEW t \in Backend!Task, Backend!Deliver(t) PROVE Deliverable'
  <2>1. PICK s \in Backend!Outcomes(t) : Backend!Becomes(t, s)
    BY <1>3 DEF Backend!Deliver
  <2>2. s \in StateOfTask
    BY DEF Backend!Outcomes, Backend!Looped
  <2>3. pending' = pending \ {t}
    BY <1>3 DEF Backend!Deliver
  <2>. QED BY <1>0, <2>1, <2>2, <2>3, TaskMoves
<1>4. ASSUME NEW t \in Backend!Task, NEW s \in StateOfTask, Backend!Becomes(t, s),
             pending' = pending, t \notin pending
      PROVE  Deliverable'
  BY <1>0, <1>4, TaskMoves
<1>5. CASE Backend!OthersEnd \/ Backend!SaveStarts \/ Backend!SaveEnds \/ Backend!Finish
  BY <1>0, <1>4, <1>5, TaskNames
     DEF Backend!OthersEnd, Backend!SaveStarts, Backend!SaveEnds, Backend!Finish,
         Backend!StopperRuns, Backend!Runs, Deliverable, Backend!Done
<1>6. CASE Backend!SaveCut
  BY <1>4, <1>6, TaskNames DEF Backend!SaveCut, Backend!StopperRuns, Backend!Runs
<1>7. CASE Backend!Ask \/ Backend!Begin \/ Backend!Exit
  BY <1>0, <1>7 DEF Backend!Ask, Backend!Begin, Backend!Exit, Deliverable, Backend!Done
<1>8. ASSUME NEW tasks \in SUBSET Backend!Task, UNCHANGED state, Backend!Cancelling(tasks)
      PROVE  Deliverable'
  BY <1>0, <1>8, CancelReachesLive
<1>9. CASE Backend!Interrupt \/ Backend!StopHandler \/ Backend!CleanUp
  BY <1>8, <1>9, TaskNames DEF Backend!Interrupt, Backend!StopHandler, Backend!CleanUp
<1>10. CASE Backend!AwaitSave
  <2>1. PICK ended \in {{}, {"save"}} :
            /\ state' = [t \in Backend!Task |-> IF t \in ended THEN "ended" ELSE state[t]]
            /\ ended \cap pending = {}
    BY <1>0, <1>10 DEF Backend!AwaitSave, Backend!Becomes, Backend!Runs, Deliverable
  <2>2. pending' = pending \cup {t \in {"publisher"} : ~Backend!Done(t)}
    BY <1>10 DEF Backend!AwaitSave, Backend!Cancelling
  <2>3. \A t \in pending' : t \in Backend!Task /\ ~Backend!Done(t) /\ state'[t] = state[t]
    BY <1>0, <2>1, <2>2, TaskNames DEF Deliverable
  <2>4. state' \in [Backend!Task -> StateOfTask]
    BY <1>0, <2>1 DEF Deliverable
  <2>. QED BY <2>3, <2>4 DEF Deliverable, Backend!Done
<1>. QED
  BY <1>1, <1>2, <1>3, <1>5, <1>6, <1>7, <1>9, <1>10 DEF Backend!Next

LEMMA BackendTypeStep ==
    ASSUME Backend!TypeOK, Backend!Next
    PROVE  Backend!TypeOK'
<1>1. Deliverable'
  BY DeliverableStep
<1>2. /\ main' \in {"gather", "cleanup", "exited"}
      /\ stopper' \in {"waiting", "web", "save", "dealer"}
      /\ sentinel' \subseteq Consumer
      /\ {event', asked', interrupted'} \subseteq BOOLEAN
  BY DEF Backend!TypeOK, Backend!Next, Backend!Get, Backend!Worked, Backend!Unblocked,
         Backend!OthersEnd, Backend!SaveStarts, Backend!SaveEnds, Backend!Ask, Backend!Fail,
         Backend!Interrupt, Backend!Begin, Backend!StopHandler, Backend!AwaitSave,
         Backend!SaveCut, Backend!Finish, Backend!Deliver, Backend!CleanUp, Backend!Exit
<1>. QED BY <1>1, <1>2 DEF Backend!TypeOK, Deliverable, StateOfTask

\* Ctrl-C is not forgotten, and a task that failed does nothing any more.
LEMMA ExcusedStays ==
    ASSUME Backend!TypeOK, Backend!Next, Excused
    PROVE  Excused'
<1>1. CASE interrupted
  BY <1>1 DEF Excused, Backend!Next, Backend!Get, Backend!Worked, Backend!Unblocked,
         Backend!OthersEnd, Backend!SaveStarts, Backend!SaveEnds, Backend!Ask, Backend!Fail,
         Backend!Interrupt, Backend!Begin, Backend!StopHandler, Backend!AwaitSave,
         Backend!SaveCut, Backend!Finish, Backend!Deliver, Backend!CleanUp, Backend!Exit
<1>2. ASSUME NEW t \in Backend!Child, state[t] = "failed" PROVE state'[t] = "failed"
  <2>1. ASSUME NEW u, NEW s, Backend!Becomes(u, s), u # t PROVE state'[t] = "failed"
    BY <1>2, <2>1, TaskNames DEF Backend!Becomes, Backend!TypeOK
  <2>2. t \notin pending
    BY <1>2 DEF Backend!TypeOK, Backend!Done, Backend!Over
  <2>3. ASSUME NEW c \in Consumer, Backend!Get(c) \/ Backend!Worked(c) \/ Backend!Unblocked(c)
        PROVE  state'[t] = "failed"
    BY <1>2, <2>1, <2>3 DEF Backend!Get, Backend!Worked, Backend!Unblocked
  <2>4. ASSUME NEW u \in Backend!Task, Backend!Fail(u) \/ Backend!Deliver(u)
        PROVE  state'[t] = "failed"
    BY <1>2, <2>1, <2>2, <2>4 DEF Backend!Fail, Backend!Deliver
  <2>5. CASE Backend!OthersEnd \/ Backend!SaveStarts \/ Backend!SaveEnds \/ Backend!Finish
             \/ Backend!SaveCut
    BY <1>2, <2>1, <2>5, TaskNames
       DEF Backend!OthersEnd, Backend!SaveStarts, Backend!SaveEnds, Backend!Finish,
           Backend!SaveCut, Backend!StopperRuns
  <2>6. CASE Backend!Ask \/ Backend!Interrupt \/ Backend!Begin \/ Backend!StopHandler
             \/ Backend!CleanUp \/ Backend!Exit
    BY <1>2, <2>6 DEF Backend!Ask, Backend!Interrupt, Backend!Begin, Backend!StopHandler,
                      Backend!CleanUp, Backend!Exit
  <2>7. CASE Backend!AwaitSave
    BY <1>2, <2>1, <2>7, TaskNames DEF Backend!AwaitSave
  <2>. QED BY <2>3, <2>4, <2>5, <2>6, <2>7 DEF Backend!Next
<1>. QED BY <1>1, <1>2 DEF Excused

\* While nobody is excused, each step keeps the order in which tasks are cancelled.
LEMMA OrderStep ==
    ASSUME Backend!TypeOK, OrderOfCancelling, Backend!Next
    PROVE  Excused' \/ OrderOfCancelling'
<1>. USE TaskNames DEF OrderOfCancelling, SaveOver, Ending, Backend!Done, Backend!Over
<1>1. ASSUME NEW t, NEW s, Backend!Becomes(t, s)
      PROVE  /\ t \in Backend!Task => state'[t] = s
             /\ \A u \in Backend!Task \ {t} : state'[u] = state[u]
  BY <1>1 DEF Backend!Becomes, Backend!TypeOK
\* A child that no cancellation waits for takes a step of its own, other than to fail.
<1>2. ASSUME NEW t \in Backend!Child, NEW s \in {"working", "receiving", "ended"},
             Backend!Becomes(t, s), UNCHANGED <<main, stopper, pending>>,
             t = "receiver" \/ t = "publisher" => s = "ended" /\ t = "receiver"
      PROVE  OrderOfCancelling'
  <2>1. state'["save"] = state["save"] /\ state'["publisher"] = state["publisher"]
        /\ state'["receiver"] \in {state["receiver"], "ended"}
    BY <1>1, <1>2
  <2>2. \A u \in Backend!Child : state'[u] = "cancelled" => state[u] = "cancelled"
    BY <1>1, <1>2
  <2>. QED BY <1>2, <2>1, <2>2
<1>3. ASSUME NEW c \in Consumer, Backend!Get(c) \/ Backend!Worked(c) \/ Backend!Unblocked(c)
      PROVE  OrderOfCancelling'
  BY <1>2, <1>3 DEF Backend!Get, Backend!Worked, Backend!Unblocked, Backend!Looped
<1>4. ASSUME NEW t \in Backend!Task, Backend!Fail(t) PROVE Excused'
  BY <1>1, <1>4 DEF Backend!Fail, Excused
<1>5. ASSUME NEW t \in Backend!Task, Backend!Deliver(t) PROVE OrderOfCancelling'
  <2>1. PICK s \in Backend!Outcomes(t) : Backend!Becomes(t, s)
    BY <1>5 DEF Backend!Deliver
  <2>2. t # "save" /\ pending' = pending \ {t} /\ UNCHANGED <<main, stopper>>
    BY <1>5 DEF Backend!Deliver
  <2>3. CASE t \in {"receiver", "publisher"}
    <3>1. s \in {"ended", "cancelled"} /\ (t = "receiver" => s = "ended")
      BY <2>3 DEF Backend!Outcomes
    <3>2. state'["save"] = state["save"]
      BY <1>1, <2>1, <2>2
    <3>3. \A u \in Backend!Child : state'[u] = "cancelled" => state[u] = "cancelled" \/ u = t
      BY <1>1, <2>1
    <3>4. ASSUME NEW u \in {"receiver", "publisher"}
          PROVE  Ending(u)' <=> Ending(u)
      <4>1. CASE u = t
        <5>1. Ending(u)
          BY <1>5, <4>1 DEF Backend!Deliver
        <5>2. state'[u] = s
          BY <1>1, <2>1, <4>1
        <5>. QED BY <3>1, <5>1, <5>2
      <4>2. CASE u # t
        <5>1. state'[u] = state[u]
          BY <1>1, <2>1, <4>2
        <5>. QED BY <2>2, <4>2, <5>1
      <4>. QED BY <4>1, <4>2
    <3>5. SaveOver => SaveOver'
      BY <3>2, <3>4
    <3>6. /\ "save" \notin pending' /\ state'["save"] # "cancelled"
          /\ stopper' \in {"save", "dealer"} => Ending("receiver")'
          /\ Ending("publisher")' \/ main' # "gather" \/ stopper' = "dealer" => SaveOver'
      <4>. HIDE DEF Ending, SaveOver
      <4>. QED BY <2>2, <3>2, <3>4, <3>5
    <3>7. main' = "gather" =>
            /\ pending' \subseteq {"receiver", "publisher"}
            /\ \A u \in Backend!Child : state'[u] = "cancelled" => u = "publisher"
      <4>1. t = "receiver" => state'[t] # "cancelled"
        BY <1>1, <2>1, <3>1
      <4>. QED BY <2>2, <2>3, <3>3, <4>1
    <3>. QED BY <3>6, <3>7
  <2>4. CASE t \notin {"receiver", "publisher"}
    <3>1. main # "gather"
      BY <1>5, <2>4 DEF Backend!Deliver
    <3>2. state'["save"] = state["save"] /\ state'["receiver"] = state["receiver"]
      BY <1>1, <2>1, <2>2, <2>4
    <3>. QED BY <2>2, <2>4, <3>1, <3>2
  <2>. QED BY <2>3, <2>4
<1>6. CASE Backend!OthersEnd
  BY <1>2, <1>6 DEF Backend!OthersEnd
<1>7. CASE Backend!Finish
  BY <1>2, <1>7 DEF Backend!Finish
<1>8. CASE Backend!SaveStarts \/ Backend!SaveEnds
  <2>1. PICK s \in {"running", "none"} : Backend!Becomes("save", s)
    BY <1>8 DEF Backend!SaveStarts, Backend!SaveEnds
  <2>2. \A u \in Backend!Child : state'[u] = state[u]
    BY <1>1, <2>1
  <2>3. state'["save"] = s /\ UNCHANGED <<main, stopper, pending>>
    BY <1>1, <1>8, <2>1 DEF Backend!SaveStarts, Backend!SaveEnds
  <2>4. Ending("receiver") => s = "none"
    BY <1>1, <1>8, <2>3 DEF Backend!SaveStarts, Backend!SaveEnds, Backend!Runs
  <2>. QED BY <2>2, <2>3, <2>4
<1>9. CASE Backend!Ask \/ Backend!Exit
  BY <1>9 DEF Backend!Ask, Backend!Exit
<1>10. CASE Backend!Interrupt
  BY <1>10 DEF Backend!Interrupt, Excused
<1>11. CASE Backend!Begin
  BY <1>11 DEF Backend!Begin
<1>12. CASE Backend!StopHandler
  BY <1>12 DEF Backend!StopHandler, Backend!Cancelling
<1>13. CASE Backend!AwaitSave
  <2>1. /\ state'["save"] \in {"none", "ended"}
        /\ \A u \in Backend!Child : state'[u] = state[u]
    BY <1>1, <1>13 DEF Backend!AwaitSave
  <2>2. /\ pending' =
             pending \cup {t \in {"publisher"} : state[t] \notin Backend!Over \cup {"none"}}
        /\ stopper = "save" /\ stopper' = "dealer" /\ main' = main
    BY <1>13 DEF Backend!AwaitSave, Backend!Cancelling
  <2>. QED BY <2>1, <2>2
<1>14. CASE Backend!SaveCut
  BY <1>14 DEF Backend!SaveCut
<1>15. CASE Backend!CleanUp
  <2>1. CASE \E t \in Backend!Child : state[t] = "failed"
    BY <1>15, <2>1 DEF Backend!CleanUp, Excused
  <2>2. CASE ~\E t \in Backend!Child : state[t] = "failed"
    <3>1. SaveOver
      BY <1>15, <2>2 DEF Backend!CleanUp
    <3>2. /\ pending' =
               pending \cup {t \in Backend!Task : state[t] \notin Backend!Over \cup {"none"}}
          /\ main' = "cleanup" /\ UNCHANGED <<state, stopper>>
      BY <1>15 DEF Backend!CleanUp, Backend!Cancelling
    <3>. QED BY <3>1, <3>2
  <2>. QED BY <2>1, <2>2
<1>. QED
  BY <1>3, <1>4, <1>5, <1>6, <1>7, <1>8, <1>9, <1>10, <1>11, <1>12, <1>13, <1>14, <1>15
  DEF Backend!Next

LEMMA BackendStep == BackendInv /\ [Backend!Next]_(Backend!vars) => BackendInv'
<1>. SUFFICES ASSUME BackendInv, [Backend!Next]_(Backend!vars) PROVE BackendInv'
  OBVIOUS
<1>1. CASE Backend!Next
  <2>1. Backend!TypeOK /\ Backend!TypeOK'
    BY <1>1, BackendTypeStep DEF BackendInv
  <2>2. Excused' \/ OrderOfCancelling'
    BY <1>1, <2>1, ExcusedStays, OrderStep DEF BackendInv
  <2>. QED BY <2>1, <2>2 DEF BackendInv
<1>2. CASE UNCHANGED Backend!vars
  BY <1>2 DEF Backend!vars, BackendInv, Backend!TypeOK, Backend!Done, Excused,
              OrderOfCancelling, Ending, SaveOver
<1>. QED BY <1>1, <1>2

LEMMA BackendInvariant == Backend!Spec => []BackendInv
BY BackendInit, BackendStep, PTL DEF Backend!Spec

\* No shutdown the launcher asks for cuts a just-in-case save that is being written, with any
\* consumers and in any order in which the tasks run, fail and are cancelled.
THEOREM SavesAwaited == Backend!Spec => []SaveAwaited
<1>1. BackendInv => SaveAwaited
  BY DEF BackendInv, OrderOfCancelling, Excused, SaveAwaited, Backend!SaveAwaited
<1>. QED BY <1>1, BackendInvariant, PTL

\* A behaviour that is model-checked, in which one of the two moves, is one of each, well
\* typed: what is proved of the two holds of it.
THEOREM BothTyped == MCSpec => Spec /\ Backend!Spec /\ []TypesOK
<1>. USE DEF vars, backendVars, Backend!vars
<1>1. MCInit => Init /\ Backend!Init
  BY DEF MCInit
<1>2. [MCNext]_<<part, vars, backendVars>> => [Next]_vars /\ [Backend!Next]_(Backend!vars)
  BY DEF MCNext
<1>3. TypeOK /\ BackendInv => TypesOK
  BY DEF TypesOK, BackendInv
<1>. QED BY <1>1, <1>2, <1>3, TypeCorrect, BackendInvariant, PTL DEF MCSpec, Spec, Backend!Spec
=============================================================================
