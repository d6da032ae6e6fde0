------------------------------- MODULE PubSub -------------------------------
(***************************************************************************)
(* Publish and subscribe (lib/ipc/pubsub): IpcPublisherAsync numbers the   *)
(* messages of each topic, the broker passes them on, IpcSubscriberSync or *)
(* IpcSubscriberAsync counts the gaps and calls the handler of the topic.  *)
(* Messages are dropped without a word at a full queue, at a socket that   *)
(* died, and when broker, publisher or a subscriber's socket starts again; *)
(* those of a publisher that get through do so in order.                   *)
(***************************************************************************)
EXTENDS Naturals, Sequences, FiniteSets

CONSTANTS Topic,
          MaxMessages,   \* bound on the number of messages a publisher numbers
          MaxLives       \* bound on the number of starts of the publisher

VARIABLES
    conflating,  \* the subscriber is the synchronous one
    life,        \* which start of the publisher it is
    connected,   \* the publisher's _connected
    numbered,    \* numbered[t]: _topic_message_ids
    wire,        \* the messages under way, the next to be received first
    last,        \* last[t]: _last_message_id_by_topic; 0 is None
    missed,      \* missed[t]: the statistics entry __MISSED__
    batch,       \* batch[t]: latest_per_topic, as a set of at most one message
    heard,       \* heard[t]: the messages received
    handled,     \* handled[t]: the messages the handler was called with, in order
    dropped      \* the topics of which a receive error took a batch

publisher == <<life, connected, numbered>>
account == <<last, missed, heard>>
vars == <<conflating, publisher, wire, account, batch, handled, dropped>>

Message == [topic : Topic, life : 1..MaxLives, id : 1..MaxMessages]

Init ==
    /\ conflating \in BOOLEAN
    /\ life = 1 /\ connected = FALSE
    /\ numbered = [t \in Topic |-> 0]
    /\ wire = <<>>
    /\ last = [t \in Topic |-> 0] /\ missed = [t \in Topic |-> 0]
    /\ batch = [t \in Topic |-> {}]
    /\ heard = [t \in Topic |-> {}] /\ handled = [t \in Topic |-> <<>>]
    /\ dropped = {}

-----------------------------------------------------------------------------
(* The publisher.                                                          *)

\* _reconnect_loop; a socket connects whether or not a broker is there.
Reconnect ==
    /\ ~connected
    /\ connected' = TRUE
    /\ UNCHANGED <<conflating, life, numbered, wire, account, batch, handled, dropped>>

\* publish and publish_raw: while disconnected they return before a message gets a number.
\* _do_send loses it at the high-water mark, and loses the connection at a ZMQError.
Publish(t) ==
    /\ connected
    /\ Cardinality({m \in Message : m.life = life /\ m.id <= numbered[m.topic]}) < MaxMessages
    /\ numbered' = [numbered EXCEPT ![t] = @ + 1]
    /\ LET message == [topic |-> t, life |-> life, id |-> numbered[t] + 1] IN
       \/ wire' = Append(wire, message) /\ UNCHANGED connected
       \/ connected' \in BOOLEAN /\ UNCHANGED wire
    /\ UNCHANGED <<conflating, life, account, batch, handled, dropped>>

PublisherRestarts ==
    /\ life < MaxLives
    /\ life' = life + 1
    /\ connected' = FALSE
    /\ numbered' = [t \in Topic |-> 0]
    /\ UNCHANGED <<conflating, wire, account, batch, handled, dropped>>

-----------------------------------------------------------------------------
(* The broker, and the queues of the sockets.                              *)

Lose ==
    /\ wire # <<>>
    /\ \E i \in DOMAIN wire :
          wire' = SubSeq(wire, 1, i - 1) \o SubSeq(wire, i + 1, Len(wire))
    /\ UNCHANGED <<conflating, publisher, account, batch, handled, dropped>>

-----------------------------------------------------------------------------
(* The subscriber.                                                         *)

\* Mutant: counts the message received as missed.
MissedBeforeInclusive(t, id) == IF last[t] # 0 /\ id > last[t] + 1 THEN id - last[t] ELSE 0

\* _track_sequence: how many numbers were skipped.  A number that is not above the last one is
\* an anomaly, counted elsewhere; it becomes the last one all the same.
MissedBefore(t, id) == IF last[t] # 0 /\ id > last[t] + 1 THEN id - (last[t] + 1) ELSE 0

\* The next message, and the account both subscribers keep of it.
Take(m) ==
    /\ wire # <<>>
    /\ m = Head(wire)
    /\ wire' = Tail(wire)
    /\ missed' = [missed EXCEPT ![m.topic] = @ + MissedBefore(m.topic, m.id)]
    /\ last' = [last EXCEPT ![m.topic] = m.id]
    /\ heard' = [heard EXCEPT ![m.topic] = @ \cup {m}]
    /\ UNCHANGED <<conflating, publisher, dropped>>

\* The asynchronous loop awaits the handler.
ReceiveAsync ==
    /\ ~conflating
    /\ \E m \in Message :
          /\ Take(m)
          /\ handled' = [handled EXCEPT ![m.topic] = Append(@, m)]
    /\ UNCHANGED batch

\* Mutant: the first message of a batch stands for the batch.
ReceiveSyncKeepsFirst ==
    /\ conflating
    /\ \E m \in Message :
          /\ Take(m)
          /\ batch' = [batch EXCEPT ![m.topic] = IF @ = {} THEN {m} ELSE @]
    /\ UNCHANGED handled

\* The synchronous loop puts the message in the place of an earlier one of its batch.
ReceiveSync ==
    /\ conflating
    /\ \E m \in Message :
          /\ Take(m)
          /\ batch' = [batch EXCEPT ![m.topic] = {m}]
    /\ UNCHANGED handled

NothingReceived == [t \in Topic |-> {}]

\* Nothing more to receive: each handler gets the last message of its topic.
Dispatch ==
    /\ batch # NothingReceived
    /\ handled' = [t \in Topic |->
          IF batch[t] = {} THEN handled[t] ELSE Append(handled[t], CHOOSE m \in batch[t] : TRUE)]
    /\ batch' = NothingReceived
    /\ UNCHANGED <<conflating, publisher, wire, account, dropped>>

\* A receive error in the middle of a batch: a new socket, and the batch is forgotten.
ReceiveFails ==
    /\ batch # NothingReceived
    /\ batch' = NothingReceived
    /\ dropped' = dropped \cup {t \in Topic : batch[t] # {}}
    /\ wire' = <<>>
    /\ UNCHANGED <<conflating, publisher, account, handled>>

Next ==
    \/ Reconnect \/ PublisherRestarts
    \/ \E t \in Topic : Publish(t)
    \/ Lose
    \/ ReceiveAsync \/ ReceiveSync \/ Dispatch \/ ReceiveFails

Spec == Init /\ [][Next]_vars

-----------------------------------------------------------------------------

\* The type invariant.
TypeOK ==
    /\ conflating \in BOOLEAN /\ connected \in BOOLEAN
    /\ life \in 1..MaxLives /\ numbered \in [Topic -> 0..MaxMessages]
    /\ wire \in Seq(Message)
    /\ last \in [Topic -> 0..MaxMessages] /\ missed \in [Topic -> Nat]
    /\ batch \in [Topic -> SUBSET Message]
    /\ heard \in [Topic -> SUBSET Message]
    /\ handled \in [Topic -> Seq(Message)]
    /\ dropped \subseteq Topic

\* While a publisher lives, what a subscriber counts as missed of a topic is what was lost of
\* it: the messages numbered between the first and the last one it received, wherever in the
\* publisher, the broker or its own sockets each of them got lost.
GapsAreLosses ==
    \A t \in Topic : heard[t] # {} /\ (\A m \in heard[t] : m.life = 1) =>
        missed[t] = Cardinality(
            {id \in 1..last[t] : /\ \E m \in heard[t] : m.id < id
                                 /\ \A m \in heard[t] : m.id # id})

\* No handler is called with a message again, or with an older one after a newer one, across
\* batches, lost messages, new sockets and new publishers; and conflation drops the stale
\* messages only: whenever no batch is in hand, the handler has seen the newest message received
\* of each topic.  A receive error breaks this: it takes the batch with it, messages that are
\* counted as received and not as missed.
Newer(m, n) == m.life < n.life \/ (m.life = n.life /\ m.id < n.id)
HandledInOrder ==
    \A t \in Topic :
        /\ \A i, j \in DOMAIN handled[t] : i < j => Newer(handled[t][i], handled[t][j])
        /\ t \notin dropped /\ batch[t] = {} /\ heard[t] # {} =>
               /\ handled[t] # <<>>
               /\ \A m \in heard[t] : ~Newer(handled[t][Len(handled[t])], m)
=============================================================================
