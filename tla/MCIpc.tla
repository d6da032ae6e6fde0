-------------------------------- MODULE MCIpc --------------------------------
(***************************************************************************)
(* The four ways in which the processes talk: over the broker, requests of *)
(* a dealer in an event loop or in a thread of its own, and publish and    *)
(* subscribe; from the launcher to a child, requests and heartbeats.  They *)
(* share no state, so a behaviour of this module follows one of them,      *)
(* "part", and the state spaces add up.                                    *)
(***************************************************************************)
EXTENDS Dealer, FiniteSets

CONSTANTS Thread, MaxSyncSends, Nobody,      \* of SyncDealer
          Topic, MaxMessages, MaxLives,      \* of PubSub
          Period, MaxMissed, Interval, BeatTimeout, MaxHandler, MaxPending   \* of RequestServer

\* What the theorems of SyncDealer_proofs take for granted.
ASSUME SyncAssumption == MaxSyncSends \in Nat /\ Nobody \notin Thread
\* The bounds of PubSub.
ASSUME PubSubAssumption ==
    IsFiniteSet(Topic) /\ MaxMessages \in Nat /\ MaxLives \in Nat \ {0}
\* The times of RequestServer.
ASSUME ServerAssumption ==
    /\ {BeatTimeout, MaxHandler, MaxPending} \subseteq Nat
    /\ {Period, MaxMissed, Interval} \subseteq Nat \ {0}

VARIABLES part,
          syncStep, syncReq, syncSent, lock, pipe, slot, event, syncOutcome, awaiting,
          running, syncLoop, deaf, closing, replies,
          conflating, pubLife, connected, numbered, pubWire, last, missed, batch, heard, handled,
          dropped,
          beat, requests, serving, since, busy, count, check, child

Sync == INSTANCE SyncDealer WITH
    MaxSends <- MaxSyncSends, step <- syncStep, req <- syncReq, sent <- syncSent,
    outcome <- syncOutcome, loop <- syncLoop, wire <- replies
PS == INSTANCE PubSub WITH life <- pubLife, wire <- pubWire
RS == INSTANCE RequestServer WITH queue <- requests, missed <- count

syncVars == <<syncStep, syncReq, syncSent, lock, pipe, slot, event, syncOutcome, awaiting,
              running, syncLoop, deaf, closing, replies>>
pubSubVars == <<conflating, pubLife, connected, numbered, pubWire, last, missed, batch, heard,
                handled, dropped>>
serverVars == <<beat, requests, serving, since, busy, count, check, child>>

MCInit ==
    /\ part \in {"dealer", "sync", "pubsub", "server"}
    /\ Init /\ Sync!Init /\ PS!Init /\ RS!Init
    /\ part # "pubsub" => conflating
    /\ part # "server" => beat.left = 0

MCNext ==
    /\ part' = part
    /\ \/ part = "dealer" /\ Next /\ UNCHANGED <<syncVars, pubSubVars, serverVars>>
       \/ part = "sync" /\ Sync!Next /\ UNCHANGED <<vars, pubSubVars, serverVars>>
       \/ part = "pubsub" /\ PS!Next /\ UNCHANGED <<vars, syncVars, serverVars>>
       \/ part = "server" /\ RS!Next /\ UNCHANGED <<vars, syncVars, pubSubVars>>

\* The fairness of Dealer, SyncDealer and RequestServer, for the part that is followed.
MCFairness ==
    /\ \A t \in Task : WF_vars(part = "dealer" /\ Send(t))
    /\ \A t \in Thread : WF_syncVars(part = "sync" /\ Sync!Send(t))
    /\ WF_syncVars(part = "sync" /\ Sync!Command)
    /\ WF_syncVars(part = "sync" /\ Sync!Finish)
    /\ WF_syncVars(part = "sync" /\ Sync!CloseSends)
    /\ WF_serverVars(part = "server" /\ RS!Due)

MCSpec == MCInit /\ [][MCNext]_<<part, vars, syncVars, pubSubVars, serverVars>> /\ MCFairness

\* The type invariants of the four.
TypesOK == TypeOK /\ Sync!TypeOK /\ PS!TypeOK /\ RS!TypeOK

\* Every send() of both dealers returns, while the socket takes messages (the Fairness of
\* Dealer), and the synchronous one's thread ends once closed.
NoDealerHangs == SendReturns /\ Sync!SendReturns /\ Sync!LoopEnds

\* The other properties of SyncDealer, PubSub and RequestServer, stated and explained there.
SyncImplementsRequestReply == Sync!ImplementsRequestReply
SubscriberSound == PS!GapsAreLosses /\ PS!HandledInOrder
OrphanedOrBusy == RS!OrphanedOrBusy
OrphanEnds == RS!OrphanEnds
=============================================================================
