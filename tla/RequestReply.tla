---------------------------- MODULE RequestReply ----------------------------
(***************************************************************************)
(* What the two dealers, IpcDealerAsync and IpcDealerClient, promise those *)
(* who call send().  A reply carries no correlation ID, so a caller may    *)
(* get the reply to an earlier request than its own; but only when some    *)
(* request up to that one failed, and no reply is returned to two callers. *)
(***************************************************************************)
EXTENDS Replies

VARIABLES sent,     \* how many requests were made
          outcome   \* outcome[n]: what the send() of request n returned

promiseVars == <<sent, outcome>>

Init == sent = 0 /\ outcome = [n \in Request |-> Unresolved]

\* Request n may be answered with the reply to request m.
MayAnswer(n, m) ==
    /\ m <= n
    /\ m # n => \E k \in 1..m : outcome[k].kind \in Reason
    /\ \A k \in Request : outcome[k] # Reply(m)

Ask ==
    /\ sent < MaxSends
    /\ sent' = sent + 1
    /\ UNCHANGED outcome

Return(n) ==
    /\ n <= sent /\ outcome[n] = Unresolved
    /\ \/ \E why \in Reason : outcome' = [outcome EXCEPT ![n] = Failure(why)]
       \/ \E m \in Request : MayAnswer(n, m) /\ outcome' = [outcome EXCEPT ![n] = Reply(m)]
    /\ UNCHANGED sent

Next == Ask \/ \E n \in Request : Return(n)

Spec == Init /\ [][Next]_promiseVars
=============================================================================
