--------------------------- MODULE Replies_proofs ---------------------------
(***************************************************************************)
(* What the proofs about both dealers use of Replies.                      *)
(***************************************************************************)
EXTENDS Replies, TLAPS

\* What a result is, and that its forms differ.
LEMMA Results ==
    /\ \A r \in Result : \/ \E m \in Request : r = Reply(m)
                         \/ \E why \in Reason : r = Failure(why)
                         \/ r = Unresolved
    /\ \A m \in Request : Reply(m) \in Result /\ Reply(m) # Unresolved
    /\ \A why \in Reason : /\ Failure(why) \in Result /\ Failure(why) # Unresolved
                           /\ Failure(why).kind = why
    /\ \A m, k : Reply(m) = Reply(k) => m = k
    /\ \A m : \A why \in Reason : Reply(m) # Failure(why)
    /\ \A m : Reply(m).kind \notin Reason
    /\ Unresolved \in Result /\ Unresolved.kind \notin Reason
<1>1. \A m, k : Reply(m) = Reply(k) => m = k
  BY DEF Reply
<1>2. \A m : \A why \in Reason : Reply(m) # Failure(why)
  BY DEF Reply, Failure, Reason
<1>3. \A m : Reply(m) # Unresolved /\ Reply(m).kind \notin Reason
  BY DEF Reply, Failure, Reason, Unresolved
<1>4. \A why \in Reason : Failure(why) # Unresolved /\ Failure(why).kind = why
  BY DEF Failure, Reason, Unresolved
<1>5. Unresolved.kind \notin Reason
  BY DEF Failure, Reason, Unresolved
<1>6. \A r \in Result : \/ \E m \in Request : r = Reply(m)
                        \/ \E why \in Reason : r = Failure(why)
                        \/ r = Unresolved
  BY DEF Result, Unresolved
<1>7. /\ \A m \in Request : Reply(m) \in Result
      /\ \A why \in Reason : Failure(why) \in Result
      /\ Unresolved \in Result
  BY DEF Result, Unresolved
<1>. QED BY <1>1, <1>2, <1>3, <1>4, <1>5, <1>6, <1>7
=============================================================================
