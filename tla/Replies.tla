------------------------------- MODULE Replies -------------------------------
(***************************************************************************)
(* What send() of a dealer returns: the frames of a reply, or an error.    *)
(* Requests are numbered in the order in which send() was asked to make    *)
(* them; the numbers are not in the protocol, nothing there carries them.  *)
(***************************************************************************)
EXTENDS Naturals

CONSTANT MaxSends  \* bound on the number of requests ever made

Request == 1..MaxSends

Reply(m)     == [kind |-> "reply", of |-> m]
Failure(why) == [kind |-> why, of |-> 0]
Unresolved   == Failure("none")

Reason == {"error", "timeout", "cancelled", "empty"}
Result == {Reply(m) : m \in Request} \cup {Failure(why) : why \in Reason \cup {"none"}}
=============================================================================
