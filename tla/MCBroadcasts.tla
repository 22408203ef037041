---------------------------- MODULE MCBroadcasts ----------------------------
(* Cancellations, an update and a message to the people of an event, whose *)
(* enrollment changes meanwhile, and the worker that delivers their mails. *)
EXTENDS Broadcasts

CONSTANTS u1, c1, c2, m1, p1, t1, w1

Idle(r) == request[r].pc = "idle"

(* The message comes without the update and the second cancellation.       *)
Few == Idle(m1) \/ (Idle(p1) /\ Idle(c2))

(* A delivery that the worker was told had failed, and what comes of it.   *)
Missed ==
    \E d \in Deliveries : deliveries[d] = "sent" /\ queue[d].status # "done"

Heard == Missed => Idle(p1) /\ Idle(c2)
=============================================================================
