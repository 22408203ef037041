----------------------------- MODULE MCRecords -----------------------------
(* A small instance of the six components of Records.                      *)
EXTENDS Records, TLC

CONSTANTS r1, r2, r3        (* the requests that are served once           *)

(* Requests of Payments and clients of Accounts are alike; so are events.  *)
Symmetry == Permutations(Requests) \cup Permutations(Events)

(* Requests that are served once each are alike: they begin in this order. *)
InOrder ==
    /\ add[r1].pc = "idle" => add[r2].pc = "idle"
    /\ \A r \in {<<r1, r2>>, <<r2, r3>>} :
        /\ certTx[r[1]].pc = "idle" => certTx[r[2]].pc = "idle"
        /\ answer[r[1]].pc = "idle" => answer[r[2]].pc = "idle"

(* What a hidden event says is read by nobody before it is changed again.  *)
HiddenSaysNothing ==
    \A e \in Events \ visible :
        /\ event[e].text /\ event[e].embedded /\ event[e].topic = Fragments
        /\ \A d \in Dates : event[e].date <= d
=============================================================================
