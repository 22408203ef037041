----------------------------- MODULE SeatLedger -----------------------------
(***************************************************************************)
(* What the enrollment code promises about the seats of an event, without  *)
(* transactions, locks or rows: a seat is sold only while one is free,     *)
(* counting every seat sold and not yet released.  A seat may also be      *)
(* retaken after its release (a payment confirmed late); the ledger keeps  *)
(* those apart, because nothing bounds them by the capacity.               *)
(***************************************************************************)
EXTENDS Integers, FiniteSets

CONSTANTS Events, Users

VARIABLES
    sold,      (* the <<event, user>> pairs that hold a seat they were sold *)
    retaken,   (* the pairs that hold a seat they took back                 *)
    capacity   (* the largest capacity each event has had                   *)

ledger == <<sold, retaken, capacity>>

Seats == Events \X Users

SoldIn(e) == {i \in sold : i[1] = e}

Init ==
    /\ sold = {}
    /\ retaken = {}
    /\ capacity \in [Events -> Nat \ {0}]

(* A registration of u in e.  One that had retaken a seat holds it as sold *)
(* from then on.                                                           *)
Sell(e, u) ==
    /\ <<e, u>> \notin sold
    /\ Cardinality(SoldIn(e)) < capacity[e]
    /\ sold' = sold \cup {<<e, u>>}
    /\ retaken' = retaken \ {<<e, u>>}
    /\ UNCHANGED capacity

(* Cancellations, rejected payments, the sweep and the passing of time     *)
(* release seats.                                                          *)
Release ==
    /\ sold' \in SUBSET sold
    /\ retaken' \in SUBSET retaken
    /\ UNCHANGED capacity

Retake(e, u) ==
    /\ <<e, u>> \notin sold \cup retaken
    /\ retaken' = retaken \cup {<<e, u>>}
    /\ UNCHANGED <<sold, capacity>>

Enlarge ==
    /\ capacity' \in [Events -> Nat]
    /\ \A e \in Events : capacity'[e] >= capacity[e]
    /\ UNCHANGED <<sold, retaken>>

Next ==
    \/ \E e \in Events, u \in Users : Sell(e, u) \/ Retake(e, u)
    \/ Release
    \/ Enlarge

Spec == Init /\ [][Next]_ledger

(* The promise: no event has sold more seats than its capacity.            *)
NeverOversold == \A e \in Events : Cardinality(SoldIn(e)) <= capacity[e]
=============================================================================
