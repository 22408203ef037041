----------------------------- MODULE MCJobQueue -----------------------------
(* Small instances of JobQueue.                                            *)
EXTENDS JobQueue, TLC

CONSTANTS j1, j2, j3, w1, w2

(* Two jobs of one request, and one of a request that began later; they may*)
(* be committed in any order.                                              *)
Requested == [j \in Jobs |-> IF j = j3 THEN 2 ELSE 1]

=============================================================================
