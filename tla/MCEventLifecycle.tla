-------------------------- MODULE MCEventLifecycle --------------------------
(* Small instances of EventLifecycle: an owner and administrators.         *)
EXTENDS EventLifecycle, TLC

CONSTANTS r1, r2, r3, r4, a, b

OwnerAndAdmins == [t \in Requests |-> IF t \in {r1, r2} THEN "owner" ELSE "admin"]
=============================================================================
